------------------------------- MODULE Vector -------------------------------
(***************************************************************************)
(* The growing array of Simulator/src/vector.c.  A vector holds pointers   *)
(* to copies of its elements; the slots from length on hold what they held *)
(* before, UNSET if nothing.  The operations that no part of the program   *)
(* calls are left out.                                                     *)
(***************************************************************************)
EXTENDS Integers, Sequences

CONSTANTS
    UNSET,     \* what an array holds where nothing has been written
    BASE_CAP,
    SIZEOF_INT, SIZEOF_SIZE_T  \* of the build

ASSUME VectorAssumption ==
    /\ BASE_CAP \in Nat \ {0, 1}
    /\ SIZEOF_INT \in Nat \ {0}
    /\ SIZEOF_SIZE_T \in Nat \ {0}

(* Mutant: a vector is created for one element less. *)
SmallerVector ==
    [data |-> [x \in 0..BASE_CAP - 2 |-> UNSET], length |-> 0,
     capacity |-> BASE_CAP - 1]

create_vector ==
    [data |-> [x \in 0..BASE_CAP - 1 |-> UNSET], length |-> 0,
     capacity |-> BASE_CAP]

(* Mutant: the vector grows when it is too late. *)
OverFull(vec) == vec.length > vec.capacity

Full(vec) == vec.length >= vec.capacity

(* check_length: EXPAND_RATIO is 1.5, and the product is truncated. *)
check_length(vec) ==
    LET c == (vec.capacity * 3) \div 2
    IN  IF Full(vec)
        THEN [vec EXCEPT !.capacity = c,
                         !.data = [x \in 0..c - 1 |->
                                      IF x < vec.capacity THEN @[x] ELSE UNSET]]
        ELSE vec

(* vector_add: p is the copy of the element. *)
vector_add(vec, p) ==
    LET v == check_length(vec)
    IN  [v EXCEPT !.data[v.length] = p, !.length = @ + 1]

(* The pointer that vector_add writes lies within the data array. *)
AddInBounds(vec) ==
    LET v == check_length(vec)
    IN  v.length < v.capacity

(* The size that it writes lies within the array of the sizes, which is    *)
(* allocated in units of int and used in units of size_t.                  *)
SizeInBounds(vec) ==
    LET v == check_length(vec)
    IN  (v.length + 1) * SIZEOF_SIZE_T <= v.capacity * SIZEOF_INT

(* vector_get, for an x within the vector. *)
vector_get(vec, x) == vec.data[x]

(* Mutant: the elements behind the hole are moved from one slot too far.   *)
RemovedSwapped(vec, x) ==
    [vec EXCEPT !.length = @ - 1, !.data[x] = vec.data[vec.length - 1]]

(* vector_remove, for an x within the vector. *)
vector_remove(vec, x) ==
    [vec EXCEPT !.length = @ - 1,
                !.data = [y \in DOMAIN @ |->
                             IF y \in x..vec.length - 2 THEN @[y + 1] ELSE @[y]]]

(* The elements, as a sequence and as a set. *)
Elements(vec) == [k \in 1..vec.length |-> vec.data[k - 1]]
ElementSet(vec) == {vec.data[x] : x \in 0..vec.length - 1}
=============================================================================
