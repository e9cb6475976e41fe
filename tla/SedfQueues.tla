----------------------------- MODULE SedfQueues -----------------------------
(***************************************************************************)
(* The list operations of SEDFCode/sched_sedf.c, as operators on           *)
(* sequences.  A queue of the scheduler is a circular doubly linked list   *)
(* whose head is a field of struct sedf_cpu_info; the sequence lists the   *)
(* vCPUs from head->next to head->prev.                                    *)
(***************************************************************************)
EXTENDS Integers, Sequences, FiniteSets, SequencesExt

CONSTANT INT_MAX  \* the largest value of a C int

ASSUME IntAssumption == INT_MAX \in Nat

(* The assignment to a C int: two's complement, as the build wraps.        *)
CInt(x) == ((x + INT_MAX + 1) % (2 * (INT_MAX + 1))) - INT_MAX - 1

(* __task_on_queue / extraq_on: the node is linked into the list q. *)
OnQ(q, v) == \E i \in 1..Len(q) : q[i] = v

(* Mutant: the node is left where it is. *)
DelForgotten(q, v) == q

(* __del_from_queue / extraq_del, and their guarded uses: a node that is   *)
(* not linked is left alone by every caller.                               *)
DelFromQ(q, v) ==
    IF OnQ(q, v) THEN RemoveAt(q, CHOOSE i \in 1..Len(q) : q[i] = v) ELSE q

(* Mutant: the comparison is turned round. *)
BehindSmaller(q, v, key) == {i \in 1..Len(q) : key[v] > key[q[i]]}

(* The positions whose element must stay behind v: "comp(el, cur) < 0". *)
Behind(q, v, key) == {i \in 1..Len(q) : key[v] < key[q[i]]}

(* list_insert_sort: v goes in front of the first element with a strictly  *)
(* larger key, and to the tail when there is none, so that elements with   *)
(* equal keys stay in order of arrival.                                    *)
ListInsertSort(q, v, key) ==
    IF Behind(q, v, key) = {}
    THEN Append(q, v)
    ELSE InsertAt(q, Min(Behind(q, v, key)), v)

(* Mutant: only the elements in front of the hole are charged. *)
ChargeFront(q, sc, sub) ==
    [w \in DOMAIN sc |-> IF q # << >> /\ q[1] = w
                         THEN CInt(sc[w] - sub) ELSE sc[w]]

(* extraq_add_sort_update, the scores: every vCPU already queued is        *)
(* charged sub, those in front of the hole and those behind it alike.      *)
ChargeScores(q, sc, sub) ==
    [w \in DOMAIN sc |-> IF OnQ(q, w) THEN CInt(sc[w] - sub) ELSE sc[w]]

(* Mutant: the comparison sees the scores from before the charge. *)
InsertUncharged(q, d, sc, sub) == ListInsertSort(q, d, sc)

(* extraq_add_sort_update, the queue: d is inserted by the charged scores. *)
ExtraqAddSort(q, d, sc, sub) == ListInsertSort(q, d, ChargeScores(q, sc, sub))

(* Mutant: the traversal saves no next element. *)
NextUnsaved(q, v, head) == v

(* list_for_each_safe: the element after v, or the list head at the end.   *)
NextOf(q, v, head) ==
    LET i == CHOOSE i \in 1..Len(q) : q[i] = v
    IN  IF i < Len(q) THEN q[i + 1] ELSE head

(* The first element, or the list head when the list is empty. *)
FirstOf(q, head) == IF q = << >> THEN head ELSE q[1]

(* DIV_UP of the source, for a positive divisor. *)
DivUp(x, y) == (x + y - 1) \div y

IsSortedBy(q, key) == \A i, j \in 1..Len(q) : i < j => key[q[i]] <= key[q[j]]
NoDuplicates(q) == \A i, j \in 1..Len(q) : q[i] = q[j] => i = j
=============================================================================
