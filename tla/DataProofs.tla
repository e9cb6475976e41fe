----------------------------- MODULE DataProofs -----------------------------
(***************************************************************************)
(* What the operators on data return from which the models are built: the  *)
(* list operations of SedfQueues (a queue of the same elements, with one   *)
(* more or one less, in order), least elements, sums and products over     *)
(* finite sets, quotients, and the pointers of list.h.  Numbers and finite *)
(* sets are well-founded, so a set of numbers closed under successor is    *)
(* Nat (SetInduction), and what the community modules fold is computed by  *)
(* one recursive function over the subsets (FoldExists, FoldUnique), in    *)
(* any order where that does not matter (FoldAny).                         *)
(***************************************************************************)
EXTENDS SedfQueues, LinkedList, TLAPS, FiniteSetTheorems

(* A set of numbers that is not empty has a smallest element (the position *)
(* at which list_insert_sort stops exists): among the initial segments     *)
(* that end in the set, the strict subset order has a minimal one.         *)
LEMMA MinIsLeast ==
    ASSUME NEW S \in SUBSET Nat, S # {}
    PROVE  /\ Min(S) \in S
           /\ \A y \in S : Min(S) <= y
<1> DEFINE Segments == {1..x : x \in S}
<1>1. Segments \subseteq FiniteSubsetsOf(Nat)
  <2> SUFFICES ASSUME NEW x \in S PROVE 1..x \in FiniteSubsetsOf(Nat)
    OBVIOUS
  <2>1. IsFiniteSet(1..x)
    BY FS_Interval
  <2> QED
    BY <2>1 DEF FiniteSubsetsOf
<1>2. Segments # {}
  OBVIOUS
<1>3. PICK T \in Segments :
         \A U \in Segments : <<U, T>> \notin StrictSubsetOrdering(Nat)
  <2> HIDE DEF Segments
  <2> QED
    BY <1>1, <1>2, FS_StrictSubsetOrderingWellFounded, WFMin
<1>4. PICK x \in S : T = 1..x
  BY <1>3
<1>5. \A y \in S : x <= y
  <2> SUFFICES ASSUME NEW y \in S, y < x PROVE FALSE
    OBVIOUS
  <2>1. 1..y \subseteq 1..x /\ 1..y # 1..x /\ 1..y \in SUBSET Nat /\ 1..x \in SUBSET Nat
    <3>1. x \in 1..x /\ x \notin 1..y
      OBVIOUS
    <3> QED
      BY <3>1
  <2>2. <<1..y, 1..x>> \in StrictSubsetOrdering(Nat)
    BY <2>1 DEF StrictSubsetOrdering
  <2> QED
    BY <1>3, <1>4, <2>2
<1> QED
  BY <1>5 DEF Min

-----------------------------------------------------------------------------
(* A concatenation, element by element. *)
LEMMA ConcatElements ==
    ASSUME NEW S, NEW a \in Seq(S), NEW b \in Seq(S)
    PROVE  /\ a \o b \in Seq(S)
           /\ Len(a \o b) = Len(a) + Len(b)
           /\ \A j \in 1..(Len(a) + Len(b)) :
                 (a \o b)[j] = IF j <= Len(a) THEN a[j] ELSE b[j - Len(a)]
OBVIOUS

(* RemoveAt, element by element. *)
LEMMA RemoveAtElements ==
    ASSUME NEW S, NEW q \in Seq(S), NEW i \in 1..Len(q)
    PROVE  /\ RemoveAt(q, i) \in Seq(S)
           /\ Len(RemoveAt(q, i)) = Len(q) - 1
           /\ \A j \in 1..(Len(q) - 1) :
                 RemoveAt(q, i)[j] = IF j < i THEN q[j] ELSE q[j + 1]
<1> DEFINE a == SubSeq(q, 1, i - 1)
           b == SubSeq(q, i + 1, Len(q))
<1>1. /\ a \in Seq(S)
      /\ Len(a) = i - 1
      /\ \A j \in 1..(i - 1) : a[j] = q[j]
  OBVIOUS
<1>2. /\ b \in Seq(S)
      /\ Len(b) = Len(q) - i
      /\ \A j \in 1..(Len(q) - i) : b[j] = q[j + i]
  OBVIOUS
<1>3. RemoveAt(q, i) = a \o b
  BY DEF RemoveAt
<1> HIDE DEF a, b
<1>4. /\ a \o b \in Seq(S)
      /\ Len(a \o b) = Len(q) - 1
      /\ \A j \in 1..(Len(q) - 1) :
            (a \o b)[j] = IF j <= i - 1 THEN a[j] ELSE b[j - (i - 1)]
  <2>1. Len(a) + Len(b) = Len(q) - 1
    BY <1>1, <1>2
  <2>2. /\ a \o b \in Seq(S)
        /\ Len(a \o b) = Len(a) + Len(b)
        /\ \A j \in 1..(Len(a) + Len(b)) :
              (a \o b)[j] = IF j <= Len(a) THEN a[j] ELSE b[j - Len(a)]
    BY <1>1, <1>2, ConcatElements
  <2>3. Len(a) = i - 1
    BY <1>1
  <2> QED
    BY <2>1, <2>2, <2>3
<1>5. ASSUME NEW j \in 1..(Len(q) - 1)
      PROVE  (a \o b)[j] = IF j < i THEN q[j] ELSE q[j + 1]
  <2>1. CASE j < i
    BY <1>1, <1>4, <2>1
  <2>2. CASE ~(j < i)
    <3>1. j - (i - 1) \in 1..(Len(q) - i)
      BY <2>2
    <3>2. b[j - (i - 1)] = q[j - (i - 1) + i]
      BY <1>2, <3>1
    <3>3. j - (i - 1) + i = j + 1
      OBVIOUS
    <3> QED
      BY <1>4, <2>2, <3>2, <3>3
  <2> QED
    BY <2>1, <2>2
<1> QED
  BY <1>3, <1>4, <1>5

(* InsertAt, element by element. *)
LEMMA InsertAtElements ==
    ASSUME NEW S, NEW q \in Seq(S), NEW v \in S, NEW i \in 1..Len(q)
    PROVE  /\ InsertAt(q, i, v) \in Seq(S)
           /\ Len(InsertAt(q, i, v)) = Len(q) + 1
           /\ \A j \in 1..(Len(q) + 1) :
                 InsertAt(q, i, v)[j] =
                   IF j < i THEN q[j] ELSE IF j = i THEN v ELSE q[j - 1]
<1> DEFINE a == SubSeq(q, 1, i - 1)
           b == SubSeq(q, i, Len(q))
<1>1. /\ a \in Seq(S)
      /\ Len(a) = i - 1
      /\ \A j \in 1..(i - 1) : a[j] = q[j]
  OBVIOUS
<1>2. /\ b \in Seq(S)
      /\ Len(b) = Len(q) - i + 1
      /\ \A j \in 1..(Len(q) - i + 1) : b[j] = q[j + i - 1]
  OBVIOUS
<1>3. InsertAt(q, i, v) = (a \o <<v>>) \o b
  BY DEF InsertAt
<1> HIDE DEF a, b
<1>4. /\ a \o <<v>> \in Seq(S)
      /\ Len(a \o <<v>>) = i
      /\ \A j \in 1..i : (a \o <<v>>)[j] = IF j < i THEN q[j] ELSE v
  BY <1>1
<1> DEFINE c == a \o <<v>>
<1> HIDE DEF c
<1>5. /\ c \o b \in Seq(S)
      /\ Len(c \o b) = Len(q) + 1
      /\ \A j \in 1..(Len(q) + 1) :
            (c \o b)[j] = IF j <= i THEN c[j] ELSE b[j - i]
  <2>1. c \in Seq(S) /\ Len(c) = i
    BY <1>4 DEF c
  <2>2. Len(c) + Len(b) = Len(q) + 1
    BY <1>2, <2>1
  <2>3. /\ c \o b \in Seq(S)
        /\ Len(c \o b) = Len(c) + Len(b)
        /\ \A j \in 1..(Len(c) + Len(b)) :
              (c \o b)[j] = IF j <= Len(c) THEN c[j] ELSE b[j - Len(c)]
    BY <1>2, <2>1, ConcatElements
  <2> QED
    BY <2>1, <2>2, <2>3
<1>6. ASSUME NEW j \in 1..(Len(q) + 1)
      PROVE  (c \o b)[j] = IF j < i THEN q[j] ELSE IF j = i THEN v ELSE q[j - 1]
  <2>1. CASE j <= i
    <3>1. j \in 1..i
      BY <2>1
    <3> QED
      BY <1>4, <1>5, <2>1, <3>1 DEF c
  <2>2. CASE ~(j <= i)
    <3>1. j - i \in 1..(Len(q) - i + 1)
      BY <2>2
    <3>2. b[j - i] = q[j - i + i - 1]
      BY <1>2, <3>1
    <3>3. j - i + i - 1 = j - 1
      OBVIOUS
    <3> QED
      BY <1>5, <2>2, <3>2, <3>3
  <2> QED
    BY <2>1, <2>2
<1> QED
  BY <1>3, <1>5, <1>6 DEF c

-----------------------------------------------------------------------------
(* __del_from_queue and extraq_del take out the vCPU and nobody else.      *)
LEMMA DelFromQProperties ==
    ASSUME NEW S, NEW q \in Seq(S), NEW v
    PROVE  /\ DelFromQ(q, v) \in Seq(S)
           /\ \A w : w # v => (OnQ(DelFromQ(q, v), w) <=> OnQ(q, w))
           /\ NoDuplicates(q) => /\ NoDuplicates(DelFromQ(q, v))
                                 /\ ~OnQ(DelFromQ(q, v), v)
<1>1. CASE ~OnQ(q, v)
  BY <1>1 DEF DelFromQ
<1>2. CASE OnQ(q, v)
  <2> DEFINE i == CHOOSE k \in 1..Len(q) : q[k] = v
             d == DelFromQ(q, v)
  <2>1. i \in 1..Len(q) /\ q[i] = v
    BY <1>2 DEF OnQ
  <2>2. d = RemoveAt(q, i)
    BY <1>2 DEF DelFromQ
  <2> HIDE DEF i, d
  <2>3. /\ d \in Seq(S)
        /\ Len(d) = Len(q) - 1
        /\ \A j \in 1..(Len(q) - 1) : d[j] = IF j < i THEN q[j] ELSE q[j + 1]
    BY <2>1, <2>2, RemoveAtElements
  <2>4. ASSUME NEW w, w # v PROVE OnQ(d, w) <=> OnQ(q, w)
    <3>1. OnQ(d, w) => OnQ(q, w)
      BY <2>1, <2>3 DEF OnQ
    <3>2. ASSUME NEW j \in 1..Len(q), q[j] = w PROVE OnQ(d, w)
      <4>1. CASE j < i
        BY <2>1, <2>3, <3>2, <4>1 DEF OnQ
      <4>2. CASE j > i
        <5>1. j - 1 \in 1..Len(d) /\ d[j - 1] = w
          BY <2>1, <2>3, <3>2, <4>2
        <5> QED
          BY <5>1 DEF OnQ
      <4>3. j # i
        BY <2>1, <2>4, <3>2
      <4> QED
        BY <2>1, <4>1, <4>2, <4>3
    <3> QED
      BY <3>1, <3>2 DEF OnQ
  <2>5. ASSUME NoDuplicates(q) PROVE NoDuplicates(d) /\ ~OnQ(d, v)
    <3>1. ASSUME NEW j \in 1..Len(d), NEW k \in 1..Len(d), d[j] = d[k]
          PROVE  j = k
      <4> DEFINE up(x) == IF x < i THEN x ELSE x + 1
      <4>1. /\ up(j) \in 1..Len(q) /\ d[j] = q[up(j)]
            /\ up(k) \in 1..Len(q) /\ d[k] = q[up(k)]
        BY <2>1, <2>3
      <4>2. up(j) = up(k)
        BY <2>5, <3>1, <4>1 DEF NoDuplicates
      <4> QED
        BY <2>1, <4>2
    <3>2. ~OnQ(d, v)
      BY <2>1, <2>3, <2>5 DEF NoDuplicates, OnQ
    <3> QED
      BY <3>1, <3>2 DEF NoDuplicates
  <2> QED
    BY <2>3, <2>4, <2>5 DEF d
<1> QED
  BY <1>1, <1>2

(* A queue is sorted by every key that agrees on its elements. *)
LEMMA SortedByOther ==
    ASSUME NEW q, NEW key, NEW key2, IsSortedBy(q, key),
           \A w : OnQ(q, w) => key2[w] = key[w]
    PROVE  IsSortedBy(q, key2)
BY DEF IsSortedBy, OnQ

(* Taking a vCPU out leaves a sorted queue sorted. *)
LEMMA DelFromQSorted ==
    ASSUME NEW S, NEW q \in Seq(S), NEW v,
           NEW key, IsSortedBy(q, key)
    PROVE  IsSortedBy(DelFromQ(q, v), key)
<1>1. CASE ~OnQ(q, v)
  BY <1>1 DEF DelFromQ
<1>2. CASE OnQ(q, v)
  <2> DEFINE i == CHOOSE k \in 1..Len(q) : q[k] = v
             d == DelFromQ(q, v)
  <2>1. i \in 1..Len(q) /\ Len(q) \in Nat
    BY <1>2 DEF OnQ
  <2>2. d = RemoveAt(q, i)
    BY <1>2 DEF DelFromQ
  <2> HIDE DEF i, d
  <2>3. /\ Len(d) = Len(q) - 1
        /\ \A x \in 1..(Len(q) - 1) : d[x] = IF x < i THEN q[x] ELSE q[x + 1]
    BY <2>1, <2>2, RemoveAtElements
  <2>4. \A x \in 1..(Len(q) - 1) :
          /\ x < i => x \in 1..Len(q) /\ d[x] = q[x]
          /\ ~(x < i) => x + 1 \in 1..Len(q) /\ d[x] = q[x + 1]
    BY <2>1, <2>3
  <2>5. ASSUME NEW j \in 1..Len(d), NEW k \in 1..Len(d), j < k
        PROVE  key[d[j]] <= key[d[k]]
    <3>0. j \in 1..(Len(q) - 1) /\ k \in 1..(Len(q) - 1)
      BY <2>3
    <3>1. CASE k < i
      <4>1. j < i
        BY <2>1, <2>5, <3>0, <3>1
      <4> QED
        BY <2>4, <2>5, <3>0, <3>1, <4>1 DEF IsSortedBy
    <3>2. CASE j < i /\ ~(k < i)
      <4>1. j < k + 1
        BY <2>5, <3>0
      <4> QED
        BY <2>4, <3>0, <3>2, <4>1 DEF IsSortedBy
    <3>3. CASE ~(j < i)
      <4>1. ~(k < i) /\ j + 1 < k + 1
        BY <2>1, <2>5, <3>0, <3>3
      <4> QED
        BY <2>4, <3>0, <3>3, <4>1 DEF IsSortedBy
    <3> QED
      BY <3>1, <3>2, <3>3
  <2> QED
    BY <2>5 DEF d, IsSortedBy
<1> QED
  BY <1>1, <1>2

-----------------------------------------------------------------------------
(* Where list_insert_sort stops. *)
LEMMA BehindProperties ==
    ASSUME NEW q, Len(q) \in Nat, NEW v, NEW key, Behind(q, v, key) # {}
    PROVE  LET m == Min(Behind(q, v, key))
           IN  /\ m \in 1..Len(q)
               /\ key[v] < key[q[m]]
               /\ \A j \in 1..(m - 1) : ~(key[v] < key[q[j]])
<1> DEFINE B == Behind(q, v, key)
           m == Min(B)
<1>1. B \in SUBSET Nat
  BY DEF Behind
<1>2. m \in B /\ \A y \in B : m <= y
  <2> HIDE DEF B
  <2> QED
    BY <1>1, MinIsLeast DEF B
<1>3. m \in 1..Len(q) /\ key[v] < key[q[m]]
  BY <1>2 DEF Behind
<1>4. ASSUME NEW j \in 1..(m - 1) PROVE ~(key[v] < key[q[j]])
  <2>1. j \in 1..Len(q) /\ ~(m <= j)
    BY <1>3
  <2>2. j \notin B
    BY <1>2, <2>1
  <2> QED
    BY <2>1, <2>2 DEF Behind
<1> QED
  BY <1>3, <1>4

(* The elements in front of the hole keep their place, the others move     *)
(* down by one.                                                            *)
LEMMA InsertElements ==
    ASSUME NEW S, NEW q \in Seq(S), NEW v \in S, NEW key,
           Behind(q, v, key) # {}
    PROVE  LET m == Min(Behind(q, v, key))
               l == ListInsertSort(q, v, key)
           IN  /\ m \in 1..Len(q)
               /\ l \in Seq(S)
               /\ Len(l) = Len(q) + 1
               /\ \A j \in 1..(Len(q) + 1) :
                     l[j] = IF j < m THEN q[j] ELSE IF j = m THEN v ELSE q[j - 1]
<1> DEFINE m == Min(Behind(q, v, key))
           l == ListInsertSort(q, v, key)
<1>1. m \in 1..Len(q)
  BY BehindProperties
<1>2. l = InsertAt(q, m, v)
  BY DEF ListInsertSort
<1> HIDE DEF l, m
<1>3. /\ l \in Seq(S)
      /\ Len(l) = Len(q) + 1
      /\ \A j \in 1..(Len(q) + 1) :
            l[j] = IF j < m THEN q[j] ELSE IF j = m THEN v ELSE q[j - 1]
  BY <1>1, <1>2, InsertAtElements
<1> QED
  BY <1>1, <1>3 DEF l, m

(* list_insert_sort adds the vCPU and nobody else. *)
LEMMA InsertProperties ==
    ASSUME NEW S, NEW q \in Seq(S), NEW v \in S, NEW key
    PROVE  /\ ListInsertSort(q, v, key) \in Seq(S)
           /\ \A w : OnQ(ListInsertSort(q, v, key), w) <=> w = v \/ OnQ(q, w)
           /\ NoDuplicates(q) /\ ~OnQ(q, v)
                 => NoDuplicates(ListInsertSort(q, v, key))
<1> DEFINE l == ListInsertSort(q, v, key)
<1>1. CASE Behind(q, v, key) = {}
  <2>1. l = Append(q, v)
    BY <1>1 DEF ListInsertSort
  <2> HIDE DEF l
  <2>2. /\ l \in Seq(S)
        /\ Len(l) = Len(q) + 1
        /\ \A j \in 1..Len(q) : l[j] = q[j]
        /\ l[Len(q) + 1] = v
    BY <2>1
  <2>3. \A w : OnQ(l, w) <=> w = v \/ OnQ(q, w)
    BY <2>2 DEF OnQ
  <2>4. NoDuplicates(q) /\ ~OnQ(q, v) => NoDuplicates(l)
    BY <2>2 DEF NoDuplicates, OnQ
  <2> QED
    BY <2>2, <2>3, <2>4 DEF l
<1>2. CASE Behind(q, v, key) # {}
  <2> DEFINE m == Min(Behind(q, v, key))
  <2>3. /\ l \in Seq(S)
        /\ Len(l) = Len(q) + 1
        /\ \A j \in 1..(Len(q) + 1) :
              l[j] = IF j < m THEN q[j] ELSE IF j = m THEN v ELSE q[j - 1]
    BY <1>2, InsertElements
  <2>1. m \in 1..Len(q)
    BY <1>2, BehindProperties
  <2> HIDE DEF l, m
  <2>4. ASSUME NEW w PROVE OnQ(l, w) <=> w = v \/ OnQ(q, w)
    <3>1. ASSUME NEW j \in 1..Len(l), l[j] = w, w # v PROVE OnQ(q, w)
      <4>1. CASE j < m
        <5>1. j \in 1..Len(q) /\ q[j] = w
          BY <2>1, <2>3, <3>1, <4>1
        <5> QED
          BY <5>1 DEF OnQ
      <4>2. CASE j > m
        <5>1. j - 1 \in 1..Len(q) /\ q[j - 1] = w
          BY <2>1, <2>3, <3>1, <4>2
        <5> QED
          BY <5>1 DEF OnQ
      <4>3. j # m
        BY <2>1, <2>3, <3>1
      <4> QED
        BY <2>1, <2>3, <4>1, <4>2, <4>3
    <3>2. OnQ(l, v)
      <4>1. m \in 1..Len(l) /\ l[m] = v
        BY <2>1, <2>3
      <4> QED
        BY <4>1 DEF OnQ
    <3>3. ASSUME NEW j \in 1..Len(q), q[j] = w PROVE OnQ(l, w)
      <4>1. CASE j < m
        BY <2>1, <2>3, <3>3, <4>1 DEF OnQ
      <4>2. CASE ~(j < m)
        <5>1. j + 1 \in 1..Len(l) /\ l[j + 1] = w
          BY <2>1, <2>3, <3>3, <4>2
        <5> QED
          BY <5>1 DEF OnQ
      <4> QED
        BY <4>1, <4>2
    <3> QED
      BY <3>1, <3>2, <3>3 DEF OnQ
  <2>5. ASSUME NoDuplicates(q), ~OnQ(q, v),
               NEW j \in 1..Len(l), NEW k \in 1..Len(l), l[j] = l[k]
        PROVE  j = k
    <3> DEFINE down(x) == IF x < m THEN x ELSE x - 1
    <3>1. \A x \in 1..Len(l) : x # m =>
              /\ down(x) \in 1..Len(q)
              /\ l[x] = q[down(x)]
      BY <2>1, <2>3
    <3>2. \A x \in 1..Len(l) : x # m => l[x] # v
      <4> HIDE DEF down
      <4> QED
        BY <2>5, <3>1 DEF OnQ
    <3>3. l[m] = v
      BY <2>1, <2>3
    <3>4. CASE j = m \/ k = m
      BY <2>5, <3>2, <3>3, <3>4
    <3>5. CASE j # m /\ k # m
      <4>1. down(j) = down(k)
        <5> HIDE DEF down
        <5> QED
          BY <2>5, <3>1, <3>5 DEF NoDuplicates
      <4> QED
        BY <2>1, <3>5, <4>1
    <3> QED
      BY <3>4, <3>5
  <2> QED
    BY <2>3, <2>4, <2>5 DEF l, NoDuplicates
<1> QED
  BY <1>1, <1>2

(* list_insert_sort keeps a sorted queue sorted. *)
LEMMA InsertSorted ==
    ASSUME NEW S, NEW q \in Seq(S), NEW v \in S,
           NEW key \in [S -> Int], IsSortedBy(q, key)
    PROVE  IsSortedBy(ListInsertSort(q, v, key), key)
<1> DEFINE l == ListInsertSort(q, v, key)
<1>0. /\ key[v] \in Int
      /\ \A j \in 1..Len(q) : key[q[j]] \in Int
  OBVIOUS
<1>1. CASE Behind(q, v, key) = {}
  <2>1. l = Append(q, v)
    BY <1>1 DEF ListInsertSort
  <2>2. \A j \in 1..Len(q) : key[q[j]] <= key[v]
    BY <1>0, <1>1 DEF Behind
  <2> HIDE DEF l
  <2>3. /\ Len(l) = Len(q) + 1
        /\ \A j \in 1..Len(q) : l[j] = q[j]
        /\ l[Len(q) + 1] = v
    BY <2>1
  <2>4. ASSUME NEW j \in 1..Len(l), NEW k \in 1..Len(l), j < k
        PROVE  key[l[j]] <= key[l[k]]
    <3>1. j \in 1..Len(q) /\ l[j] = q[j]
      BY <2>3, <2>4
    <3>2. CASE k = Len(q) + 1
      BY <2>2, <2>3, <3>1, <3>2
    <3>3. CASE k # Len(q) + 1
      <4>1. k \in 1..Len(q) /\ l[k] = q[k]
        BY <2>3, <3>3
      <4> QED
        BY <2>4, <3>1, <4>1 DEF IsSortedBy
    <3> QED
      BY <3>2, <3>3
  <2> QED
    BY <2>4 DEF l, IsSortedBy
<1>2. CASE Behind(q, v, key) # {}
  <2> DEFINE m == Min(Behind(q, v, key))
  <2>1. /\ m \in 1..Len(q)
        /\ key[v] < key[q[m]]
        /\ \A j \in 1..(m - 1) : ~(key[v] < key[q[j]])
    BY <1>2, BehindProperties
  <2>3. /\ l \in Seq(S)
        /\ Len(l) = Len(q) + 1
        /\ \A j \in 1..(Len(q) + 1) :
              l[j] = IF j < m THEN q[j] ELSE IF j = m THEN v ELSE q[j - 1]
    BY <1>2, InsertElements
  <2> HIDE DEF l, m
  <2>4. \A j \in 1..Len(q) : j < m => key[q[j]] <= key[v]
    BY <1>0, <2>1
  <2>5. \A j \in 1..Len(q) : m <= j => key[v] <= key[q[j]]
    BY <1>0, <2>1 DEF IsSortedBy
  <2>6. \A j, k \in 1..Len(q) : j <= k => key[q[j]] <= key[q[k]]
    BY <1>0 DEF IsSortedBy
  <2>7. ASSUME NEW j \in 1..Len(l), NEW k \in 1..Len(l), j < k
        PROVE  key[l[j]] <= key[l[k]]
    <3>1. CASE k < m
      <4>0. Len(q) \in Nat /\ Len(l) = Len(q) + 1 /\ m \in 1..Len(q)
        BY <1>0, <2>1, <2>3
      <4>1. j \in 1..Len(q) /\ k \in 1..Len(q) /\ j < m
        BY <2>7, <3>1, <4>0
      <4>2. l[j] = q[j] /\ l[k] = q[k]
        BY <2>3, <3>1, <4>1
      <4> QED
        BY <2>6, <2>7, <4>1, <4>2
    <3>2. CASE k = m
      <4>1. l[j] = q[j] /\ j \in 1..Len(q) /\ j < m
        BY <2>1, <2>3, <2>7, <3>2
      <4>2. l[k] = v
        BY <2>3, <3>2
      <4> QED
        BY <2>4, <4>1, <4>2
    <3>3. CASE k > m
      <4>1. l[k] = q[k - 1] /\ k - 1 \in 1..Len(q) /\ m <= k - 1
        BY <2>1, <2>3, <2>7, <3>3
      <4>2. CASE j < m
        <5>1. l[j] = q[j] /\ j \in 1..Len(q) /\ j <= k - 1
          BY <2>1, <2>3, <2>7, <4>2, <4>1
        <5> QED
          BY <2>6, <4>1, <5>1
      <4>3. CASE j = m
        BY <2>1, <2>3, <2>5, <4>1, <4>3
      <4>4. CASE j > m
        <5>1. l[j] = q[j - 1] /\ j - 1 \in 1..Len(q) /\ j - 1 <= k - 1
          BY <2>1, <2>3, <2>7, <4>4, <4>1
        <5> QED
          BY <2>6, <4>1, <5>1
      <4> QED
        BY <2>1, <4>2, <4>3, <4>4
    <3> QED
      BY <2>1, <2>7, <3>1, <3>2, <3>3
  <2>8. IsSortedBy(l, key)
    BY <2>7 DEF IsSortedBy
  <2> QED
    BY <2>8 DEF l
<1> QED
  BY <1>1, <1>2

-----------------------------------------------------------------------------
(* Induction: a set of numbers with 0 in it, and with every number its     *)
(* successor, is Nat (the least number outside would follow one inside).   *)
LEMMA SetInduction ==
    ASSUME NEW P \in SUBSET Nat, 0 \in P, \A n \in P : n + 1 \in P
    PROVE  P = Nat
<1> SUFFICES ASSUME Nat \ P # {} PROVE FALSE
    OBVIOUS
<1>1. IsWellFoundedOn(OpToRel(<, Nat), Nat)
    BY NatLessThanWellFounded
<1> DEFINE R == OpToRel(<, Nat)
<1>2. \E m \in Nat \ P : \A k \in Nat \ P : ~(<<k, m>> \in R)
  <2> HIDE DEF R
  <2>1. IsWellFoundedOn(R, Nat) BY <1>1 DEF R
  <2>2. Nat \ P \subseteq Nat OBVIOUS
  <2> QED BY <2>1, <2>2, WFMin
<1>3. PICK m \in Nat \ P : \A k \in Nat \ P : ~(<<k, m>> \in R)
    BY <1>2
<1>4. \A k \in Nat \ P : ~(k < m)
    BY <1>3 DEF OpToRel
<1>5. m # 0 /\ m - 1 \in Nat /\ m - 1 < m
    OBVIOUS
<1>6. m - 1 \in P
    BY <1>4, <1>5
<1>7. m - 1 + 1 = m
    OBVIOUS
<1> QED BY <1>6, <1>7, <1>3

-----------------------------------------------------------------------------
(* What a fold over a finite set is: pick names one element of every       *)
(* subset that is not empty, and g folds, from base, with the functions    *)
(* h[x] of values.                                                         *)
Picks(pick, S) == \A s \in SUBSET S : s # {} => pick[s] \in s

FoldOf(g, pick, h, base, S, V) ==
    /\ g \in [SUBSET S -> V]
    /\ g = [s \in SUBSET S |-> IF s = {} THEN base
                               ELSE h[pick[s]][g[s \ {pick[s]}]]]

(* The subsets of S of at most n elements.                                 *)
Upto(S, n) == {s \in SUBSET S : Cardinality(s) <= n}

(* A subset without one of its elements has one element less.              *)
LEMMA Smaller ==
    ASSUME NEW S, IsFiniteSet(S), NEW s \in SUBSET S
    PROVE  /\ IsFiniteSet(s) /\ Cardinality(s) \in Nat
           /\ \A x \in s : s \ {x} \in SUBSET S
                           /\ Cardinality(s \ {x}) = Cardinality(s) - 1
    BY FS_Subset, FS_CardinalityType, FS_RemoveElement

(* Folds exist: by induction over the number of elements.                  *)
LEMMA FoldExists ==
    ASSUME NEW S, IsFiniteSet(S), NEW V, NEW base \in V, NEW h \in [S -> [V -> V]],
           NEW pick, Picks(pick, S)
    PROVE  \E g : FoldOf(g, pick, h, base, S, V)
<1> DEFINE Part(g, n) ==
             /\ g \in [Upto(S, n) -> V]
             /\ \A s \in Upto(S, n) :
                   g[s] = IF s = {} THEN base ELSE h[pick[s]][g[s \ {pick[s]}]]
           P == {n \in Nat : \E g : Part(g, n)}
<1>a. \A s \in SUBSET S : s # {} =>
         /\ pick[s] \in s /\ pick[s] \in S
         /\ s \ {pick[s]} \in SUBSET S
         /\ Cardinality(s \ {pick[s]}) = Cardinality(s) - 1
    BY Smaller DEF Picks
<1>1. 0 \in P
  <2> DEFINE g == [s \in Upto(S, 0) |-> base]
  <2>1. \A s \in Upto(S, 0) : s = {}
    BY Smaller, FS_EmptySet DEF Upto
  <2>2. Part(g, 0)
    BY <2>1
  <2> QED
    BY <2>2
<1>2. ASSUME NEW n \in P PROVE n + 1 \in P
  <2>1. PICK g : Part(g, n)
    OBVIOUS
  <2>n. n \in Nat
    OBVIOUS
  <2> DEFINE step(s) == h[pick[s]][g[s \ {pick[s]}]]
             gg == [s \in Upto(S, n + 1) |-> IF s = {} THEN base ELSE step(s)]
  <2>2. \A s \in Upto(S, n + 1) : s # {} => s \ {pick[s]} \in Upto(S, n)
    BY <2>n, Smaller, <1>a DEF Upto
  <2>3. \A s \in Upto(S, n + 1) : s # {} => step(s) \in V
    <3> SUFFICES ASSUME NEW s \in Upto(S, n + 1), s # {} PROVE step(s) \in V
        OBVIOUS
    <3>1. g[s \ {pick[s]}] \in V
        BY <2>1, <2>2
    <3>2. pick[s] \in S
        BY <1>a DEF Upto
    <3> QED BY <3>1, <3>2
  <2>4. gg \in [Upto(S, n + 1) -> V]
    BY <2>3
  <2>5. \A s \in Upto(S, n) : s \in Upto(S, n + 1)
    BY <2>n, Smaller DEF Upto
  <2>x. \A s \in Upto(S, n) : gg[s] = g[s]
    BY <2>5, <2>1
  <2>7. \A s \in Upto(S, n + 1) :
          gg[s] = IF s = {} THEN base ELSE h[pick[s]][gg[s \ {pick[s]}]]
    BY <2>2, <2>x
  <2>8. Part(gg, n + 1)
    BY <2>4, <2>7
  <2>9. \E f : Part(f, n + 1)
    <3> HIDE DEF Part, gg
    <3> QED BY <2>8
  <2>10. n + 1 \in {m \in Nat : \E f : Part(f, m)}
    <3> HIDE DEF Part, gg
    <3> QED BY <2>n, <2>9
  <2> QED BY <2>10
<1>3. P = Nat
  <2> HIDE DEF P
  <2>1. P \in SUBSET Nat BY DEF P
  <2> QED BY <1>1, <1>2, <2>1, SetInduction
<1>4. Cardinality(S) \in P
  BY <1>3, FS_CardinalityType
<1>5. PICK g : Part(g, Cardinality(S))
  BY <1>4
<1>6. Upto(S, Cardinality(S)) = SUBSET S
  BY FS_Subset, FS_CardinalityType DEF Upto
<1>7. g \in [SUBSET S -> V]
  BY <1>5, <1>6
<1>8. FoldOf(g, pick, h, base, S, V)
  BY <1>5, <1>6, <1>7 DEF FoldOf
<1> QED BY <1>8

(* Induction over the subsets of a finite set. *)
LEMMA SubsetInduction ==
    ASSUME NEW S, IsFiniteSet(S), NEW P \in SUBSET SUBSET S,
           \A s \in SUBSET S : (\A x \in s : s \ {x} \in P) => s \in P
    PROVE  P = SUBSET S
<1> DEFINE N == {n \in Nat : \A s \in SUBSET S : Cardinality(s) = n => s \in P}
<1>b. \A s \in SUBSET S : IsFiniteSet(s) /\ Cardinality(s) \in Nat
  BY Smaller
<1>1. 0 \in N
  BY <1>b, FS_EmptySet
<1>2. ASSUME NEW n \in N PROVE n + 1 \in N
  <2>1. ASSUME NEW s \in SUBSET S, Cardinality(s) = n + 1 PROVE s \in P
    <3>1. \A x \in s : s \ {x} \in SUBSET S /\ Cardinality(s \ {x}) = Cardinality(s) - 1
      BY Smaller
    <3>2. Cardinality(s) - 1 = n
      BY <2>1
    <3> QED BY <3>1, <3>2
  <2> QED BY <2>1
<1>3. N = Nat
  <2> HIDE DEF N
  <2>1. N \in SUBSET Nat BY DEF N
  <2> QED BY <1>1, <1>2, <2>1, SetInduction
<1>4. \A s \in SUBSET S : Cardinality(s) \in N
  <2> HIDE DEF N
  <2> QED BY <1>3, <1>b
<1> QED BY <1>4

(* A fold yields the same on a subset of its domain. *)
LEMMA FoldUnique ==
    ASSUME NEW S, IsFiniteSet(S), NEW T \in SUBSET S,
           NEW pick, Picks(pick, S), NEW pick2, \A s \in SUBSET T : s # {} => pick2[s] = pick[s],
           NEW h, NEW h2, \A x \in T : h2[x] = h[x], NEW base, NEW V,
           NEW g, FoldOf(g, pick, h, base, S, V),
           NEW g2, FoldOf(g2, pick2, h2, base, T, V)
    PROVE  g2[T] = g[T]
<1> DEFINE P == {s \in SUBSET T : g2[s] = g[s]}
<1>1. ASSUME NEW s \in SUBSET T, \A x \in s : s \ {x} \in P
      PROVE  s \in P
  <2>1. CASE s = {}
    BY <2>1 DEF FoldOf
  <2>2. CASE s # {}
    <3>1. s \in SUBSET S /\ pick[s] \in s /\ pick2[s] = pick[s] /\ h2[pick[s]] = h[pick[s]]
      BY <2>2 DEF Picks
    <3>2. g[s] = h[pick[s]][g[s \ {pick[s]}]]
      BY <2>2, <3>1 DEF FoldOf
    <3>3. g2[s] = h2[pick2[s]][g2[s \ {pick2[s]}]]
      BY <2>2 DEF FoldOf
    <3>4. g2[s \ {pick[s]}] = g[s \ {pick[s]}]
      BY <3>1, <1>1
    <3> QED BY <3>1, <3>2, <3>3, <3>4
  <2> QED BY <2>1, <2>2
<1>2. IsFiniteSet(T)
  BY FS_Subset
<1>3. P = SUBSET T
  <2>1. \A s \in SUBSET T : (\A x \in s : s \ {x} \in P) => s \in P
    BY <1>1
  <2>2. P \in SUBSET SUBSET T
    OBVIOUS
  <2> HIDE DEF P
  <2> QED BY <1>2, <2>1, <2>2, SubsetInduction
<1> QED BY <1>3

(* The steps of a fold over S, with results in V, that may change places. *)
Commutes(h, S, V) ==
    /\ h \in [S -> [V -> V]]
    /\ \A x, y \in S : \A v \in V : h[x][h[y][v]] = h[y][h[x][v]]

(* Elements may be folded in any order. *)
LEMMA FoldAny ==
    ASSUME NEW S, IsFiniteSet(S), NEW V, NEW base, NEW h, Commutes(h, S, V),
           NEW pick, Picks(pick, S),
           NEW g, FoldOf(g, pick, h, base, S, V)
    PROVE  \A x \in S : g[S] = h[x][g[S \ {x}]]
<1> DEFINE Q(s) == \A y \in s : g[s] = h[y][g[s \ {y}]]
           P == {s \in SUBSET S : Q(s)}
<1>1. ASSUME NEW s \in SUBSET S, \A w \in s : s \ {w} \in P, NEW y \in s
      PROVE  g[s] = h[y][g[s \ {y}]]
  <2> DEFINE z == pick[s]
  <2>1. z \in s
    BY DEF Picks
  <2>2. g[s] = h[z][g[s \ {z}]]
    BY <2>1 DEF FoldOf
  <2>3. CASE y = z
    BY <2>2, <2>3
  <2>4. CASE y # z
    <3> HIDE DEF z
    <3>1. y \in s \ {z} /\ z \in s \ {y}
      BY <2>1, <2>4
    <3>2. Q(s \ {z}) /\ Q(s \ {y})
      BY <2>1, <1>1
    <3>3. g[s \ {z}] = h[y][g[(s \ {z}) \ {y}]] /\ g[s \ {y}] = h[z][g[(s \ {y}) \ {z}]]
      BY <3>1, <3>2
    <3>4. (s \ {z}) \ {y} = (s \ {y}) \ {z}
      OBVIOUS
    <3>5. g[(s \ {y}) \ {z}] \in V /\ y \in S /\ z \in S
      BY <2>1 DEF FoldOf
    <3>6. h[z][h[y][g[(s \ {y}) \ {z}]]] = h[y][h[z][g[(s \ {y}) \ {z}]]]
      BY <3>5 DEF Commutes
    <3> QED BY <2>2, <3>3, <3>4, <3>6
  <2> QED BY <2>3, <2>4
<1>2. \A s \in SUBSET S : (\A w \in s : s \ {w} \in P) => s \in P
  <2> SUFFICES ASSUME NEW s \in SUBSET S, \A w \in s : s \ {w} \in P
               PROVE  Q(s)
    <3> HIDE DEF Q
    <3> QED OBVIOUS
  <2> QED BY <1>1
<1>3. P = SUBSET S
  <2>1. P \in SUBSET SUBSET S
    OBVIOUS
  <2> HIDE DEF P
  <2> QED BY <1>2, <2>1, SubsetInduction
<1>4. S \in P
  BY <1>3
<1> QED BY <1>4

-----------------------------------------------------------------------------
(* The element that CHOOSE takes from every subset.                        *)
Chosen(S) == [s \in SUBSET S |-> CHOOSE x \in s : TRUE]

(* CHOOSE picks an element.                                                *)
LEMMA ChosenPicks == ASSUME NEW S PROVE Picks(Chosen(S), S)
<1> SUFFICES ASSUME NEW s \in SUBSET S, s # {} PROVE Chosen(S)[s] \in s
  BY DEF Picks
<1>1. (CHOOSE x \in s : TRUE) \in s
  OBVIOUS
<1>2. Chosen(S)[s] = CHOOSE x \in s : TRUE
  BY Zenon DEF Chosen
<1> QED BY <1>1, <1>2, Zenon

(* The functions that SumFunctionOnSet folds with.                         *)
AddTo(f, S) == [x \in S |-> [v \in Int |-> f[x] + v]]

(* SumFunctionOnSet is such a fold. *)
LEMMA SumIsFold ==
    ASSUME NEW S, IsFiniteSet(S), NEW f, \A x \in S : f[x] \in Int
    PROVE  \E g :
              FoldOf(g, Chosen(S), AddTo(f, S), 0, S, Int) /\ SumFunctionOnSet(f, S) = g[S]
<1> DEFINE Rec(F) == F = [s \in SUBSET S |->
                       IF s = {} THEN 0
                       ELSE f[CHOOSE x \in s : TRUE] + F[s \ {CHOOSE x \in s : TRUE}]]
           iter == CHOOSE F : Rec(F)
<1>1. SumFunctionOnSet(f, S) = iter[S]
  BY DEF SumFunctionOnSet, FoldFunctionOnSet, MapThenFoldSet
<1>2. PICK g : FoldOf(g, Chosen(S), AddTo(f, S), 0, S, Int)
  <2>1. AddTo(f, S) \in [S -> [Int -> Int]]
    BY DEF AddTo
  <2>2. Picks(Chosen(S), S) /\ 0 \in Int
    BY ChosenPicks
  <2> HIDE DEF Rec, iter
  <2> QED BY <2>1, <2>2, FoldExists
<1>3. \A s \in SUBSET S : s # {} => (CHOOSE x \in s : TRUE) \in s /\ Chosen(S)[s] = CHOOSE x \in s : TRUE
  BY Zenon DEF Chosen
<1>4. Rec(g)
  <2>1. ASSUME NEW s \in SUBSET S, s # {}
        PROVE  AddTo(f, S)[Chosen(S)[s]][g[s \ {Chosen(S)[s]}]]
                 = f[CHOOSE x \in s : TRUE] + g[s \ {CHOOSE x \in s : TRUE}]
    <3>1. Chosen(S)[s] = CHOOSE x \in s : TRUE
      BY Zenon DEF Chosen
    <3> DEFINE z == Chosen(S)[s]
    <3>2. AddTo(f, S)[z][g[s \ {z}]] = f[z] + g[s \ {z}]
      <4>1. z \in S /\ g[s \ {z}] \in Int
        BY <2>1, <1>2, ChosenPicks DEF Picks, FoldOf
      <4> HIDE DEF z
      <4> QED BY <4>1 DEF AddTo
    <3> QED BY <3>1, <3>2, Zenon
  <2>2. g = [s \in SUBSET S |-> IF s = {} THEN 0 ELSE AddTo(f, S)[Chosen(S)[s]][g[s \ {Chosen(S)[s]}]]]
    BY <1>2 DEF FoldOf
  <2> QED
    BY <2>1, <2>2, Zenon
<1>5. Rec(iter)
  <2> HIDE DEF Rec
  <2> QED BY <1>4
<1>6. iter[S] = g[S]
  <2> DEFINE P == {s \in SUBSET S : iter[s] = g[s]}
  <2>1. ASSUME NEW s \in SUBSET S, \A x \in s : s \ {x} \in P
        PROVE  s \in P
    <3>1. CASE s = {}
      BY <3>1, <1>4, <1>5, Zenon
    <3>2. CASE s # {}
      <4> DEFINE c == CHOOSE x \in s : TRUE
      <4>1. iter[s] = f[c] + iter[s \ {c}] /\ g[s] = f[c] + g[s \ {c}]
        BY <3>2, <1>4, <1>5, Zenon
      <4>2. c \in s
        BY <3>2
      <4> HIDE DEF c, iter
      <4> QED BY <4>1, <4>2, <2>1
    <3> QED BY <3>1, <3>2
  <2>2. \A s \in SUBSET S : (\A x \in s : s \ {x} \in P) => s \in P
    BY <2>1
  <2>3. P = SUBSET S
    <3>1. P \in SUBSET SUBSET S
      OBVIOUS
    <3> HIDE DEF P
    <3> QED BY <2>2, <3>1, SubsetInduction
  <2> HIDE DEF iter
  <2> QED BY <2>3
<1> QED
  <2> HIDE DEF iter, Rec
  <2> QED BY <1>1, <1>2, <1>6

(* Sums over a finite set: the empty sum, the type of a sum, and any       *)
(* element taken out first.                                                *)
LEMMA SumEmpty == \A f : SumFunctionOnSet(f, {}) = 0
<1> TAKE f
<1>1. IsFiniteSet({}) /\ \A x \in {} : f[x] \in Int
  BY FS_EmptySet
<1>2. PICK g :
        FoldOf(g, Chosen({}), AddTo(f, {}), 0, {}, Int) /\ SumFunctionOnSet(f, {}) = g[{}]
  BY <1>1, SumIsFold
<1> QED
  BY <1>2 DEF FoldOf

(* A sum of integers is an integer.                                        *)
LEMMA SumType ==
    ASSUME NEW S, IsFiniteSet(S), NEW f, \A x \in S : f[x] \in Int
    PROVE  SumFunctionOnSet(f, S) \in Int
<1>1. PICK g :
        FoldOf(g, Chosen(S), AddTo(f, S), 0, S, Int) /\ SumFunctionOnSet(f, S) = g[S]
  BY SumIsFold
<1>2. g \in [SUBSET S -> Int]
  BY <1>1 DEF FoldOf
<1> QED BY <1>1, <1>2

(* Any element may be added last.                                          *)
LEMMA SumAny ==
    ASSUME NEW S, IsFiniteSet(S), NEW f, \A x \in S : f[x] \in Int, NEW x \in S
    PROVE  SumFunctionOnSet(f, S) = f[x] + SumFunctionOnSet(f, S \ {x})
<1> DEFINE T == S \ {x}
<1>1. PICK g :
        FoldOf(g, Chosen(S), AddTo(f, S), 0, S, Int) /\ SumFunctionOnSet(f, S) = g[S]
  BY SumIsFold
<1>2. IsFiniteSet(T) /\ \A y \in T : f[y] \in Int
  BY FS_RemoveElement
<1>3. PICK k :
        FoldOf(k, Chosen(T), AddTo(f, T), 0, T, Int) /\ SumFunctionOnSet(f, T) = k[T]
  <2> HIDE DEF T
  <2> QED BY <1>2, SumIsFold
<1>4. k[T] = g[T]
  <2>1. \A s \in SUBSET T : s # {} => Chosen(T)[s] = Chosen(S)[s]
    <3> SUFFICES ASSUME NEW s \in SUBSET T PROVE Chosen(T)[s] = Chosen(S)[s]
      OBVIOUS
    <3>1. Chosen(T)[s] = CHOOSE y \in s : TRUE
      BY Zenon DEF Chosen
    <3>2. s \in SUBSET S
      OBVIOUS
    <3>3. Chosen(S)[s] = CHOOSE y \in s : TRUE
      BY <3>2, Zenon DEF Chosen
    <3> QED BY <3>1, <3>3, Zenon
  <2>2. \A y \in T : AddTo(f, T)[y] = AddTo(f, S)[y]
    BY DEF AddTo
  <2>3. T \in SUBSET S
    OBVIOUS
  <2> HIDE DEF T
  <2> QED BY <1>1, <1>3, <2>1, <2>2, <2>3, ChosenPicks, FoldUnique
<1>5. g[S] = AddTo(f, S)[x][g[S \ {x}]]
  <2> DEFINE h == AddTo(f, S)
             pick == Chosen(S)
  <2>1. h \in [S -> [Int -> Int]]
    BY DEF AddTo
  <2>2. Commutes(h, S, Int)
    BY <2>1 DEF AddTo, Commutes
  <2>3. Picks(pick, S)
    BY ChosenPicks
  <2>4. FoldOf(g, pick, h, 0, S, Int)
    BY <1>1
  <2>5. g[S] = h[x][g[S \ {x}]]
    <3> HIDE DEF h, pick
    <3>1. \A y \in S : g[S] = h[y][g[S \ {y}]]
      BY <2>2, <2>3, <2>4, FoldAny
    <3> QED BY <3>1
  <2> QED BY <2>5
<1>6. AddTo(f, S)[x][g[T]] = f[x] + g[T]
  BY <1>1 DEF AddTo, FoldOf
<1> QED BY <1>1, <1>3, <1>4, <1>5, <1>6

(* Functions with the same values have the same sum.                       *)
LEMMA SumSame ==
    ASSUME NEW S, IsFiniteSet(S), NEW f, NEW g, \A x \in S : f[x] \in Int /\ g[x] = f[x]
    PROVE  SumFunctionOnSet(g, S) = SumFunctionOnSet(f, S)
<1> DEFINE P == {s \in SUBSET S : SumFunctionOnSet(g, s) = SumFunctionOnSet(f, s)}
<1>1. ASSUME NEW s \in SUBSET S, \A x \in s : s \ {x} \in P
      PROVE  s \in P
  <2>1. CASE s = {}
    BY <2>1, SumEmpty
  <2>2. CASE s # {}
    <3>1. PICK x \in s : TRUE
      BY <2>2
    <3>2. IsFiniteSet(s) /\ \A y \in s : f[y] \in Int /\ g[y] \in Int
      BY FS_Subset
    <3>3. SumFunctionOnSet(f, s) = f[x] + SumFunctionOnSet(f, s \ {x})
      BY <3>2, SumAny
    <3>4. SumFunctionOnSet(g, s) = g[x] + SumFunctionOnSet(g, s \ {x})
      BY <3>2, SumAny
    <3> QED BY <3>3, <3>4, <1>1
  <2> QED BY <2>1, <2>2
<1>2. P = SUBSET S
  <2>1. \A s \in SUBSET S : (\A x \in s : s \ {x} \in P) => s \in P
    BY <1>1
  <2>2. P \in SUBSET SUBSET S
    OBVIOUS
  <2> HIDE DEF P
  <2> QED BY <2>1, <2>2, SubsetInduction
<1> QED BY <1>2

(* Larger values, a larger sum.                                            *)
LEMMA SumMonotone ==
    ASSUME NEW S, IsFiniteSet(S), NEW f, NEW g,
           \A x \in S : f[x] \in Int /\ g[x] \in Int /\ f[x] <= g[x]
    PROVE  SumFunctionOnSet(f, S) <= SumFunctionOnSet(g, S)
<1> DEFINE P == {s \in SUBSET S : SumFunctionOnSet(f, s) <= SumFunctionOnSet(g, s)}
<1>1. ASSUME NEW s \in SUBSET S, \A x \in s : s \ {x} \in P
      PROVE  s \in P
  <2>1. CASE s = {}
    BY <2>1, SumEmpty
  <2>2. CASE s # {}
    <3>1. PICK x \in s : TRUE
      BY <2>2
    <3>2. IsFiniteSet(s) /\ \A y \in s : f[y] \in Int /\ g[y] \in Int
      BY FS_Subset
    <3>3. SumFunctionOnSet(f, s) = f[x] + SumFunctionOnSet(f, s \ {x})
      BY <3>2, SumAny
    <3>4. SumFunctionOnSet(g, s) = g[x] + SumFunctionOnSet(g, s \ {x})
      BY <3>2, SumAny
    <3>5. IsFiniteSet(s \ {x})
      BY <3>2, FS_RemoveElement
    <3>6. SumFunctionOnSet(f, s \ {x}) \in Int /\ SumFunctionOnSet(g, s \ {x}) \in Int
      BY <3>2, <3>5, SumType
    <3>7. SumFunctionOnSet(f, s \ {x}) <= SumFunctionOnSet(g, s \ {x})
      BY <1>1
    <3>8. f[x] \in Int /\ g[x] \in Int /\ f[x] <= g[x]
      OBVIOUS
    <3>9. SumFunctionOnSet(f, s) <= SumFunctionOnSet(g, s)
      BY <3>3, <3>4, <3>6, <3>7, <3>8
    <3> QED BY <3>9
  <2> QED BY <2>1, <2>2
<1>2. P = SUBSET S
  <2>1. \A s \in SUBSET S : (\A x \in s : s \ {x} \in P) => s \in P
    BY <1>1
  <2>2. P \in SUBSET SUBSET S
    OBVIOUS
  <2> HIDE DEF P
  <2> QED BY <2>1, <2>2, SubsetInduction
<1> QED BY <1>2

(* A factor of every value is a factor of the sum.                         *)
LEMMA SumScaled ==
    ASSUME NEW S, IsFiniteSet(S), NEW f, NEW k \in Int, NEW g,
           \A x \in S : f[x] \in Int /\ g[x] = k * f[x]
    PROVE  SumFunctionOnSet(g, S) = k * SumFunctionOnSet(f, S)
<1> DEFINE P == {s \in SUBSET S : SumFunctionOnSet(g, s) = k * SumFunctionOnSet(f, s)}
<1>1. ASSUME NEW s \in SUBSET S, \A x \in s : s \ {x} \in P
      PROVE  s \in P
  <2>1. CASE s = {}
    BY <2>1, SumEmpty
  <2>2. CASE s # {}
    <3>1. PICK x \in s : TRUE
      BY <2>2
    <3>2. IsFiniteSet(s) /\ \A y \in s : f[y] \in Int /\ g[y] \in Int
      BY FS_Subset
    <3>3. SumFunctionOnSet(f, s) = f[x] + SumFunctionOnSet(f, s \ {x})
      BY <3>2, SumAny
    <3>4. SumFunctionOnSet(g, s) = g[x] + SumFunctionOnSet(g, s \ {x})
      BY <3>2, SumAny
    <3>5. IsFiniteSet(s \ {x})
      BY <3>2, FS_RemoveElement
    <3>6. SumFunctionOnSet(f, s \ {x}) \in Int
      BY <3>2, <3>5, SumType
    <3>7. SumFunctionOnSet(g, s \ {x}) = k * SumFunctionOnSet(f, s \ {x})
      BY <1>1
    <3>8. f[x] \in Int /\ g[x] = k * f[x]
      OBVIOUS
    <3>9. \A a, b \in Int : k * a + k * b = k * (a + b)
      OBVIOUS
    <3> QED BY <3>3, <3>4, <3>6, <3>7, <3>8, <3>9
  <2> QED BY <2>1, <2>2
<1>2. P = SUBSET S
  <2>1. \A s \in SUBSET S : (\A x \in s : s \ {x} \in P) => s \in P
    BY <1>1
  <2>2. P \in SUBSET SUBSET S
    OBVIOUS
  <2> HIDE DEF P
  <2> QED BY <2>1, <2>2, SubsetInduction
<1> QED BY <1>2

(* Two functions that differ at one place *)
LEMMA SumChanged ==
    ASSUME NEW S, IsFiniteSet(S), NEW f, NEW g, NEW x \in S,
           \A y \in S : f[y] \in Int /\ g[y] \in Int,
           \A y \in S \ {x} : g[y] = f[y]
    PROVE  SumFunctionOnSet(g, S) = SumFunctionOnSet(f, S) - f[x] + g[x]
<1>1. SumFunctionOnSet(f, S) = f[x] + SumFunctionOnSet(f, S \ {x})
  BY SumAny
<1>2. SumFunctionOnSet(g, S) = g[x] + SumFunctionOnSet(g, S \ {x})
  BY SumAny
<1>3. IsFiniteSet(S \ {x})
  BY FS_RemoveElement
<1>4. SumFunctionOnSet(g, S \ {x}) = SumFunctionOnSet(f, S \ {x})
  BY <1>3, SumSame
<1>5. SumFunctionOnSet(f, S \ {x}) \in Int
  BY <1>3, SumType
<1> QED BY <1>1, <1>2, <1>4, <1>5

(* No value exceeds a sum of natural numbers.                              *)
LEMMA SumNonNegative ==
    ASSUME NEW S, IsFiniteSet(S), NEW f, \A x \in S : f[x] \in Nat
    PROVE  /\ SumFunctionOnSet(f, S) \in Nat
           /\ \A x \in S : f[x] <= SumFunctionOnSet(f, S)
<1>1. ASSUME NEW T \in SUBSET S PROVE SumFunctionOnSet(f, T) \in Nat
  <2> DEFINE zero == [x \in T |-> 0 * f[x]]
  <2>1. IsFiniteSet(T) /\ \A x \in T : f[x] \in Int /\ f[x] >= 0
    BY FS_Subset
  <2>2. \A x \in T : zero[x] = 0 * f[x] /\ zero[x] \in Int /\ zero[x] <= f[x]
    BY <2>1
  <2> HIDE DEF zero
  <2>3. SumFunctionOnSet(zero, T) <= SumFunctionOnSet(f, T)
    BY <2>1, <2>2, SumMonotone
  <2>4. SumFunctionOnSet(f, T) \in Int
    BY <2>1, SumType
  <2>5. SumFunctionOnSet(zero, T) = 0 * SumFunctionOnSet(f, T)
    BY <2>1, <2>2, SumScaled
  <2> QED BY <2>3, <2>4, <2>5
<1>2. ASSUME NEW x \in S PROVE f[x] <= SumFunctionOnSet(f, S)
  <2>1. SumFunctionOnSet(f, S) = f[x] + SumFunctionOnSet(f, S \ {x})
    BY SumAny
  <2>2. SumFunctionOnSet(f, S \ {x}) \in Nat
    BY <1>1
  <2> QED BY <2>1, <2>2
<1> QED BY <1>1, <1>2

-----------------------------------------------------------------------------
(* The product of the values of a function over a set, and the functions   *)
(* that it folds with.                                                     *)
ProductOnSet(fun, S) == FoldFunctionOnSet(LAMBDA a, b : a * b, 1, fun, S)
Multiply(f, S) == [x \in S |-> [v \in Nat \ {0} |-> f[x] * v]]

(* ProductOnSet is such a fold.                                            *)
LEMMA ProductIsFold ==
    ASSUME NEW S, IsFiniteSet(S), NEW f, \A x \in S : f[x] \in Nat \ {0}
    PROVE  \E g : /\ FoldOf(g, Chosen(S), Multiply(f, S), 1, S, Nat \ {0})
                  /\ ProductOnSet(f, S) = g[S]
<1> DEFINE Rec(F) == F = [s \in SUBSET S |->
                       IF s = {} THEN 1
                       ELSE f[CHOOSE x \in s : TRUE] * F[s \ {CHOOSE x \in s : TRUE}]]
           iter == CHOOSE F : Rec(F)
<1>1. ProductOnSet(f, S) = iter[S]
  BY DEF ProductOnSet, FoldFunctionOnSet, MapThenFoldSet
<1>2. PICK g : FoldOf(g, Chosen(S), Multiply(f, S), 1, S, Nat \ {0})
  <2>1. Multiply(f, S) \in [S -> [Nat \ {0} -> Nat \ {0}]]
    <3>1. \A x \in S : \A v \in Nat \ {0} : f[x] * v \in Nat \ {0}
      <4>1. \A a, b \in Nat \ {0} : a * b \in Nat \ {0}
        OBVIOUS
      <4> QED BY <4>1
    <3> QED BY <3>1 DEF Multiply
  <2>2. Picks(Chosen(S), S) /\ 1 \in Nat \ {0}
    BY ChosenPicks
  <2> HIDE DEF Rec, iter
  <2> QED BY <2>1, <2>2, FoldExists
<1>4. Rec(g)
  <2>1. ASSUME NEW s \in SUBSET S, s # {}
        PROVE  Multiply(f, S)[Chosen(S)[s]][g[s \ {Chosen(S)[s]}]]
                 = f[CHOOSE x \in s : TRUE] * g[s \ {CHOOSE x \in s : TRUE}]
    <3>1. Chosen(S)[s] = CHOOSE x \in s : TRUE
      BY Zenon DEF Chosen
    <3> DEFINE z == Chosen(S)[s]
    <3>2. Multiply(f, S)[z][g[s \ {z}]] = f[z] * g[s \ {z}]
      <4>1. z \in S
        BY <2>1, ChosenPicks DEF Picks
      <4>2. g[s \ {z}] \in Nat \ {0}
        BY <1>2 DEF FoldOf
      <4> HIDE DEF z
      <4> QED BY <4>1, <4>2 DEF Multiply
    <3> QED BY <3>1, <3>2, Zenon
  <2>2. g = [s \in SUBSET S |-> IF s = {} THEN 1 ELSE Multiply(f, S)[Chosen(S)[s]][g[s \ {Chosen(S)[s]}]]]
    BY <1>2 DEF FoldOf
  <2> QED
    BY <2>1, <2>2, Zenon
<1>5. Rec(iter)
  <2> HIDE DEF Rec
  <2> QED BY <1>4
<1>6. iter[S] = g[S]
  <2> DEFINE P == {s \in SUBSET S : iter[s] = g[s]}
  <2>1. ASSUME NEW s \in SUBSET S, \A x \in s : s \ {x} \in P
        PROVE  s \in P
    <3>1. CASE s = {}
      BY <3>1, <1>4, <1>5, Zenon
    <3>2. CASE s # {}
      <4> DEFINE c == CHOOSE x \in s : TRUE
      <4>1. iter[s] = f[c] * iter[s \ {c}] /\ g[s] = f[c] * g[s \ {c}]
        BY <3>2, <1>4, <1>5, Zenon
      <4>2. c \in s
        BY <3>2
      <4> HIDE DEF c, iter
      <4> QED BY <4>1, <4>2, <2>1
    <3> QED BY <3>1, <3>2
  <2>2. \A s \in SUBSET S : (\A x \in s : s \ {x} \in P) => s \in P
    BY <2>1
  <2>3. P = SUBSET S
    <3>1. P \in SUBSET SUBSET S
      OBVIOUS
    <3> HIDE DEF P
    <3> QED BY <2>2, <3>1, SubsetInduction
  <2> HIDE DEF iter
  <2> QED BY <2>3
<1> QED
  <2> HIDE DEF iter, Rec
  <2> QED BY <1>1, <1>2, <1>6

(* A product of positive numbers is one, and a multiple of each of them. *)
LEMMA ProductProperties ==
    ASSUME NEW S, IsFiniteSet(S), NEW f, \A x \in S : f[x] \in Nat \ {0}
    PROVE  /\ ProductOnSet(f, S) \in Nat \ {0}
           /\ \A x \in S : \E k \in Nat \ {0} : ProductOnSet(f, S) = f[x] * k
<1>1. PICK g : /\ FoldOf(g, Chosen(S), Multiply(f, S), 1, S, Nat \ {0})
               /\ ProductOnSet(f, S) = g[S]
  BY ProductIsFold
<1>2. g \in [SUBSET S -> Nat \ {0}]
  BY <1>1 DEF FoldOf
<1> DEFINE h == Multiply(f, S)
           pick == Chosen(S)
           V == Nat \ {0}
<1>3. Commutes(h, S, V)
  <2>1. \A x \in S : \A v \in V : h[x][v] = f[x] * v
    BY DEF Multiply
  <2>2. \A a, b, c \in V : a * b \in V /\ a * (b * c) = b * (a * c)
    OBVIOUS
  <2>3. h \in [S -> [V -> V]]
    <3> HIDE DEF V
    <3> QED BY <2>2 DEF Multiply, V
  <2>4. \A x, y \in S : \A v \in V : h[x][h[y][v]] = h[y][h[x][v]]
    <3> SUFFICES ASSUME NEW x \in S, NEW y \in S, NEW v \in V
                 PROVE  h[x][h[y][v]] = h[y][h[x][v]]
      OBVIOUS
    <3>1. f[x] \in V /\ f[y] \in V
      OBVIOUS
    <3>2. f[y] * v \in V /\ f[x] * v \in V /\ f[x] * (f[y] * v) = f[y] * (f[x] * v)
      <4> HIDE DEF V, h
      <4> QED BY <3>1, <2>2
    <3> HIDE DEF V, h
    <3> QED BY <2>1, <3>2
  <2> QED BY <2>3, <2>4 DEF Commutes
<1>4. \A x \in S : g[S] = h[x][g[S \ {x}]]
  <2>1. FoldOf(g, pick, h, 1, S, V) /\ Picks(pick, S)
    BY <1>1, ChosenPicks
  <2> HIDE DEF h, pick, V
  <2> QED BY <1>3, <2>1, FoldAny
<1>5. ASSUME NEW x \in S PROVE \E k \in V : g[S] = f[x] * k
  <2>1. g[S \ {x}] \in V
    BY <1>2
  <2>2. h[x][g[S \ {x}]] = f[x] * g[S \ {x}]
    BY <2>1 DEF Multiply
  <2> QED BY <1>4, <2>1, <2>2
<1> QED BY <1>1, <1>2, <1>5

-----------------------------------------------------------------------------
(* The sum of a sequence. *)
LEMMA SumAppend ==
    ASSUME NEW q \in Seq(Nat), NEW e \in Nat
    PROVE  SumFunctionOnSet(Append(q, e), DOMAIN Append(q, e))
             = SumFunctionOnSet(q, DOMAIN q) + e
<1> DEFINE r == Append(q, e)
           n == Len(q) + 1
           R == DOMAIN r
           S == DOMAIN q
<1>1. /\ r \in Seq(Nat) /\ n \in Nat /\ R = 1..n /\ S = 1..(n - 1)
      /\ r[n] = e /\ \A k \in S : r[k] = q[k]
  OBVIOUS
<1>2. /\ \A k \in R : r[k] \in Int
      /\ \A k \in S : q[k] \in Int /\ r[k] = q[k]
      /\ n \in R /\ S = R \ {n}
  BY <1>1
<1>3. IsFiniteSet(R) /\ IsFiniteSet(S)
  BY <1>1, FS_Interval
<1> HIDE DEF r, n, R, S
<1>4. SumFunctionOnSet(r, R) = r[n] + SumFunctionOnSet(r, S)
  BY <1>2, <1>3, SumAny
<1>5. SumFunctionOnSet(r, S) = SumFunctionOnSet(q, S)
  BY <1>2, <1>3, SumSame
<1>6. SumFunctionOnSet(q, S) \in Int
  BY <1>2, <1>3, SumType
<1>7. SumFunctionOnSet(r, R) = SumFunctionOnSet(q, S) + e
  BY <1>1, <1>4, <1>5, <1>6
<1> QED
  BY <1>7 DEF r, R, S

(* A sequence of one element.                                              *)
LEMMA OneElement ==
    ASSUME NEW S, NEW q \in Seq(S), Len(q) = 1
    PROVE  Tail(q) = << >> /\ DOMAIN Tail(q) = {} /\ DOMAIN q = {1} /\ q[1] \in S
<1>1. Tail(q) \in Seq(S) /\ Len(Tail(q)) = 0
  OBVIOUS
<1>2. Tail(q) = << >>
  <2> DEFINE r == Tail(q)
  <2>1. r \in Seq(S) /\ Len(r) = 0
    BY <1>1
  <2> HIDE DEF r
  <2>2. r = << >>
    BY <2>1
  <2> QED
    BY <2>2 DEF r
<1>3. DOMAIN q = 1..1 /\ q[1] \in S /\ 1..1 = {1}
  OBVIOUS
<1> QED
  BY <1>2, <1>3

(* The first element of a sequence, and the sum of the others.             *)
LEMMA SumTail ==
    ASSUME NEW q \in Seq(Nat), q # << >>
    PROVE  SumFunctionOnSet(q, DOMAIN q)
             = q[1] + SumFunctionOnSet(Tail(q), DOMAIN Tail(q))
<1> DEFINE Splits(b) == SumFunctionOnSet(b, DOMAIN b)
                          = b[1] + SumFunctionOnSet(Tail(b), DOMAIN Tail(b))
           P == {n \in Nat : \A b \in Seq(Nat) : Len(b) = n + 1 => Splits(b)}
<1>1. 0 \in P
  <2> SUFFICES ASSUME NEW b \in Seq(Nat), Len(b) = 1 PROVE Splits(b)
    OBVIOUS
  <2>1. Tail(b) = << >> /\ DOMAIN Tail(b) = {} /\ DOMAIN b = {1} /\ b[1] \in Nat
    BY OneElement
  <2>2. SumFunctionOnSet(Tail(b), {}) = 0 /\ SumFunctionOnSet(b, {}) = 0
    BY SumEmpty
  <2>3. IsFiniteSet({1}) /\ {1} \ {1} = {}
    BY FS_Singleton
  <2>4. SumFunctionOnSet(b, {1}) = b[1] + SumFunctionOnSet(b, {1} \ {1})
    <3>1. 1 \in {1} /\ \A x \in {1} : b[x] \in Int
      BY <2>1
    <3> QED
      BY <2>3, <3>1, SumAny
  <2> QED
    BY <2>1, <2>2, <2>3, <2>4
<1>2. ASSUME NEW n \in P PROVE n + 1 \in P
  <2>0. n \in Nat
    OBVIOUS
  <2> SUFFICES ASSUME NEW b \in Seq(Nat), Len(b) = n + 2 PROVE Splits(b)
    BY <2>0
  <2> DEFINE c == SubSeq(b, 1, n + 1)
             e == b[n + 2]
  <2>1. /\ c \in Seq(Nat) /\ Len(c) = n + 1 /\ e \in Nat
        /\ \A k \in 1..(n + 1) : c[k] = b[k]
    BY <2>0
  <2>2. b = Append(c, e)
    BY <2>0, <2>1
  <2> HIDE DEF c, e
  <2>3. c # << >> /\ Tail(c) \in Seq(Nat) /\ b[1] = c[1] /\ c[1] \in Nat
    BY <2>0, <2>1
  <2>4. Tail(b) = Append(Tail(c), e)
    BY <2>0, <2>1, <2>2, <2>3
  <2>5. Splits(c)
    BY <2>1, <1>2
  <2>6. SumFunctionOnSet(b, DOMAIN b) = SumFunctionOnSet(c, DOMAIN c) + e
    BY <2>1, <2>2, SumAppend
  <2>7. SumFunctionOnSet(Tail(b), DOMAIN Tail(b))
          = SumFunctionOnSet(Tail(c), DOMAIN Tail(c)) + e
    BY <2>1, <2>3, <2>4, SumAppend
  <2>8. SumFunctionOnSet(Tail(c), DOMAIN Tail(c)) \in Int
    <3> DEFINE d == Tail(c)
    <3>1. d \in Seq(Nat) /\ DOMAIN d = 1..Len(d) /\ Len(d) \in Nat
      BY <2>3
    <3>2. IsFiniteSet(DOMAIN d) /\ \A x \in DOMAIN d : d[x] \in Int
      <4>1. \A x \in DOMAIN d : d[x] \in Int
        BY <3>1
      <4>2. IsFiniteSet(1..Len(d))
        BY <3>1, FS_Interval
      <4> QED
        BY <3>1, <4>1, <4>2
    <3> HIDE DEF d
    <3>3. SumFunctionOnSet(d, DOMAIN d) \in Int
      BY <3>2, SumType
    <3> QED
      BY <3>3 DEF d
  <2> QED
    BY <2>1, <2>3, <2>5, <2>6, <2>7, <2>8
<1>3. P = Nat
  <2>1. P \in SUBSET Nat /\ \A n \in P : n + 1 \in P
    BY <1>2
  <2> HIDE DEF P
  <2> QED
    BY <1>1, <2>1, SetInduction
<1>4. Len(q) - 1 \in P /\ Len(q) - 1 + 1 = Len(q)
  <2>1. Len(q) - 1 \in Nat /\ Len(q) - 1 + 1 = Len(q)
    OBVIOUS
  <2> QED
    BY <1>3, <2>1
<1> QED
  BY <1>4

-----------------------------------------------------------------------------
(* A positive factor may be cancelled from a comparison.                   *)
LEMMA Cancel ==
    ASSUME NEW a \in Int, NEW b \in Int, NEW q \in Nat \ {0}
    PROVE  /\ a * q >= b * q => a >= b
           /\ a >= b => a * q >= b * q
           /\ a > b => a * q > b * q
<1>1. a >= b => a * q >= b * q
  <2> SUFFICES ASSUME a >= b PROVE (a - b) * q >= 0
    OBVIOUS
  <2>1. a - b \in Nat
    OBVIOUS
  <2> QED
    BY <2>1
<1>2. a > b => a * q > b * q
  <2> SUFFICES ASSUME a > b PROVE (a - b) * q > 0
    OBVIOUS
  <2>1. a - b \in Nat \ {0}
    OBVIOUS
  <2> QED
    BY <2>1
<1>3. b > a => b * q > a * q
  <2> SUFFICES ASSUME b > a PROVE (b - a) * q > 0
    OBVIOUS
  <2>1. b - a \in Nat \ {0}
    OBVIOUS
  <2> QED
    BY <2>1
<1>4. a * q \in Int /\ b * q \in Int
  OBVIOUS
<1> QED
  BY <1>1, <1>2, <1>3, <1>4

(* What integer division returns.                                          *)
LEMMA Quotient ==
    ASSUME NEW a \in Nat, NEW b \in Nat \ {0}
    PROVE  /\ a \div b \in Nat
           /\ (a \div b) * b <= a
           /\ a < (a \div b + 1) * b
<1>1. a \div b \in Nat
  OBVIOUS
<1>2. a % b \in 0..(b - 1)
  OBVIOUS
<1>3. a = b * (a \div b) + (a % b)
  OBVIOUS
<1> QED
  BY <1>1, <1>2, <1>3

(* The division of a multiple.                                             *)
LEMMA ExactQuotient ==
    ASSUME NEW k \in Nat, NEW b \in Nat \ {0}
    PROVE  (b * k) \div b = k
<1> DEFINE a == b * k
           x == a \div b
<1>1. a \in Nat /\ a = k * b
  OBVIOUS
<1>2. x \in Nat /\ x * b <= a /\ a < (x + 1) * b
  <2> HIDE DEF a
  <2> QED
    BY <1>1, Quotient
<1> HIDE DEF x, a
<1>3. k >= x
  BY <1>1, <1>2, Cancel
<1>4. x + 1 > k
  <2>1. ~(k >= x + 1)
    <3> SUFFICES ASSUME k >= x + 1 PROVE FALSE
      OBVIOUS
    <3>1. k * b >= (x + 1) * b
      BY <1>2, Cancel
    <3>2. (x + 1) * b \in Int
      BY <1>2
    <3> QED
      BY <1>1, <1>2, <3>1, <3>2
  <2> QED
    BY <1>2, <2>1
<1> QED
  BY <1>2, <1>3, <1>4 DEF x, a

(* The sum over a part of a set of natural numbers is not larger.          *)
LEMMA SumPart ==
    ASSUME NEW S, IsFiniteSet(S), NEW T \in SUBSET S, NEW f, \A x \in S : f[x] \in Nat
    PROVE  SumFunctionOnSet(f, T) <= SumFunctionOnSet(f, S)
<1> DEFINE P == {s \in SUBSET S : SumFunctionOnSet(f, s \cap T) <= SumFunctionOnSet(f, s)}
<1>1. ASSUME NEW s \in SUBSET S, \A x \in s : s \ {x} \in P
      PROVE  s \in P
  <2>1. CASE s = {}
    BY <2>1, SumEmpty
  <2>2. CASE s # {}
    <3>1. PICK x \in s : TRUE
      BY <2>2
    <3>2. /\ IsFiniteSet(s) /\ IsFiniteSet(s \cap T)
          /\ IsFiniteSet(s \ {x}) /\ IsFiniteSet((s \cap T) \ {x})
      BY FS_Subset
    <3>3. \A y \in S : f[y] \in Nat /\ f[y] \in Int
      OBVIOUS
    <3>4. SumFunctionOnSet(f, s) = f[x] + SumFunctionOnSet(f, s \ {x})
      BY <3>2, <3>3, SumAny
    <3>5. /\ SumFunctionOnSet(f, s \ {x}) \in Int
          /\ SumFunctionOnSet(f, s \cap T) \in Int
          /\ SumFunctionOnSet(f, (s \cap T) \ {x}) \in Int
      BY <3>2, <3>3, SumType
    <3>6. SumFunctionOnSet(f, (s \ {x}) \cap T) <= SumFunctionOnSet(f, s \ {x})
      BY <1>1
    <3>9. f[x] \in Nat
      BY <3>3
    <3>7. CASE x \in T
      <4> DEFINE u == (s \cap T) \ {x}
      <4>1. x \in s \cap T /\ (s \ {x}) \cap T = u
        BY <3>7
      <4>2. SumFunctionOnSet(f, s \cap T) = f[x] + SumFunctionOnSet(f, u)
        BY <3>2, <3>3, <4>1, SumAny
      <4>3. SumFunctionOnSet(f, u) <= SumFunctionOnSet(f, s \ {x})
        BY <3>6, <4>1
      <4>4. SumFunctionOnSet(f, u) \in Int
        BY <3>5
      <4> HIDE DEF u
      <4> QED
        BY <3>9, <3>4, <3>5, <4>2, <4>3, <4>4
    <3>8. CASE x \notin T
      <4>1. (s \ {x}) \cap T = s \cap T
        BY <3>8
      <4>2. SumFunctionOnSet(f, s \cap T) <= SumFunctionOnSet(f, s \ {x})
        BY <3>6, <4>1
      <4> QED
        BY <3>9, <3>4, <3>5, <4>2
    <3> QED
      BY <3>7, <3>8
  <2> QED BY <2>1, <2>2
<1>2. P = SUBSET S
  <2>1. \A s \in SUBSET S : (\A x \in s : s \ {x} \in P) => s \in P
    BY <1>1
  <2>2. P \in SUBSET SUBSET S
    OBVIOUS
  <2> HIDE DEF P
  <2> QED BY <2>1, <2>2, SubsetInduction
<1>3. S \in P /\ S \cap T = T
  BY <1>2
<1> QED BY <1>3

(* Shares in proportion to weights, rounded down, do not exceed the whole. *)
LEMMA SharesOfWhole ==
    ASSUME NEW S, IsFiniteSet(S), NEW T \in SUBSET S, NEW w, NEW f, NEW whole \in Nat,
           \A x \in S : w[x] \in Nat,
           \A x \in T : /\ w[x] # 0
                        /\ f[x] \in Int
                        /\ f[x] * SumFunctionOnSet(w, S) <= w[x] * whole
    PROVE  SumFunctionOnSet(f, T) <= whole
<1> DEFINE W == SumFunctionOnSet(w, S)
           F == SumFunctionOnSet(f, T)
           given == [x \in T |-> W * f[x]]
           due == [x \in T |-> whole * w[x]]
<1>1. W \in Nat /\ \A x \in S : w[x] <= W
  BY SumNonNegative
<1>2. IsFiniteSet(T) /\ \A x \in T : w[x] \in Nat /\ w[x] \in Int /\ f[x] \in Int
  BY FS_Subset
<1>3. F \in Int /\ SumFunctionOnSet(w, T) \in Int
  BY <1>2, SumType
<1>4. SumFunctionOnSet(w, T) <= W
  BY SumPart
<1>5. CASE T = {}
  BY <1>5, SumEmpty
<1>6. CASE T # {}
  <2>1. W \in Nat \ {0}
    <3>1. PICK x \in T : TRUE
      BY <1>6
    <3> QED
      BY <1>1, <1>2, <3>1
  <2>2. \A x \in T : f[x] * W <= w[x] * whole
    OBVIOUS
  <2> HIDE DEF W
  <2>3. \A x \in T : /\ given[x] \in Int /\ given[x] = W * f[x]
                     /\ due[x] \in Int /\ due[x] = whole * w[x]
                     /\ given[x] <= due[x]
    <3> SUFFICES ASSUME NEW x \in T
                 PROVE  /\ W * f[x] \in Int /\ whole * w[x] \in Int
                        /\ W * f[x] <= whole * w[x]
      OBVIOUS
    <3>1. f[x] \in Int /\ w[x] \in Int /\ f[x] * W <= w[x] * whole
      BY <1>2, <2>2
    <3>2. W * f[x] = f[x] * W /\ whole * w[x] = w[x] * whole
      BY <2>1, <3>1
    <3> QED
      BY <2>1, <3>1, <3>2
  <2> HIDE DEF given, due
  <2>4. SumFunctionOnSet(given, T) <= SumFunctionOnSet(due, T)
    BY <1>2, <2>3, SumMonotone
  <2>5. SumFunctionOnSet(given, T) = W * F
    BY <1>2, <2>1, <2>3, SumScaled
  <2>6. SumFunctionOnSet(due, T) = whole * SumFunctionOnSet(w, T)
    BY <1>2, <2>3, SumScaled
  <2> HIDE DEF F
  <2>7. whole * SumFunctionOnSet(w, T) <= whole * W
    <3>1. \A a, b \in Int : a <= b => whole * a <= whole * b
      <4> SUFFICES ASSUME NEW a \in Int, NEW b \in Int, a <= b PROVE whole * (b - a) >= 0
        OBVIOUS
      <4>1. b - a \in Nat
        OBVIOUS
      <4> QED
        BY <4>1
    <3> QED
      BY <1>3, <1>4, <2>1, <3>1
  <2>8. whole * W >= F * W
    BY <1>3, <2>1, <2>4, <2>5, <2>6, <2>7
  <2>9. whole >= F
    BY <1>3, <2>1, <2>8, Cancel
  <2> QED
    BY <1>3, <2>9 DEF F
<1> QED BY <1>5, <1>6

-----------------------------------------------------------------------------
(* The pointers of list.h implement the sequences that the queues are in   *)
(* SedfQueues: for lists of any length, what the code does to next and     *)
(* prev is what ListInsertSort and DelFromQ do to the sequence that they   *)
(* represent.                                                              *)

(* A list of distinct nodes around a head, and its two pointer fields.     *)
CircularList(l, Nodes, Targets, head, q) ==
    /\ Nodes \subseteq Targets
    /\ l.next \in [Nodes -> Targets]
    /\ l.prev \in [Nodes -> Targets]
    /\ head \in Nodes
    /\ q \in Seq(Nodes)
    /\ NoDuplicates(q)
    /\ ~OnQ(q, head)
    /\ Represents(l, head, q)

(* m changes no pointer but those of n and of the list.                    *)
OnlyHere(l, m, Nodes, head, q, n) ==
    \A o \in Nodes \ {n} :
        o # head /\ ~OnQ(q, o) => m.next[o] = l.next[o] /\ m.prev[o] = l.prev[o]

(* The stops of a walk from the head to the head are distinct nodes.       *)
LEMMA StopsDistinct ==
    ASSUME NEW Nodes, NEW head \in Nodes, NEW q \in Seq(Nodes),
           NoDuplicates(q), ~OnQ(q, head)
    PROVE  /\ NodeAt(q, head, 0) = head
           /\ NodeAt(q, head, Len(q) + 1) = head
           /\ \A i \in 0..(Len(q) + 1) : NodeAt(q, head, i) \in Nodes
           /\ \A i, j \in 0..Len(q) :
                 NodeAt(q, head, i) = NodeAt(q, head, j) => i = j
           /\ \A i, j \in 1..(Len(q) + 1) :
                 NodeAt(q, head, i) = NodeAt(q, head, j) => i = j
<1>1. Len(q) \in Nat /\ \A i \in 1..Len(q) : q[i] \in Nodes /\ q[i] # head
  BY DEF OnQ
<1> QED
  BY <1>1 DEF NodeAt, NoDuplicates

(* __list_add between two neighbours of a list inserts between them. *)
LEMMA AddedBetween ==
    ASSUME NEW Nodes, NEW Targets, NEW l, NEW head, NEW q,
           CircularList(l, Nodes, Targets, head, q),
           NEW n \in Nodes, n # head, ~OnQ(q, n),
           NEW k \in 0..Len(q), NEW r \in Seq(Nodes),
           Len(r) = Len(q) + 1,
           \A i \in 1..Len(r) :
              r[i] = IF i <= k THEN q[i] ELSE IF i = k + 1 THEN n ELSE q[i - 1]
    PROVE  LET m == list_add_between(l, n, NodeAt(q, head, k), NodeAt(q, head, k + 1))
           IN  /\ CircularList(m, Nodes, Targets, head, r)
               /\ OnlyHere(l, m, Nodes, head, q, n)
<1> DEFINE at(i) == NodeAt(q, head, i)
           new == list_add_between(l, n, at(k), at(k + 1))
<1>1. /\ Nodes \subseteq Targets
      /\ l.next \in [Nodes -> Targets] /\ l.prev \in [Nodes -> Targets]
      /\ head \in Nodes /\ q \in Seq(Nodes) /\ NoDuplicates(q) /\ ~OnQ(q, head)
      /\ Len(q) \in Nat
  BY DEF CircularList
<1>2. /\ \A i \in 0..(Len(q) + 1) : at(i) \in Nodes /\ at(i) # n
      /\ \A i, j \in 0..Len(q) : at(i) = at(j) => i = j
      /\ \A i, j \in 1..(Len(q) + 1) : at(i) = at(j) => i = j
  BY <1>1, StopsDistinct DEF OnQ, NodeAt
<1>3. \A i \in 0..Len(q) : l.next[at(i)] = at(i + 1) /\ l.prev[at(i + 1)] = at(i)
  BY DEF CircularList, Represents
<1>4. \A i \in 0..(Len(r) + 1) :
         NodeAt(r, head, i) = IF i <= k THEN at(i)
                              ELSE IF i = k + 1 THEN n ELSE at(i - 1)
  BY <1>1 DEF NodeAt
<1>5. /\ new.next = [l.next EXCEPT ![n] = at(k + 1), ![at(k)] = n]
      /\ new.prev = [l.prev EXCEPT ![at(k + 1)] = n, ![n] = at(k)]
  BY DEF list_add_between
<1> HIDE DEF at, new
<1>6. at(k) \in Nodes /\ at(k + 1) \in Nodes /\ at(k) # n /\ at(k + 1) # n
  BY <1>1, <1>2
<1>7. /\ new.next \in [Nodes -> Targets]
      /\ new.next[at(k)] = n /\ new.next[n] = at(k + 1)
      /\ \A m \in Nodes : m # n /\ m # at(k) => new.next[m] = l.next[m]
  BY <1>1, <1>5, <1>6
<1>8. /\ new.prev \in [Nodes -> Targets]
      /\ new.prev[at(k + 1)] = n /\ new.prev[n] = at(k)
      /\ \A m \in Nodes : m # n /\ m # at(k + 1) => new.prev[m] = l.prev[m]
  BY <1>1, <1>5, <1>6
<1>9. Represents(new, head, r)
  <2> SUFFICES ASSUME NEW i \in 0..Len(r)
               PROVE  /\ new.next[NodeAt(r, head, i)] = NodeAt(r, head, i + 1)
                      /\ new.prev[NodeAt(r, head, i + 1)] = NodeAt(r, head, i)
    BY DEF Represents
  <2>1. CASE i < k
    <3>1. i \in 0..Len(q) /\ i + 1 \in 1..(Len(q) + 1) /\ i # k /\ i + 1 # k + 1
      BY <1>1, <2>1
    <3>2. NodeAt(r, head, i) = at(i) /\ NodeAt(r, head, i + 1) = at(i + 1)
      BY <1>1, <1>4, <2>1
    <3>3. at(i) # at(k) /\ at(i + 1) # at(k + 1)
      BY <1>1, <1>2, <3>1
    <3>4. /\ at(i) \in Nodes /\ at(i) # n
          /\ at(i + 1) \in Nodes /\ at(i + 1) # n
      BY <1>2, <3>1
    <3> QED
      BY <1>3, <1>7, <1>8, <3>1, <3>2, <3>3, <3>4
  <2>2. CASE i = k
    <3>1. NodeAt(r, head, i) = at(k) /\ NodeAt(r, head, i + 1) = n
      BY <1>1, <1>4, <2>2
    <3> QED
      BY <1>7, <1>8, <3>1
  <2>3. CASE i = k + 1
    <3>1. NodeAt(r, head, i) = n /\ NodeAt(r, head, i + 1) = at(k + 1)
      BY <1>1, <1>4, <2>3
    <3> QED
      BY <1>7, <1>8, <3>1
  <2>4. CASE i > k + 1
    <3> DEFINE j == i - 1
    <3>1. /\ j \in 0..Len(q) /\ j + 1 \in 1..(Len(q) + 1) /\ j # k /\ j + 1 # k + 1
          /\ j + 1 = i
      BY <1>1, <2>4
    <3>2. NodeAt(r, head, i) = at(j) /\ NodeAt(r, head, i + 1) = at(j + 1)
      BY <1>1, <1>4, <2>4
    <3> HIDE DEF j
    <3>3. at(j) # at(k) /\ at(j + 1) # at(k + 1)
      BY <1>1, <1>2, <3>1
    <3>4. /\ at(j) \in Nodes /\ at(j) # n
          /\ at(j + 1) \in Nodes /\ at(j + 1) # n
      BY <1>2, <3>1
    <3> QED
      BY <1>3, <1>7, <1>8, <3>1, <3>2, <3>3, <3>4
  <2> QED
    BY <1>1, <2>1, <2>2, <2>3, <2>4
<1>10. NoDuplicates(r) /\ ~OnQ(r, head)
  <2>1. \A i \in 1..Len(q) : q[i] # n /\ q[i] # head
    BY <1>1 DEF OnQ
  <2>2. ASSUME NEW i \in 1..Len(r), NEW j \in 1..Len(r), r[i] = r[j] PROVE i = j
    <3>1. \A a, b \in 1..Len(q) : q[a] = q[b] => a = b
      BY <1>1 DEF NoDuplicates
    <3>2. \A m \in 1..Len(r) :
             /\ m <= k => m \in 1..Len(q) /\ r[m] = q[m]
             /\ m = k + 1 => r[m] = n
             /\ m > k + 1 => m - 1 \in 1..Len(q) /\ r[m] = q[m - 1]
      BY <1>1
    <3>3. \A m \in 1..Len(r) : r[m] = n => m = k + 1
      BY <1>1, <2>1, <3>2
    <3>4. CASE i = k + 1 \/ j = k + 1
      BY <1>1, <2>2, <3>2, <3>3, <3>4
    <3>5. CASE i # k + 1 /\ j # k + 1
      <4> DEFINE a == IF i <= k THEN i ELSE i - 1
                 b == IF j <= k THEN j ELSE j - 1
      <4>1. /\ a \in 1..Len(q) /\ b \in 1..Len(q)
            /\ r[i] = q[a] /\ r[j] = q[b]
        BY <1>1, <3>2, <3>5
      <4> HIDE DEF a, b
      <4>2. a = b
        BY <2>2, <3>1, <4>1
      <4> QED
        BY <1>1, <3>5, <4>2 DEF a, b
    <3> QED
      BY <3>4, <3>5
  <2>3. ASSUME NEW i \in 1..Len(r) PROVE r[i] # head
    <3>1. CASE i <= k
      BY <1>1, <2>1, <3>1
    <3>2. CASE i = k + 1
      BY <3>2
    <3>3. CASE i > k + 1
      <4>1. i - 1 \in 1..Len(q) /\ r[i] = q[i - 1]
        BY <1>1, <3>3
      <4> QED
        BY <2>1, <4>1
    <3> QED
      BY <1>1, <3>1, <3>2, <3>3
  <2> QED
    BY <2>2, <2>3 DEF NoDuplicates, OnQ
<1>11. OnlyHere(l, new, Nodes, head, q, n)
  <2>1. /\ at(k) = head \/ OnQ(q, at(k))
        /\ at(k + 1) = head \/ OnQ(q, at(k + 1))
    BY <1>1 DEF at, NodeAt, OnQ
  <2> QED
    BY <1>7, <1>8, <2>1 DEF OnlyHere
<1> QED
  BY <1>1, <1>7, <1>8, <1>9, <1>10, <1>11 DEF CircularList, new, at

-----------------------------------------------------------------------------
(* list_add_tail appends. *)
LEMMA AddedAtTail ==
    ASSUME NEW Nodes, NEW Targets, NEW l, NEW head, NEW q,
           CircularList(l, Nodes, Targets, head, q),
           NEW n \in Nodes, n # head, ~OnQ(q, n)
    PROVE  LET m == list_add_tail(l, n, head)
           IN  /\ CircularList(m, Nodes, Targets, head, Append(q, n))
               /\ OnlyHere(l, m, Nodes, head, q, n)
               /\ m = list_add(l, n, l.prev[head])
<1> DEFINE k == Len(q)
           r == Append(q, n)
<1>1. head \in Nodes /\ q \in Seq(Nodes) /\ NoDuplicates(q) /\ ~OnQ(q, head)
  BY DEF CircularList
<1>2. /\ r \in Seq(Nodes) /\ Len(r) = Len(q) + 1 /\ k \in 0..Len(q)
      /\ \A i \in 1..Len(r) :
            r[i] = IF i <= k THEN q[i] ELSE IF i = k + 1 THEN n ELSE q[i - 1]
  BY <1>1
<1>3. NodeAt(q, head, k + 1) = head
  BY <1>1 DEF NodeAt
<1>4. l.prev[head] = NodeAt(q, head, k) /\ l.next[NodeAt(q, head, k)] = head
  BY <1>2, <1>3 DEF CircularList, Represents
<1> HIDE DEF r, k
<1> DEFINE m == list_add_between(l, n, NodeAt(q, head, k), NodeAt(q, head, k + 1))
<1>5. CircularList(m, Nodes, Targets, head, r) /\ OnlyHere(l, m, Nodes, head, q, n)
  BY <1>2, AddedBetween
<1> QED
  BY <1>3, <1>4, <1>5 DEF list_add_tail, list_add, r

(* list_add behind the node before the i-th inserts there.                 *)
LEMMA AddedInFront ==
    ASSUME NEW Nodes, NEW Targets, NEW l, NEW head, NEW q,
           CircularList(l, Nodes, Targets, head, q),
           NEW n \in Nodes, n # head, ~OnQ(q, n), NEW i \in 1..Len(q)
    PROVE  LET m == list_add(l, n, l.prev[q[i]])
           IN  /\ CircularList(m, Nodes, Targets, head, InsertAt(q, i, n))
               /\ OnlyHere(l, m, Nodes, head, q, n)
<1> DEFINE k == i - 1
           r == InsertAt(q, i, n)
<1>1. head \in Nodes /\ q \in Seq(Nodes) /\ NoDuplicates(q) /\ ~OnQ(q, head)
  BY DEF CircularList
<1>2. /\ r \in Seq(Nodes) /\ Len(r) = Len(q) + 1
      /\ \A j \in 1..(Len(q) + 1) :
            r[j] = IF j < i THEN q[j] ELSE IF j = i THEN n ELSE q[j - 1]
  <2>1. n \in Nodes /\ q \in Seq(Nodes) /\ i \in 1..Len(q)
    BY <1>1
  <2> QED
    BY <2>1, InsertAtElements
<1>3. k \in 0..Len(q) /\ k + 1 = i
  BY <1>1
<1>4. \A j \in 1..Len(r) :
         r[j] = IF j <= k THEN q[j] ELSE IF j = k + 1 THEN n ELSE q[j - 1]
  BY <1>1, <1>2
<1> HIDE DEF r, k
<1> DEFINE m == list_add_between(l, n, NodeAt(q, head, k), NodeAt(q, head, k + 1))
<1>5. CircularList(m, Nodes, Targets, head, r) /\ OnlyHere(l, m, Nodes, head, q, n)
  BY <1>2, <1>3, <1>4, AddedBetween
<1>6. /\ l.prev[NodeAt(q, head, k + 1)] = NodeAt(q, head, k)
      /\ l.next[NodeAt(q, head, k)] = NodeAt(q, head, k + 1)
  BY <1>3 DEF CircularList, Represents
<1>7. NodeAt(q, head, k + 1) = q[i]
  BY <1>3 DEF NodeAt
<1> QED
  BY <1>5, <1>6, <1>7 DEF list_add, r

(* list_del takes its node off, whose neighbours are linked as its         *)
(* assertions demand.                                                      *)
LEMMA Deleted ==
    ASSUME NEW Nodes, NEW Targets, NEW l, NEW head, NEW q,
           CircularList(l, Nodes, Targets, head, q),
           LIST_POISON1 \in Targets, LIST_POISON2 \in Targets,
           NEW k \in 1..Len(q)
    PROVE  /\ LinkedIn(l, q[k])
           /\ CircularList(list_del(l, q[k]), Nodes, Targets, head, RemoveAt(q, k))
           /\ OnlyHere(l, list_del(l, q[k]), Nodes, head, q, q[k])
<1> DEFINE at(i) == NodeAt(q, head, i)
           n == q[k]
           r == RemoveAt(q, k)
           new == list_del(l, n)
<1>1. /\ Nodes \subseteq Targets
      /\ l.next \in [Nodes -> Targets] /\ l.prev \in [Nodes -> Targets]
      /\ head \in Nodes /\ q \in Seq(Nodes) /\ NoDuplicates(q) /\ ~OnQ(q, head)
      /\ Len(q) \in Nat
  BY DEF CircularList
<1>2. /\ \A i \in 0..(Len(q) + 1) : at(i) \in Nodes
      /\ \A i, j \in 0..Len(q) : at(i) = at(j) => i = j
      /\ \A i, j \in 1..(Len(q) + 1) : at(i) = at(j) => i = j
  BY <1>1, StopsDistinct
<1>3. \A i \in 0..Len(q) : l.next[at(i)] = at(i + 1) /\ l.prev[at(i + 1)] = at(i)
  BY DEF CircularList, Represents
<1>4. /\ r \in Seq(Nodes) /\ Len(r) = Len(q) - 1
      /\ \A i \in 1..(Len(q) - 1) : r[i] = IF i < k THEN q[i] ELSE q[i + 1]
  BY <1>1, RemoveAtElements
<1>5. \A i \in 0..Len(q) :
         NodeAt(r, head, i) = IF i < k THEN at(i) ELSE at(i + 1)
  BY <1>1, <1>4 DEF NodeAt
<1>6. n = at(k) /\ at(k) \in Nodes
  BY <1>1 DEF NodeAt
<1>7. /\ k - 1 \in 0..Len(q) /\ (k - 1) + 1 = k
      /\ at(k - 1) \in Nodes /\ at(k + 1) \in Nodes
  BY <1>1, <1>2
<1>8. l.prev[n] = at(k - 1) /\ l.next[n] = at(k + 1)
  BY <1>3, <1>6, <1>7
<1>9. LinkedIn(l, n)
  BY <1>3, <1>6, <1>7, <1>8 DEF LinkedIn
<1>10. /\ new.next = [l.next EXCEPT ![at(k - 1)] = at(k + 1), ![n] = LIST_POISON1]
       /\ new.prev = [l.prev EXCEPT ![at(k + 1)] = at(k - 1), ![n] = LIST_POISON2]
  BY <1>8 DEF list_del
<1> HIDE DEF at, new, n, r
<1>11. at(k - 1) # n /\ at(k + 1) # n
  <2>1. k \in 0..Len(q) /\ k \in 1..(Len(q) + 1) /\ k + 1 \in 1..(Len(q) + 1)
    BY <1>1
  <2> QED
    BY <1>2, <1>6, <1>7, <2>1
<1>12. /\ new.next \in [Nodes -> Targets]
       /\ new.next[at(k - 1)] = at(k + 1)
       /\ \A m \in Nodes : m # n /\ m # at(k - 1) => new.next[m] = l.next[m]
  BY <1>1, <1>6, <1>7, <1>10, <1>11
<1>13. /\ new.prev \in [Nodes -> Targets]
       /\ new.prev[at(k + 1)] = at(k - 1)
       /\ \A m \in Nodes : m # n /\ m # at(k + 1) => new.prev[m] = l.prev[m]
  BY <1>1, <1>6, <1>7, <1>10, <1>11
<1>14. Represents(new, head, r)
  <2> SUFFICES ASSUME NEW i \in 0..Len(r)
               PROVE  /\ new.next[NodeAt(r, head, i)] = NodeAt(r, head, i + 1)
                      /\ new.prev[NodeAt(r, head, i + 1)] = NodeAt(r, head, i)
    BY DEF Represents
  <2>0. i \in 0..Len(q) /\ i + 1 \in 0..Len(q)
    BY <1>1, <1>4
  <2>1. CASE i < k - 1
    <3>1. NodeAt(r, head, i) = at(i) /\ NodeAt(r, head, i + 1) = at(i + 1)
      BY <1>1, <1>5, <2>0, <2>1
    <3>2. at(i) # n /\ at(i + 1) # n
      BY <1>1, <1>2, <1>6, <2>0, <2>1
    <3>3. at(i) # at(k - 1) /\ at(i + 1) # at(k + 1)
      BY <1>1, <1>2, <1>7, <2>0, <2>1
    <3>4. at(i) \in Nodes /\ at(i + 1) \in Nodes
      BY <1>1, <1>2, <2>0
    <3> QED
      BY <1>3, <1>12, <1>13, <2>0, <3>1, <3>2, <3>3, <3>4
  <2>2. CASE i = k - 1
    <3>1. NodeAt(r, head, i) = at(k - 1) /\ NodeAt(r, head, i + 1) = at(k + 1)
      BY <1>1, <1>5, <1>7, <2>0, <2>2
    <3> QED
      BY <1>12, <1>13, <3>1
  <2>3. CASE i > k - 1
    <3> DEFINE j == i + 1
    <3>1. /\ NodeAt(r, head, i) = at(j) /\ NodeAt(r, head, i + 1) = at(j + 1)
          /\ j \in 0..Len(q) /\ j \in 1..(Len(q) + 1) /\ j + 1 \in 1..(Len(q) + 1)
          /\ j \in 0..(Len(q) + 1) /\ j + 1 \in 0..(Len(q) + 1)
          /\ j > k
      BY <1>1, <1>5, <2>0, <2>3
    <3> HIDE DEF j
    <3>2. at(j) # n /\ at(j + 1) # n
      BY <1>1, <1>2, <1>6, <3>1
    <3>3. at(j) # at(k - 1) /\ at(j + 1) # at(k + 1)
      BY <1>1, <1>2, <1>7, <3>1
    <3>4. at(j) \in Nodes /\ at(j + 1) \in Nodes
      BY <1>2, <3>1
    <3> QED
      BY <1>3, <1>12, <1>13, <3>1, <3>2, <3>3, <3>4
  <2> QED
    BY <1>1, <2>0, <2>1, <2>2, <2>3
<1>15. NoDuplicates(r) /\ ~OnQ(r, head)
  <2>1. /\ \A i \in 1..Len(q) : q[i] # head
        /\ \A a, b \in 1..Len(q) : q[a] = q[b] => a = b
    BY <1>1 DEF OnQ, NoDuplicates
  <2>2. \A i \in 1..Len(r) : r[i] # head
    BY <1>1, <1>4, <2>1
  <2>3. \A i, j \in 1..Len(r) : r[i] = r[j] => i = j
    BY <1>1, <1>4, <2>1
  <2> QED
    BY <2>2, <2>3 DEF OnQ, NoDuplicates
<1>16. OnlyHere(l, new, Nodes, head, q, n)
  <2>1. /\ at(k - 1) = head \/ OnQ(q, at(k - 1))
        /\ at(k + 1) = head \/ OnQ(q, at(k + 1))
    BY <1>1 DEF at, NodeAt, OnQ
  <2> QED
    BY <1>12, <1>13, <2>1 DEF OnlyHere
<1> QED
  BY <1>1, <1>4, <1>9, <1>12, <1>13, <1>14, <1>15, <1>16 DEF CircularList, new, r, n

-----------------------------------------------------------------------------
(* Several lists in one memory, as the runqueue and the wait queue share   *)
(* the nodes of the vCPUs: they have no node in common, and the next of a  *)
(* node that is on none of them is NULL or the node itself.                *)
Linked(l, Nodes, Targets, head, qs) ==
    /\ \A i \in DOMAIN qs : CircularList(l, Nodes, Targets, head[i], qs[i])
    /\ \A i, j \in DOMAIN qs :
          i # j => /\ head[i] # head[j]
                   /\ ~OnQ(qs[i], head[j])
                   /\ \A n \in Nodes : ~(OnQ(qs[i], n) /\ OnQ(qs[j], n))
    /\ \A n \in Nodes :
          (\A i \in DOMAIN qs : n # head[i] /\ ~OnQ(qs[i], n))
              => l.next[n] \in {NULL, n}
    /\ {NULL, LIST_POISON1, LIST_POISON2} \subseteq Targets
    /\ NULL \notin Nodes

(* INIT_LIST_HEAD of every node and head: empty lists, and nodes that are  *)
(* on none of them.                                                        *)
LEMMA ListsStartEmpty ==
    ASSUME NEW Nodes, NEW Targets, Nodes \subseteq Targets,
           {NULL, LIST_POISON1, LIST_POISON2} \subseteq Targets, NULL \notin Nodes,
           NEW l, l.next = [n \in Nodes |-> n], l.prev = [n \in Nodes |-> n],
           NEW I, NEW head \in [I -> Nodes],
           \A i, j \in I : i # j => head[i] # head[j]
    PROVE  Linked(l, Nodes, Targets, head, [i \in I |-> << >>])
<1> DEFINE qs == [i \in I |-> << >>]
<1>1. /\ l.next \in [Nodes -> Targets] /\ l.prev \in [Nodes -> Targets]
      /\ \A n \in Nodes : l.next[n] = n /\ l.prev[n] = n
  OBVIOUS
<1>2. ASSUME NEW i \in I PROVE CircularList(l, Nodes, Targets, head[i], << >>)
  <2> DEFINE h == head[i]
  <2>1. h \in Nodes
    OBVIOUS
  <2> HIDE DEF h
  <2>2. \A k : NodeAt(<< >>, h, k) = h
    BY DEF NodeAt
  <2>3. Represents(l, h, << >>)
    BY <1>1, <2>1, <2>2 DEF Represents
  <2>4. NoDuplicates(<< >>) /\ ~OnQ(<< >>, h)
    BY DEF NoDuplicates, OnQ
  <2> QED
    BY <1>1, <2>1, <2>3, <2>4 DEF CircularList, h
<1>3. DOMAIN qs = I /\ \A i \in I : qs[i] = << >> /\ \A n : ~OnQ(qs[i], n)
  BY DEF OnQ
<1> HIDE DEF qs
<1>4. Linked(l, Nodes, Targets, head, qs)
  BY <1>1, <1>2, <1>3 DEF Linked
<1> QED
  BY <1>4 DEF qs

(* A list is left alone by what changes no pointer of it.                  *)
LEMMA OtherList ==
    ASSUME NEW Nodes, NEW Targets, NEW l, NEW head, NEW q,
           CircularList(l, Nodes, Targets, head, q),
           NEW m, m.next \in [Nodes -> Targets], m.prev \in [Nodes -> Targets],
           \A o \in Nodes : o = head \/ OnQ(q, o)
                                => m.next[o] = l.next[o] /\ m.prev[o] = l.prev[o]
    PROVE  CircularList(m, Nodes, Targets, head, q)
<1>1. head \in Nodes /\ q \in Seq(Nodes) /\ Len(q) \in Nat
  BY DEF CircularList
<1>2. \A i \in 0..(Len(q) + 1) :
         /\ NodeAt(q, head, i) \in Nodes
         /\ NodeAt(q, head, i) = head \/ OnQ(q, NodeAt(q, head, i))
  BY <1>1 DEF NodeAt, OnQ
<1>3. \A i \in 0..Len(q) :
         /\ l.next[NodeAt(q, head, i)] = NodeAt(q, head, i + 1)
         /\ l.prev[NodeAt(q, head, i + 1)] = NodeAt(q, head, i)
  BY DEF CircularList, Represents
<1>4. Represents(m, head, q)
  <2> SUFFICES ASSUME NEW i \in 0..Len(q)
               PROVE  /\ m.next[NodeAt(q, head, i)] = NodeAt(q, head, i + 1)
                      /\ m.prev[NodeAt(q, head, i + 1)] = NodeAt(q, head, i)
    BY DEF Represents
  <2>1. i \in 0..(Len(q) + 1) /\ i + 1 \in 0..(Len(q) + 1)
    BY <1>1
  <2> QED
    BY <1>2, <1>3, <2>1
<1> QED
  BY <1>1, <1>4 DEF CircularList

(* __task_on_queue and extraq_on tell whether a node is on one of the      *)
(* lists: OnQ is read off one pointer.                                     *)
THEOREM OnQueueImplemented ==
    ASSUME NEW Nodes, NEW Targets, NEW l, NEW head, NEW qs,
           Linked(l, Nodes, Targets, head, qs),
           NEW n \in Nodes, \A i \in DOMAIN qs : n # head[i]
    PROVE  task_on_queue(l, n) <=> \E i \in DOMAIN qs : OnQ(qs[i], n)
<1>1. ASSUME NEW i \in DOMAIN qs, OnQ(qs[i], n) PROVE task_on_queue(l, n)
  <2> DEFINE q == qs[i]
  <2>1. CircularList(l, Nodes, Targets, head[i], q)
    BY DEF Linked
  <2> HIDE DEF q
  <2>2. /\ head[i] \in Nodes /\ q \in Seq(Nodes) /\ NoDuplicates(q) /\ Len(q) \in Nat
    BY <2>1 DEF CircularList
  <2>3. PICK k \in 1..Len(q) : q[k] = n
    BY <1>1 DEF OnQ, q
  <2>4. l.next[n] = NodeAt(q, head[i], k + 1)
    BY <2>1, <2>2, <2>3 DEF CircularList, Represents, NodeAt
  <2>5. NodeAt(q, head[i], k + 1) \in Nodes \ {n}
    BY <2>2, <2>3 DEF NodeAt, NoDuplicates
  <2> QED
    BY <2>4, <2>5 DEF task_on_queue, Linked
<1>2. CASE \A i \in DOMAIN qs : ~OnQ(qs[i], n)
  BY <1>2 DEF task_on_queue, Linked
<1> QED
  BY <1>1, <1>2

(* The end of the walk of list_insert_sort: the first element with a       *)
(* larger key, or the head.                                                *)
Hole(q, head, v, key) ==
    IF Behind(q, v, key) = {} THEN head ELSE q[Min(Behind(q, v, key))]

list_insert_sort(l, head, q, v, key) == list_add(l, v, l.prev[Hole(q, head, v, key)])

(* list_insert_sort links a node into one of the lists where ListInsertSort*)
(* puts it, and disturbs none of the others.                               *)
THEOREM InsertSortImplemented ==
    ASSUME NEW Nodes, NEW Targets, NEW l, NEW head, NEW qs,
           Linked(l, Nodes, Targets, head, qs), NEW i \in DOMAIN qs,
           NEW v \in Nodes, \A j \in DOMAIN qs : v # head[j] /\ ~OnQ(qs[j], v),
           NEW key
    PROVE  Linked(list_insert_sort(l, head[i], qs[i], v, key), Nodes, Targets, head,
                  [qs EXCEPT ![i] = ListInsertSort(@, v, key)])
<1> DEFINE q == qs[i]
           h == head[i]
           r == ListInsertSort(q, v, key)
           m == list_insert_sort(l, h, q, v, key)
           new == [qs EXCEPT ![i] = r]
<1>1. /\ CircularList(l, Nodes, Targets, h, q) /\ v # h /\ ~OnQ(q, v)
      /\ q \in Seq(Nodes) /\ Len(q) \in Nat /\ h \in Nodes
  BY DEF Linked, CircularList
<1>2. CircularList(m, Nodes, Targets, h, r) /\ OnlyHere(l, m, Nodes, h, q, v)
  <2>1. CASE Behind(q, v, key) = {}
    <3>1. r = Append(q, v) /\ m = list_add(l, v, l.prev[h])
      BY <2>1 DEF ListInsertSort, list_insert_sort, Hole
    <3> HIDE DEF q, h, r, m
    <3> QED
      BY <1>1, <3>1, AddedAtTail
  <2>2. CASE Behind(q, v, key) # {}
    <3> DEFINE k == Min(Behind(q, v, key))
    <3>1. r = InsertAt(q, k, v) /\ m = list_add(l, v, l.prev[q[k]])
      BY <2>2 DEF ListInsertSort, list_insert_sort, Hole
    <3> HIDE DEF q, h, r, m
    <3>2. k \in 1..Len(q)
      BY <1>1, <2>2, BehindProperties
    <3> HIDE DEF k
    <3> QED
      BY <1>1, <3>1, <3>2, AddedInFront
  <2> QED
    BY <2>1, <2>2
<1>3. \A n : OnQ(r, n) <=> n = v \/ OnQ(q, n)
  BY <1>1, InsertProperties
<1>4. /\ DOMAIN new = DOMAIN qs /\ new[i] = r
      /\ \A j \in DOMAIN qs : j # i => new[j] = qs[j]
  OBVIOUS
<1>5. \A j \in DOMAIN qs : \A n : OnQ(new[j], n) <=> OnQ(qs[j], n) \/ (j = i /\ n = v)
  BY <1>3, <1>4
<1> HIDE DEF m, r, new
<1>6. ASSUME NEW j \in DOMAIN qs
      PROVE  CircularList(m, Nodes, Targets, head[j], new[j])
  <2>1. CASE j = i
    BY <1>2, <1>4, <2>1
  <2>2. CASE j # i
    <3> DEFINE g == head[j]
               p == qs[j]
    <3>1. CircularList(l, Nodes, Targets, g, p)
      BY DEF Linked
    <3>2. m.next \in [Nodes -> Targets] /\ m.prev \in [Nodes -> Targets]
      BY <1>2 DEF CircularList
    <3>3. ASSUME NEW o \in Nodes, o = g \/ OnQ(p, o)
          PROVE  m.next[o] = l.next[o] /\ m.prev[o] = l.prev[o]
      <4>1. o # v /\ o # h /\ ~OnQ(q, o)
        BY <2>2, <3>3 DEF Linked
      <4> QED
        BY <1>2, <4>1 DEF OnlyHere
    <3> HIDE DEF g, p
    <3>4. CircularList(m, Nodes, Targets, g, p)
      BY <3>1, <3>2, <3>3, OtherList
    <3> QED
      BY <1>4, <2>2, <3>4 DEF g, p
  <2> QED
    BY <2>1, <2>2
<1>7. ASSUME NEW a \in DOMAIN qs, NEW b \in DOMAIN qs, a # b
      PROVE  /\ head[a] # head[b]
             /\ ~OnQ(new[a], head[b])
             /\ \A n \in Nodes : ~(OnQ(new[a], n) /\ OnQ(new[b], n))
  BY <1>5, <1>7 DEF Linked
<1>8. ASSUME NEW n \in Nodes, \A j \in DOMAIN new : n # head[j] /\ ~OnQ(new[j], n)
      PROVE  m.next[n] \in {NULL, n}
  <2>1. /\ n # v /\ n # h /\ ~OnQ(q, n)
        /\ \A j \in DOMAIN qs : n # head[j] /\ ~OnQ(qs[j], n)
    BY <1>4, <1>5, <1>8
  <2> QED
    BY <1>2, <2>1 DEF OnlyHere, Linked
<1>9. Linked(m, Nodes, Targets, head, new)
  BY <1>4, <1>6, <1>7, <1>8 DEF Linked
<1> QED
  BY <1>9 DEF m, r, new

(* __del_from_queue and extraq_del take a node off the list it is on as    *)
(* DelFromQ does; list_del finds its neighbours linked to it, and the NULL *)
(* that is written last tells the node is on no list.                      *)
THEOREM DelImplemented ==
    ASSUME NEW Nodes, NEW Targets, NEW l, NEW head, NEW qs,
           Linked(l, Nodes, Targets, head, qs), NEW i \in DOMAIN qs,
           NEW v \in Nodes, OnQ(qs[i], v)
    PROVE  /\ LinkedIn(l, v)
           /\ Linked(del_from_queue(l, v), Nodes, Targets, head,
                     [qs EXCEPT ![i] = DelFromQ(@, v)])
<1> DEFINE q == qs[i]
           h == head[i]
           r == DelFromQ(q, v)
           m == del_from_queue(l, v)
           new == [qs EXCEPT ![i] = r]
<1>1. /\ CircularList(l, Nodes, Targets, h, q)
      /\ q \in Seq(Nodes) /\ Len(q) \in Nat /\ h \in Nodes /\ NoDuplicates(q)
      /\ v # h
  BY DEF Linked, CircularList
<1>2. {NULL, LIST_POISON1, LIST_POISON2} \subseteq Targets
  BY DEF Linked
<1>3. /\ LinkedIn(l, v)
      /\ CircularList(list_del(l, v), Nodes, Targets, h, r)
      /\ OnlyHere(l, list_del(l, v), Nodes, h, q, v)
  <2> DEFINE k == CHOOSE k \in 1..Len(q) : q[k] = v
  <2>1. k \in 1..Len(q) /\ q[k] = v
    BY DEF OnQ
  <2>2. r = RemoveAt(q, k)
    BY DEF DelFromQ
  <2> HIDE DEF k, q, h, r
  <2> QED
    BY <1>1, <1>2, <2>1, <2>2, Deleted
<1>4. (\A n : n # v => (OnQ(r, n) <=> OnQ(q, n))) /\ ~OnQ(r, v)
  BY <1>1, DelFromQProperties
<1>5. /\ DOMAIN new = DOMAIN qs /\ new[i] = r
      /\ \A j \in DOMAIN qs : j # i => new[j] = qs[j]
  OBVIOUS
<1>6. \A j \in DOMAIN qs : ~OnQ(new[j], v)
                           /\ \A n : n # v => (OnQ(new[j], n) <=> OnQ(qs[j], n))
  BY <1>4, <1>5 DEF Linked
<1>7. /\ m.next = [list_del(l, v).next EXCEPT ![v] = NULL]
      /\ m.prev = list_del(l, v).prev
  BY DEF del_from_queue, list_del
<1> DEFINE d == list_del(l, v)
<1> HIDE DEF m, r, new, d
<1>8. /\ m.next \in [Nodes -> Targets] /\ m.prev \in [Nodes -> Targets]
      /\ m.next[v] = NULL
      /\ \A o \in Nodes \ {v} : m.next[o] = d.next[o] /\ m.prev[o] = d.prev[o]
  BY <1>2, <1>3, <1>7 DEF CircularList, d
<1>9. ASSUME NEW j \in DOMAIN qs
      PROVE  CircularList(m, Nodes, Targets, head[j], new[j])
  <2>1. CASE j = i
    <3>1. CircularList(d, Nodes, Targets, h, r)
      BY <1>3 DEF d
    <3>2. \A o \in Nodes : o = h \/ OnQ(r, o) => o # v
      BY <1>1, <1>4
    <3>3. \A o \in Nodes : o = h \/ OnQ(r, o)
                               => m.next[o] = d.next[o] /\ m.prev[o] = d.prev[o]
      BY <1>8, <3>2
    <3> HIDE DEF h
    <3>4. CircularList(m, Nodes, Targets, h, r)
      BY <1>8, <3>1, <3>3, OtherList
    <3> QED
      BY <1>5, <2>1, <3>4 DEF h
  <2>2. CASE j # i
    <3> DEFINE g == head[j]
               p == qs[j]
    <3>1. CircularList(l, Nodes, Targets, g, p)
      BY DEF Linked
    <3>2. ASSUME NEW o \in Nodes, o = g \/ OnQ(p, o)
          PROVE  m.next[o] = l.next[o] /\ m.prev[o] = l.prev[o]
      <4>1. o # v /\ o # h /\ ~OnQ(q, o)
        BY <2>2, <3>2 DEF Linked
      <4> QED
        BY <1>3, <1>8, <4>1 DEF OnlyHere, d
    <3> HIDE DEF g, p
    <3>3. CircularList(m, Nodes, Targets, g, p)
      BY <1>8, <3>1, <3>2, OtherList
    <3> QED
      BY <1>5, <2>2, <3>3 DEF g, p
  <2> QED
    BY <2>1, <2>2
<1>10. ASSUME NEW a \in DOMAIN qs, NEW b \in DOMAIN qs, a # b
       PROVE  /\ head[a] # head[b]
              /\ ~OnQ(new[a], head[b])
              /\ \A n \in Nodes : ~(OnQ(new[a], n) /\ OnQ(new[b], n))
  BY <1>6, <1>10 DEF Linked
<1>11. ASSUME NEW n \in Nodes, \A j \in DOMAIN new : n # head[j] /\ ~OnQ(new[j], n)
       PROVE  m.next[n] \in {NULL, n}
  <2>1. CASE n = v
    BY <1>8, <2>1
  <2>2. CASE n # v
    <3>1. /\ n # h /\ ~OnQ(q, n)
          /\ \A j \in DOMAIN qs : n # head[j] /\ ~OnQ(qs[j], n)
      BY <1>5, <1>6, <1>11, <2>2
    <3> QED
      BY <1>3, <1>8, <2>2, <3>1 DEF OnlyHere, Linked, d
  <2> QED
    BY <2>1, <2>2
<1>12. Linked(m, Nodes, Targets, head, new)
  BY <1>5, <1>9, <1>10, <1>11 DEF Linked
<1> QED
  BY <1>3, <1>12 DEF m, r, new
=============================================================================
