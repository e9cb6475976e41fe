-------------------------- MODULE SimMemoryProofs --------------------------
(***************************************************************************)
(* The memory of the simulator, for any input, any capacity of the vectors *)
(* and any number of servers, jobs and run events: no step uses a block    *)
(* that is not allocated, the arrays of the sizes are overrun exactly when *)
(* SizesRoom says, the vectors and the lists hold what the simulation is   *)
(* about, and main leaves nothing behind.                                  *)
(***************************************************************************)
EXTENDS SimMemory, SimulatorProofs

(* A vector as the program makes it. *)
GoodVector(v) ==
    /\ v = [data |-> v.data, length |-> v.length, capacity |-> v.capacity]
    /\ v.capacity \in Nat \ {0, 1}
    /\ v.length \in 0..v.capacity
    /\ v.data = [x \in 0..v.capacity - 1 |-> v.data[x]]

(* Where main is, and how far its cleanup.                                 *)
Stage ==
    /\ phase \in {"simulate", "jobs", "nodes", "servers", "exit"}
    /\ cleaned \in 0..Len(servers)
    /\ phase = "simulate" => cleaned = 0
    /\ phase # "simulate" => at = "done"
    /\ phase = "nodes" => cleaned < Len(servers)

(* The vector of the servers. *)
ServersKept ==
    /\ GoodVector(serverVec)
    /\ serverVec.length = Len(servers)
    /\ \A j \in DOMAIN servers : serverVec.data[j - 1] = ServerCopy(j)

(* The vectors of the waiting jobs: each holds one job of its server after *)
(* the other, and no two of them hold the same copy, nor does one twice.   *)
JobsMatch(vec, jobs) ==
    /\ GoodVector(vec)
    /\ vec.length = Len(jobs)
    /\ \A x \in 0..vec.length - 1 :
          \E e \in 1..i : /\ vec.data[x] = JobCopy(e)
                         /\ jobs[x + 1] = events[e].requiredProcessingTime
CopiesApart ==
    \A j, k \in DOMAIN servers :
       \A x \in 0..jobVec[j].length - 1, y \in 0..jobVec[k].length - 1 :
          jobVec[j].data[x] = jobVec[k].data[y] => j = k /\ x = y
JobsKept ==
    /\ jobVec \in Seq(Range(jobVec))
    /\ Len(jobVec) = Len(servers)
    /\ \A j \in DOMAIN servers : JobsMatch(jobVec[j], servers[j].jobs)
    /\ CopiesApart

(* The list of a server without its first d nodes, in the memory.          *)
RunList(j, d) == [k \in 1..(Len(RunsOf(j)) - d) |-> RunNode(j, k + d)]
Nodes == DOMAIN lists.next
Pointers(N) == N \cup {NULL, UNSET, LIST_POISON1, LIST_POISON2}
PointersSet(l, N) == l.next \in [N -> Pointers(N)] /\ l.prev \in [N -> Pointers(N)]
SamePointers(l, m, S) == \A o \in S : m.next[o] = l.next[o] /\ m.prev[o] = l.prev[o]
ListKept(j, d) ==
    CircularList(lists, Nodes, Pointers(Nodes), RunHead(j), RunList(j, d))

(* Its nodes, with the head.                                               *)
NodesOf(j, d) == {RunHead(j)} \cup {RunNode(j, k) : k \in d + 1..Len(RunsOf(j))}

(* The lists of the servers behind the one that is cleaned up. *)
ListsKept ==
    /\ PointersSet(lists, Nodes)
    /\ Nodes = UNION {NodesOf(j, 0) : j \in DOMAIN servers}
    /\ \A j \in DOMAIN servers :
          j > cleaned /\ ~(phase = "nodes" /\ j = Turn) => ListKept(j, 0)

(* What is allocated while servers from c + 1 on have not been cleaned up. *)
ServerCopies == {ServerCopy(j) : j \in DOMAIN servers}
BlocksOf(j) == {JobVector(j)} \cup ElementSet(jobVec[j]) \cup NodesOf(j, 0)
Standing(c) ==
    Parsed(result) \cup {ServerVector} \cup ServerCopies
      \cup UNION {BlocksOf(j) : j \in {k \in DOMAIN servers : k > c}}

(* The list at hand, from which d nodes have been freed. *)
HalfFreed(d) ==
    /\ heap = Standing(Turn) \cup NodesOf(Turn, d)
    /\ ListKept(Turn, d)
    /\ pos = NodeAt(RunList(Turn, d), RunHead(Turn), 1)
    /\ save = lists.next[pos]

(* The blocks that are allocated, in every phase.                          *)
HeapKept ==
    /\ phase \in {"simulate", "jobs"} => heap = Standing(cleaned)
    /\ phase = "nodes" => \E d \in 0..Len(RunsOf(Turn)) : HalfFreed(d)
    /\ phase = "servers" => heap = {ServerVector} \cup ServerCopies
    /\ phase = "exit" => heap = {}

(* The inductive invariant. *)
MemInv == LedgerInv /\ Stage /\ ServersKept /\ JobsKept /\ ListsKept /\ HeapKept

(* Recorded until now: the entries are in the order of their times, and    *)
(* none follows a unit of work at the same time.                           *)
RunInOrder(q, now) ==
    /\ \A k \in DOMAIN q : /\ q[k].time <= now
                           /\ q[k].action # "NewJob" => q[k].time < now
    /\ \A k, m \in DOMAIN q :
          k < m => /\ q[k].time <= q[m].time
                   /\ q[k].action # "NewJob" => q[k].time < q[m].time
RunsInOrder ==
    \A name \in DOMAIN runTimes : RunInOrder(runTimes[name], currentTime)

(* The signs of a chart. *)
NoSign == "_"
Signs == {"J", "E", "=", NoSign}

(* The charts of the first events, up to all of them.                      *)
Growing(D, q) ==
    /\ D[0] = << >>
    /\ \A m \in 0..Len(q) : D[m] \in Seq(Signs)
    /\ \A m \in 1..Len(q) : D[m] = Drawn(D[m - 1], q[m])

(* What a column shows after the first m entries: the first entry of its   *)
(* time, or that there is none.                                            *)
Column(q, m, t, sign) ==
    \/ sign = NoSign /\ \A k \in 1..m : q[k].time # t - 1
    \/ \E k \in 1..m : /\ sign = Sign(q[k].action) /\ q[k].time = t - 1
                       /\ \A l \in 1..k - 1 : q[l].time # t - 1

(* The chart of the first m entries: up to the column of the last of them. *)
ChartOf(q, m, chart) ==
    /\ chart \in Seq(Signs)
    /\ Len(chart) = IF m = 0 THEN 0 ELSE q[m].time + 1
    /\ \A t \in 1..Len(chart) : Column(q, m, t, chart[t])

(* What the column of a time unit shows: that a job has arrived then, or   *)
(* what has been done in that unit, of which there is at most one thing.   *)
Was(q, t, acts) == \E k \in DOMAIN q : q[k].action \in acts /\ q[k].time = t - 1

-----------------------------------------------------------------------------
(* What a block has been allocated for can be read off its name.           *)
LEMMA BlockParts ==
    /\ VirtualCpus[1] = "virtualCpus" /\ EventArray[1] = "events"
    /\ ServerVector[1] = "servers"
    /\ \A j : /\ NameOfVcpu(j)[1] = "vcpuName" /\ NameOfEvent(j)[1] = "eventName"
             /\ ServerCopy(j)[1] = "server" /\ ServerCopy(j)[2] = j
             /\ JobVector(j)[1] = "jobs" /\ JobVector(j)[2] = j
             /\ RunHead(j)[1] = "runTimes" /\ RunHead(j)[2] = j
             /\ JobCopy(j)[1] = "job" /\ JobCopy(j)[2] = j
    /\ \A j, k : RunNode(j, k)[1] = "runEvent" /\ RunNode(j, k)[2] = j
                                             /\ RunNode(j, k)[3] = k
BY DEF Block, NameOfVcpu, NameOfEvent, VirtualCpus, EventArray, ServerVector,
       ServerCopy, JobVector, RunHead, JobCopy, RunNode

-----------------------------------------------------------------------------
(* A vector from its parts. *)
LEMMA VectorMade ==
    ASSUME NEW c \in Nat \ {0, 1}, NEW n \in 0..c, NEW data,
           data = [x \in 0..c - 1 |-> data[x]],
           NEW v, v = [data |-> data, length |-> n, capacity |-> c]
    PROVE  GoodVector(v) /\ v.data = data /\ v.length = n /\ v.capacity = c
<1>1. v.data = data /\ v.length = n /\ v.capacity = c
  OBVIOUS
<1> QED
  BY <1>1, Zenon DEF GoodVector

(* A new vector is empty. *)
LEMMA VectorCreated == GoodVector(create_vector) /\ create_vector.length = 0
BY VectorAssumption DEF GoodVector, create_vector

(* check_length makes room for one more and keeps the elements.            *)
LEMMA RoomMade ==
    ASSUME NEW v, GoodVector(v)
    PROVE  /\ GoodVector(check_length(v))
           /\ check_length(v).length = v.length
           /\ v.length < check_length(v).capacity
           /\ \A x \in 0..v.length - 1 : check_length(v).data[x] = v.data[x]
<1> DEFINE c == (v.capacity * 3) \div 2
<1>1. /\ v = [data |-> v.data, length |-> v.length, capacity |-> v.capacity]
      /\ v.capacity \in Nat \ {0, 1} /\ v.length \in 0..v.capacity
      /\ v.data = [x \in 0..v.capacity - 1 |-> v.data[x]]
  BY DEF GoodVector
<1>2. c \in Nat /\ c > v.capacity
  BY <1>1
<1>3. CASE ~Full(v)
  BY <1>1, <1>3 DEF check_length, Full, GoodVector
<1>4. CASE Full(v)
  <2> DEFINE data == [x \in 0..c - 1 |-> IF x < v.capacity THEN v.data[x] ELSE UNSET]
             r    == [data |-> data, length |-> v.length, capacity |-> c]
  <2>1. check_length(v) = [v EXCEPT !.capacity = c, !.data = data]
    BY <1>4, Zenon DEF check_length
  <2>2. check_length(v) = r
    <3> HIDE DEF c, data
    <3> QED
      BY <1>1, <2>1
  <2>3. \A x \in 0..v.length - 1 : data[x] = v.data[x]
    BY <1>1, <1>2
  <2>4. data = [x \in 0..c - 1 |-> data[x]]
    OBVIOUS
  <2>5. c \in Nat \ {0, 1} /\ v.length \in 0..c /\ v.length < c
    BY <1>1, <1>2
  <2> HIDE DEF c, data, r
  <2>6. r = [data |-> data, length |-> v.length, capacity |-> c]
    BY DEF r
  <2>7. GoodVector(r) /\ r.data = data /\ r.length = v.length /\ r.capacity = c
    BY <2>4, <2>5, <2>6, VectorMade
  <2> QED
    BY <2>2, <2>3, <2>5, <2>7
<1> QED
  BY <1>3, <1>4

(* vector_add appends, and writes within the array of the elements.        *)
LEMMA VectorAdded ==
    ASSUME NEW v, GoodVector(v), NEW p
    PROVE  /\ GoodVector(vector_add(v, p))
           /\ vector_add(v, p).length = v.length + 1
           /\ vector_add(v, p).data[v.length] = p
           /\ \A x \in 0..v.length - 1 : vector_add(v, p).data[x] = v.data[x]
           /\ AddInBounds(v)
<1> DEFINE w == check_length(v)
           r == vector_add(v, p)
<1>1. /\ GoodVector(w) /\ w.length = v.length /\ v.length < w.capacity
      /\ \A x \in 0..v.length - 1 : w.data[x] = v.data[x]
  BY RoomMade
<1>2. v.length \in Nat
  BY DEF GoodVector
<1>3. r = [w EXCEPT !.data[w.length] = p, !.length = @ + 1]
  BY Zenon DEF vector_add
<1>4. AddInBounds(v)
  BY <1>1 DEF AddInBounds
<1> HIDE DEF w, r
<1>5. r = [data |-> [w.data EXCEPT ![v.length] = p], length |-> v.length + 1,
           capacity |-> w.capacity]
  <2>1. w = [data |-> w.data, length |-> w.length, capacity |-> w.capacity]
    BY <1>1 DEF GoodVector
  <2> QED
    BY <1>1, <1>3, <2>1
<1>6. /\ w.capacity \in Nat \ {0, 1} /\ v.length \in 0..w.capacity - 1
      /\ w.data = [x \in 0..w.capacity - 1 |-> w.data[x]]
  BY <1>1, <1>2 DEF GoodVector
<1> DEFINE data == [w.data EXCEPT ![v.length] = p]
           top  == w.capacity
<1>7. data = [x \in 0..top - 1 |-> data[x]]
  BY <1>6
<1>8. data[v.length] = p /\ \A x \in 0..v.length - 1 : data[x] = w.data[x]
  BY <1>2, <1>6
<1>9. top \in Nat \ {0, 1} /\ v.length + 1 \in 0..top
  BY <1>2, <1>6
<1>10. r = [data |-> data, length |-> v.length + 1, capacity |-> top]
  BY <1>5
<1> HIDE DEF data, top
<1>11. GoodVector(r) /\ r.data = data /\ r.length = v.length + 1
  BY <1>7, <1>9, <1>10, VectorMade
<1> QED
  BY <1>1, <1>4, <1>8, <1>11 DEF r

(* vector_remove of the first element moves the others up. *)
LEMMA FirstRemoved ==
    ASSUME NEW v, GoodVector(v), v.length > 0
    PROVE  /\ GoodVector(vector_remove(v, 0))
           /\ vector_remove(v, 0).length = v.length - 1
           /\ \A x \in 0..v.length - 2 : vector_remove(v, 0).data[x] = v.data[x + 1]
<1> DEFINE data == [y \in DOMAIN v.data |->
                       IF y \in 0..v.length - 2 THEN v.data[y + 1] ELSE v.data[y]]
           r    == vector_remove(v, 0)
<1>1. /\ v = [data |-> v.data, length |-> v.length, capacity |-> v.capacity]
      /\ v.capacity \in Nat \ {0, 1} /\ v.length \in 0..v.capacity
      /\ v.data = [x \in 0..v.capacity - 1 |-> v.data[x]]
  BY DEF GoodVector
<1>2. r = [v EXCEPT !.length = v.length - 1, !.data = data]
  BY Zenon DEF vector_remove
<1>3. DOMAIN v.data = 0..v.capacity - 1
  BY <1>1
<1>4. data = [x \in 0..v.capacity - 1 |-> data[x]]
  BY <1>3
<1>5. \A x \in 0..v.length - 2 : data[x] = v.data[x + 1]
  BY <1>1, <1>3
<1> DEFINE n   == v.length - 1
           top == v.capacity
<1>6. n \in 0..top /\ top \in Nat \ {0, 1}
  BY <1>1
<1> HIDE DEF data, r
<1>7. r = [data |-> data, length |-> n, capacity |-> top]
  BY <1>1, <1>2
<1>8. data = [x \in 0..top - 1 |-> data[x]]
  BY <1>4
<1> HIDE DEF n, top
<1>9. GoodVector(r) /\ r.data = data /\ r.length = n
  BY <1>6, <1>7, <1>8, VectorMade
<1> QED
  BY <1>5, <1>9 DEF r, n

(* A vector whose elements differ hands none of them out twice.            *)
LEMMA OnceEach ==
    ASSUME NEW v, GoodVector(v),
           \A x, y \in 0..v.length - 1 : v.data[x] = v.data[y] => x = y
    PROVE  EachOnce(v)
<1> DEFINE n == v.length
           D == 0..n - 1
           S == ElementSet(v)
           f == [x \in D |-> v.data[x]]
<1>1. n \in Nat /\ S = {v.data[x] : x \in D}
  BY DEF GoodVector, ElementSet
<1>2. IsFiniteSet(D) /\ Cardinality(D) = n
  <2> DEFINE m == n - 1
  <2>1. 0 \in Int /\ m \in Int /\ n = m + 1 /\ m >= -1
    BY <1>1
  <2> HIDE DEF m, n
  <2>2. IsFiniteSet(0..m) /\ Cardinality(0..m) = IF 0 > m THEN 0 ELSE m - 0 + 1
    BY <2>1, FS_Interval
  <2> QED
    BY <2>1, <2>2 DEF m
<1>3. f \in Bijection(D, S)
  <2>1. f \in [D -> S]
    BY <1>1
  <2>2. \A x, y \in D : f[x] = f[y] => x = y
    OBVIOUS
  <2>3. \A s \in S : \E x \in D : f[x] = s
    BY <1>1
  <2> HIDE DEF f, S, D
  <2> QED
    BY <2>1, <2>2, <2>3 DEF Bijection, Injection, Surjection, IsInjective
<1> HIDE DEF f, S, D, n
<1>4. Cardinality(S) = n
  BY <1>2, <1>3, FS_Bijection DEF ExistsBijection
<1> QED
  BY <1>4 DEF EachOnce, S, n

-----------------------------------------------------------------------------
(* What is recorded about a server is a sequence of run events.            *)
LEMMA RunsTyped ==
    ASSUME SimInv, RunsFit
    PROVE  /\ servers \in Seq(Servers) /\ DOMAIN servers = 1..Len(servers)
           /\ Len(servers) \in Nat
           /\ \A j \in DOMAIN servers :
                 /\ servers[j].cpu \in DOMAIN runTimes
                 /\ RunsOf(j) \in Seq(RunData) /\ Len(RunsOf(j)) \in Nat
<1>1. servers \in Seq(Servers) /\ runTimes \in [DOMAIN runTimes -> Seq(RunData)]
  BY SimInvFields DEF SimTypeOK
<1>2. ASSUME NEW j \in DOMAIN servers
      PROVE  /\ servers[j].cpu \in DOMAIN runTimes
             /\ RunsOf(j) \in Seq(RunData) /\ Len(RunsOf(j)) \in Nat
  <2>1. servers[j].cpu \in DOMAIN runTimes
    BY DEF RunsFit
  <2>2. runTimes[servers[j].cpu] \in Seq(RunData)
    BY <1>1, <2>1
  <2>3. RunsOf(j) = << >> \/ RunsOf(j) = runTimes[servers[j].cpu]
    BY DEF RunsOf
  <2>4. RunsOf(j) \in Seq(RunData)
    <3>1. << >> \in Seq(RunData)
      OBVIOUS
    <3> QED
      BY <2>2, <2>3, <3>1, Zenon
  <2> QED
    BY <2>1, <2>4
<1> QED
  BY <1>1, <1>2

(* While the vCPUs are registered nothing has been recorded. *)
LEMMA NothingRecorded ==
    ASSUME SimInv, RunsFit, at = "register"
    PROVE  \A j \in DOMAIN servers : RunsOf(j) = << >>
BY RunsTyped DEF RunsFit, RunsOf

(* InsertRunEvent adds to what is recorded about one server.               *)
LEMMA OneRunGrows ==
    ASSUME SimInv, RunsFit, NEW j \in DOMAIN servers,
           \A k \in DOMAIN servers : servers[k].cpu = servers[j].cpu => j <= k,
           DOMAIN servers' = DOMAIN servers,
           \A k \in DOMAIN servers : servers'[k].cpu = servers[k].cpu,
           NEW e, runTimes' = [runTimes EXCEPT ![servers[j].cpu] = Append(@, e)]
    PROVE  /\ RunsOf(j)' = Append(RunsOf(j), e)
           /\ \A k \in DOMAIN servers : k # j => RunsOf(k)' = RunsOf(k)
<1>1. DOMAIN servers = 1..Len(servers) /\ Len(servers) \in Nat
      /\ \A k \in DOMAIN servers : servers[k].cpu \in DOMAIN runTimes
  BY RunsTyped
<1>2. \A k \in DOMAIN servers : \A m \in 1..k - 1 : m \in DOMAIN servers
  BY <1>1
<1>3. \A m \in 1..j - 1 : servers[m].cpu # servers[j].cpu
  BY <1>1, <1>2
<1>4. RunsOf(j) = runTimes[servers[j].cpu] /\ RunsOf(j)' = runTimes'[servers[j].cpu]
  BY <1>2, <1>3 DEF RunsOf
<1>5. ASSUME NEW k \in DOMAIN servers, k # j PROVE RunsOf(k)' = RunsOf(k)
  <2>1. CASE servers[k].cpu = servers[j].cpu
    <3>1. j \in 1..k - 1
      BY <1>1, <1>5, <2>1
    <3> QED
      BY <1>2, <2>1, <3>1 DEF RunsOf
  <2>2. CASE servers[k].cpu # servers[j].cpu
    <3>1. runTimes'[servers[k].cpu] = runTimes[servers[k].cpu]
      BY <1>1, <2>2
    <3> QED
      BY <1>2, <3>1 DEF RunsOf
  <2> QED
    BY <2>1, <2>2
<1> QED
  BY <1>1, <1>4, <1>5

-----------------------------------------------------------------------------
(* The list of a server, as a sequence of nodes. *)
LEMMA RunListElements ==
    ASSUME NEW j, Len(RunsOf(j)) \in Nat, NEW d \in 0..Len(RunsOf(j))
    PROVE  /\ RunList(j, d) \in Seq(NodesOf(j, d))
           /\ Len(RunList(j, d)) = Len(RunsOf(j)) - d
           /\ \A k \in 1..(Len(RunsOf(j)) - d) : RunList(j, d)[k] = RunNode(j, k + d)
           /\ \A b : OnQ(RunList(j, d), b) => b \in NodesOf(j, d) /\ b # RunHead(j)
<1> DEFINE n == Len(RunsOf(j)) - d
           q == RunList(j, d)
<1>1. n \in Nat /\ \A k \in 1..n : k + d \in d + 1..Len(RunsOf(j))
  OBVIOUS
<1>2. \A k \in 1..n : RunNode(j, k + d) \in NodesOf(j, d)
  BY <1>1 DEF NodesOf
<1>3. q = [k \in 1..n |-> RunNode(j, k + d)]
  BY DEF RunList
<1> HIDE DEF n, q
<1>4. q \in Seq(NodesOf(j, d)) /\ Len(q) = n /\ \A k \in 1..n : q[k] = RunNode(j, k + d)
  BY <1>1, <1>2, <1>3
<1>5. \A k \in 1..n : RunNode(j, k + d) # RunHead(j)
  <2>1. RunHead(j)[1] # "runEvent" /\ \A k : RunNode(j, k)[1] = "runEvent"
    BY BlockParts
  <2> QED
    BY <2>1
<1> QED
  BY <1>2, <1>4, <1>5 DEF OnQ, n, q

(* The nodes of different servers are different. *)
LEMMA NodesApart ==
    ASSUME NEW j, NEW k, j # k, NEW d, NEW e, NEW b, b \in NodesOf(j, d)
    PROVE  b \notin NodesOf(k, e)
<1>1. \A m, x : m \in NodesOf(x, d) \/ m \in NodesOf(x, e) => m[2] = x
  BY BlockParts DEF NodesOf
<1> QED
  BY <1>1

(* A new node leaves the pointers of the others as they are.               *)
LEMMA NodeAllocated ==
    ASSUME NEW N, NEW l, PointersSet(l, N),
           NEW n, n \notin N
    PROVE  /\ PointersSet(NewNode(l, n), N \cup {n})
           /\ SamePointers(l, NewNode(l, n), N)
<1> DEFINE M == N \cup {n}
           m == NewNode(l, n)
           next == [o \in M |-> IF o = n THEN UNSET ELSE l.next[o]]
           prev == [o \in M |-> IF o = n THEN UNSET ELSE l.prev[o]]
<1>1. m = [next |-> next, prev |-> prev]
  <2>1. DOMAIN l.next = N /\ DOMAIN l.prev = N
    BY DEF PointersSet
  <2> QED
    BY <2>1, Zenon DEF NewNode
<1>2. \A o \in N : o \in M /\ o # n /\ next[o] = l.next[o] /\ prev[o] = l.prev[o]
  OBVIOUS
<1>3. Pointers(N) \subseteq Pointers(M) /\ UNSET \in Pointers(M)
  BY DEF Pointers
<1>4. next \in [M -> Pointers(M)] /\ prev \in [M -> Pointers(M)]
  <2>1. \A o \in M : next[o] \in Pointers(M) /\ prev[o] \in Pointers(M)
    BY <1>3 DEF PointersSet
  <2> QED
    BY <2>1
<1>5. m.next = next /\ m.prev = prev
  <2> HIDE DEF next, prev
  <2> QED
    BY <1>1
<1> QED
  BY <1>2, <1>4, <1>5, Zenon DEF PointersSet, SamePointers

(* A list lives on in a larger memory that agrees with it.                 *)
LEMMA InLargerMemory ==
    ASSUME NEW N, NEW l, NEW head, NEW q, CircularList(l, N, Pointers(N), head, q),
           NEW M, N \subseteq M, NEW m, PointersSet(m, M),
           \A o \in N : o = head \/ OnQ(q, o)
                            => m.next[o] = l.next[o] /\ m.prev[o] = l.prev[o]
    PROVE  CircularList(m, M, Pointers(M), head, q)
<1>1. head \in N /\ q \in Seq(N) /\ Len(q) \in Nat /\ NoDuplicates(q) /\ ~OnQ(q, head)
  BY DEF CircularList
<1>2. \A i1 \in 0..(Len(q) + 1) :
         /\ NodeAt(q, head, i1) \in N
         /\ NodeAt(q, head, i1) = head \/ OnQ(q, NodeAt(q, head, i1))
  BY <1>1 DEF NodeAt, OnQ
<1>3. \A i1 \in 0..Len(q) :
         /\ l.next[NodeAt(q, head, i1)] = NodeAt(q, head, i1 + 1)
         /\ l.prev[NodeAt(q, head, i1 + 1)] = NodeAt(q, head, i1)
  BY DEF CircularList, Represents
<1>4. Represents(m, head, q)
  <2> SUFFICES ASSUME NEW i1 \in 0..Len(q)
               PROVE  /\ m.next[NodeAt(q, head, i1)] = NodeAt(q, head, i1 + 1)
                      /\ m.prev[NodeAt(q, head, i1 + 1)] = NodeAt(q, head, i1)
    BY DEF Represents
  <2>1. i1 \in 0..(Len(q) + 1) /\ i1 + 1 \in 0..(Len(q) + 1)
    BY <1>1
  <2> QED
    BY <1>2, <1>3, <2>1
<1>5. M \subseteq Pointers(M) /\ head \in M /\ q \in Seq(M)
  BY <1>1 DEF Pointers
<1> QED
  BY <1>1, <1>4, <1>5 DEF CircularList, PointersSet

(* The list of a server becomes longer with what is recorded about it.     *)
LEMMA NodesGrow ==
    ASSUME NEW j, RunsOf(j) \in Seq(RunData), NEW e \in RunData,
           RunsOf(j)' = Append(RunsOf(j), e)
    PROVE  /\ NodesOf(j, 0)' = NodesOf(j, 0) \cup {NextNode(j)}
           /\ NextNode(j) \notin NodesOf(j, 0)
           /\ RunList(j, 0)' = Append(RunList(j, 0), NextNode(j))
<1> DEFINE n == Len(RunsOf(j))
           q == RunList(j, 0)
           r == RunList(j, 0)'
<1>1. n \in Nat /\ Len(RunsOf(j)') = n + 1 /\ NextNode(j) = RunNode(j, n + 1)
  BY DEF NextNode
<1>2. /\ NodesOf(j, 0) = {RunHead(j)} \cup {RunNode(j, k) : k \in 1..n}
      /\ NodesOf(j, 0)' = {RunHead(j)} \cup {RunNode(j, k) : k \in 1..(n + 1)}
  BY <1>1 DEF NodesOf
<1>3. /\ r = [k \in 1..(n + 1) |-> RunNode(j, k)]
      /\ q = [k \in 1..n |-> RunNode(j, k)]
  <2>1. /\ r = [k \in 1..(n + 1 - 0) |-> RunNode(j, k + 0)]
        /\ q = [k \in 1..(n - 0) |-> RunNode(j, k + 0)]
    BY <1>1 DEF RunList
  <2>2. \A k \in 1..(n + 1) : k + 0 = k
    BY <1>1
  <2>3. n + 1 - 0 = n + 1 /\ n - 0 = n /\ 1..n \subseteq 1..(n + 1)
    BY <1>1
  <2> QED
    BY <2>1, <2>2, <2>3
<1> HIDE DEF n, q, r
<1>4. 1..(n + 1) = 1..n \cup {n + 1} /\ n + 1 \notin 1..n
  BY <1>1
<1>5. NextNode(j) \notin NodesOf(j, 0)
  <2>1. \A k \in 1..n : RunNode(j, k)[3] # RunNode(j, n + 1)[3]
    BY <1>4, BlockParts
  <2>2. RunHead(j)[1] # RunNode(j, n + 1)[1]
    BY BlockParts
  <2> QED
    BY <1>1, <1>2, <2>1, <2>2
<1>6. r = Append(q, RunNode(j, n + 1))
  <2> DEFINE S == {RunNode(j, k) : k \in 1..(n + 1)}
  <2>1. q \in Seq(S) /\ Len(q) = n
    BY <1>1, <1>3
  <2>2. RunNode(j, n + 1) \in S
    BY <1>1
  <2> HIDE DEF S
  <2> QED
    BY <1>1, <1>3, <2>1, <2>2
<1> QED
  BY <1>1, <1>2, <1>4, <1>5, <1>6 DEF q, r

(* InsertRunEvent links a new node to the tail of the list of its server   *)
(* and leaves the lists of the others alone.                               *)
LEMMA ListAppended ==
    ASSUME ListsKept, phase = "simulate", cleaned = 0,
           phase' = "simulate", cleaned' = 0,
           DOMAIN servers \subseteq Nat \ {0}, DOMAIN servers' = DOMAIN servers,
           NEW j \in DOMAIN servers, NEW e \in RunData,
           \A k \in DOMAIN servers : RunsOf(k) \in Seq(RunData),
           RunsOf(j)' = Append(RunsOf(j), e),
           \A k \in DOMAIN servers : k # j => RunsOf(k)' = RunsOf(k),
           lists' = RunEventAdded(lists, NextNode(j), RunHead(j))
    PROVE  /\ ListsKept'
           /\ RunHead(j) \in Nodes /\ lists.prev[RunHead(j)] \in Nodes
           /\ NodesOf(j, 0)' = NodesOf(j, 0) \cup {NextNode(j)}
           /\ \A k \in DOMAIN servers : k # j => NodesOf(k, 0)' = NodesOf(k, 0)
<1> DEFINE n == NextNode(j)
           N == Nodes
           M == N \cup {n}
           h == RunHead(j)
           q == RunList(j, 0)
           l == NewNode(lists, n)
<1>1. /\ NodesOf(j, 0)' = NodesOf(j, 0) \cup {n} /\ n \notin NodesOf(j, 0)
      /\ RunList(j, 0)' = Append(q, n)
  BY NodesGrow
<1>2. \A k \in DOMAIN servers : k # j => /\ NodesOf(k, 0)' = NodesOf(k, 0)
                                        /\ RunList(k, 0)' = RunList(k, 0)
  BY DEF NodesOf, RunList
<1>3. /\ PointersSet(lists, N)
      /\ N = UNION {NodesOf(k, 0) : k \in DOMAIN servers}
  BY DEF ListsKept
<1>4. \A k \in DOMAIN servers : CircularList(lists, N, Pointers(N), RunHead(k), RunList(k, 0))
  BY DEF ListsKept, ListKept
<1>5. n \notin N
  <2>1. n \in NodesOf(j, 0)'
    BY <1>1
  <2>2. \A k \in DOMAIN servers : k # j => n \notin NodesOf(k, 0)
    BY BlockParts DEF NodesOf, NextNode
  <2> QED
    BY <1>1, <1>3, <2>2
<1> HIDE DEF N, n
<1>6. /\ PointersSet(l, M)
      /\ \A o \in N : l.next[o] = lists.next[o] /\ l.prev[o] = lists.prev[o]
  <2>1. PointersSet(lists, N)
    BY <1>3
  <2>2. PointersSet(l, M) /\ SamePointers(lists, l, N)
    BY <1>5, <2>1, NodeAllocated, Zenon
  <2> QED
    BY <2>2 DEF SamePointers
<1> HIDE DEF l
<1>7. ASSUME NEW k \in DOMAIN servers
      PROVE  CircularList(l, M, Pointers(M), RunHead(k), RunList(k, 0))
  <2> DEFINE g == RunHead(k)
             p == RunList(k, 0)
  <2>1. CircularList(lists, N, Pointers(N), g, p)
    BY <1>4
  <2>2. N \subseteq M
    OBVIOUS
  <2>3. /\ PointersSet(l, M)
        /\ \A o \in N : o = g \/ OnQ(p, o)
              => l.next[o] = lists.next[o] /\ l.prev[o] = lists.prev[o]
    BY <1>6
  <2> HIDE DEF g, p, M
  <2>4. CircularList(l, M, Pointers(M), g, p)
    BY <2>1, <2>2, <2>3, InLargerMemory
  <2> QED
    BY <2>4 DEF g, p
<1>8. lists' = list_add_tail(l, n, h)
  BY DEF RunEventAdded, l, n
<1>9. n \in M /\ n # h /\ ~OnQ(q, n)
  <2>1. h \in N /\ q \in Seq(N)
    BY <1>4 DEF CircularList
  <2> QED
    BY <1>5, <2>1 DEF OnQ
<1>10. /\ CircularList(lists', M, Pointers(M), h, Append(q, n))
       /\ OnlyHere(l, lists', M, h, q, n)
  <2>1. CircularList(l, M, Pointers(M), h, q)
    BY <1>7
  <2> HIDE DEF h, q, M
  <2> QED
    BY <1>8, <1>9, <2>1, AddedAtTail
<1>11. /\ lists'.next \in [M -> Pointers(M)] /\ lists'.prev \in [M -> Pointers(M)]
       /\ PointersSet(lists', M) /\ Nodes' = M
  BY <1>10 DEF CircularList, Nodes, PointersSet
<1>12. ASSUME NEW k \in DOMAIN servers, k # j
       PROVE  CircularList(lists', M, Pointers(M), RunHead(k), RunList(k, 0))
  <2> DEFINE g == RunHead(k)
             p == RunList(k, 0)
  <2>1. CircularList(l, M, Pointers(M), g, p)
    BY <1>7
  <2>2. ASSUME NEW o \in M, o = g \/ OnQ(p, o)
        PROVE  lists'.next[o] = l.next[o] /\ lists'.prev[o] = l.prev[o]
    <3>1. o \in NodesOf(k, 0)
      <4>1. Len(RunsOf(k)) \in Nat /\ 0 \in 0..Len(RunsOf(k))
        OBVIOUS
      <4> QED
        BY <2>2, <4>1, RunListElements DEF NodesOf
    <3>2. o # n
      BY <1>3, <1>5, <3>1
    <3>3. o \notin NodesOf(j, 0)
      BY <1>12, <3>1, NodesApart
    <3>4. o # h /\ ~OnQ(q, o)
      <4>1. Len(RunsOf(j)) \in Nat /\ 0 \in 0..Len(RunsOf(j))
        OBVIOUS
      <4> QED
        BY <3>3, <4>1, RunListElements DEF NodesOf
    <3> QED
      BY <1>10, <3>2, <3>4 DEF OnlyHere
  <2> HIDE DEF g, p, M
  <2>3. CircularList(lists', M, Pointers(M), g, p)
    BY <1>11, <2>1, <2>2, OtherList
  <2> QED
    BY <2>3 DEF g, p
<1>13. \A k \in DOMAIN servers : ListKept(k, 0)'
  BY <1>1, <1>2, <1>10, <1>11, <1>12 DEF ListKept
<1>14. M = UNION {NodesOf(k, 0)' : k \in DOMAIN servers'}
  BY <1>1, <1>2, <1>3
<1>15. ListsKept'
  BY <1>11, <1>13, <1>14 DEF ListsKept
<1>16. h \in Nodes /\ lists.prev[h] \in Nodes
  <2>1. CircularList(lists, N, Pointers(N), h, q)
    BY <1>4
  <2>2. h \in N /\ q \in Seq(N) /\ Len(q) \in Nat
    BY <2>1 DEF CircularList
  <2>3. lists.prev[NodeAt(q, h, Len(q) + 1)] = NodeAt(q, h, Len(q))
    BY <2>1, <2>2 DEF CircularList, Represents
  <2>4. NodeAt(q, h, Len(q) + 1) = h /\ NodeAt(q, h, Len(q)) \in N
    BY <2>2 DEF NodeAt
  <2> QED
    BY <2>2, <2>3, <2>4 DEF N
<1> QED
  BY <1>1, <1>2, <1>15, <1>16 DEF n, h

-----------------------------------------------------------------------------
(* A step that leaves the servers and the memory alone. *)
LEMMA MemoryUntouched ==
    ASSUME Stage, ServersKept, ListsKept, HeapKept, JobsKept', phase = "simulate",
           UNCHANGED <<servers, runTimes, memory>>
    PROVE  Stage' /\ ServersKept' /\ JobsKept' /\ ListsKept' /\ HeapKept'
<1>1. \A j, d : RunsOf(j)' = RunsOf(j) /\ NodesOf(j, d)' = NodesOf(j, d)
               /\ RunList(j, d)' = RunList(j, d)
  BY DEF RunsOf, NodesOf, RunList
<1>2. Stage' /\ ServersKept'
  BY DEF Stage, ServersKept, memory
<1>3. UNCHANGED <<lists, Nodes, cleaned, phase>>
  BY DEF memory, Nodes
<1>4. ListsKept'
  BY <1>1, <1>3 DEF ListsKept, ListKept
<1>5. Standing(0)' = Standing(0)
  BY <1>1 DEF Standing, BlocksOf, ServerCopies, memory
<1>6. HeapKept'
  BY <1>5 DEF HeapKept, Stage, memory
<1> QED
  BY <1>2, <1>4, <1>6

(* The simulation is at its start, and no job has arrived: the vectors of  *)
(* the jobs are empty.                                                     *)
LEMMA NoJobsYet ==
    ASSUME MemInv, at = "register"
    PROVE  /\ i = 0
           /\ \A j \in DOMAIN servers : /\ servers[j].jobs = << >>
                                        /\ jobVec[j].length = 0
                                        /\ ElementSet(jobVec[j]) = {}
<1>1. OnTime /\ IdleIffNoWork /\ JobsKept
  BY DEF MemInv, LedgerInv, SimInv
<1>2. i = 0 /\ \A j \in DOMAIN servers : servers[j].state = IDLE
  BY <1>1 DEF OnTime
<1>3. \A j \in DOMAIN servers : servers[j].jobs = << >>
  BY <1>1, <1>2 DEF IdleIffNoWork
<1>4. \A j \in DOMAIN servers : jobVec[j].length = 0
  BY <1>1, <1>3 DEF JobsKept, JobsMatch
<1>5. \A v : v.length = 0 => ElementSet(v) = {}
  BY DEF ElementSet
<1> QED
  BY <1>2, <1>3, <1>4, <1>5

(* Registering: a vCPU that has been refused changes nothing.              *)
LEMMA RegisterRefused ==
    ASSUME MemInv, MemRegister, servers' = servers
    PROVE  Stage' /\ ServersKept' /\ JobsKept' /\ ListsKept' /\ HeapKept'
<1>1. at = "register" /\ UNCHANGED <<servers, runTimes, heap, serverVec, jobVec, lists, events, i>>
  BY DEF MemRegister, RegisterVCPU
<1>2. UNCHANGED <<result, phase, cleaned, pos, save>>
  BY DEF MemRegister, Simulating
<1>3. phase = "simulate"
  BY <1>1 DEF MemInv, Stage
<1>4. JobsKept'
  BY <1>1 DEF MemInv, JobsKept, JobsMatch, CopiesApart
<1> QED
  BY <1>1, <1>2, <1>3, <1>4, MemoryUntouched DEF MemInv, memory, MemRegister

(* INIT_LIST_HEAD: a new server has an empty list.                         *)
LEMMA HeadAllocated ==
    ASSUME ListsKept, phase = "simulate", cleaned = 0,
           phase' = "simulate", cleaned' = 0,
           DOMAIN servers \subseteq Nat \ {0},
           NEW j \in Nat, j \notin DOMAIN servers,
           DOMAIN servers' = DOMAIN servers \cup {j},
           \A k \in DOMAIN servers : RunsOf(k) = << >>,
           \A k \in DOMAIN servers' : RunsOf(k)' = << >>,
           lists' = INIT_LIST_HEAD(NewNode(lists, RunHead(j)), RunHead(j))
    PROVE  /\ ListsKept'
           /\ NodesOf(j, 0)' = {RunHead(j)}
           /\ \A k \in DOMAIN servers : NodesOf(k, 0)' = NodesOf(k, 0)
<1> DEFINE h == RunHead(j)
           N == Nodes
           M == N \cup {h}
           l == NewNode(lists, h)
<1>1. /\ \A k \in DOMAIN servers : NodesOf(k, 0) = {RunHead(k)}
      /\ \A k \in DOMAIN servers' : NodesOf(k, 0)' = {RunHead(k)} /\ RunList(k, 0)' = << >>
  <2>1. \A k : Len(RunsOf(k)) = 0 => NodesOf(k, 0) = {RunHead(k)}
    BY DEF NodesOf
  <2>2. \A k : Len(RunsOf(k)') = 0
                  => NodesOf(k, 0)' = {RunHead(k)} /\ RunList(k, 0)' = << >>
    BY DEF NodesOf, RunList
  <2> QED
    BY <2>1, <2>2
<1>2. PointersSet(lists, N) /\ N = UNION {NodesOf(k, 0) : k \in DOMAIN servers}
  BY DEF ListsKept
<1>3. h \notin N
  <2>1. \A k \in DOMAIN servers : RunHead(k) # h
    BY BlockParts
  <2> QED
    BY <1>1, <1>2, <2>1
<1> HIDE DEF N
<1>4. PointersSet(l, M) /\ SamePointers(lists, l, N)
  BY <1>2, <1>3, NodeAllocated, Zenon
<1> HIDE DEF l, h
<1>5. /\ lists'.next = [l.next EXCEPT ![h] = h] /\ lists'.prev = [l.prev EXCEPT ![h] = h]
  BY DEF INIT_LIST_HEAD, l, h
<1>6. /\ PointersSet(lists', M) /\ SamePointers(lists, lists', N)
      /\ lists'.next[h] = h /\ lists'.prev[h] = h
  <2>1. h \in M /\ h \in Pointers(M) /\ \A o \in N : o \in M /\ o # h
    BY <1>3 DEF Pointers
  <2>2. l.next \in [M -> Pointers(M)] /\ l.prev \in [M -> Pointers(M)]
    BY <1>4 DEF PointersSet
  <2> HIDE DEF M
  <2>3. /\ lists'.next \in [M -> Pointers(M)] /\ lists'.prev \in [M -> Pointers(M)]
        /\ lists'.next[h] = h /\ lists'.prev[h] = h
        /\ \A o \in N : lists'.next[o] = l.next[o] /\ lists'.prev[o] = l.prev[o]
    BY <1>5, <2>1, <2>2
  <2> QED
    BY <1>4, <2>3 DEF PointersSet, SamePointers
<1>7. CircularList(lists', M, Pointers(M), h, << >>)
  <2>1. \A k : NodeAt(<< >>, h, k) = h
    BY DEF NodeAt
  <2>2. Represents(lists', h, << >>)
    BY <1>6, <2>1 DEF Represents
  <2>3. NoDuplicates(<< >>) /\ ~OnQ(<< >>, h)
    BY DEF NoDuplicates, OnQ
  <2>4. M \subseteq Pointers(M) /\ h \in M /\ << >> \in Seq(M)
    BY DEF Pointers
  <2> QED
    BY <1>6, <2>2, <2>3, <2>4 DEF CircularList, PointersSet
<1>8. ASSUME NEW k \in DOMAIN servers
      PROVE  CircularList(lists', M, Pointers(M), RunHead(k), RunList(k, 0)')
  <2> DEFINE g == RunHead(k)
             p == RunList(k, 0)
  <2>1. CircularList(lists, N, Pointers(N), g, p)
    BY DEF ListsKept, ListKept, N
  <2>2. RunList(k, 0)' = p
    <3>1. p = << >>
      BY DEF RunList
    <3> QED
      BY <1>1, <3>1
  <2>3. N \subseteq M /\ \A o \in N : o = g \/ OnQ(p, o)
           => lists'.next[o] = lists.next[o] /\ lists'.prev[o] = lists.prev[o]
    BY <1>6 DEF SamePointers
  <2> HIDE DEF g, p, M
  <2>4. CircularList(lists', M, Pointers(M), g, p)
    BY <1>6, <2>1, <2>3, InLargerMemory
  <2> QED
    BY <2>2, <2>4 DEF g
<1>9. Nodes' = M
  BY <1>6 DEF Nodes, PointersSet
<1>10. \A k \in DOMAIN servers' : ListKept(k, 0)'
  BY <1>1, <1>7, <1>8, <1>9 DEF ListKept, h
<1>11. M = UNION {NodesOf(k, 0)' : k \in DOMAIN servers'}
  BY <1>1, <1>2 DEF h
<1>12. ListsKept'
  BY <1>6, <1>9, <1>10, <1>11 DEF ListsKept
<1> QED
  BY <1>1, <1>12

(* A sequence with one more element.                                       *)
LEMMA OneMore ==
    ASSUME NEW S, NEW q \in Seq(S), NEW e \in S
    PROVE  /\ Append(q, e) \in Seq(S) /\ Len(Append(q, e)) = Len(q) + 1
           /\ Append(q, e)[Len(q) + 1] = e
           /\ \A k \in 1..Len(q) : Append(q, e)[k] = q[k]
OBVIOUS

(* Registering: an admitted vCPU is given a server and all that it needs.  *)
LEMMA RegisterAdmitted ==
    ASSUME MemInv, MemRegister, servers' # servers
    PROVE  Stage' /\ ServersKept' /\ JobsKept' /\ ListsKept' /\ HeapKept'
<1> DEFINE n == Len(servers)
<1>1. /\ SimInv /\ RunsFit /\ Stage /\ ServersKept /\ JobsKept /\ ListsKept /\ HeapKept
      /\ at = "register" /\ vcpus # << >> /\ UNCHANGED <<at, events, i, runTimes>>
  BY DEF MemInv, LedgerInv, MemRegister, RegisterVCPU
<1>2. PICK s : servers' = Append(servers, s) /\ s = NewServer(Head(vcpus))
  BY DEF MemRegister, RegisterVCPU
<1>3. /\ s \in Servers /\ s.cpu = Head(vcpus).name /\ s.jobs = << >>
      /\ Head(vcpus).name \in DOMAIN runTimes
  <2>1. vcpus \in Seq(VCpus) /\ Head(vcpus) = vcpus[1] /\ 1 \in DOMAIN vcpus
    BY <1>1 DEF SimInv, SimTypeOK
  <2>2. vcpus[1] \in VCpus
    BY <2>1
  <2> QED
    BY <1>1, <1>2, <2>1, <2>2, NewServerGood DEF GoodServer, NewServer, RunsFit
<1>4. servers \in Seq(Servers) /\ n \in Nat /\ DOMAIN servers = 1..n
  BY <1>1, RunsTyped
<1>0. PICK j \in Nat : j = n + 1
  BY <1>4
<1>5. /\ Len(servers') = j /\ DOMAIN servers' = 1..j /\ 1..j = 1..n \cup {j}
      /\ j \notin 1..n /\ servers'[j] = s /\ \A k \in 1..n : servers'[k] = servers[k]
  <2>1. 1..j = 1..n \cup {j} /\ j \notin 1..n
    BY <1>0, <1>4
  <2>2. servers \in Seq(Servers) /\ s \in Servers /\ servers' = Append(servers, s)
    BY <1>2, <1>3, <1>4
  <2>3. /\ Append(servers, s) \in Seq(Servers) /\ Len(Append(servers, s)) = Len(servers) + 1
        /\ Append(servers, s)[Len(servers) + 1] = s
        /\ \A k \in 1..Len(servers) : Append(servers, s)[k] = servers[k]
    BY <2>2, OneMore
  <2>4. /\ servers' \in Seq(Servers) /\ Len(servers') = n + 1 /\ servers'[n + 1] = s
        /\ \A k \in 1..n : servers'[k] = servers[k]
    BY <2>2, <2>3
  <2> QED
    BY <1>0, <2>1, <2>4
<1>6. /\ \A k \in DOMAIN servers : RunsOf(k) = << >>
      /\ \A k \in DOMAIN servers' : RunsOf(k)' = << >>
  <2>1. \A k \in DOMAIN servers : RunsOf(k) = << >>
    BY <1>1, NothingRecorded
  <2>2. \A k \in DOMAIN servers' : servers'[k].cpu \in DOMAIN runTimes
    BY <1>1, <1>3, <1>4, <1>5 DEF RunsFit
  <2>3. \A name \in DOMAIN runTimes : runTimes'[name] = << >>
    BY <1>1 DEF RunsFit
  <2> QED
    BY <2>1, <2>2, <2>3 DEF RunsOf
<1>7. /\ phase = "simulate" /\ cleaned = 0 /\ phase' = phase /\ cleaned' = cleaned
      /\ result' = result
  BY <1>1 DEF MemRegister, Simulating, Stage
<1>8. /\ heap' = heap \cup {JobVector(j), RunHead(j), ServerCopy(j)}
      /\ jobVec' = Append(jobVec, create_vector)
      /\ lists' = INIT_LIST_HEAD(NewNode(lists, RunHead(j)), RunHead(j))
      /\ serverVec' = vector_add(serverVec, ServerCopy(j))
  BY <1>5 DEF MemRegister
<1>9. Stage'
  BY <1>1, <1>4, <1>5, <1>7 DEF Stage
<1>10. ServersKept'
  <2>1. GoodVector(serverVec) /\ serverVec.length = n
        /\ \A k \in 1..n : serverVec.data[k - 1] = ServerCopy(k)
    BY <1>1, <1>4 DEF ServersKept
  <2>2. /\ GoodVector(serverVec') /\ serverVec'.length = n + 1
        /\ serverVec'.data[n] = ServerCopy(j)
        /\ \A x \in 0..n - 1 : serverVec'.data[x] = serverVec.data[x]
    <3>1. PICK v, w, e : /\ v = serverVec /\ e = ServerCopy(j)
                         /\ w = vector_add(v, e) /\ w = serverVec'
      BY <1>8
    <3>2. GoodVector(v) /\ v.length = n
      BY <2>1, <3>1
    <3>3. w = vector_add(v, e)
      BY <3>1
    <3> HIDE DEF n
    <3>4. /\ GoodVector(w) /\ w.length = v.length + 1 /\ w.data[v.length] = e
          /\ \A x \in 0..v.length - 1 : w.data[x] = v.data[x]
      <4>1. GoodVector(w)
        BY <3>2, <3>3, VectorAdded
      <4>2. w.length = v.length + 1 /\ w.data[v.length] = e
        BY <3>2, <3>3, VectorAdded
      <4>3. \A x \in 0..v.length - 1 : w.data[x] = v.data[x]
        BY <3>2, <3>3, VectorAdded
      <4> QED
        BY <4>1, <4>2, <4>3
    <3>5. GoodVector(w) /\ w.length = n + 1 /\ w.data[n] = e
      BY <3>2, <3>4
    <3>6. \A x \in 0..n - 1 : w.data[x] = v.data[x]
      BY <3>2, <3>4
    <3> QED
      BY <3>1, <3>5, <3>6
  <2>3. \A k \in 1..n : k - 1 \in 0..n - 1
    BY <1>4
  <2>4. \A k \in 1..n : serverVec'.data[k - 1] = ServerCopy(k)
    BY <2>1, <2>2, <2>3
  <2>5. j - 1 = n
    BY <1>0, <1>4
  <2>6. serverVec'.data[j - 1] = ServerCopy(j)
    BY <2>2, <2>5
  <2>7. \A k \in 1..j : serverVec'.data[k - 1] = ServerCopy(k)
    BY <1>5, <2>4, <2>6
  <2> QED
    BY <1>0, <1>5, <2>2, <2>7 DEF ServersKept
<1>11. \A k \in DOMAIN servers : /\ servers[k].jobs = << >>
                                /\ jobVec[k].length = 0
                                /\ ElementSet(jobVec[k]) = {}
  BY <1>1, NoJobsYet
<1>12. /\ Len(jobVec') = j /\ jobVec'[j] = create_vector
       /\ \A k \in 1..n : jobVec'[k] = jobVec[k]
       /\ jobVec' \in Seq(Range(jobVec'))
  <2>1. jobVec \in Seq(Range(jobVec)) /\ Len(jobVec) = n
    BY <1>1 DEF JobsKept
  <2> DEFINE S == Range(jobVec) \cup {create_vector}
  <2>2. jobVec \in Seq(S) /\ create_vector \in S
    BY <2>1
  <2> HIDE DEF S
  <2>3. /\ jobVec' \in Seq(S) /\ Len(jobVec') = n + 1 /\ jobVec'[n + 1] = create_vector
        /\ \A k \in 1..n : jobVec'[k] = jobVec[k]
    BY <1>4, <1>8, <2>1, <2>2
  <2>4. jobVec' \in Seq(Range(jobVec'))
    BY <2>3 DEF Range
  <2> QED
    BY <1>0, <2>3, <2>4
<1>13. JobsKept'
  <2>1. \A k \in 1..j : /\ GoodVector(jobVec'[k]) /\ jobVec'[k].length = 0
                        /\ servers'[k].jobs = << >>
    <3>1. ASSUME NEW k \in 1..n
          PROVE  /\ GoodVector(jobVec'[k]) /\ jobVec'[k].length = 0
                 /\ servers'[k].jobs = << >>
      BY <1>1, <1>4, <1>5, <1>11, <1>12 DEF JobsKept, JobsMatch
    <3>2. /\ GoodVector(jobVec'[j]) /\ jobVec'[j].length = 0
          /\ servers'[j].jobs = << >>
      BY <1>3, <1>5, <1>12, VectorCreated
    <3> QED
      BY <1>5, <3>1, <3>2
  <2>2. \A k \in 1..j : 0..jobVec'[k].length - 1 = {} /\ jobVec'[k].length = Len(servers'[k].jobs)
    BY <2>1
  <2> QED
    BY <1>5, <1>12, <2>1, <2>2 DEF JobsKept, JobsMatch, CopiesApart
<1>14. /\ ListsKept' /\ NodesOf(j, 0)' = {RunHead(j)}
       /\ \A k \in DOMAIN servers : NodesOf(k, 0)' = NodesOf(k, 0)
  <2>1. DOMAIN servers \subseteq Nat \ {0} /\ j \in Nat /\ j \notin DOMAIN servers
        /\ DOMAIN servers' = DOMAIN servers \cup {j}
    BY <1>4, <1>5
  <2>2. phase' = "simulate" /\ cleaned' = 0
    BY <1>7
  <2> QED
    BY <1>1, <1>6, <1>7, <1>8, <2>1, <2>2, HeadAllocated
<1>15. HeapKept'
  <2>1. heap = Standing(0)
    BY <1>1, <1>7 DEF HeapKept
  <2>2. ElementSet(create_vector) = {}
    BY DEF ElementSet, create_vector
  <2>3. BlocksOf(j)' = {JobVector(j), RunHead(j)}
    BY <1>12, <1>14, <2>2 DEF BlocksOf
  <2>4. \A k \in 1..n : BlocksOf(k)' = BlocksOf(k)
    BY <1>4, <1>12, <1>14 DEF BlocksOf
  <2>5. ServerCopies' = ServerCopies \cup {ServerCopy(j)}
    BY <1>4, <1>5 DEF ServerCopies
  <2>6. \A k \in 1..j : k > 0
    BY <1>4
  <2>7. Standing(0)' = Standing(0) \cup {JobVector(j), RunHead(j), ServerCopy(j)}
    BY <1>4, <1>5, <1>7, <2>3, <2>4, <2>5, <2>6 DEF Standing
  <2> QED
    BY <1>7, <1>8, <2>1, <2>7 DEF HeapKept
<1> QED
  BY <1>9, <1>10, <1>13, <1>14, <1>15

-----------------------------------------------------------------------------
(* AddJob lets a job wait where there is one already. *)
LEMMA AddJobWaits ==
    ASSUME NEW s, GoodServer(s), NEW work \in Nat \ {0}, NEW t \in Nat
    PROVE  AddJob(s, work, t).jobs = IF s.state # IDLE THEN Append(s.jobs, work)
                                     ELSE s.jobs
<1>1. s \in Servers
  BY DEF GoodServer
<1>2. CASE s.state # IDLE
  BY <1>1, <1>2, Zenon DEF AddJob, Queued, Servers
<1>3. CASE s.state = IDLE
  <2>1. AddJob(s, work, t) =
           IF OutOfDate(s, t)
           THEN AssignJob([s EXCEPT !.deadline = t + s.period,
                                    !.currentBudget = s.requestedBudget], work)
           ELSE AssignJob(s, work)
    BY <1>3, Zenon DEF AddJob
  <2>2. AssignJob(s, work).jobs = s.jobs
    BY <1>1, Zenon DEF AssignJob, Servers
  <2> DEFINE y == [s EXCEPT !.deadline = t + s.period, !.currentBudget = s.requestedBudget]
  <2>3. s.period \in Nat /\ s.requestedBudget \in Nat /\ t + s.period \in Nat
    BY <1>1, ServerFields
  <2>4. y \in Servers /\ y.jobs = s.jobs
    <3> DEFINE d == t + s.period
    <3> HIDE DEF d
    <3>1. Becomes(s, [s EXCEPT !.deadline = d, !.currentBudget = s.requestedBudget], d,
                  s.requestedBudget, s.state, s.workTime, s.jobDeadline, s.jobs)
      BY <1>1, <2>3, DeadlineAssigned DEF d
    <3> QED
      BY <3>1 DEF Becomes, d
  <2> HIDE DEF y
  <2>5. AssignJob(y, work).jobs = y.jobs
    BY <2>4, Zenon DEF AssignJob, Servers
  <2> QED
    BY <1>3, <2>1, <2>2, <2>4, <2>5 DEF y
<1> QED
  BY <1>2, <1>3

(* DoWork takes the next job when the one at hand is finished.             *)
LEMMA DoWorkTakes ==
    ASSUME NEW s, GoodServer(s), s.state = ACTIVE
    PROVE  DoWork(s).jobs = IF JobFinished(s) /\ s.jobs # << >> THEN Tail(s.jobs)
                            ELSE s.jobs
<1> DEFINE y == Worked(s)
           z == IF JobFinished(s) THEN NextJob(y) ELSE y
<1>1. /\ s \in Servers /\ s.workTime \in Nat \ {0} /\ s.currentBudget \in Nat \ {0}
      /\ s.workTime - 1 \in Nat /\ s.currentBudget - 1 \in Nat /\ s.jobs \in Seq(Nat \ {0})
  <2>1. s \in Servers
    BY DEF GoodServer
  <2> QED
    BY <2>1, ServerFields, StateAssumption DEF GoodServer
<1>2. y \in Servers /\ y.jobs = s.jobs
  <2>1. y = [s EXCEPT !.workTime = s.workTime - 1, !.currentBudget = s.currentBudget - 1]
    BY Zenon DEF Worked
  <2> HIDE DEF y
  <2> DEFINE w == s.workTime - 1
             b == s.currentBudget - 1
  <2> HIDE DEF w, b
  <2>2. Becomes(s, y, s.deadline, b, s.state, w, s.jobDeadline, s.jobs)
    BY <1>1, <2>1, WorkAssigned DEF w, b
  <2> QED
    BY <2>2 DEF Becomes
<1> HIDE DEF y
<1>3. z \in Servers /\ z.jobs = IF JobFinished(s) /\ s.jobs # << >> THEN Tail(s.jobs)
                                ELSE s.jobs
  <2>1. CASE ~JobFinished(s)
    BY <1>2, <2>1
  <2>2. CASE JobFinished(s) /\ s.jobs = << >>
    <3>1. z = [y EXCEPT !.state = IDLE]
      BY <1>2, <2>2 DEF NextJob
    <3> HIDE DEF z
    <3> QED
      BY <1>2, <2>2, <3>1, StateAssigned DEF Becomes
  <2>3. CASE JobFinished(s) /\ s.jobs # << >>
    <3> DEFINE x == AssignJob(y, Head(s.jobs))
    <3>1. Head(s.jobs) \in Nat \ {0} /\ Tail(s.jobs) \in Seq(Nat \ {0})
      BY <1>1, <2>3
    <3>2. z = [x EXCEPT !.jobs = Tail(x.jobs)]
      BY <1>2, <2>3, Zenon DEF NextJob
    <3>3. x \in Servers /\ x.jobs = s.jobs
      <4>1. y.deadline \in Nat
        BY <1>2, ServerFields
      <4>2. Becomes(y, x, y.deadline, y.currentBudget, ACTIVE, Head(s.jobs),
                    y.deadline, y.jobs)
        BY <1>2, <3>1, <4>1, JobAssigned DEF AssignJob
      <4> HIDE DEF x
      <4> QED
        BY <1>2, <4>2 DEF Becomes
    <3> HIDE DEF x, z
    <3>4. Becomes(x, z, x.deadline, x.currentBudget, x.state, x.workTime,
                  x.jobDeadline, Tail(s.jobs))
      BY <3>1, <3>2, <3>3, JobsAssigned
    <3> QED
      BY <2>3, <3>4 DEF Becomes
  <2> QED
    BY <2>1, <2>2, <2>3
<1> HIDE DEF z
<1>4. DoWork(s) = Replenish(z)
  BY DEF DoWork, z, y
<1>5. Replenish(z).jobs = z.jobs
  <2>1. CASE z.currentBudget # 0
    BY <2>1 DEF Replenish
  <2>2. CASE z.currentBudget = 0
    BY <1>3, <2>2, Zenon DEF Replenish, Servers
  <2> QED
    BY <2>1, <2>2
<1> QED
  BY <1>3, <1>4, <1>5

(* A vector of jobs matches while more events are handled.                 *)
LEMMA StillMatches ==
    ASSUME NEW v, NEW q, JobsMatch(v, q), i \in Nat, i' \in Nat, i <= i',
           UNCHANGED events
    PROVE  JobsMatch(v, q)'
<1>1. 1..i \subseteq 1..i'
  OBVIOUS
<1> QED
  BY <1>1 DEF JobsMatch

(* Where no job is queued or taken the vectors match as before.            *)
LEMMA JobsSame ==
    ASSUME JobsKept, servers \in Seq(Servers), i \in Nat, i' \in Nat, i <= i',
           NEW j \in DOMAIN servers, NEW r, servers' = [servers EXCEPT ![j] = r],
           r.jobs = servers[j].jobs, UNCHANGED <<events, jobVec>>
    PROVE  JobsKept'
<1>1. /\ DOMAIN servers' = DOMAIN servers /\ Len(servers') = Len(servers)
      /\ \A k \in DOMAIN servers : servers'[k].jobs = servers[k].jobs
  OBVIOUS
<1>2. ASSUME NEW k \in DOMAIN servers PROVE JobsMatch(jobVec[k], servers[k].jobs)'
  <2> DEFINE v == jobVec[k]
             q == servers[k].jobs
  <2>1. JobsMatch(v, q)
    BY DEF JobsKept
  <2>2. v' = v /\ q' = q
    BY <1>1
  <2>3. PICK v1, q1 : v1 = v /\ q1 = q
    OBVIOUS
  <2>4. JobsMatch(v1, q1)'
    BY <2>1, <2>3, StillMatches
  <2> QED
    BY <2>2, <2>3, <2>4
<1>3. CopiesApart'
  BY <1>1 DEF JobsKept, CopiesApart
<1> QED
  BY <1>1, <1>2, <1>3 DEF JobsKept

(* The elements of a sequence are its range.                               *)
LEMMA OverItsRange ==
    ASSUME NEW S, NEW q \in Seq(S)
    PROVE  q \in Seq(Range(q))
BY DEF Range

(* One vector of jobs is changed. *)
LEMMA OneVector ==
    ASSUME JobsKept, servers \in Seq(Servers), NEW j \in DOMAIN servers, NEW v,
           jobVec' = [jobVec EXCEPT ![j] = v]
    PROVE  /\ jobVec' \in Seq(Range(jobVec')) /\ Len(jobVec') = Len(servers)
           /\ jobVec'[j] = v
           /\ \A k \in DOMAIN servers : k # j => jobVec'[k] = jobVec[k]
<1> DEFINE S == Range(jobVec) \cup {v}
<1>1. jobVec \in Seq(Range(jobVec)) /\ Len(jobVec) = Len(servers)
      /\ DOMAIN servers = 1..Len(servers) /\ Len(servers) \in Nat
  BY DEF JobsKept
<1>2. jobVec \in Seq(S) /\ v \in S
  BY <1>1
<1> HIDE DEF S
<1>3. /\ jobVec' \in Seq(S) /\ Len(jobVec') = Len(servers) /\ jobVec'[j] = v
      /\ \A k \in DOMAIN servers : k # j => jobVec'[k] = jobVec[k]
  BY <1>1, <1>2
<1>4. jobVec' \in Seq(Range(jobVec'))
  BY <1>3, OverItsRange
<1> QED
  BY <1>3, <1>4

(* The vector of a server and its jobs change together. *)
LEMMA OneMatches ==
    ASSUME JobsKept, servers \in Seq(Servers), i \in Nat, i' \in Nat, i <= i',
           NEW j \in DOMAIN servers, NEW r, servers' = [servers EXCEPT ![j] = r],
           NEW v, jobVec' = [jobVec EXCEPT ![j] = v], UNCHANGED events,
           JobsMatch(v, r.jobs)',
           \A x, y \in 0..v.length - 1 : v.data[x] = v.data[y] => x = y,
           \A k \in DOMAIN servers : k # j =>
              \A x \in 0..v.length - 1, y \in 0..jobVec[k].length - 1 :
                 v.data[x] # jobVec[k].data[y]
    PROVE  JobsKept'
<1>1. /\ DOMAIN servers' = DOMAIN servers /\ Len(servers') = Len(servers)
      /\ servers'[j] = r
      /\ \A k \in DOMAIN servers : k # j => servers'[k] = servers[k]
  OBVIOUS
<1>2. /\ jobVec' \in Seq(Range(jobVec')) /\ Len(jobVec') = Len(servers)
      /\ jobVec'[j] = v
      /\ \A k \in DOMAIN servers : k # j => jobVec'[k] = jobVec[k]
  BY OneVector
<1>3. ASSUME NEW k \in DOMAIN servers, k # j
      PROVE  JobsMatch(jobVec[k], servers[k].jobs)'
  <2> DEFINE w == jobVec[k]
             q == servers[k].jobs
  <2>1. JobsMatch(w, q)
    BY DEF JobsKept
  <2>2. w' = w /\ q' = q
    BY <1>1, <1>2, <1>3
  <2>3. PICK v1, q1 : v1 = w /\ q1 = q
    OBVIOUS
  <2>4. JobsMatch(v1, q1)'
    BY <2>1, <2>3, StillMatches
  <2> QED
    BY <2>2, <2>3, <2>4
<1>4. CopiesApart'
  <2> DEFINE Slots(w) == 0..w.length - 1
             Same(k, m) == \A x \in Slots(jobVec'[k]), y \in Slots(jobVec'[m]) :
                              jobVec'[k].data[x] = jobVec'[m].data[y] => k = m /\ x = y
  <2>1. ASSUME NEW k \in DOMAIN servers, NEW m \in DOMAIN servers PROVE Same(k, m)
    <3>1. CASE k = j /\ m = j
      BY <1>2, <3>1
    <3>2. CASE k = j /\ m # j
      BY <1>2, <3>2
    <3>3. CASE k # j /\ m = j
      BY <1>2, <3>3
    <3>4. CASE k # j /\ m # j
      BY <1>2, <3>4 DEF JobsKept, CopiesApart
    <3> QED
      BY <3>1, <3>2, <3>3, <3>4
  <2> QED
    BY <1>1, <2>1 DEF CopiesApart
<1>5. JobsMatch(jobVec[j], servers[j].jobs)'
  BY <1>1, <1>2
<1> QED
  BY <1>1, <1>2, <1>3, <1>4, <1>5 DEF JobsKept

(* A job is queued: its copy is a new block. *)
LEMMA JobQueued ==
    ASSUME JobsKept, servers \in Seq(Servers), i \in Nat, i' = i + 1,
           NEW j \in DOMAIN servers, NEW r, servers' = [servers EXCEPT ![j] = r],
           servers[j].jobs \in Seq(Nat), events[i + 1].requiredProcessingTime \in Nat,
           r.jobs = Append(servers[j].jobs, events[i + 1].requiredProcessingTime),
           jobVec' = [jobVec EXCEPT ![j] = vector_add(@, JobCopy(i + 1))],
           UNCHANGED events
    PROVE  /\ JobsKept'
           /\ ElementSet(jobVec'[j]) = ElementSet(jobVec[j]) \cup {JobCopy(i + 1)}
           /\ \A k \in DOMAIN servers : k # j => jobVec'[k] = jobVec[k]
<1> DEFINE u == events[i + 1].requiredProcessingTime
           c == JobCopy(i + 1)
           w == jobVec[j]
           n == w.length
           q == servers[j].jobs
<1>1. PICK v : v = vector_add(w, c)
  OBVIOUS
<1>2. JobsMatch(w, q) /\ j \in DOMAIN jobVec
  BY DEF JobsKept
<1>3. /\ GoodVector(w) /\ n = Len(q) /\ n \in Nat
      /\ \A x \in 0..n - 1 : \E e \in 1..i : /\ w.data[x] = JobCopy(e)
                                             /\ q[x + 1] = events[e].requiredProcessingTime
  <2>1. Len(q) \in Nat
    OBVIOUS
  <2> QED
    BY <1>2, <2>1 DEF JobsMatch
<1>4. jobVec' = [jobVec EXCEPT ![j] = v]
  BY <1>1, <1>2
<1>5. /\ GoodVector(v) /\ v.length = n + 1 /\ v.data[n] = c
      /\ \A x \in 0..n - 1 : v.data[x] = w.data[x]
  <2>1. GoodVector(w)
    BY <1>3
  <2> HIDE DEF w, c
  <2>2. /\ GoodVector(vector_add(w, c)) /\ vector_add(w, c).length = w.length + 1
        /\ vector_add(w, c).data[w.length] = c
        /\ \A x \in 0..w.length - 1 : vector_add(w, c).data[x] = w.data[x]
    BY <2>1, VectorAdded
  <2> QED
    BY <1>1, <2>2
<1>6. /\ Len(r.jobs) = n + 1 /\ r.jobs[n + 1] = u
      /\ \A x \in 1..n : r.jobs[x] = q[x]
  BY <1>3
<1>7. 0..(n + 1) - 1 = 0..n - 1 \cup {n} /\ n \notin 0..n - 1
      /\ \A x \in 0..n - 1 : x + 1 \in 1..n
  BY <1>3
<1>8. /\ i' \in Nat /\ i <= i' /\ 1..i' = 1..i \cup {i + 1}
      /\ \A e \in 1..i : e # i + 1
  OBVIOUS
<1>9. \A e \in 1..i : JobCopy(e) # c
  <2>1. \A e : JobCopy(e)[2] = e
    BY BlockParts
  <2> QED
    BY <1>8, <2>1
<1>10. ASSUME NEW k \in DOMAIN servers, NEW x \in 0..jobVec[k].length - 1
       PROVE  jobVec[k].data[x] # c
  <2>1. JobsMatch(jobVec[k], servers[k].jobs)
    BY DEF JobsKept
  <2> QED
    BY <1>9, <2>1 DEF JobsMatch
<1>11. \A x, y \in 0..n - 1 : w.data[x] = w.data[y] => x = y
  BY DEF JobsKept, CopiesApart
<1>12. \A k \in DOMAIN servers : k # j =>
          \A x \in 0..n - 1, y \in 0..jobVec[k].length - 1 : w.data[x] # jobVec[k].data[y]
  BY DEF JobsKept, CopiesApart
<1>13. \A x \in 0..n - 1 : w.data[x] # c
  BY <1>10
<1> HIDE DEF u, c, q, n
<1>14. JobsMatch(v, r.jobs)'
  <2>1. ASSUME NEW x \in 0..n - 1
        PROVE  \E e \in 1..i' : v.data[x] = JobCopy(e)
                                /\ r.jobs[x + 1] = events[e].requiredProcessingTime
    <3>1. PICK e \in 1..i : w.data[x] = JobCopy(e) /\ q[x + 1] = events[e].requiredProcessingTime
      BY <1>3
    <3>2. v.data[x] = JobCopy(e) /\ r.jobs[x + 1] = events[e].requiredProcessingTime
      BY <1>5, <1>6, <1>7, <3>1
    <3>3. e \in 1..i'
      BY <1>8
    <3> QED
      BY <3>2, <3>3
  <2>2. i + 1 \in 1..i' /\ v.data[n] = JobCopy(i + 1)
        /\ r.jobs[n + 1] = events[i + 1].requiredProcessingTime
    BY <1>5, <1>6, <1>8 DEF u, c
  <2>3. ASSUME NEW x \in 0..v.length - 1
        PROVE  \E e \in 1..i' : v.data[x] = JobCopy(e)
                                /\ r.jobs[x + 1] = events'[e].requiredProcessingTime
    <3>1. CASE x \in 0..n - 1
      BY <2>1, <3>1
    <3>2. CASE x = n
      BY <2>2, <3>2
    <3> QED
      BY <1>5, <1>7, <3>1, <3>2
  <2> QED
    BY <1>5, <1>6, <2>3 DEF JobsMatch
<1>15. \A x, y \in 0..v.length - 1 : v.data[x] = v.data[y] => x = y
  <2>1. \A x \in 0..v.length - 1 : x \in 0..n - 1 \/ x = n
    BY <1>5, <1>7
  <2>2. ASSUME NEW x \in 0..n - 1 PROVE v.data[x] # v.data[n]
    BY <1>5, <1>13
  <2>3. ASSUME NEW x \in 0..n - 1, NEW y \in 0..n - 1, v.data[x] = v.data[y]
        PROVE  x = y
    BY <1>5, <1>11, <2>3
  <2> QED
    BY <2>1, <2>2, <2>3
<1>16. \A k \in DOMAIN servers : k # j =>
          \A x \in 0..v.length - 1, y \in 0..jobVec[k].length - 1 :
             v.data[x] # jobVec[k].data[y]
  BY <1>5, <1>7, <1>10, <1>12
<1>17. JobsKept'
  BY <1>4, <1>8, <1>14, <1>15, <1>16, OneMatches
<1>18. ElementSet(v) = ElementSet(w) \cup {c}
  <2>1. ElementSet(w) = {w.data[x] : x \in 0..n - 1}
    BY DEF ElementSet, n
  <2>2. ElementSet(v) = {v.data[x] : x \in 0..n - 1 \cup {n}}
    BY <1>5, <1>7 DEF ElementSet
  <2> QED
    BY <1>5, <2>1, <2>2
<1>19. jobVec'[j] = v /\ \A k \in DOMAIN servers : k # j => jobVec'[k] = jobVec[k]
  BY <1>4, OneVector
<1> QED
  BY <1>17, <1>18, <1>19 DEF c

(* A job is taken: its copy is the first of the vector and in no other. *)
LEMMA JobTaken ==
    ASSUME JobsKept, servers \in Seq(Servers), i \in Nat,
           NEW j \in DOMAIN servers, NEW r, servers' = [servers EXCEPT ![j] = r],
           servers[j].jobs \in Seq(Nat), servers[j].jobs # << >>,
           r.jobs = Tail(servers[j].jobs),
           jobVec' = [jobVec EXCEPT ![j] = vector_remove(@, 0)],
           UNCHANGED <<events, i>>
    PROVE  LET c == vector_get(jobVec[j], 0)
           IN  /\ JobsKept'
               /\ ElementSet(jobVec'[j]) = ElementSet(jobVec[j]) \ {c}
               /\ \A k \in DOMAIN servers :
                     k # j => jobVec'[k] = jobVec[k] /\ c \notin ElementSet(jobVec[k])
               /\ c \in ElementSet(jobVec[j]) /\ \E e : c = JobCopy(e)
<1> DEFINE w == jobVec[j]
           n == w.length
           q == servers[j].jobs
           c == vector_get(jobVec[j], 0)
<1>1. PICK v : v = vector_remove(w, 0)
  OBVIOUS
<1>2. JobsMatch(w, q) /\ j \in DOMAIN jobVec
  BY DEF JobsKept
<1>3. /\ GoodVector(w) /\ n = Len(q) /\ n \in Nat /\ n > 0
      /\ \A x \in 0..n - 1 : \E e \in 1..i : /\ w.data[x] = JobCopy(e)
                                             /\ q[x + 1] = events[e].requiredProcessingTime
  <2>1. Len(q) \in Nat /\ Len(q) > 0
    OBVIOUS
  <2> QED
    BY <1>2, <2>1 DEF JobsMatch
<1>4. jobVec' = [jobVec EXCEPT ![j] = v]
  BY <1>1, <1>2
<1>5. /\ GoodVector(v) /\ v.length = n - 1
      /\ \A x \in 0..n - 2 : v.data[x] = w.data[x + 1]
  BY <1>1, <1>3, FirstRemoved
<1>6. Len(r.jobs) = n - 1 /\ \A x \in 1..(n - 1) : r.jobs[x] = q[x + 1]
  <2>1. PICK p : p = q
    OBVIOUS
  <2>2. p \in Seq(Nat) /\ p # << >> /\ n = Len(p) /\ r.jobs = Tail(p)
    BY <1>3, <2>1
  <2> HIDE DEF n
  <2>3. Len(Tail(p)) = n - 1 /\ \A x \in 1..(n - 1) : Tail(p)[x] = p[x + 1]
    BY <2>2
  <2> QED
    BY <2>1, <2>2, <2>3
<1>7. /\ (n - 1) - 1 = n - 2 /\ 0 \in 0..n - 1 /\ \A x \in 0..n - 2 : x # n - 1
      /\ \A x \in 0..n - 2 : x + 1 \in 0..n - 1 /\ x + 1 \in 1..(n - 1) /\ x + 1 # 0
      /\ \A x \in 0..n - 1 : x = 0 \/ (x - 1 \in 0..n - 2 /\ (x - 1) + 1 = x)
      /\ \A x, y \in 0..n - 2 : x + 1 = y + 1 => x = y
  <2> n \in Nat /\ n > 0
    BY <1>3
  <2> HIDE DEF n
  <2>1. /\ (n - 1) - 1 = n - 2 /\ 0 \in 0..n - 1 /\ \A x \in 0..n - 2 : x # n - 1
        /\ \A x, y \in 0..n - 2 : x + 1 = y + 1 => x = y
    OBVIOUS
  <2>2. \A x \in 0..n - 2 : x + 1 \in 0..n - 1 /\ x + 1 \in 1..(n - 1) /\ x + 1 # 0
    OBVIOUS
  <2>3. \A x \in 0..n - 1 : x = 0 \/ (x - 1 \in 0..n - 2 /\ (x - 1) + 1 = x)
    OBVIOUS
  <2> QED
    BY <2>1, <2>2, <2>3
<1>8. c = w.data[0]
  BY DEF vector_get
<1>9. \A x, y \in 0..n - 1 : w.data[x] = w.data[y] => x = y
  BY DEF JobsKept, CopiesApart
<1>10. \A k \in DOMAIN servers : k # j =>
          \A x \in 0..n - 1, y \in 0..jobVec[k].length - 1 : w.data[x] # jobVec[k].data[y]
  BY DEF JobsKept, CopiesApart
<1> HIDE DEF q, n, c
<1>11. JobsMatch(v, r.jobs)'
  <2>1. ASSUME NEW x \in 0..n - 2
        PROVE  \E e \in 1..i' : v.data[x] = JobCopy(e)
                                /\ r.jobs[x + 1] = events'[e].requiredProcessingTime
    <3>1. x + 1 \in 0..n - 1 /\ x + 1 \in 1..(n - 1)
      BY <1>7
    <3>2. PICK e \in 1..i : w.data[x + 1] = JobCopy(e)
                            /\ q[(x + 1) + 1] = events[e].requiredProcessingTime
      BY <1>3, <3>1
    <3>3. v.data[x] = w.data[x + 1] /\ r.jobs[x + 1] = q[(x + 1) + 1]
      BY <1>5, <1>6, <3>1
    <3> QED
      BY <3>2, <3>3
  <2>2. \A x \in 0..v.length - 1 : \E e \in 1..i' :
           v.data[x] = JobCopy(e) /\ r.jobs[x + 1] = events'[e].requiredProcessingTime
    <3>1. v.length - 1 = n - 2
      BY <1>3, <1>5
    <3> QED
      BY <2>1, <3>1
  <2> QED
    BY <1>5, <1>6, <2>2 DEF JobsMatch
<1>12. \A x, y \in 0..v.length - 1 : v.data[x] = v.data[y] => x = y
  BY <1>5, <1>7, <1>9
<1>13. \A k \in DOMAIN servers : k # j =>
          \A x \in 0..v.length - 1, y \in 0..jobVec[k].length - 1 :
             v.data[x] # jobVec[k].data[y]
  BY <1>5, <1>7, <1>10
<1>14. JobsKept'
  <2>1. i' \in Nat /\ i <= i'
    OBVIOUS
  <2> QED
    BY <1>4, <1>11, <1>12, <1>13, <2>1, OneMatches
<1>15. ElementSet(w) = {w.data[x] : x \in 0..n - 1}
  BY DEF ElementSet, n
<1>16. ElementSet(v) = ElementSet(w) \ {c}
  <2>1. ElementSet(v) = {v.data[x] : x \in 0..n - 2}
    BY <1>5, <1>7 DEF ElementSet
  <2>2. ASSUME NEW b \in ElementSet(v) PROVE b \in ElementSet(w) \ {c}
    <3>1. PICK x \in 0..n - 2 : b = w.data[x + 1]
      BY <1>5, <2>1
    <3> QED
      BY <1>7, <1>8, <1>9, <1>15, <3>1
  <2>3. ASSUME NEW b \in ElementSet(w) \ {c} PROVE b \in ElementSet(v)
    <3>1. PICK x \in 0..n - 1 : b = w.data[x] /\ x # 0
      BY <1>8, <1>15
    <3>2. x - 1 \in 0..n - 2 /\ v.data[x - 1] = b
      BY <1>5, <1>7, <3>1
    <3> QED
      BY <2>1, <3>2
  <2> QED
    BY <2>2, <2>3
<1>17. jobVec'[j] = v /\ \A k \in DOMAIN servers : k # j => jobVec'[k] = jobVec[k]
  BY <1>4, OneVector
<1>18. \A k \in DOMAIN servers : k # j => c \notin ElementSet(jobVec[k])
  <2>1. 0 \in 0..n - 1
    BY <1>7
  <2>2. ASSUME NEW k \in DOMAIN servers, k # j, NEW y \in 0..jobVec[k].length - 1
        PROVE  jobVec[k].data[y] # c
    BY <1>8, <1>10, <2>1, <2>2
  <2> QED
    BY <2>2 DEF ElementSet
<1>19. c \in ElementSet(w) /\ \E e : c = JobCopy(e)
  BY <1>3, <1>7, <1>8, <1>15
<1> QED
  BY <1>14, <1>16, <1>17, <1>18, <1>19 DEF c

-----------------------------------------------------------------------------
(* InsertRunEvent in a step of one server, the first of its name: one more *)
(* node; what else is allocated is up to the vector of its jobs.           *)
LEMMA RunRecorded ==
    ASSUME MemInv, phase = "simulate", Simulating,
           NEW j \in DOMAIN servers, NEW r, r.cpu = servers[j].cpu,
           \A k \in DOMAIN servers : servers[k].cpu = servers[j].cpu => j <= k,
           servers' = [servers EXCEPT ![j] = r],
           NEW e \in RunData, runTimes' = [runTimes EXCEPT ![servers[j].cpu] = Append(@, e)],
           lists' = RunEventAdded(lists, NextNode(j), RunHead(j)),
           UNCHANGED serverVec, JobsKept',
           NEW X, NEW Y, \A b \in Y : \E m : b = JobCopy(m),
           ElementSet(jobVec'[j]) = (ElementSet(jobVec[j]) \cup X) \ Y,
           \A k \in DOMAIN servers : k # j =>
              /\ ElementSet(jobVec'[k]) = ElementSet(jobVec[k])
              /\ \A b \in Y : b \notin ElementSet(jobVec[k]),
           heap' = (heap \cup {NextNode(j)} \cup X) \ Y
    PROVE  Stage' /\ ServersKept' /\ JobsKept' /\ ListsKept' /\ HeapKept'
<1> DEFINE n == NextNode(j)
<1>1. /\ SimInv /\ RunsFit /\ Stage /\ ServersKept /\ ListsKept /\ HeapKept
      /\ cleaned = 0 /\ UNCHANGED <<result, phase, cleaned>>
  BY DEF MemInv, LedgerInv, Stage, Simulating
<1>2. /\ DOMAIN servers = 1..Len(servers) /\ Len(servers) \in Nat
      /\ \A k \in DOMAIN servers : RunsOf(k) \in Seq(RunData)
  BY <1>1, RunsTyped
<1>3. /\ DOMAIN servers' = DOMAIN servers /\ Len(servers') = Len(servers)
      /\ \A k \in DOMAIN servers : servers'[k].cpu = servers[k].cpu
  <2>1. servers \in Seq(Servers)
    BY <1>1, RunsTyped
  <2> QED
    BY <2>1
<1>4. /\ RunsOf(j)' = Append(RunsOf(j), e)
      /\ \A k \in DOMAIN servers : k # j => RunsOf(k)' = RunsOf(k)
  BY <1>1, <1>3, OneRunGrows
<1>5. /\ ListsKept' /\ NodesOf(j, 0)' = NodesOf(j, 0) \cup {n}
      /\ \A k \in DOMAIN servers : k # j => NodesOf(k, 0)' = NodesOf(k, 0)
  <2>1. DOMAIN servers \subseteq Nat \ {0} /\ phase' = "simulate" /\ cleaned' = 0
    BY <1>1, <1>2
  <2> QED
    BY <1>1, <1>2, <1>3, <1>4, <2>1, ListAppended
<1>6. Stage' /\ ServersKept'
  BY <1>1, <1>2, <1>3 DEF Stage, ServersKept
<1>7. heap = Standing(0)
  BY <1>1 DEF HeapKept
<1>8. \A b \in Y : /\ b \notin Parsed(result) /\ b # ServerVector /\ b \notin ServerCopies
                  /\ b # n /\ \A k : b # JobVector(k) /\ b \notin NodesOf(k, 0)
  <2>1. \A b \in Y : b[1] = "job"
    BY BlockParts
  <2>2. /\ ServerVector[1] # "job" /\ n[1] # "job"
        /\ \A k : JobVector(k)[1] # "job" /\ RunHead(k)[1] # "job"
        /\ \A k, m : RunNode(k, m)[1] # "job"
    BY BlockParts DEF NextNode
  <2>3. \A b : b \in Parsed(result) \/ b \in ServerCopies => b[1] # "job"
    BY BlockParts DEF Parsed, ServerCopies
  <2>4. \A k : \A b \in NodesOf(k, 0) : b[1] # "job"
    BY <2>2 DEF NodesOf
  <2> HIDE DEF n
  <2> QED
    BY <2>1, <2>2, <2>3, <2>4
<1> HIDE DEF n
<1>9. \A k \in DOMAIN servers : k # j => BlocksOf(k)' = BlocksOf(k) /\ \A b \in Y : b \notin BlocksOf(k)
  BY <1>5, <1>8 DEF BlocksOf
<1>10. BlocksOf(j)' = (BlocksOf(j) \cup {n} \cup X) \ Y
  <2>1. BlocksOf(j)' = {JobVector(j)} \cup ElementSet(jobVec'[j]) \cup NodesOf(j, 0)'
    BY DEF BlocksOf
  <2> QED
    BY <1>5, <1>8, <2>1 DEF BlocksOf
<1>11. ServerCopies' = ServerCopies
  BY <1>3 DEF ServerCopies
<1>12. \A k \in DOMAIN servers : k > 0
  BY <1>2
<1> DEFINE Base == Parsed(result) \cup {ServerVector} \cup ServerCopies
<1>13. /\ \A b : b \in Standing(0) <=> b \in Base \/ \E k \in DOMAIN servers : b \in BlocksOf(k)
       /\ \A b : b \in Standing(0)' <=> b \in Base \/ \E k \in DOMAIN servers : b \in BlocksOf(k)'
  BY <1>1, <1>3, <1>11, <1>12 DEF Standing
<1>14. \A b \in Y : b \notin Base
  BY <1>8
<1> HIDE DEF Base
<1>15. Standing(0)' = (Standing(0) \cup {n} \cup X) \ Y
  BY <1>9, <1>10, <1>13, <1>14
<1>16. heap' = Standing(0)'
  BY <1>7, <1>15 DEF n
<1> QED
  BY <1>1, <1>5, <1>6, <1>16 DEF HeapKept

(* A job arrives: it is queued if it has to wait, and always recorded.     *)
LEMMA ArriveKept ==
    ASSUME MemInv, MemArrive
    PROVE  Stage' /\ ServersKept' /\ JobsKept' /\ ListsKept' /\ HeapKept'
<1> DEFINE event == events[i + 1]
           w == event.requiredProcessingTime
<1>1. /\ SimInv /\ JobsKept /\ phase = "simulate" /\ Simulating /\ GoodServers
      /\ SimTypeOK /\ FromInput /\ servers \in Seq(Servers) /\ i \in Nat
  BY SimInvFields DEF MemInv, LedgerInv, Stage, MemArrive, Arrive, SimTypeOK, GoodServers
<1>2. Due /\ i < count /\ Served(event) # {} /\ i' = i + 1 /\ UNCHANGED <<events, currentTime, serverVec>>
  BY DEF MemArrive, Arrive, Due
<1>3. event.arrivalTime \in Nat /\ w \in Nat \ {0}
  BY <1>1, <1>2, EventFields
<1>4. PICK j : j = Min(Served(event))
  OBVIOUS
<1>5. Served(event) = Mine(event.vCpuName)
  BY DEF Served, Mine
<1>6. /\ j \in DOMAIN servers /\ servers[j].cpu = event.vCpuName
      /\ \A k \in Mine(event.vCpuName) : j <= k
  BY <1>1, <1>2, <1>4, <1>5, FirstOfMine
<1>7. \A k \in DOMAIN servers : servers[k].cpu = servers[j].cpu => j <= k
  BY <1>6 DEF Mine
<1>8. PICK r : r = AddJob(servers[j], w, event.arrivalTime)
  OBVIOUS
<1>9. PICK e : e = [time |-> currentTime, action |-> "NewJob"]
  OBVIOUS
<1>10. /\ servers' = [servers EXCEPT ![j] = r]
       /\ runTimes' = [runTimes EXCEPT ![servers[j].cpu] = Append(@, e)]
       /\ lists' = RunEventAdded(lists, NextNode(j), RunHead(j))
  BY <1>4, <1>6, <1>8, <1>9 DEF MemArrive, Arrive, InsertRunEvent
<1>11. e \in RunData
  BY <1>1, <1>9 DEF SimTypeOK, RunData
<1>12. GoodServer(servers[j]) /\ servers[j].jobs \in Seq(Nat)
  <2>1. GoodServer(servers[j])
    BY <1>1, <1>6 DEF GoodServers
  <2>2. servers[j].jobs \in Seq(Nat \ {0})
    BY <2>1, ServerFields DEF GoodServer
  <2> QED
    BY <2>1, <2>2
<1>13. r.cpu = servers[j].cpu
  BY <1>3, <1>8, <1>12, AddJobGood
<1>14. r.jobs = IF servers[j].state # IDLE THEN Append(servers[j].jobs, w) ELSE servers[j].jobs
  BY <1>3, <1>8, <1>12, AddJobWaits
<1>15. CASE servers[j].state # IDLE
  <2>1. /\ jobVec' = [jobVec EXCEPT ![j] = vector_add(@, JobCopy(i + 1))]
        /\ heap' = heap \cup {NextNode(j)} \cup {JobCopy(i + 1)}
    BY <1>4, <1>15 DEF MemArrive
  <2>2. r.jobs = Append(servers[j].jobs, events[i + 1].requiredProcessingTime)
        /\ events[i + 1].requiredProcessingTime \in Nat
    BY <1>3, <1>14, <1>15
  <2>3. /\ JobsKept'
        /\ ElementSet(jobVec'[j]) = ElementSet(jobVec[j]) \cup {JobCopy(i + 1)}
        /\ \A k \in DOMAIN servers : k # j => jobVec'[k] = jobVec[k]
    BY <1>1, <1>2, <1>6, <1>10, <1>12, <2>1, <2>2, JobQueued
  <2>4. PICK X, Y : X = {JobCopy(i + 1)} /\ Y = {}
    OBVIOUS
  <2>5. /\ \A b \in Y : \E m : b = JobCopy(m)
        /\ ElementSet(jobVec'[j]) = (ElementSet(jobVec[j]) \cup X) \ Y
        /\ \A k \in DOMAIN servers : k # j =>
              /\ ElementSet(jobVec'[k]) = ElementSet(jobVec[k])
              /\ \A b \in Y : b \notin ElementSet(jobVec[k])
        /\ heap' = (heap \cup {NextNode(j)} \cup X) \ Y
    BY <2>1, <2>3, <2>4
  <2> QED
    BY <1>1, <1>2, <1>6, <1>7, <1>10, <1>11, <1>13, <2>3, <2>5, RunRecorded
<1>16. CASE servers[j].state = IDLE
  <2>1. jobVec' = jobVec /\ heap' = heap \cup {NextNode(j)} \cup {}
    BY <1>4, <1>16 DEF MemArrive
  <2>2. i' \in Nat /\ i <= i' /\ r.jobs = servers[j].jobs
    BY <1>1, <1>2, <1>14, <1>16
  <2>3. JobsKept'
    BY <1>1, <1>2, <1>6, <1>10, <2>1, <2>2, JobsSame
  <2>4. PICK X, Y : X = {} /\ Y = {}
    OBVIOUS
  <2>5. /\ \A b \in Y : \E m : b = JobCopy(m)
        /\ ElementSet(jobVec'[j]) = (ElementSet(jobVec[j]) \cup X) \ Y
        /\ \A k \in DOMAIN servers : k # j =>
              /\ ElementSet(jobVec'[k]) = ElementSet(jobVec[k])
              /\ \A b \in Y : b \notin ElementSet(jobVec[k])
        /\ heap' = (heap \cup {NextNode(j)} \cup X) \ Y
    BY <2>1, <2>4
  <2> QED
    BY <1>1, <1>2, <1>6, <1>7, <1>10, <1>11, <1>13, <2>3, <2>5, RunRecorded
<1> QED
  BY <1>15, <1>16

(* A unit of work: the server that is worked on is the first of its name.  *)
LEMMA WorkServes ==
    ASSUME SimInv, Work
    PROVE  /\ Active \in DOMAIN servers /\ GoodServer(servers[Active])
           /\ servers[Active].state = ACTIVE
           /\ \A k \in DOMAIN servers : servers[k].cpu = servers[Active].cpu => Active <= k
<1>1. GoodServers /\ FirstServes /\ servers \in Seq(Servers) /\ Active # 0
  BY SimInvFields DEF Work, SimInv, GoodServers
<1>2. Active \in DOMAIN servers /\ servers[Active].state = ACTIVE
  BY <1>1, ActiveFound
<1>3. PICK j : j = Active
  OBVIOUS
<1>4. \A k \in DOMAIN servers : servers[k].cpu = servers[j].cpu => j <= k
  <2>1. DOMAIN servers = 1..Len(servers) /\ Len(servers) \in Nat
    BY <1>1
  <2> QED
    BY <1>1, <1>2, <1>3, <2>1, StateAssumption DEF FirstServes
<1> QED
  BY <1>1, <1>2, <1>3, <1>4 DEF GoodServers

(* A unit of work: it is recorded, and what it ends gives way to the next  *)
(* job, whose copy is freed.                                               *)
LEMMA WorkKept ==
    ASSUME MemInv, MemWork
    PROVE  Stage' /\ ServersKept' /\ JobsKept' /\ ListsKept' /\ HeapKept'
<1>1. /\ SimInv /\ JobsKept /\ phase = "simulate" /\ Simulating
      /\ servers \in Seq(Servers) /\ i \in Nat /\ currentTime \in Nat
      /\ UNCHANGED <<events, i, serverVec>>
  <2>1. SimInv /\ JobsKept /\ Stage /\ Work /\ Simulating /\ UNCHANGED serverVec
    BY DEF MemInv, LedgerInv, MemWork
  <2> QED
    BY <2>1 DEF SimInv, SimTypeOK, Stage, Work
<1>2. PICK j : j = Active
  OBVIOUS
<1>3. /\ j \in DOMAIN servers /\ GoodServer(servers[j]) /\ servers[j].state = ACTIVE
      /\ \A k \in DOMAIN servers : servers[k].cpu = servers[j].cpu => j <= k
  BY <1>1, <1>2, WorkServes DEF MemWork
<1>4. PICK r : r = DoWork(servers[j])
  OBVIOUS
<1>5. PICK e : e = [time |-> currentTime,
                    action |-> IF JobFinished(servers[j]) THEN "JobEnd" ELSE "Work"]
  OBVIOUS
<1>6. e \in RunData
  BY <1>1, <1>5 DEF RunData
<1>7. /\ servers' = [servers EXCEPT ![j] = r]
      /\ runTimes' = [runTimes EXCEPT ![servers[j].cpu] = Append(@, e)]
      /\ lists' = RunEventAdded(lists, NextNode(j), RunHead(j))
  <2>1. servers' = [servers EXCEPT ![Active] = DoWork(servers[Active])]
    BY DEF MemWork, Work
  <2> QED
    BY <1>2, <1>4, <1>5, <2>1 DEF MemWork, Work, InsertRunEvent
<1>8. r.cpu = servers[j].cpu
  BY <1>3, <1>4, DoWorkGood
<1>9. r.jobs = IF JobFinished(servers[j]) /\ servers[j].jobs # << >> THEN Tail(servers[j].jobs)
               ELSE servers[j].jobs
  BY <1>3, <1>4, DoWorkTakes
<1>10. servers[j].jobs \in Seq(Nat) /\ jobVec[j].length = Len(servers[j].jobs)
  <2>1. servers[j].jobs \in Seq(Nat \ {0})
    BY <1>3, ServerFields DEF GoodServer
  <2> QED
    BY <1>1, <1>3, <2>1 DEF JobsKept, JobsMatch
<1>11. jobVec[j].length > 0 <=> servers[j].jobs # << >>
  BY <1>10
<1>12. CASE JobFinished(servers[j]) /\ servers[j].jobs # << >>
  <2> DEFINE c == vector_get(jobVec[j], 0)
  <2>1. /\ jobVec' = [jobVec EXCEPT ![j] = vector_remove(@, 0)]
        /\ heap' = (heap \cup {NextNode(j)}) \ {c}
    BY <1>2, <1>11, <1>12 DEF MemWork
  <2>2. /\ JobsKept'
        /\ ElementSet(jobVec'[j]) = ElementSet(jobVec[j]) \ {c}
        /\ \A k \in DOMAIN servers :
              k # j => jobVec'[k] = jobVec[k] /\ c \notin ElementSet(jobVec[k])
        /\ \E m : c = JobCopy(m)
    BY <1>1, <1>3, <1>7, <1>9, <1>10, <1>12, <2>1, JobTaken
  <2> HIDE DEF c
  <2>3. PICK X, Y : X = {} /\ Y = {c}
    OBVIOUS
  <2>4. /\ \A b \in Y : \E m : b = JobCopy(m)
        /\ ElementSet(jobVec'[j]) = (ElementSet(jobVec[j]) \cup X) \ Y
        /\ \A k \in DOMAIN servers : k # j =>
              /\ ElementSet(jobVec'[k]) = ElementSet(jobVec[k])
              /\ \A b \in Y : b \notin ElementSet(jobVec[k])
        /\ heap' = (heap \cup {NextNode(j)} \cup X) \ Y
    BY <2>1, <2>2, <2>3
  <2> QED
    BY <1>1, <1>3, <1>6, <1>7, <1>8, <2>2, <2>4, RunRecorded
<1>13. CASE ~(JobFinished(servers[j]) /\ servers[j].jobs # << >>)
  <2>1. jobVec' = jobVec /\ heap' = heap \cup {NextNode(j)}
    BY <1>2, <1>11, <1>13 DEF MemWork
  <2>2. i' \in Nat /\ i <= i' /\ r.jobs = servers[j].jobs
    BY <1>1, <1>9, <1>13
  <2>3. JobsKept'
    BY <1>1, <1>3, <1>7, <2>1, <2>2, JobsSame
  <2>4. PICK X, Y : X = {} /\ Y = {}
    OBVIOUS
  <2>5. /\ \A b \in Y : \E m : b = JobCopy(m)
        /\ ElementSet(jobVec'[j]) = (ElementSet(jobVec[j]) \cup X) \ Y
        /\ \A k \in DOMAIN servers : k # j =>
              /\ ElementSet(jobVec'[k]) = ElementSet(jobVec[k])
              /\ \A b \in Y : b \notin ElementSet(jobVec[k])
        /\ heap' = (heap \cup {NextNode(j)} \cup X) \ Y
    BY <2>1, <2>4
  <2> QED
    BY <1>1, <1>3, <1>6, <1>7, <1>8, <2>3, <2>5, RunRecorded
<1> QED
  BY <1>12, <1>13

-----------------------------------------------------------------------------
(* The simulation has ended: what it has left behind does not change.      *)
LEMMA Frozen ==
    ASSUME UNCHANGED <<servers, runTimes, jobVec, result>>
    PROVE  /\ \A j, d : /\ RunsOf(j)' = RunsOf(j) /\ NodesOf(j, d)' = NodesOf(j, d)
                        /\ RunList(j, d)' = RunList(j, d)
           /\ \A c : Standing(c)' = Standing(c)
           /\ ServerCopies' = ServerCopies
<1>1. \A j, d : RunsOf(j)' = RunsOf(j) /\ NodesOf(j, d)' = NodesOf(j, d)
               /\ RunList(j, d)' = RunList(j, d)
  BY DEF RunsOf, NodesOf, RunList
<1>2. ServerCopies' = ServerCopies
  BY DEF ServerCopies
<1>3. \A j : BlocksOf(j)' = BlocksOf(j)
  BY <1>1 DEF BlocksOf
<1>4. \A c : Standing(c)' = Standing(c)
  BY <1>2, <1>3 DEF Standing
<1> QED
  BY <1>1, <1>2, <1>4

(* The vectors of the jobs match while nothing happens to them. *)
LEMMA JobsFrozen ==
    ASSUME JobsKept, UNCHANGED <<servers, jobVec, events, i>>
    PROVE  JobsKept'
<1>1. \A v, q : JobsMatch(v, q) => JobsMatch(v, q)'
  BY DEF JobsMatch
<1>2. CopiesApart'
  BY DEF JobsKept, CopiesApart
<1> QED
  BY <1>1, <1>2 DEF JobsKept

(* What the blocks have been allocated for. *)
LEMMA Kinds ==
    ASSUME JobsKept
    PROVE  /\ \A b \in Parsed(result) :
                 b[1] \in {"virtualCpus", "events", "vcpuName", "eventName"}
           /\ \A b \in ServerCopies : b[1] = "server"
           /\ \A k \in DOMAIN servers : \A b \in ElementSet(jobVec[k]) : b[1] = "job"
           /\ \A k, d : \A b \in NodesOf(k, d) :
                 b[1] \in {"runTimes", "runEvent"} /\ b[2] = k
<1>1. \A b \in Parsed(result) : b[1] \in {"virtualCpus", "events", "vcpuName", "eventName"}
  BY BlockParts DEF Parsed
<1>2. \A b \in ServerCopies : b[1] = "server"
  BY BlockParts DEF ServerCopies
<1>3. ASSUME NEW k \in DOMAIN servers, NEW b \in ElementSet(jobVec[k]) PROVE b[1] = "job"
  <2>1. PICK x \in 0..jobVec[k].length - 1 : b = jobVec[k].data[x]
    BY DEF ElementSet
  <2>2. JobsMatch(jobVec[k], servers[k].jobs)
    BY DEF JobsKept
  <2>3. PICK e \in 1..i : b = JobCopy(e)
    BY <2>1, <2>2 DEF JobsMatch
  <2> QED
    BY <2>3, BlockParts
<1>4. ASSUME NEW k, NEW d, NEW b \in NodesOf(k, d)
      PROVE  b[1] \in {"runTimes", "runEvent"} /\ b[2] = k
  BY BlockParts DEF NodesOf
<1> QED
  BY <1>1, <1>2, <1>3, <1>4

(* The blocks of a server are no others'.                                  *)
LEMMA BlocksApart ==
    ASSUME JobsKept, NEW j \in DOMAIN servers, NEW b \in BlocksOf(j)
    PROVE  /\ b \notin Parsed(result) /\ b # ServerVector /\ b \notin ServerCopies
           /\ \A k \in DOMAIN servers : k # j => b \notin BlocksOf(k)
           /\ b \in NodesOf(j, 0) => b # JobVector(j) /\ b \notin ElementSet(jobVec[j])
<1>1. \A k : JobVector(k)[1] = "jobs" /\ JobVector(k)[2] = k
  BY BlockParts
<1>2. ServerVector[1] = "servers"
  BY BlockParts
<1>3. \/ b = JobVector(j)
      \/ b \in ElementSet(jobVec[j]) /\ b[1] = "job"
      \/ b \in NodesOf(j, 0) /\ b[1] \in {"runTimes", "runEvent"} /\ b[2] = j
  BY Kinds DEF BlocksOf
<1>4. b[1] \in {"jobs", "job", "runTimes", "runEvent"}
  BY <1>1, <1>3
<1>5. b \notin Parsed(result) /\ b # ServerVector /\ b \notin ServerCopies
  BY <1>2, <1>4, Kinds
<1>6. ASSUME NEW k \in DOMAIN servers, k # j PROVE b \notin BlocksOf(k)
  <2>1. b # JobVector(k)
    BY <1>1, <1>3, <1>6
  <2>2. b \notin NodesOf(k, 0)
    BY <1>1, <1>3, <1>6, Kinds
  <2>3. b \notin ElementSet(jobVec[k])
    <3>1. CASE b \in ElementSet(jobVec[j])
      <4>1. \A x \in 0..jobVec[j].length - 1, y \in 0..jobVec[k].length - 1 :
               jobVec[j].data[x] # jobVec[k].data[y]
        BY <1>6 DEF JobsKept, CopiesApart
      <4> QED
        BY <3>1, <4>1 DEF ElementSet
    <3>2. CASE b \notin ElementSet(jobVec[j])
      <4>1. b[1] # "job"
        BY <1>1, <1>3, <3>2
      <4> QED
        BY <4>1, Kinds
    <3> QED
      BY <3>1, <3>2
  <2> QED
    BY <2>1, <2>2, <2>3 DEF BlocksOf
<1>7. b \in NodesOf(j, 0) => b # JobVector(j) /\ b \notin ElementSet(jobVec[j])
  <2>1. \A a \in NodesOf(j, 0) : a[1] \in {"runTimes", "runEvent"}
    BY Kinds
  <2>2. \A a \in ElementSet(jobVec[j]) : a[1] = "job"
    BY Kinds
  <2> QED
    BY <1>1, <2>1, <2>2
<1> QED
  BY <1>5, <1>6, <1>7

(* The blocks of the server whose turn it is are allocated until then.     *)
LEMMA StandingTurn ==
    ASSUME JobsKept, cleaned \in Nat, cleaned < Len(servers),
           DOMAIN servers = 1..Len(servers), Len(servers) \in Nat
    PROVE  /\ Turn \in DOMAIN servers
           /\ Standing(cleaned) = Standing(Turn) \cup BlocksOf(Turn)
           /\ \A b \in BlocksOf(Turn) : b \notin Standing(Turn)
<1>1. PICK c \in Nat : c = Turn
  BY DEF Turn
<1>2. c \in DOMAIN servers /\ \A k \in DOMAIN servers : /\ k > cleaned <=> k > c \/ k = c
                                                       /\ ~(c > c)
  BY <1>1 DEF Turn
<1> DEFINE Base == Parsed(result) \cup {ServerVector} \cup ServerCopies
<1>3. \A d : \A b : b \in Standing(d) <=> b \in Base
                                         \/ \E k \in DOMAIN servers : k > d /\ b \in BlocksOf(k)
  BY DEF Standing
<1>4. ASSUME NEW b \in BlocksOf(c)
      PROVE  b \notin Base /\ \A k \in DOMAIN servers : k # c => b \notin BlocksOf(k)
  BY <1>2, BlocksApart
<1> HIDE DEF Base
<1>5. Standing(cleaned) = Standing(c) \cup BlocksOf(c)
  <2>1. ASSUME NEW b \in Standing(cleaned) PROVE b \in Standing(c) \cup BlocksOf(c)
    BY <1>2, <1>3
  <2>2. ASSUME NEW b \in Standing(c) \cup BlocksOf(c) PROVE b \in Standing(cleaned)
    BY <1>2, <1>3
  <2> QED
    BY <2>1, <2>2
<1>6. ASSUME NEW b \in BlocksOf(c) PROVE b \notin Standing(c)
  <2>1. \A k \in DOMAIN servers : k > c => k # c
    BY <1>2
  <2> QED
    BY <1>3, <1>4, <2>1
<1> QED
  BY <1>1, <1>2, <1>5, <1>6

(* Where the cleanup is: a server is left whose turn it is.                *)
LEMMA TurnLeft ==
    ASSUME MemInv
    PROVE  /\ servers \in Seq(Servers) /\ DOMAIN servers = 1..Len(servers)
           /\ Len(servers) \in Nat /\ cleaned \in Nat /\ JobsKept /\ Stage
           /\ \A k \in DOMAIN servers : Len(RunsOf(k)) \in Nat
           /\ cleaned < Len(servers) => Turn \in DOMAIN servers /\ Turn > cleaned
<1>1. SimInv /\ RunsFit /\ JobsKept /\ Stage
  BY DEF MemInv, LedgerInv
<1> QED
  BY <1>1, RunsTyped DEF Stage, Turn

(* PrintResult only reads. *)
LEMMA PrintKept ==
    ASSUME MemInv, PrintResult
    PROVE  Stage' /\ ServersKept' /\ JobsKept' /\ ListsKept' /\ HeapKept'
<1>1. /\ UNCHANGED <<servers, runTimes, events, i, at, heap, serverVec, jobVec, lists, result, cleaned>>
      /\ phase = "simulate" /\ phase' = "jobs" /\ at = "done"
  BY DEF PrintResult, simvars
<1>2. Stage /\ ServersKept /\ JobsKept /\ ListsKept /\ HeapKept
  BY DEF MemInv
<1>3. /\ \A j, d : RunsOf(j)' = RunsOf(j) /\ NodesOf(j, d)' = NodesOf(j, d)
                   /\ RunList(j, d)' = RunList(j, d)
      /\ \A c : Standing(c)' = Standing(c)
  BY <1>1, Frozen
<1>4. Stage' /\ ServersKept'
  BY <1>1, <1>2 DEF Stage, ServersKept
<1>5. JobsKept'
  BY <1>1, <1>2, JobsFrozen
<1>6. ListsKept'
  BY <1>1, <1>2, <1>3 DEF ListsKept, ListKept, Nodes
<1>7. HeapKept'
  BY <1>1, <1>2, <1>3 DEF HeapKept
<1> QED
  BY <1>4, <1>5, <1>6, <1>7

(* The jobs of a server and their vector are freed; what is left of it are *)
(* its nodes, from the first on.                                           *)
LEMMA FreeJobsKept ==
    ASSUME MemInv, FreeJobs
    PROVE  Stage' /\ ServersKept' /\ JobsKept' /\ ListsKept' /\ HeapKept' /\ ~invalid'
<1>1. /\ UNCHANGED <<servers, runTimes, events, i, at, serverVec, jobVec, lists, result, cleaned>>
      /\ phase = "jobs" /\ phase' = "nodes" /\ cleaned < serverVec.length
  BY DEF FreeJobs, CleanUp, simvars
<1>2. Stage /\ ServersKept /\ JobsKept /\ ListsKept /\ HeapKept /\ cleaned < Len(servers)
  BY <1>1 DEF MemInv, ServersKept
<1>3. /\ \A j, d : RunsOf(j)' = RunsOf(j) /\ NodesOf(j, d)' = NodesOf(j, d)
                   /\ RunList(j, d)' = RunList(j, d)
      /\ \A c : Standing(c)' = Standing(c)
  BY <1>1, Frozen
<1>4. Stage' /\ ServersKept'
  BY <1>1, <1>2 DEF Stage, ServersKept
<1>5. JobsKept'
  BY <1>1, <1>2, JobsFrozen
<1>6. ListsKept'
  BY <1>1, <1>2, <1>3 DEF ListsKept, ListKept, Nodes
<1>7. PICK c : c = Turn
  OBVIOUS
<1>8. /\ c \in DOMAIN servers /\ c > cleaned /\ Len(RunsOf(c)) \in Nat
  BY <1>2, <1>7, TurnLeft
<1>9. ListKept(c, 0)
  BY <1>1, <1>2, <1>8 DEF ListsKept
<1> DEFINE h == RunHead(c)
           q == RunList(c, 0)
<1>10. CircularList(lists, Nodes, Pointers(Nodes), h, q)
  BY <1>9 DEF ListKept
<1>11. /\ lists.next[h] = NodeAt(q, h, 1) /\ lists.next[h] \in Nodes
  <2>1. h \in Nodes /\ q \in Seq(Nodes) /\ Len(q) \in Nat /\ 0 \in 0..Len(q)
    BY <1>10 DEF CircularList
  <2>2. lists.next[NodeAt(q, h, 0)] = NodeAt(q, h, 0 + 1)
    BY <1>10, <2>1 DEF CircularList, Represents
  <2>3. NodeAt(q, h, 0) = h /\ NodeAt(q, h, 1) \in Nodes
    BY <2>1 DEF NodeAt
  <2> QED
    BY <2>2, <2>3
<1>12. pos' = NodeAt(q, h, 1) /\ save' = lists.next[pos']
  BY <1>7, <1>11 DEF FreeJobs, Follow, Nodes
<1>13. heap' = Standing(c) \cup NodesOf(c, 0)
  <2>1. heap = Standing(cleaned)
    BY <1>1, <1>2 DEF HeapKept
  <2>2. /\ Standing(cleaned) = Standing(c) \cup BlocksOf(c)
        /\ \A b \in BlocksOf(c) : b \notin Standing(c)
    BY <1>2, <1>7, TurnLeft, StandingTurn
  <2>3. heap' = heap \ (ElementSet(jobVec[c]) \cup {JobVector(c)})
    BY <1>7 DEF FreeJobs, Destroyed
  <2>4. BlocksOf(c) = {JobVector(c)} \cup ElementSet(jobVec[c]) \cup NodesOf(c, 0)
    BY DEF BlocksOf
  <2>5. \A b \in NodesOf(c, 0) : b # JobVector(c) /\ b \notin ElementSet(jobVec[c])
    BY <1>2, <1>8, <2>4, BlocksApart
  <2> QED
    BY <2>1, <2>2, <2>3, <2>4, <2>5
<1>14. HalfFreed(0)'
  <2>1. Turn' = c
    BY <1>1, <1>7 DEF Turn
  <2>2. heap' = Standing(c)' \cup NodesOf(c, 0)'
    BY <1>3, <1>13
  <2>3. ListKept(c, 0)'
    BY <1>1, <1>3, <1>9 DEF ListKept, Nodes
  <2>4. pos' = NodeAt(RunList(c, 0)', RunHead(c), 1) /\ save' = lists'.next[pos']
    BY <1>1, <1>3, <1>12
  <2> QED
    BY <2>1, <2>2, <2>3, <2>4 DEF HalfFreed
<1>15. HeapKept'
  <2>1. Turn' = c
    BY <1>1, <1>7 DEF Turn
  <2>2. 0 \in 0..Len(RunsOf(Turn)')
    BY <1>3, <1>8, <2>1
  <2> QED
    BY <1>1, <1>14, <2>1, <2>2 DEF HeapKept
<1>16. ~invalid'
  <2>1. heap = Standing(c) \cup BlocksOf(c)
    BY <1>1, <1>2, <1>7, TurnLeft, StandingTurn DEF HeapKept
  <2>2. ServerVector \in heap /\ ServerCopy(c) \in heap
    BY <1>8, <2>1 DEF Standing, ServerCopies
  <2>3. lists.next[h] \in NodesOf(c, 0) /\ h \in NodesOf(c, 0)
    <3>1. q \in Seq(NodesOf(c, 0)) /\ h \in NodesOf(c, 0)
      <4>1. 0 \in 0..Len(RunsOf(c))
        BY <1>8
      <4> QED
        BY <1>8, <4>1, RunListElements DEF NodesOf
    <3> HIDE DEF q, h
    <3> QED
      BY <1>11, <3>1 DEF NodeAt
  <2>4. (ElementSet(jobVec[c]) \cup {JobVector(c)})
           \cup {ServerVector, ServerCopy(c), h, lists.next[h]} \subseteq heap
    BY <2>1, <2>2, <2>3 DEF BlocksOf
  <2>5. EachOnce(jobVec[c])
    <3>1. GoodVector(jobVec[c])
      BY <1>2, <1>8 DEF JobsKept, JobsMatch
    <3>2. \A x, y \in 0..jobVec[c].length - 1 : jobVec[c].data[x] = jobVec[c].data[y] => x = y
      BY <1>2, <1>8 DEF JobsKept, CopiesApart
    <3> QED
      BY <3>1, <3>2, OnceEach
  <2> QED
    BY <1>7, <2>4, <2>5 DEF FreeJobs, CleanUp, Uses, Destroyed
<1> QED
  BY <1>4, <1>5, <1>6, <1>15, <1>16

(* list_for_each_safe: the node at hand is deleted and freed, whatever is  *)
(* left of the list stays linked, and its next node is the saved one.      *)
LEMMA FreeNodeKept ==
    ASSUME MemInv, FreeNode
    PROVE  Stage' /\ ServersKept' /\ JobsKept' /\ ListsKept' /\ HeapKept' /\ ~invalid'
<1>1. /\ UNCHANGED <<servers, runTimes, events, i, at, serverVec, jobVec, result, cleaned, phase>>
      /\ phase = "nodes" /\ lists' = list_del(lists, pos) /\ pos' = save
      /\ save' = Follow(lists', pos') /\ heap' = heap \ {pos}
  BY DEF FreeNode, CleanUp, NextSaved, simvars
<1>2. Stage /\ ServersKept /\ JobsKept /\ ListsKept /\ HeapKept /\ cleaned < Len(servers)
  BY <1>1 DEF MemInv, Stage
<1>3. /\ \A j, d : RunsOf(j)' = RunsOf(j) /\ NodesOf(j, d)' = NodesOf(j, d)
                   /\ RunList(j, d)' = RunList(j, d)
      /\ \A c : Standing(c)' = Standing(c)
  BY <1>1, Frozen
<1>4. Stage' /\ ServersKept'
  BY <1>1, <1>2 DEF Stage, ServersKept
<1>5. JobsKept'
  BY <1>1, <1>2, JobsFrozen
<1>6. PICK c : c = Turn
  OBVIOUS
<1>7. /\ c \in DOMAIN servers /\ c > cleaned /\ Turn' = c
      /\ \A k \in DOMAIN servers : Len(RunsOf(k)) \in Nat
  BY <1>1, <1>2, <1>6, TurnLeft DEF Turn
<1>8. PICK d \in 0..Len(RunsOf(c)) : HalfFreed(d)
  BY <1>1, <1>2, <1>6 DEF HeapKept
<1> DEFINE n == Len(RunsOf(c))
           h == RunHead(c)
           q == RunList(c, d)
           r == RunList(c, d + 1)
           N == Nodes
           T == Pointers(N)
<1>9. /\ heap = Standing(c) \cup NodesOf(c, d) /\ CircularList(lists, N, T, h, q)
      /\ pos = NodeAt(q, h, 1) /\ save = lists.next[pos] /\ pos # h
  BY <1>1, <1>6, <1>8 DEF HalfFreed, ListKept, FreeNode
<1>10. /\ n \in Nat /\ Len(q) = n - d
       /\ \A k \in 1..(n - d) : q[k] = RunNode(c, k + d)
       /\ \A b : OnQ(q, b) => b \in NodesOf(c, d)
  BY <1>7, RunListElements
<1>11. d + 1 \in 0..n /\ 1 \in 1..Len(q) /\ pos = q[1] /\ pos = RunNode(c, d + 1)
  <2>1. 1 \in 1..Len(q)
    BY <1>9 DEF NodeAt
  <2>2. pos = q[1]
    BY <1>9, <2>1 DEF NodeAt
  <2>3. 1 \in 1..(n - d) /\ 1 + d = d + 1
    BY <1>10, <2>1
  <2>4. d + 1 \in 0..n
    BY <1>10, <2>3
  <2> QED
    BY <1>10, <2>1, <2>2, <2>3, <2>4
<1>12. /\ Len(r) = n - (d + 1) /\ r \in Seq(NodesOf(c, d + 1))
       /\ \A k \in 1..(n - (d + 1)) : r[k] = RunNode(c, k + (d + 1))
  BY <1>7, <1>11, RunListElements
<1> HIDE DEF n, h, q, r, N, T
<1>13. RemoveAt(q, 1) = r
  <2>1. q \in Seq(N)
    BY <1>9 DEF CircularList
  <2>2. /\ RemoveAt(q, 1) \in Seq(N) /\ Len(RemoveAt(q, 1)) = Len(q) - 1
        /\ \A k \in 1..(Len(q) - 1) : RemoveAt(q, 1)[k] = IF k < 1 THEN q[k] ELSE q[k + 1]
    BY <1>11, <2>1, RemoveAtElements
  <2>3. /\ Len(q) - 1 = n - (d + 1)
        /\ \A k \in 1..(n - (d + 1)) : /\ ~(k < 1) /\ k + 1 \in 1..(n - d)
                                       /\ (k + 1) + d = k + (d + 1)
    BY <1>10
  <2>4. \A k \in 1..(n - (d + 1)) : RemoveAt(q, 1)[k] = r[k]
    BY <1>10, <1>12, <2>2, <2>3
  <2> QED
    BY <1>12, <2>2, <2>3, <2>4, SeqEqual
<1>14. /\ CircularList(lists', N, T, h, r) /\ OnlyHere(lists, lists', N, h, q, pos)
  <2>1. LIST_POISON1 \in T /\ LIST_POISON2 \in T
    BY DEF T, Pointers
  <2>2. /\ CircularList(list_del(lists, q[1]), N, T, h, RemoveAt(q, 1))
        /\ OnlyHere(lists, list_del(lists, q[1]), N, h, q, q[1])
    BY <1>9, <1>11, <2>1, Deleted
  <2> QED
    BY <1>1, <1>11, <1>13, <2>2
<1>15. /\ lists'.next \in [N -> T] /\ lists'.prev \in [N -> T] /\ Nodes' = N
       /\ PointersSet(lists', N)
  BY <1>14 DEF CircularList, Nodes, PointersSet, T
<1>16. ASSUME NEW k \in DOMAIN servers, k > cleaned, k # c
       PROVE  CircularList(lists', N, T, RunHead(k), RunList(k, 0))
  <2> DEFINE g == RunHead(k)
             p == RunList(k, 0)
  <2>1. CircularList(lists, N, T, g, p)
    BY <1>2, <1>6, <1>16 DEF ListsKept, ListKept, N, T
  <2>2. ASSUME NEW o \in N, o = g \/ OnQ(p, o)
        PROVE  lists'.next[o] = lists.next[o] /\ lists'.prev[o] = lists.prev[o]
    <3>1. o \in NodesOf(k, 0)
      <4>1. Len(RunsOf(k)) \in Nat /\ 0 \in 0..Len(RunsOf(k))
        BY <1>7
      <4> QED
        BY <2>2, <4>1, RunListElements DEF NodesOf
    <3>2. o \notin NodesOf(c, d)
      BY <1>16, <3>1, NodesApart
    <3>3. h \in NodesOf(c, d) /\ pos \in NodesOf(c, d)
      <4>1. d + 1 \in d + 1..n
        BY <1>10, <1>11
      <4> QED
        BY <1>11, <4>1 DEF NodesOf, h, n
    <3>4. o # h /\ o # pos /\ ~OnQ(q, o)
      BY <1>10, <3>2, <3>3
    <3> QED
      BY <1>14, <3>4 DEF OnlyHere
  <2> HIDE DEF g, p
  <2>3. CircularList(lists', N, T, g, p)
    BY <1>15, <2>1, <2>2, OtherList
  <2> QED
    BY <2>3 DEF g, p
<1>17. ListsKept'
  <2>1. N = UNION {NodesOf(k, 0)' : k \in DOMAIN servers'}
    BY <1>1, <1>2, <1>3 DEF ListsKept, N
  <2>2. \A k \in DOMAIN servers' : k > cleaned' /\ ~(phase' = "nodes" /\ k = Turn') => ListKept(k, 0)'
    BY <1>1, <1>3, <1>7, <1>15, <1>16 DEF ListKept, T
  <2> QED
    BY <1>15, <2>1, <2>2 DEF ListsKept
<1>18. heap' = Standing(c) \cup NodesOf(c, d + 1)
  <2>1. d + 1..n = {d + 1} \cup (d + 1) + 1..n /\ d + 1 \notin (d + 1) + 1..n
    BY <1>10, <1>11
  <2>2. \A k \in (d + 1) + 1..n : RunNode(c, k) # pos
    <3>1. \A k : RunNode(c, k)[3] = k
      BY BlockParts
    <3> QED
      BY <1>11, <2>1, <3>1
  <2>3. /\ NodesOf(c, d) = {h} \cup {RunNode(c, k) : k \in d + 1..n}
        /\ NodesOf(c, d + 1) = {h} \cup {RunNode(c, k) : k \in (d + 1) + 1..n}
    BY DEF NodesOf, h, n
  <2>4. NodesOf(c, d) = NodesOf(c, d + 1) \cup {pos} /\ pos \notin NodesOf(c, d + 1)
    BY <1>9, <1>11, <2>1, <2>2, <2>3
  <2>5. pos \notin Standing(c)
    <3>1. pos \in NodesOf(c, 0)
      <4>1. d + 1 \in 0 + 1..Len(RunsOf(c))
        BY <1>10, <1>11 DEF n
      <4> QED
        BY <1>11, <4>1 DEF NodesOf
    <3> QED
      BY <1>2, <1>6, <3>1, TurnLeft, StandingTurn DEF BlocksOf
  <2> QED
    BY <1>1, <1>9, <2>4, <2>5
<1>19. pos' = NodeAt(r, h, 1) /\ save' = lists'.next[pos']
  <2>1. lists.next[NodeAt(q, h, 1)] = NodeAt(q, h, 1 + 1)
    BY <1>9, <1>10, <1>11 DEF CircularList, Represents
  <2>2. NodeAt(q, h, 1 + 1) = NodeAt(r, h, 1)
    <3>1. CASE 1 \in 1..Len(r)
      <4>1. 1 + 1 \in 1..Len(q) /\ 1 + 1 \in 1..(n - d) /\ (1 + 1) + d = 1 + (d + 1)
        BY <1>10, <1>12, <3>1
      <4> QED
        BY <1>10, <1>12, <3>1, <4>1 DEF NodeAt
    <3>2. CASE 1 \notin 1..Len(r)
      <4>1. 1 + 1 \notin 1..Len(q)
        BY <1>10, <1>12, <3>2
      <4> QED
        BY <3>2, <4>1 DEF NodeAt
    <3> QED
      BY <3>1, <3>2
  <2>3. NodeAt(r, h, 1) \in N
    BY <1>14 DEF CircularList, NodeAt
  <2>4. pos' = NodeAt(r, h, 1)
    BY <1>1, <1>9, <2>1, <2>2
  <2>5. pos' \in DOMAIN lists'.next
    BY <1>15, <2>3, <2>4 DEF Nodes
  <2> QED
    BY <1>1, <2>4, <2>5 DEF Follow
<1>20. HalfFreed(d + 1)'
  <2>1. heap' = Standing(c)' \cup NodesOf(c, d + 1)'
    BY <1>3, <1>18
  <2>2. ListKept(c, d + 1)'
    BY <1>3, <1>14, <1>15 DEF ListKept, T, h, r
  <2>3. pos' = NodeAt(RunList(c, d + 1)', RunHead(c), 1) /\ save' = lists'.next[pos']
    BY <1>3, <1>19 DEF h, r
  <2> QED
    BY <1>7, <2>1, <2>2, <2>3 DEF HalfFreed
<1>21. HeapKept'
  <2>1. d + 1 \in 0..Len(RunsOf(Turn)')
    BY <1>3, <1>7, <1>11 DEF n
  <2> QED
    BY <1>1, <1>20, <2>1 DEF HeapKept
<1>22. ~invalid'
  <2>1. LinkedIn(lists, pos)
    <3>1. LIST_POISON1 \in T /\ LIST_POISON2 \in T
      BY DEF T, Pointers
    <3>2. LinkedIn(lists, q[1])
      BY <1>9, <1>11, <3>1, Deleted
    <3> QED
      BY <1>11, <3>2
  <2>2. /\ lists.next[pos] = NodeAt(q, h, 1 + 1) /\ lists.prev[pos] = NodeAt(q, h, 0)
    BY <1>9, <1>10, <1>11 DEF CircularList, Represents
  <2>3. \A k : NodeAt(q, h, k) \in NodesOf(c, d)
    <3>1. h \in NodesOf(c, d) /\ \A k \in 1..Len(q) : q[k] \in NodesOf(c, d)
      BY <1>10 DEF NodesOf, h, OnQ
    <3> QED
      BY <3>1 DEF NodeAt
  <2>4. {pos, pos', lists.next[pos], lists.prev[pos]} \subseteq heap
    BY <1>1, <1>9, <2>2, <2>3
  <2> QED
    BY <2>1, <2>4 DEF FreeNode, CleanUp, Uses
<1> QED
  BY <1>4, <1>5, <1>17, <1>21, <1>22

(* When the traversal is back at the head nothing else is left of the list. *)
LEMMA FreeHeadKept ==
    ASSUME MemInv, FreeHead
    PROVE  Stage' /\ ServersKept' /\ JobsKept' /\ ListsKept' /\ HeapKept' /\ ~invalid'
<1>1. /\ UNCHANGED <<servers, runTimes, events, i, at, serverVec, jobVec, lists, result>>
      /\ phase = "nodes" /\ phase' = "jobs" /\ cleaned' = cleaned + 1 /\ heap' = heap \ {pos}
      /\ pos = RunHead(Turn)
  BY DEF FreeHead, CleanUp, simvars
<1>2. Stage /\ ServersKept /\ JobsKept /\ ListsKept /\ HeapKept /\ cleaned < Len(servers)
  BY <1>1 DEF MemInv, Stage
<1>3. /\ \A j, d : RunsOf(j)' = RunsOf(j) /\ NodesOf(j, d)' = NodesOf(j, d)
                   /\ RunList(j, d)' = RunList(j, d)
      /\ \A c : Standing(c)' = Standing(c)
  BY <1>1, Frozen
<1>4. Stage' /\ ServersKept'
  BY <1>1, <1>2, TurnLeft DEF Stage, ServersKept
<1>5. JobsKept'
  BY <1>1, <1>2, JobsFrozen
<1>6. PICK c : c = Turn
  OBVIOUS
<1>7. /\ c \in DOMAIN servers /\ cleaned' = c /\ Len(RunsOf(c)) \in Nat
      /\ \A k \in DOMAIN servers : k > c => k > cleaned /\ k # c
  <2>1. c = cleaned + 1 /\ cleaned \in Nat /\ c \in DOMAIN servers /\ DOMAIN servers = 1..Len(servers)
        /\ Len(servers) \in Nat /\ Len(RunsOf(c)) \in Nat
    BY <1>2, <1>6, TurnLeft DEF Turn
  <2> QED
    BY <1>1, <2>1
<1>8. ListsKept'
  <2>1. UNCHANGED <<lists, Nodes>> /\ phase' # "nodes"
    BY <1>1 DEF Nodes
  <2>2. \A k \in DOMAIN servers : k > c => ListKept(k, 0)
    BY <1>2, <1>6, <1>7 DEF ListsKept
  <2>3. \A k \in DOMAIN servers : k > c => ListKept(k, 0)'
    BY <1>3, <2>1, <2>2 DEF ListKept
  <2>4. PointersSet(lists, Nodes)' /\ Nodes' = UNION {NodesOf(k, 0)' : k \in DOMAIN servers'}
    BY <1>1, <1>2, <1>3, <2>1 DEF ListsKept
  <2> QED
    BY <1>1, <1>7, <2>3, <2>4 DEF ListsKept
<1>9. PICK d \in 0..Len(RunsOf(c)) : HalfFreed(d)
  BY <1>1, <1>2, <1>6 DEF HeapKept
<1>10. heap = Standing(c) \cup NodesOf(c, d) /\ pos = NodeAt(RunList(c, d), RunHead(c), 1)
       /\ pos = RunHead(c)
  BY <1>1, <1>6, <1>9 DEF HalfFreed
<1>11. NodesOf(c, d) = {pos}
  <2> DEFINE n == Len(RunsOf(c))
             q == RunList(c, d)
  <2>1. Len(q) = n - d /\ \A b : OnQ(q, b) => b # RunHead(c)
    BY <1>7, RunListElements
  <2>2. n \in Nat /\ d \in 0..n
    BY <1>7
  <2> HIDE DEF n, q
  <2>3. 1 \notin 1..Len(q)
    BY <1>10, <2>1 DEF NodeAt, OnQ, q
  <2>4. d + 1..n = {}
    BY <2>1, <2>2, <2>3
  <2> QED
    BY <1>10, <2>4 DEF NodesOf, n
<1>12. pos \notin Standing(c)
  <2>1. pos \in BlocksOf(c)
    BY <1>10 DEF BlocksOf, NodesOf
  <2> QED
    BY <1>2, <1>6, <2>1, TurnLeft, StandingTurn
<1>13. heap' = Standing(c)
  BY <1>1, <1>10, <1>11, <1>12
<1>14. HeapKept'
  <2>1. heap' = Standing(c)'
    BY <1>3, <1>13
  <2> QED
    BY <1>1, <1>7, <2>1 DEF HeapKept
<1>15. ~invalid'
  <2>1. ServerCopy(c) \in heap /\ pos \in heap
    BY <1>7, <1>10, <1>11 DEF Standing, ServerCopies
  <2> QED
    BY <1>6, <2>1 DEF FreeHead, CleanUp, Uses
<1> QED
  BY <1>4, <1>5, <1>8, <1>14, <1>15

(* freeResult: what parseFile has allocated is freed. *)
LEMMA FreeResultKept ==
    ASSUME MemInv, FreeResult
    PROVE  Stage' /\ ServersKept' /\ JobsKept' /\ ListsKept' /\ HeapKept' /\ ~invalid'
<1>1. /\ UNCHANGED <<servers, runTimes, events, i, at, serverVec, jobVec, lists, result, cleaned>>
      /\ phase = "jobs" /\ phase' = "servers" /\ cleaned = serverVec.length
      /\ heap' = heap \ Parsed(result)
  BY DEF FreeResult, CleanUp, simvars
<1>2. Stage /\ ServersKept /\ JobsKept /\ ListsKept /\ HeapKept /\ cleaned = Len(servers)
  BY <1>1 DEF MemInv, ServersKept
<1>3. /\ \A j, d : RunsOf(j)' = RunsOf(j) /\ NodesOf(j, d)' = NodesOf(j, d)
                   /\ RunList(j, d)' = RunList(j, d)
      /\ ServerCopies' = ServerCopies
  BY <1>1, Frozen
<1>4. Stage' /\ ServersKept'
  BY <1>1, <1>2 DEF Stage, ServersKept
<1>5. JobsKept'
  BY <1>1, <1>2, JobsFrozen
<1>6. ListsKept'
  BY <1>1, <1>2, <1>3 DEF ListsKept, ListKept, Nodes
<1>7. heap = Parsed(result) \cup {ServerVector} \cup ServerCopies
  <2>1. {k \in DOMAIN servers : k > cleaned} = {}
    BY <1>2, TurnLeft
  <2>2. heap = Standing(cleaned)
    BY <1>1, <1>2 DEF HeapKept
  <2>3. UNION {BlocksOf(j) : j \in {}} = {}
    OBVIOUS
  <2> QED
    BY <2>1, <2>2, <2>3 DEF Standing
<1>8. \A b \in Parsed(result) : b # ServerVector /\ b \notin ServerCopies
  <2>1. ServerVector[1] = "servers"
    BY BlockParts
  <2> QED
    BY <1>2, <2>1, Kinds
<1>9. heap' = {ServerVector} \cup ServerCopies
  BY <1>1, <1>7, <1>8
<1>10. HeapKept'
  BY <1>1, <1>3, <1>9 DEF HeapKept
<1>11. ~invalid'
  BY <1>7 DEF FreeResult, CleanUp, Uses
<1> QED
  BY <1>4, <1>5, <1>6, <1>10, <1>11

(* The elements of the vector of the servers are their copies, each once.  *)
LEMMA ServerElements ==
    ASSUME MemInv
    PROVE  ElementSet(serverVec) = ServerCopies /\ EachOnce(serverVec)
<1> DEFINE n == Len(servers)
<1>1. ServersKept /\ DOMAIN servers = 1..n /\ n \in Nat
  BY TurnLeft DEF MemInv
<1>2. /\ GoodVector(serverVec) /\ serverVec.length = n
      /\ \A j \in 1..n : serverVec.data[j - 1] = ServerCopy(j)
  BY <1>1 DEF ServersKept
<1> HIDE DEF n
<1>3. /\ \A x \in 0..n - 1 : x + 1 \in 1..n /\ (x + 1) - 1 = x
      /\ \A j \in 1..n : j - 1 \in 0..n - 1
  BY <1>1
<1>4. \A x \in 0..n - 1 : serverVec.data[x] = ServerCopy(x + 1)
  BY <1>2, <1>3
<1>5. ElementSet(serverVec) = {serverVec.data[x] : x \in 0..n - 1}
  BY <1>2 DEF ElementSet
<1>6. ServerCopies = {ServerCopy(j) : j \in 1..n}
  BY <1>1 DEF ServerCopies
<1>7. \A x, y \in 0..n - 1 : serverVec.data[x] = serverVec.data[y] => x = y
  <2>1. \A j : ServerCopy(j)[2] = j
    BY BlockParts
  <2>2. \A x, y \in 0..n - 1 : ServerCopy(x + 1) = ServerCopy(y + 1) => x = y
    BY <2>1
  <2> QED
    BY <1>4, <2>2
<1>8. EachOnce(serverVec)
  BY <1>2, <1>7, OnceEach
<1> QED
  BY <1>2, <1>3, <1>4, <1>5, <1>6, <1>8

(* destroy_vector frees the servers: nothing is left.                      *)
LEMMA DestroyKept ==
    ASSUME MemInv, DestroyServers
    PROVE  Stage' /\ ServersKept' /\ JobsKept' /\ ListsKept' /\ HeapKept' /\ ~invalid'
<1>1. /\ UNCHANGED <<servers, runTimes, events, i, at, serverVec, jobVec, lists, result, cleaned>>
      /\ phase = "servers" /\ phase' = "exit"
      /\ heap' = heap \ (ElementSet(serverVec) \cup {ServerVector})
  BY DEF DestroyServers, CleanUp, Destroyed, simvars
<1>2. Stage /\ ServersKept /\ JobsKept /\ ListsKept /\ HeapKept
  BY <1>1 DEF MemInv
<1>3. \A j, d : RunsOf(j)' = RunsOf(j) /\ NodesOf(j, d)' = NodesOf(j, d)
               /\ RunList(j, d)' = RunList(j, d)
  BY <1>1, Frozen
<1>4. Stage' /\ ServersKept'
  BY <1>1, <1>2 DEF Stage, ServersKept
<1>5. JobsKept'
  BY <1>1, <1>2, JobsFrozen
<1>6. ListsKept'
  BY <1>1, <1>2, <1>3 DEF ListsKept, ListKept, Nodes
<1>7. heap = {ServerVector} \cup ServerCopies /\ ElementSet(serverVec) = ServerCopies
      /\ EachOnce(serverVec)
  BY <1>1, <1>2, ServerElements DEF HeapKept
<1>8. heap' = {}
  BY <1>1, <1>7
<1>9. HeapKept'
  BY <1>1, <1>8 DEF HeapKept
<1>10. ~invalid'
  BY <1>7 DEF DestroyServers, CleanUp, Destroyed, Uses
<1> QED
  BY <1>4, <1>5, <1>6, <1>9, <1>10

-----------------------------------------------------------------------------
(* The invariant holds at the start. *)
LEMMA MemoryInit == MemInit => MemInv /\ ~invalid
<1> SUFFICES ASSUME MemInit PROVE MemInv /\ ~invalid
  OBVIOUS
<1>1. /\ SimInit /\ serverVec = create_vector /\ jobVec = << >> /\ cleaned = 0
      /\ phase = "simulate" /\ lists = [next |-> NoNodes, prev |-> NoNodes]
      /\ heap = Parsed(result) \cup {ServerVector} /\ invalid = FALSE
  BY DEF MemInit
<1>2. servers = << >>
  BY <1>1 DEF SimInit
<1>3. DOMAIN servers = {} /\ Len(servers) = 0
  BY <1>2
<1>4. LedgerInv
  BY <1>1, LedgerInit
<1>5. Stage /\ ServersKept
  BY <1>1, <1>3, VectorCreated DEF Stage, ServersKept
<1>6. JobsKept
  <2>1. << >> \in Seq(Range(<< >>)) /\ Len(<< >>) = 0
    OBVIOUS
  <2> QED
    BY <1>1, <1>3, <2>1 DEF JobsKept, CopiesApart
<1>7. ListsKept
  <2>1. lists.next = NoNodes /\ lists.prev = NoNodes
    BY <1>1
  <2>2. Nodes = {} /\ PointersSet(lists, {})
    BY <2>1 DEF Nodes, NoNodes, PointersSet
  <2> QED
    BY <1>3, <2>2 DEF ListsKept
<1>8. HeapKept
  <2>1. ServerCopies = {} /\ Standing(0) = Parsed(result) \cup {ServerVector}
    BY <1>3 DEF ServerCopies, Standing
  <2> QED
    BY <1>1, <2>1 DEF HeapKept
<1> QED
  BY <1>1, <1>4, <1>5, <1>6, <1>7, <1>8 DEF MemInv

(* A step that changes no server and no memory: the events are sorted, one *)
(* is dropped, or the time passes.                                         *)
LEMMA RestKept ==
    ASSUME MemInv,
           \/ MemSort \/ MemDrop \/ MemIdle \/ MemIdleAtEnd
           \/ UNCHANGED mvars
    PROVE  Stage' /\ ServersKept' /\ JobsKept' /\ ListsKept' /\ HeapKept'
           /\ invalid' = invalid
<1>1. Stage /\ ServersKept /\ JobsKept /\ ListsKept /\ HeapKept /\ i \in Nat
      /\ servers \in Seq(Servers) /\ OnTime
  BY DEF MemInv, LedgerInv, SimInv, SimTypeOK
<1>2. UNCHANGED <<servers, runTimes, memory>> /\ invalid' = invalid
  BY DEF MemSort, Sort, MemDrop, DropEvent, MemIdle, Idle, MemIdleAtEnd, IdleAtEnd,
         mvars, simvars, memory
<1>3. CASE MemSort
  <2>1. \A j \in DOMAIN servers : servers[j].jobs = << >> /\ jobVec[j].length = 0
    BY <1>3, NoJobsYet DEF MemSort, Sort
  <2>2. \A j \in DOMAIN servers : JobsMatch(jobVec[j], servers[j].jobs)'
    <3>1. \A v, q : JobsMatch(v, q) /\ v.length = 0 => JobsMatch(v, q)'
      BY DEF JobsMatch
    <3> QED
      BY <1>1, <1>2, <2>1, <3>1 DEF JobsKept, memory
  <2>3. JobsKept'
    BY <1>1, <1>2, <2>2 DEF JobsKept, CopiesApart, memory
  <2>4. phase = "simulate"
    BY <1>1, <1>3 DEF Stage, MemSort, Sort
  <2> QED
    BY <1>1, <1>2, <2>3, <2>4, MemoryUntouched
<1>4. CASE MemDrop
  <2>1. i' \in Nat /\ i <= i' /\ UNCHANGED <<events, servers, jobVec>>
    BY <1>1, <1>2, <1>4 DEF MemDrop, DropEvent, memory
  <2>2. \A v, q : JobsMatch(v, q) => JobsMatch(v, q)'
    BY <1>1, <2>1, StillMatches
  <2>3. JobsKept'
    BY <1>1, <2>1, <2>2 DEF JobsKept, CopiesApart
  <2>4. phase = "simulate"
    BY <1>1, <1>4 DEF Stage, MemDrop, DropEvent
  <2> QED
    BY <1>1, <1>2, <2>3, <2>4, MemoryUntouched
<1>5. CASE MemIdle \/ MemIdleAtEnd
  <2>1. UNCHANGED <<events, servers, jobVec, i>>
    BY <1>2, <1>5 DEF MemIdle, Idle, MemIdleAtEnd, IdleAtEnd, memory
  <2>2. JobsKept'
    BY <1>1, <2>1, JobsFrozen
  <2>3. phase = "simulate"
    BY <1>1, <1>5 DEF Stage, MemIdle, Idle, MemIdleAtEnd, IdleAtEnd
  <2> QED
    BY <1>1, <1>2, <2>2, <2>3, MemoryUntouched
<1>6. CASE UNCHANGED mvars
  <2>1. UNCHANGED <<at, servers, runTimes, events, i, heap, serverVec, jobVec, lists,
                    result, phase, cleaned, pos, save>>
    BY <1>6 DEF mvars, simvars, memory
  <2>2. JobsKept'
    BY <1>1, <2>1, JobsFrozen
  <2>3. /\ \A j, d : RunsOf(j)' = RunsOf(j) /\ NodesOf(j, d)' = NodesOf(j, d)
                     /\ RunList(j, d)' = RunList(j, d)
        /\ \A c : Standing(c)' = Standing(c)
        /\ ServerCopies' = ServerCopies
    BY <2>1, Frozen
  <2>4. UNCHANGED <<Nodes, Turn>>
    BY <2>1 DEF Nodes, Turn
  <2>5. Stage' /\ ServersKept'
    BY <1>1, <2>1 DEF Stage, ServersKept
  <2>6. ListsKept'
    BY <1>1, <2>1, <2>3, <2>4 DEF ListsKept, ListKept
  <2>7. PICK c : c = Turn
    OBVIOUS
  <2>8. \A d : HalfFreed(d) => HalfFreed(d)'
    <3> SUFFICES ASSUME NEW d, HalfFreed(d) PROVE HalfFreed(d)'
      OBVIOUS
    <3>1. /\ heap = Standing(c) \cup NodesOf(c, d) /\ ListKept(c, d)
          /\ pos = NodeAt(RunList(c, d), RunHead(c), 1) /\ save = lists.next[pos]
      BY <2>7 DEF HalfFreed
    <3>2. /\ heap' = Standing(c)' \cup NodesOf(c, d)' /\ ListKept(c, d)'
          /\ pos' = NodeAt(RunList(c, d)', RunHead(c), 1) /\ save' = lists'.next[pos']
      BY <2>1, <2>3, <2>4, <3>1 DEF ListKept
    <3> QED
      BY <2>4, <2>7, <3>2 DEF HalfFreed
  <2>9. HeapKept'
    <3>1. phase = "nodes" => \E d \in 0..Len(RunsOf(Turn)') : HalfFreed(d)'
      <4>1. ASSUME phase = "nodes" PROVE \E d \in 0..Len(RunsOf(c)) : HalfFreed(d)
        BY <1>1, <2>7, <4>1 DEF HeapKept
      <4> QED
        BY <2>3, <2>4, <2>7, <2>8, <4>1
    <3>2. phase \in {"simulate", "jobs"} => heap' = Standing(cleaned)'
      <4>1. PICK d : d = cleaned
        OBVIOUS
      <4>2. Standing(cleaned)' = Standing(d)' /\ Standing(d)' = Standing(d)
        BY <2>1, <2>3, <4>1
      <4> QED
        BY <1>1, <2>1, <4>1, <4>2 DEF HeapKept
    <3>3. phase = "servers" => heap' = {ServerVector} \cup ServerCopies'
      BY <1>1, <2>1, <2>3 DEF HeapKept
    <3>4. phase = "exit" => heap' = {}
      BY <1>1, <2>1 DEF HeapKept
    <3>5. phase' = phase
      BY <2>1
    <3>6. phase' \in {"simulate", "jobs"} => heap' = Standing(cleaned)'
      BY <3>2, <3>5
    <3>7. phase' = "nodes" => \E d \in 0..Len(RunsOf(Turn)') : HalfFreed(d)'
      BY <3>1, <3>5
    <3>8. phase' = "servers" => heap' = {ServerVector} \cup ServerCopies'
      BY <3>3, <3>5
    <3>9. phase' = "exit" => heap' = {}
      BY <3>4, <3>5
    <3> QED
      BY <3>6, <3>7, <3>8, <3>9 DEF HeapKept
  <2> QED
    BY <1>2, <2>2, <2>5, <2>6, <2>9
<1> QED
  BY <1>2, <1>3, <1>4, <1>5, <1>6

(* The simulation goes on as it does without its memory.                   *)
LEMMA MemoryStepSimulates == [MemNext]_mvars => [SimNext]_simvars
BY DEF MemNext, mvars, SimNext, MemRegister, MemSort, MemArrive, MemDrop, MemIdle,
       MemIdleAtEnd, MemWork, PrintResult, FreeJobs, FreeNode, FreeHead, FreeResult,
       DestroyServers, CleanUp

(* The invariant is inductive.                                             *)
LEMMA MemoryStep == MemInv /\ [MemNext]_mvars => MemInv'
<1> SUFFICES ASSUME MemInv, [MemNext]_mvars PROVE MemInv'
  OBVIOUS
<1>1. [SimNext]_simvars
  BY MemoryStepSimulates
<1>2. LedgerInv'
  BY <1>1, LedgerStep DEF MemInv
<1>3. Stage' /\ ServersKept' /\ JobsKept' /\ ListsKept' /\ HeapKept'
  BY RegisterRefused, RegisterAdmitted, ArriveKept, WorkKept, RestKept, PrintKept,
     FreeJobsKept, FreeNodeKept, FreeHeadKept, FreeResultKept, DestroyKept DEF MemNext
<1> QED
  BY <1>2, <1>3 DEF MemInv

(* While the simulation goes on everything it works with is allocated.     *)
LEMMA StandingBlocks ==
    ASSUME MemInv, phase = "simulate"
    PROVE  /\ EventArray \in heap /\ ServerVector \in heap
           /\ ElementSet(serverVec) \subseteq heap
           /\ Nodes \subseteq heap
           /\ \A j \in DOMAIN servers :
                 /\ ServerCopy(j) \in heap /\ JobVector(j) \in heap
                 /\ ElementSet(jobVec[j]) \subseteq heap
                 /\ RunHead(j) \in heap /\ lists.prev[RunHead(j)] \in heap
<1>1. heap = Standing(0) /\ ListsKept /\ cleaned = 0
  BY DEF MemInv, HeapKept, Stage
<1>2. \A j \in DOMAIN servers : j > 0
  BY TurnLeft
<1>3. /\ Parsed(result) \subseteq heap /\ ServerVector \in heap /\ ServerCopies \subseteq heap
      /\ \A j \in DOMAIN servers : BlocksOf(j) \subseteq heap
  BY <1>1, <1>2 DEF Standing
<1>4. Nodes \subseteq heap
  <2>1. Nodes = UNION {NodesOf(j, 0) : j \in DOMAIN servers}
    BY <1>1 DEF ListsKept
  <2>2. \A j \in DOMAIN servers : NodesOf(j, 0) \subseteq heap
    BY <1>3 DEF BlocksOf
  <2> QED
    BY <2>1, <2>2
<1>5. ASSUME NEW j \in DOMAIN servers
      PROVE  RunHead(j) \in heap /\ lists.prev[RunHead(j)] \in heap
  <2> DEFINE N == Nodes
             h == RunHead(j)
             q == RunList(j, 0)
  <2>1. CircularList(lists, N, Pointers(N), h, q)
    BY <1>1, <1>2 DEF ListsKept, ListKept
  <2>2. h \in N /\ q \in Seq(N) /\ Len(q) \in Nat
    BY <2>1 DEF CircularList
  <2>3. lists.prev[NodeAt(q, h, Len(q) + 1)] = NodeAt(q, h, Len(q))
    BY <2>1, <2>2 DEF CircularList, Represents
  <2>4. NodeAt(q, h, Len(q) + 1) = h /\ NodeAt(q, h, Len(q)) \in N
    BY <2>2 DEF NodeAt
  <2> QED
    BY <1>4, <2>2, <2>3, <2>4
<1>6. EventArray \in Parsed(result)
  BY DEF Parsed
<1> QED
  BY <1>3, <1>4, <1>5, <1>6, ServerElements DEF ServerCopies, BlocksOf

(* No step uses what is not allocated. *)
LEMMA AccessStep ==
    ASSUME MemInv, ~invalid, [MemNext]_mvars
    PROVE  ~invalid'
<1>1. CASE MemRegister
  <2>1. ServerVector \in heap
    BY <1>1, StandingBlocks DEF MemInv, Stage, MemRegister, RegisterVCPU
  <2>2. AddInBounds(serverVec)
    BY VectorAdded DEF MemInv, ServersKept
  <2> QED
    BY <1>1, <2>1, <2>2 DEF MemRegister, Uses
<1>2. CASE MemArrive
  <2>1. phase = "simulate" /\ SimInv /\ Served(events[i + 1]) # {} /\ JobsKept
    BY <1>2 DEF MemInv, LedgerInv, Stage, MemArrive, Arrive
  <2>2. PICK j : j = Min(Served(events[i + 1]))
    OBVIOUS
  <2>3. j \in DOMAIN servers
    <3>1. servers \in Seq(Servers) /\ Served(events[i + 1]) = Mine(events[i + 1].vCpuName)
      BY <2>1 DEF SimInv, SimTypeOK, Served, Mine
    <3> QED
      BY <2>1, <2>2, <3>1, FirstOfMine
  <2>4. AddInBounds(jobVec[j])
    BY <2>1, <2>3, VectorAdded DEF JobsKept, JobsMatch
  <2>5. {EventArray, ServerVector, ServerCopy(j), RunHead(j), lists.prev[RunHead(j)],
         JobVector(j)} \subseteq heap
    BY <2>1, <2>3, StandingBlocks
  <2> QED
    BY <1>2, <2>2, <2>4, <2>5 DEF MemArrive, Uses
<1>3. CASE MemWork
  <2>1. phase = "simulate" /\ SimInv /\ JobsKept
    BY <1>3 DEF MemInv, LedgerInv, Stage, MemWork, Work
  <2>2. PICK j : j = Active
    OBVIOUS
  <2>3. j \in DOMAIN servers
    BY <1>3, <2>1, <2>2, WorkServes DEF MemWork
  <2>4. {ServerVector, ServerCopy(j), JobVector(j), RunHead(j), lists.prev[RunHead(j)]}
           \cup ElementSet(jobVec[j]) \subseteq heap
    BY <2>1, <2>3, StandingBlocks
  <2>5. jobVec[j].length > 0 => vector_get(jobVec[j], 0) \in ElementSet(jobVec[j])
    <3>1. GoodVector(jobVec[j])
      BY <2>1, <2>3 DEF JobsKept, JobsMatch
    <3>2. jobVec[j].length \in Nat
      BY <3>1 DEF GoodVector
    <3>3. jobVec[j].length > 0 => 0 \in 0..jobVec[j].length - 1
      BY <3>2
    <3> QED
      BY <3>3 DEF vector_get, ElementSet
  <2> QED
    BY <1>3, <2>2, <2>4, <2>5 DEF MemWork, Uses
<1>4. CASE PrintResult
  <2>1. {ServerVector} \cup ElementSet(serverVec) \cup DOMAIN lists.next \subseteq heap
    BY <1>4, StandingBlocks DEF PrintResult, Nodes
  <2> QED
    BY <1>4, <2>1 DEF PrintResult, Uses
<1> QED
  BY <1>1, <1>2, <1>3, <1>4, RestKept, FreeJobsKept, FreeNodeKept, FreeHeadKept,
     FreeResultKept, DestroyKept DEF MemNext

(* With its memory the simulator does what Simulator says: what is proved  *)
(* of the loop holds for the program with its vectors and lists.           *)
THEOREM MemoryRefinesSimulator == MemSpec => SimInit /\ [][SimNext]_simvars
<1>1. MemInit => SimInit
  BY DEF MemInit
<1> QED
  BY <1>1, MemoryStepSimulates, PTL DEF MemSpec

(* The simulator and its cleanup use no memory that has not been allocated *)
(* or has been freed, write nothing behind the end of the data of a vector *)
(* and free nothing twice, on any build.  What they write behind the end   *)
(* of the sizes is told by SizesAsCounted.                                 *)
THEOREM MemorySafe == MemSpec => []AccessesValid
<1>1. MemInit => MemInv /\ ~invalid
  BY MemoryInit
<1>2. MemInv /\ ~invalid /\ [MemNext]_mvars => (MemInv /\ ~invalid)'
  BY MemoryStep, AccessStep
<1>3. MemInv /\ ~invalid => AccessesValid
  BY DEF AccessesValid
<1> QED
  BY <1>1, <1>2, <1>3, PTL DEF MemSpec

-----------------------------------------------------------------------------
(* Recorded of a vector until now: that it has grown, or holds more than   *)
(* the array of its sizes has room for, only after that was overrun.       *)
SizesKept(vec, block) ==
    /\ vec.capacity >= BASE_CAP
    /\ vec.capacity > BASE_CAP \/ vec.length > SizesRoom => block \in overrun

(* The jobs that have come for a vCPU. *)
JobsCome(name) == Cardinality(Handled(EventsOf(name)))

(* The invariant from which SizesOverrun follows. *)
SizesInv ==
    /\ overrun \subseteq {ServerVector} \cup {JobVector(j) : j \in DOMAIN servers}
    /\ SIZEOF_SIZE_T <= SIZEOF_INT => overrun = {}
    /\ SIZEOF_SIZE_T > SIZEOF_INT =>
          /\ SizesKept(serverVec, ServerVector)
          /\ ServerVector \in overrun => Len(servers) > SizesRoom
          /\ \A j \in DOMAIN servers :
                /\ SizesKept(jobVec[j], JobVector(j))
                /\ JobVector(j) \in overrun => JobsCome(servers[j].cpu) > SizesRoom + 1

(* A product grows with its first factor. *)
LEMMA ProductGrows ==
    ASSUME NEW x \in Nat, NEW y \in Nat, x <= y, NEW z \in Nat
    PROVE  x * z \in Nat /\ y * z \in Nat /\ x * z <= y * z
<1>1. PICK m \in Nat : m = y - x /\ y = x + m
  <2>1. y - x \in Nat /\ y = x + (y - x)
    OBVIOUS
  <2> QED
    BY <2>1
<1>2. y * z = x * z + m * z
  BY <1>1
<1>3. PICK X \in Nat, M \in Nat : X = x * z /\ M = m * z
  OBVIOUS
<1>4. y * z = X + M
  BY <1>2, <1>3
<1> QED
  BY <1>3, <1>4

(* Where a size_t is no wider than an int, every size finds its place; on  *)
(* the other builds the first size that does not is the one that SizesRoom *)
(* does not count.                                                         *)
LEMMA SizePlaced ==
    ASSUME NEW v, GoodVector(v)
    PROVE  /\ SIZEOF_SIZE_T <= SIZEOF_INT => SizeInBounds(v)
           /\ SIZEOF_SIZE_T > SIZEOF_INT =>
                 /\ SizesRoom \in Nat /\ SizesRoom < BASE_CAP
                 /\ v.capacity >= BASE_CAP =>
                       /\ ~SizeInBounds(v) => v.length + 1 > SizesRoom
                       /\ /\ v.capacity = BASE_CAP /\ v.length < BASE_CAP
                          /\ v.length + 1 > SizesRoom
                          => ~SizeInBounds(v)
<1>1. PICK c, n, d : /\ c = check_length(v).capacity /\ n = check_length(v).length
                     /\ d = v.capacity
  OBVIOUS
<1>2. PICK T, I, B, R : T = SIZEOF_SIZE_T /\ I = SIZEOF_INT /\ B = BASE_CAP /\ R = SizesRoom
  OBVIOUS
<1>3. T \in Nat \ {0} /\ I \in Nat \ {0} /\ B \in Nat \ {0, 1}
  BY <1>2, VectorAssumption
<1>4. /\ c \in Nat /\ d \in Nat /\ n \in Nat /\ n < c /\ n = v.length /\ d <= c
      /\ v.length < v.capacity => c = d
  <2>1. /\ GoodVector(check_length(v)) /\ n = v.length /\ n < c
    BY <1>1, RoomMade
  <2>2. v.capacity \in Nat /\ v.length \in Nat
    BY DEF GoodVector
  <2>3. c \in Nat
    BY <1>1, <2>1 DEF GoodVector
  <2>4. v.length < v.capacity => c = d
    BY <1>1, <2>2 DEF check_length, Full
  <2> QED
    BY <1>1, <2>1, <2>2, <2>3, <2>4
<1>5. SizeInBounds(v) <=> (n + 1) * T <= c * I
  BY <1>1, <1>2 DEF SizeInBounds
<1>6. CASE T <= I
  <2>1. (n + 1) * T <= c * T /\ (n + 1) * T \in Nat /\ c * T \in Nat
    BY <1>3, <1>4, ProductGrows
  <2>2. T * c <= I * c /\ I * c \in Nat
    BY <1>3, <1>4, <1>6, ProductGrows
  <2>3. T * c = c * T /\ I * c = c * I
    BY <1>3, <1>4
  <2>4. PICK x \in Nat, y \in Nat, z \in Nat :
              x = (n + 1) * T /\ y = c * T /\ z = c * I
    BY <2>1, <2>2, <2>3
  <2>5. x <= y /\ y <= z
    BY <2>1, <2>2, <2>3, <2>4
  <2>6. SizeInBounds(v)
    BY <1>5, <2>4, <2>5
  <2> QED
    BY <1>2, <1>3, <1>6, <2>6
<1>7. CASE T > I
  <2>1. PICK X \in Nat : X = B * I
    BY <1>3
  <2>2. R = X \div T
    BY <1>2, <2>1 DEF SizesRoom
  <2>3. R \in Nat /\ R * T <= X /\ X < (R + 1) * T
    <3>1. X \div T \in Int /\ X = T * (X \div T) + (X % T) /\ X % T \in 0..T - 1
          /\ X \div T >= 0
      BY <1>3
    <3>2. PICK r \in Nat, y \in Nat : r = R /\ y = X % T /\ X = T * r + y /\ y < T
      BY <1>3, <2>2, <3>1
    <3>3. T * r = r * T /\ (r + 1) * T = r * T + T
      BY <1>3
    <3>4. PICK z \in Nat : z = r * T
      BY <1>3
    <3> QED
      BY <1>3, <3>2, <3>3, <3>4
  <2>4. PICK E \in Nat, F \in Nat, G \in Nat, H \in Nat :
              E = (n + 1) * T /\ F = c * I /\ G = R * T /\ H = (R + 1) * T
    BY <1>3, <1>4, <2>3
  <2>5. R < B
    <3>1. SUFFICES ASSUME B <= R PROVE FALSE
      BY <1>3, <2>3
    <3>2. B * T \in Nat /\ B * T <= G
      BY <1>3, <2>3, <2>4, <3>1, ProductGrows
    <3>3. (I + 1) * B <= T * B /\ (I + 1) * B \in Nat /\ T * B \in Nat
      BY <1>3, <1>7, ProductGrows
    <3>4. (I + 1) * B = B * I + B /\ T * B = B * T
      BY <1>3
    <3> QED
      BY <1>3, <2>1, <2>3, <2>4, <3>2, <3>3, <3>4
  <2>6. ASSUME B <= c, E > F PROVE n + 1 > R
    <3>1. SUFFICES ASSUME n + 1 <= R PROVE FALSE
      BY <1>4, <2>3
    <3>2. E <= G
      BY <1>3, <1>4, <2>3, <2>4, <3>1, ProductGrows
    <3>3. X <= F
      BY <1>3, <1>4, <2>1, <2>4, <2>6, ProductGrows
    <3> QED
      BY <2>3, <2>4, <2>6, <3>2, <3>3
  <2>7. ASSUME c = B, n + 1 > R PROVE E > F
    <3>1. R + 1 <= n + 1
      BY <1>4, <2>3, <2>7
    <3>2. H <= E
      BY <1>3, <1>4, <2>3, <2>4, <3>1, ProductGrows
    <3> QED
      BY <2>1, <2>3, <2>4, <2>7, <3>2
  <2>8. SizeInBounds(v) <=> E <= F
    BY <1>5, <2>4
  <2>9. d >= B /\ ~SizeInBounds(v) => n + 1 > R
    BY <1>3, <1>4, <2>6, <2>8
  <2>10. d = B /\ v.length < B /\ n + 1 > R => ~SizeInBounds(v)
    BY <1>1, <1>4, <2>7, <2>8
  <2>11. /\ SIZEOF_SIZE_T > SIZEOF_INT /\ ~(SIZEOF_SIZE_T <= SIZEOF_INT)
         /\ SizesRoom \in Nat /\ SizesRoom < BASE_CAP
    BY <1>2, <1>3, <1>7, <2>3, <2>5
  <2>12. /\ v.capacity >= BASE_CAP /\ ~SizeInBounds(v) => v.length + 1 > SizesRoom
         /\ /\ v.capacity = BASE_CAP /\ v.length < BASE_CAP
            /\ v.length + 1 > SizesRoom
            => ~SizeInBounds(v)
    BY <1>1, <1>2, <1>4, <2>9, <2>10
  <2> QED
    BY <2>11, <2>12
<1> QED
  BY <1>3, <1>6, <1>7

(* What an element more means for the sizes of a vector.                   *)
LEMMA SizeCounted ==
    ASSUME NEW v, GoodVector(v), NEW p, NEW block, SizesKept(v, block),
           SIZEOF_SIZE_T > SIZEOF_INT, SizeAdded(v, block)
    PROVE  /\ SizesKept(vector_add(v, p), block)'
           /\ block \in overrun' => block \in overrun \/ v.length + 1 > SizesRoom
<1>1. v.length \in Nat /\ v.capacity \in Nat /\ v.length <= v.capacity
  BY DEF GoodVector
<1>2. /\ SizesRoom \in Nat /\ SizesRoom < BASE_CAP /\ v.capacity >= BASE_CAP
      /\ BASE_CAP \in Nat
  BY SizePlaced, VectorAssumption DEF SizesKept
<1>3. overrun' = overrun \cup (IF SizeInBounds(v) THEN {} ELSE {block})
  BY DEF SizeAdded
<1>4. PICK w : w = vector_add(v, p)
  OBVIOUS
<1>5. /\ w.length = v.length + 1 /\ w.capacity = check_length(v).capacity
  <2>1. PICK u : u = check_length(v)
    OBVIOUS
  <2>2. GoodVector(u) /\ u.length = v.length
    BY <2>1, RoomMade
  <2>3. w = [u EXCEPT !.data[u.length] = p, !.length = @ + 1]
    BY <1>4, <2>1, Zenon DEF vector_add
  <2>4. u = [data |-> u.data, length |-> u.length, capacity |-> u.capacity]
    BY <2>2 DEF GoodVector
  <2> QED
    BY <2>1, <2>2, <2>3, <2>4
<1>6. CASE ~Full(v)
  <2>1. w.capacity = v.capacity /\ v.length < v.capacity
    BY <1>1, <1>5, <1>6 DEF check_length, Full
  <2>2. /\ v.capacity = BASE_CAP /\ v.length + 1 > SizesRoom => block \in overrun'
        /\ ~SizeInBounds(v) => v.length + 1 > SizesRoom
    BY <1>1, <1>2, <1>3, <2>1, SizePlaced
  <2>3. v.capacity > BASE_CAP => block \in overrun
    BY DEF SizesKept
  <2>4. w.capacity > BASE_CAP \/ w.length > SizesRoom => block \in overrun'
    BY <1>1, <1>2, <1>3, <1>5, <2>1, <2>2, <2>3
  <2>5. w.capacity >= BASE_CAP
    BY <1>2, <2>1
  <2> QED
    BY <1>3, <1>4, <2>2, <2>4, <2>5 DEF SizesKept, SizesRoom
<1>7. CASE Full(v)
  <2>1. block \in overrun
    BY <1>1, <1>2, <1>7 DEF Full, SizesKept
  <2>2. w.capacity >= BASE_CAP
    <3>1. check_length(v).capacity \in Nat /\ v.length < check_length(v).capacity
      BY RoomMade DEF GoodVector
    <3>2. v.length >= v.capacity
      BY <1>7 DEF Full
    <3> QED
      BY <1>1, <1>2, <1>5, <3>1, <3>2
  <2> QED
    BY <1>3, <1>4, <2>1, <2>2 DEF SizesKept
<1> QED
  BY <1>6, <1>7

(* A step that adds nothing to a vector leaves the sizes as they are.      *)
LEMMA SizesSame ==
    ASSUME SizesInv, UNCHANGED <<serverVec, overrun>>,
           DOMAIN servers' = DOMAIN servers, Len(servers') = Len(servers),
           \A j \in DOMAIN servers :
              /\ servers'[j].cpu = servers[j].cpu
              /\ JobsCome(servers[j].cpu) \in Nat /\ JobsCome(servers[j].cpu)' \in Nat
              /\ JobsCome(servers[j].cpu) <= JobsCome(servers[j].cpu)'
              /\ jobVec'[j].capacity = jobVec[j].capacity
              /\ jobVec[j].length \in Nat /\ jobVec'[j].length \in Nat
              /\ jobVec'[j].length <= jobVec[j].length
    PROVE  SizesInv'
<1>1. overrun' = overrun /\ serverVec' = serverVec
  OBVIOUS
<1>2. overrun' \subseteq {ServerVector} \cup {JobVector(j) : j \in DOMAIN servers'}
  BY DEF SizesInv
<1>3. SIZEOF_SIZE_T <= SIZEOF_INT => overrun' = {}
  BY DEF SizesInv
<1>4. ASSUME SIZEOF_SIZE_T > SIZEOF_INT
      PROVE  /\ SizesKept(serverVec, ServerVector)'
             /\ ServerVector \in overrun' => Len(servers') > SizesRoom
             /\ \A j \in DOMAIN servers' :
                   /\ SizesKept(jobVec[j], JobVector(j))'
                   /\ JobVector(j) \in overrun'
                         => JobsCome(servers[j].cpu)' > SizesRoom + 1
  <2>1. SizesRoom \in Nat
    <3>1. GoodVector(create_vector)
      BY VectorCreated
    <3> QED
      BY <1>4, <3>1, SizePlaced
  <2>2. SizesKept(serverVec, ServerVector)'
        /\ (ServerVector \in overrun' => Len(servers') > SizesRoom)
    BY <1>1, <1>4 DEF SizesInv, SizesKept
  <2>3. ASSUME NEW j \in DOMAIN servers
        PROVE  /\ SizesKept(jobVec[j], JobVector(j))'
               /\ JobVector(j) \in overrun' => JobsCome(servers[j].cpu)' > SizesRoom + 1
    <3>1. PICK a \in Nat, b \in Nat :
                 a = JobsCome(servers[j].cpu) /\ b = JobsCome(servers[j].cpu)' /\ a <= b
      OBVIOUS
    <3>2. SizesKept(jobVec[j], JobVector(j)) /\ (JobVector(j) \in overrun => a > SizesRoom + 1)
      BY <1>4, <3>1 DEF SizesInv
    <3>3. SizesKept(jobVec[j], JobVector(j))'
      BY <1>1, <2>1, <3>2 DEF SizesKept
    <3>4. JobVector(j) \in overrun' => b > SizesRoom + 1
      BY <1>1, <2>1, <3>1, <3>2
    <3> QED
      BY <3>1, <3>3, <3>4
  <2> QED
    BY <2>2, <2>3
<1> QED
  BY <1>2, <1>3, <1>4, Zenon DEF SizesInv

(* The jobs that have come for a vCPU are counted, and never fewer.        *)
LEMMA JobsCounted ==
    ASSUME SimInv, UNCHANGED events, i' = i \/ (i < count /\ i' = i + 1), NEW name
    PROVE  /\ JobsCome(name) \in Nat /\ JobsCome(name)' \in Nat
           /\ JobsCome(name) <= JobsCome(name)'
<1>1. CASE i' = i
  <2>1. JobsCome(name)' = JobsCome(name)
    BY <1>1 DEF JobsCome, Handled
  <2>2. JobsCome(name) \in Nat
    <3>1. i \in Nat
      BY SimInvFields
    <3>2. IsFiniteSet(1..i) /\ Handled(EventsOf(name)) \subseteq 1..i
      BY <3>1, FS_Interval DEF Handled
    <3> QED
      BY <3>2, FS_Subset, FS_CardinalityType DEF JobsCome
  <2> QED
    BY <2>1, <2>2
<1>2. CASE i < count /\ i' = i + 1
  <2>1. /\ Cardinality(Handled(EventsOf(name))) \in Nat
        /\ Cardinality(Handled(EventsOf(name))') =
             Cardinality(Handled(EventsOf(name)))
               + IF events[i + 1] \in EventsOf(name) THEN 1 ELSE 0
    BY <1>2, EventHandled
  <2>2. JobsCome(name)' = Cardinality(Handled(EventsOf(name))')
    BY DEF JobsCome, EventsOf
  <2> QED
    BY <2>1, <2>2 DEF JobsCome
<1> QED
  BY <1>1, <1>2

(* An admitted vCPU gets an empty vector, and the vector of the servers    *)
(* one element more.                                                       *)
LEMMA SizesRegister ==
    ASSUME MemInv, SizesInv, MemRegister, servers' # servers
    PROVE  SizesInv'
<1> DEFINE n == Len(servers)
<1>1. /\ SimInv /\ ServersKept /\ JobsKept /\ UNCHANGED <<events, i>>
      /\ servers \in Seq(Servers) /\ n \in Nat /\ DOMAIN servers = 1..n
  BY DEF MemInv, LedgerInv, MemRegister, RegisterVCPU, SimInv, SimTypeOK
<1>2. PICK s : servers' = Append(servers, s)
  BY DEF MemRegister, RegisterVCPU
<1>3. PICK j \in Nat : j = n + 1
  BY <1>1
<1>4. /\ Len(servers') = j /\ DOMAIN servers' = 1..j /\ 1..j = 1..n \cup {j}
      /\ j \notin 1..n /\ \A k \in 1..n : servers'[k] = servers[k]
  <2>1. 1..j = 1..n \cup {j} /\ j \notin 1..n
    BY <1>1, <1>3
  <2>2. PICK S : S = Servers \cup {s}
    OBVIOUS
  <2>3. servers \in Seq(S) /\ s \in S
    BY <1>1, <2>2
  <2>4. /\ servers' \in Seq(S) /\ Len(servers') = n + 1
        /\ \A k \in 1..n : servers'[k] = servers[k]
    BY <1>2, <2>3, OneMore
  <2> QED
    BY <1>3, <2>1, <2>4
<1>5. /\ jobVec' = Append(jobVec, create_vector)
      /\ serverVec' = vector_add(serverVec, ServerCopy(j))
      /\ SizeAdded(serverVec, ServerVector)
  BY <1>4 DEF MemRegister
<1>6. jobVec'[j] = create_vector /\ \A k \in 1..n : jobVec'[k] = jobVec[k]
  BY <1>1, <1>3, <1>5 DEF JobsKept
<1>7. overrun' = overrun \cup (IF SizeInBounds(serverVec) THEN {} ELSE {ServerVector})
  BY <1>5 DEF SizeAdded
<1>8. GoodVector(serverVec) /\ serverVec.length = n
  BY <1>1 DEF ServersKept
<1>9. overrun' \subseteq {ServerVector} \cup {JobVector(k) : k \in DOMAIN servers'}
  BY <1>1, <1>4, <1>7 DEF SizesInv
<1>10. SIZEOF_SIZE_T <= SIZEOF_INT => overrun' = {}
  BY <1>7, <1>8, SizePlaced DEF SizesInv
<1>11. \A k \in 1..j : JobVector(k) \in overrun' => k \in 1..n /\ JobVector(k) \in overrun
  BY <1>1, <1>7, BlockParts DEF SizesInv
<1>12. ASSUME SIZEOF_SIZE_T > SIZEOF_INT
       PROVE  /\ SizesKept(serverVec, ServerVector)'
              /\ ServerVector \in overrun' => Len(servers') > SizesRoom
              /\ \A k \in DOMAIN servers' :
                    /\ SizesKept(jobVec[k], JobVector(k))'
                    /\ JobVector(k) \in overrun'
                          => JobsCome(servers[k].cpu)' > SizesRoom + 1
  <2>1. SizesRoom \in Nat
    BY <1>8, <1>12, SizePlaced
  <2>2. SizesKept(serverVec, ServerVector) /\ (ServerVector \in overrun => n > SizesRoom)
    BY <1>12 DEF SizesInv
  <2>3. PICK w : w = vector_add(serverVec, ServerCopy(j)) /\ w = serverVec'
    BY <1>5
  <2>4. /\ SizesKept(serverVec, ServerVector)'
        /\ ServerVector \in overrun' =>
              ServerVector \in overrun \/ serverVec.length + 1 > SizesRoom
    <3>1. PICK v, e, b : /\ v = serverVec /\ e = ServerCopy(j) /\ b = ServerVector
                         /\ w = vector_add(v, e)
      BY <2>3
    <3>2. GoodVector(v) /\ SizesKept(v, b) /\ SizeAdded(v, b)
      BY <1>5, <1>8, <2>2, <3>1
    <3>3. /\ SizesKept(vector_add(v, e), b)'
          /\ b \in overrun' => b \in overrun \/ v.length + 1 > SizesRoom
      BY <1>12, <3>2, SizeCounted
    <3>4. SizesKept(w, b)'
      BY <3>1, <3>3
    <3>5. SizesKept(serverVec, ServerVector)'
      BY <2>3, <3>1, <3>4 DEF SizesKept
    <3> QED
      BY <3>1, <3>3, <3>5
  <2>5. ServerVector \in overrun' => Len(servers') > SizesRoom
    BY <1>1, <1>3, <1>4, <1>8, <2>1, <2>2, <2>4
  <2>6. ASSUME NEW k \in 1..n
        PROVE  /\ SizesKept(jobVec[k], JobVector(k))'
               /\ JobVector(k) \in overrun' => JobsCome(servers[k].cpu)' > SizesRoom + 1
    <3>1. /\ SizesKept(jobVec[k], JobVector(k))
          /\ JobVector(k) \in overrun => JobsCome(servers[k].cpu) > SizesRoom + 1
      BY <1>1, <1>12 DEF SizesInv
    <3>2. JobsCome(servers[k].cpu)' = JobsCome(servers[k].cpu)
      <4>1. servers'[k] = servers[k]
        BY <1>4
      <4> QED
        BY <1>1, <4>1 DEF JobsCome, Handled
    <3>3. SizesKept(jobVec[k], JobVector(k))'
      BY <1>6, <1>7, <3>1 DEF SizesKept
    <3>4. k \in 1..j
      BY <1>4
    <3> QED
      BY <1>11, <3>1, <3>2, <3>3, <3>4
  <2>7. SizesKept(jobVec[j], JobVector(j))'
    BY <1>6, <2>1, VectorAssumption DEF SizesKept, create_vector
  <2>8. JobVector(j) \notin overrun'
    BY <1>4, <1>11
  <2> QED
    BY <1>4, <2>4, <2>5, <2>6, <2>7, <2>8
<1> QED
  BY <1>9, <1>10, <1>12, Zenon DEF SizesInv

(* The work that is left for a vCPU is that of the first of its servers.   *)
LEMMA BacklogOf ==
    ASSUME NEW name \in AllNames, NEW j \in Mine(name)
    PROVE  Backlog[name] = WorkOf(servers[Min(Mine(name))])
BY DEF Backlog, WorkOf, Mine

(* While a job is worked on, more jobs have come than are waiting.         *)
LEMMA WaitingCome ==
    ASSUME MemInv, NEW j \in DOMAIN servers, servers[j].state # IDLE,
           \A k \in Mine(servers[j].cpu) : j <= k
    PROVE  JobsCome(servers[j].cpu) >= jobVec[j].length + 1
<1> DEFINE name == servers[j].cpu
           q    == runTimes[name]
           js   == servers[j].jobs
<1>1. SimInv /\ RunsFit /\ BookKept(name) /\ JobsKept /\ GoodServers /\ SimTypeOK
  BY SimInvFields DEF MemInv, LedgerInv, BooksKept
<1>2. GoodServer(servers[j]) /\ servers[j].state = ACTIVE
  <2>1. GoodServer(servers[j])
    BY <1>1 DEF GoodServers
  <2>2. servers[j].state \in {IDLE, ACTIVE}
    BY <2>1, ServerFields DEF GoodServer
  <2> QED
    BY <2>1, <2>2
<1>3. js \in Seq(Nat) /\ servers[j].workTime \in Nat /\ jobVec[j].length = Len(js)
  BY <1>1, <1>2, ServerFields DEF GoodServer, JobsKept, JobsMatch
<1>4. Backlog[name] = <<servers[j].workTime>> \o js
  <2>1. name \in AllNames
    BY <1>1, BacklogType
  <2>2. Min(Mine(name)) = j
    <3>1. j \in Mine(name) /\ Mine(name) # {}
      BY DEF Mine
    <3>2. servers \in Seq(Servers) /\ DOMAIN servers = 1..Len(servers)
      BY <1>1 DEF SimTypeOK
    <3>3. PICK m, S : m = Min(S) /\ S = Mine(name)
      OBVIOUS
    <3>4. m \in DOMAIN servers /\ servers[m].cpu = name /\ \A k \in S : m <= k
      BY <3>1, <3>2, <3>3, FirstOfMine
    <3>5. m \in S
      BY <3>3, <3>4 DEF Mine
    <3>6. m \in Nat /\ j \in Nat /\ m <= j /\ j <= m
      BY <3>1, <3>2, <3>3, <3>4, <3>5
    <3> QED
      BY <3>3, <3>6
  <2>3. j \in Mine(name)
    BY DEF Mine
  <2>4. Backlog[name] = WorkOf(servers[Min(Mine(name))])
    BY <2>1, <2>3, BacklogOf
  <2>5. Backlog[name] = WorkOf(servers[j])
    BY <2>2, <2>4
  <2> QED
    BY <1>2, <2>5 DEF WorkOf
<1>5. Len(Backlog[name]) = Len(js) + 1 /\ Len(js) \in Nat
  BY <1>3, <1>4
<1>6. Cardinality(EntriesIn(q, Ends)) \in Nat
  <2>1. q \in Seq(RunData)
    BY <1>1 DEF RunsFit, SimTypeOK
  <2>2. PICK e : e \in RunData
    <3>1. [time |-> 0, action |-> "Work"] \in RunData
      BY DEF RunData
    <3> QED
      BY <3>1
  <2> QED
    BY <2>1, <2>2, EntryAdded
<1>7. Cardinality(EntriesIn(q, Ends)) + Len(Backlog[name]) = JobsCome(name)
  BY <1>1 DEF BookKept, JobsCome
<1> QED
  BY <1>3, <1>5, <1>6, <1>7

(* A job that has to wait is one more in the vector of its server.         *)
LEMMA SizesArrive ==
    ASSUME MemInv, SizesInv, MemArrive
    PROVE  SizesInv'
<1> DEFINE event == events[i + 1]
<1>1. /\ SimInv /\ JobsKept /\ servers \in Seq(Servers) /\ GoodServers
      /\ i < count /\ i' = i + 1 /\ UNCHANGED <<events, serverVec>>
      /\ Served(event) # {} /\ Served(event) = Mine(event.vCpuName)
  BY SimInvFields DEF MemInv, LedgerInv, MemArrive, Arrive, Due, SimTypeOK, Served, Mine
<1>2. PICK j : j = Min(Served(event))
  OBVIOUS
<1>3. /\ j \in DOMAIN servers /\ servers[j].cpu = event.vCpuName
      /\ \A k \in Mine(event.vCpuName) : j <= k
  BY <1>1, <1>2, FirstOfMine
<1>4. /\ DOMAIN servers' = DOMAIN servers /\ Len(servers') = Len(servers)
      /\ \A k \in DOMAIN servers : servers'[k].cpu = servers[k].cpu
  <2>1. event.arrivalTime \in Nat /\ event.requiredProcessingTime \in Nat \ {0}
    BY <1>1, EventFields DEF SimInv
  <2>2. PICK r : r = AddJob(servers[j], event.requiredProcessingTime, event.arrivalTime)
    OBVIOUS
  <2>3. servers' = [servers EXCEPT ![j] = r]
    BY <1>2, <1>3, <2>2 DEF MemArrive, Arrive
  <2>4. r.cpu = servers[j].cpu
    BY <1>1, <1>3, <2>1, <2>2, AddJobGood DEF GoodServers
  <2> QED
    BY <1>1, <1>3, <2>3, <2>4
<1>5. \A name : /\ JobsCome(name) \in Nat /\ JobsCome(name)' \in Nat
                /\ JobsCome(name) <= JobsCome(name)'
  BY <1>1, JobsCounted
<1>6. \A k \in DOMAIN servers : GoodVector(jobVec[k]) /\ jobVec[k].length \in Nat
  BY <1>1 DEF JobsKept, JobsMatch, GoodVector
<1>7. CASE servers[j].state = IDLE
  <2>1. UNCHANGED <<jobVec, overrun>>
    BY <1>2, <1>7 DEF MemArrive
  <2>2. \A k \in DOMAIN servers :
           /\ JobsCome(servers[k].cpu) \in Nat /\ JobsCome(servers[k].cpu)' \in Nat
           /\ JobsCome(servers[k].cpu) <= JobsCome(servers[k].cpu)'
    <3> SUFFICES ASSUME NEW k \in DOMAIN servers
                 PROVE  /\ JobsCome(servers[k].cpu) \in Nat /\ JobsCome(servers[k].cpu)' \in Nat
                        /\ JobsCome(servers[k].cpu) <= JobsCome(servers[k].cpu)'
      OBVIOUS
    <3>1. PICK name : name = servers[k].cpu /\ name = servers'[k].cpu
      BY <1>4
    <3>2. JobsCome(servers[k].cpu)' = JobsCome(name)'
      BY <3>1 DEF JobsCome, EventsOf
    <3> QED
      BY <1>5, <3>1, <3>2
  <2> QED
    BY <1>1, <1>4, <1>6, <2>1, <2>2, SizesSame
<1>8. CASE servers[j].state # IDLE
  <2>1. PICK v, c, w : v = jobVec[j] /\ c = JobCopy(i + 1) /\ w = vector_add(v, c)
    OBVIOUS
  <2>2. /\ jobVec' = [jobVec EXCEPT ![j] = w] /\ SizeAdded(v, JobVector(j))
        /\ GoodVector(v)
    BY <1>2, <1>3, <1>6, <1>8, <2>1 DEF MemArrive
  <2>3. jobVec'[j] = w /\ \A k \in DOMAIN servers : k # j => jobVec'[k] = jobVec[k]
    BY <1>1, <1>3, <2>2, OneVector
  <2>4. overrun' = overrun \cup (IF SizeInBounds(v) THEN {} ELSE {JobVector(j)})
    BY <2>2 DEF SizeAdded
  <2>5. overrun' \subseteq {ServerVector} \cup {JobVector(k) : k \in DOMAIN servers'}
    BY <1>3, <1>4, <2>4 DEF SizesInv
  <2>6. SIZEOF_SIZE_T <= SIZEOF_INT => overrun' = {}
    BY <2>2, <2>4, SizePlaced DEF SizesInv
  <2>7. ASSUME SIZEOF_SIZE_T > SIZEOF_INT
        PROVE  /\ SizesKept(serverVec, ServerVector)'
               /\ ServerVector \in overrun' => Len(servers') > SizesRoom
               /\ \A k \in DOMAIN servers' :
                     /\ SizesKept(jobVec[k], JobVector(k))'
                     /\ JobVector(k) \in overrun'
                           => JobsCome(servers[k].cpu)' > SizesRoom + 1
    <3>1. SizesRoom \in Nat
      BY <2>2, <2>7, SizePlaced
    <3>2. ServerVector \in overrun' => ServerVector \in overrun
      BY <2>4, BlockParts
    <3>3. SizesKept(serverVec, ServerVector)'
          /\ (ServerVector \in overrun' => Len(servers') > SizesRoom)
      BY <1>1, <1>4, <2>4, <2>7, <3>2 DEF SizesInv, SizesKept
    <3>4. ASSUME NEW k \in DOMAIN servers
          PROVE  /\ SizesKept(jobVec[k], JobVector(k))'
                 /\ JobVector(k) \in overrun'
                       => JobsCome(servers[k].cpu)' > SizesRoom + 1
      <4>1. PICK name : name = servers[k].cpu /\ name = servers'[k].cpu
        BY <1>4
      <4>2. JobsCome(servers[k].cpu)' = JobsCome(name)'
        BY <4>1 DEF JobsCome, EventsOf
      <4>3. PICK a \in Nat, b \in Nat : a = JobsCome(name) /\ b = JobsCome(name)' /\ a <= b
        BY <1>5
      <4>4. SizesKept(jobVec[k], JobVector(k)) /\ (JobVector(k) \in overrun => a > SizesRoom + 1)
        BY <2>7, <4>1, <4>3 DEF SizesInv
      <4>5. CASE k # j
        <5>1. jobVec'[k] = jobVec[k]
          BY <2>3, <4>5
        <5>2. JobVector(k) \in overrun' => JobVector(k) \in overrun
          BY <2>4, <4>5, BlockParts
        <5>3. SizesKept(jobVec[k], JobVector(k))'
          BY <2>4, <4>4, <5>1 DEF SizesKept
        <5> QED
          BY <3>1, <4>2, <4>3, <4>4, <5>2, <5>3
      <4>6. CASE k = j
        <5>1. PICK block : block = JobVector(j)
          OBVIOUS
        <5>2. SizesKept(v, block) /\ SizeAdded(v, block)
          BY <2>1, <2>2, <4>4, <4>6, <5>1
        <5>3. /\ SizesKept(vector_add(v, c), block)'
              /\ block \in overrun' => block \in overrun \/ v.length + 1 > SizesRoom
          BY <2>2, <2>7, <5>2, SizeCounted
        <5>4. SizesKept(w, block)'
          BY <2>1, <5>3
        <5>5. SizesKept(jobVec[k], JobVector(k))'
          BY <2>3, <4>6, <5>1, <5>4 DEF SizesKept
        <5>6. a >= v.length + 1 /\ v.length \in Nat
          BY <1>3, <1>6, <1>8, <2>1, <4>1, <4>3, <4>6, WaitingCome
        <5>7. b = a + 1
          <6>1. events[i + 1] \in EventsOf(name)
            <7>1. i + 1 \in DOMAIN events /\ events \in Seq(SimulationEvents)
              BY <1>1, SimInvFields
            <7>2. events[i + 1] \in SimulationEvents
              BY <7>1
            <7> QED
              BY <1>3, <4>1, <4>6, <7>2 DEF EventsOf
          <6>2. Cardinality(Handled(EventsOf(name))') = Cardinality(Handled(EventsOf(name))) + 1
            BY <1>1, <6>1, EventHandled
          <6>3. JobsCome(name)' = Cardinality(Handled(EventsOf(name))')
            BY DEF JobsCome, EventsOf
          <6> QED
            BY <4>3, <6>2, <6>3 DEF JobsCome
        <5>8. JobVector(k) \in overrun' => b > SizesRoom + 1
          BY <3>1, <4>3, <4>4, <4>6, <5>1, <5>3, <5>6, <5>7
        <5> QED
          BY <4>2, <4>3, <5>5, <5>8
      <4> QED
        BY <4>5, <4>6
    <3> QED
      BY <1>4, <3>3, <3>4
  <2> QED
    BY <2>5, <2>6, <2>7, Zenon DEF SizesInv
<1> QED
  BY <1>7, <1>8

(* The events are put in order before any of them has come. *)
LEMMA SizesSort ==
    ASSUME MemInv, SizesInv, MemSort
    PROVE  SizesInv'
<1>1. /\ UNCHANGED <<servers, serverVec, jobVec, overrun, i>> /\ i = 0
  BY NoJobsYet DEF MemSort, Sort, memory
<1>2. \A name : JobsCome(name) = 0 /\ JobsCome(name)' = 0
  <2>1. \A E : Handled(E) = {} /\ Handled(E)' = {}
    BY <1>1 DEF Handled
  <2>2. Cardinality({}) = 0
    BY FS_EmptySet
  <2> QED
    BY <2>1, <2>2 DEF JobsCome
<1>3. \A j \in DOMAIN servers : jobVec[j].length \in Nat
  <2>1. \A j \in DOMAIN servers : GoodVector(jobVec[j])
    BY DEF MemInv, JobsKept, JobsMatch
  <2>2. \A v : GoodVector(v) => v.length \in Nat
    BY DEF GoodVector
  <2> QED
    BY <2>1, <2>2
<1>4. \A j \in DOMAIN servers :
         /\ JobsCome(servers[j].cpu) \in Nat /\ JobsCome(servers[j].cpu)' \in Nat
         /\ JobsCome(servers[j].cpu) <= JobsCome(servers[j].cpu)'
  <2> SUFFICES ASSUME NEW j \in DOMAIN servers
               PROVE  JobsCome(servers[j].cpu) = 0 /\ JobsCome(servers[j].cpu)' = 0
    OBVIOUS
  <2>1. PICK name : name = servers[j].cpu /\ name = servers'[j].cpu
    BY <1>1
  <2>2. JobsCome(servers[j].cpu)' = JobsCome(name)'
    BY <2>1 DEF JobsCome, EventsOf
  <2> QED
    BY <1>2, <2>1, <2>2
<1> QED
  BY <1>1, <1>3, <1>4, SizesSame

(* The other steps add to no vector; a unit of work may take from one.     *)
LEMMA SizesRest ==
    ASSUME MemInv, SizesInv, UNCHANGED <<events, serverVec, overrun>>,
           i' = i \/ (i < count /\ i' = i + 1),
           UNCHANGED <<servers, jobVec>> \/ MemWork
    PROVE  SizesInv'
<1>1. SimInv /\ JobsKept /\ servers \in Seq(Servers)
  BY DEF MemInv, LedgerInv, SimInv, SimTypeOK
<1>2. /\ DOMAIN servers' = DOMAIN servers /\ Len(servers') = Len(servers)
      /\ \A k \in DOMAIN servers : servers'[k].cpu = servers[k].cpu
  <2>1. CASE UNCHANGED servers
    BY <2>1
  <2>2. CASE MemWork
    <3>1. PICK j, r : j = Active /\ r = DoWork(servers[j])
      OBVIOUS
    <3>2. servers' = [servers EXCEPT ![j] = r]
      BY <2>2, <3>1 DEF MemWork, Work
    <3>3. j \in DOMAIN servers /\ r.cpu = servers[j].cpu
      BY <1>1, <2>2, <3>1, WorkServes, DoWorkGood DEF MemWork
    <3> QED
      BY <1>1, <3>2, <3>3
  <2> QED
    BY <2>1, <2>2
<1>3. \A k \in DOMAIN servers : GoodVector(jobVec[k]) /\ jobVec[k].length \in Nat
  BY <1>1 DEF JobsKept, JobsMatch, GoodVector
<1>4. ASSUME NEW k \in DOMAIN servers
      PROVE  /\ jobVec'[k].capacity = jobVec[k].capacity
             /\ jobVec'[k].length \in Nat /\ jobVec'[k].length <= jobVec[k].length
  <2>1. CASE UNCHANGED jobVec
    BY <1>3, <2>1
  <2>2. CASE MemWork /\ ~UNCHANGED jobVec
    <3>1. PICK j, v, w : j = Active /\ v = jobVec[j] /\ w = vector_remove(v, 0)
      OBVIOUS
    <3>2. j \in DOMAIN servers
      BY <1>1, <2>2, <3>1, WorkServes DEF MemWork
    <3>3. jobVec' = [jobVec EXCEPT ![j] = w] /\ v.length > 0
      BY <1>1, <2>2, <3>1, <3>2 DEF MemWork, JobsKept
    <3>4. GoodVector(v)
      BY <1>3, <3>1, <3>2
    <3>5. w.length = v.length - 1 /\ w.capacity = v.capacity /\ v.length \in Nat
      <4>1. w.length = v.length - 1
        BY <3>1, <3>3, <3>4, FirstRemoved
      <4>2. v = [data |-> v.data, length |-> v.length, capacity |-> v.capacity]
            /\ v.length \in Nat
        BY <3>4 DEF GoodVector
      <4>3. w.capacity = v.capacity
        BY <3>1, <4>2 DEF vector_remove
      <4> QED
        BY <4>1, <4>2, <4>3
    <3>6. jobVec'[j] = w /\ \A m \in DOMAIN servers : m # j => jobVec'[m] = jobVec[m]
      BY <1>1, <3>2, <3>3, OneVector
    <3> QED
      BY <1>3, <3>1, <3>3, <3>5, <3>6
  <2> QED
    BY <2>1, <2>2
<1>5. ASSUME NEW k \in DOMAIN servers
      PROVE  /\ JobsCome(servers[k].cpu) \in Nat /\ JobsCome(servers[k].cpu)' \in Nat
             /\ JobsCome(servers[k].cpu) <= JobsCome(servers[k].cpu)'
  <2>1. PICK name : name = servers[k].cpu /\ name = servers'[k].cpu
    BY <1>2
  <2>2. JobsCome(servers[k].cpu)' = JobsCome(name)'
    BY <2>1 DEF JobsCome, EventsOf
  <2>3. /\ JobsCome(name) \in Nat /\ JobsCome(name)' \in Nat
        /\ JobsCome(name) <= JobsCome(name)'
    BY <1>1, JobsCounted
  <2> QED
    BY <2>1, <2>2, <2>3
<1> QED
  BY <1>2, <1>3, <1>4, <1>5, SizesSame

LEMMA SizesStep == MemInv /\ SizesInv /\ [MemNext]_mvars => SizesInv'
<1> SUFFICES ASSUME MemInv, SizesInv, [MemNext]_mvars PROVE SizesInv'
  OBVIOUS
<1>1. CASE MemRegister /\ servers' # servers
  BY <1>1, SizesRegister
<1>2. CASE MemSort
  BY <1>2, SizesSort
<1>3. CASE MemArrive
  BY <1>3, SizesArrive
<1>4. CASE MemRegister /\ servers' = servers
  BY <1>4, SizesRest DEF MemRegister, RegisterVCPU
<1>5. CASE MemDrop
  BY <1>5, SizesRest DEF MemDrop, DropEvent, Due, memory
<1>6. CASE MemIdle \/ MemIdleAtEnd
  BY <1>6, SizesRest DEF MemIdle, Idle, MemIdleAtEnd, IdleAtEnd, memory
<1>7. CASE MemWork
  BY <1>7, SizesRest DEF MemWork, Work
<1>8. CASE \/ PrintResult \/ FreeJobs \/ FreeNode \/ FreeHead \/ FreeResult
           \/ DestroyServers \/ UNCHANGED mvars
  <2>1. UNCHANGED <<simvars, serverVec, jobVec, overrun>>
    BY <1>8 DEF PrintResult, FreeJobs, FreeNode, FreeHead, FreeResult, DestroyServers,
                CleanUp, mvars, memory
  <2> QED
    BY <2>1, SizesRest DEF simvars
<1> QED
  BY <1>1, <1>2, <1>3, <1>4, <1>5, <1>6, <1>7, <1>8 DEF MemNext

(* On a build on which a size_t is wider than an int, the array of the     *)
(* sizes of a vector is overrun by the first element more than it has room *)
(* for, and never otherwise: for any capacity and any two widths, and      *)
(* however the vectors have grown and shrunk.                              *)
THEOREM SizesAsCounted == MemSpec => []SizesOverrun
<1>1. MemInit => SizesInv
  <2> SUFFICES ASSUME MemInit PROVE SizesInv
    OBVIOUS
  <2>1. overrun = {} /\ servers = << >> /\ serverVec = create_vector
    BY DEF MemInit, SimInit
  <2>2. SIZEOF_SIZE_T > SIZEOF_INT => SizesKept(serverVec, ServerVector)
    <3> SUFFICES ASSUME SIZEOF_SIZE_T > SIZEOF_INT PROVE SizesKept(serverVec, ServerVector)
      OBVIOUS
    <3>1. SizesRoom \in Nat
      BY VectorCreated, SizePlaced
    <3> QED
      BY <2>1, <3>1, VectorAssumption DEF SizesKept, create_vector
  <2> QED
    BY <2>1, <2>2 DEF SizesInv
<1>2. MemInv /\ SizesInv => SizesOverrun
  <2> SUFFICES ASSUME MemInv, SizesInv, SIZEOF_SIZE_T > SIZEOF_INT
               PROVE  /\ ServerVector \in overrun <=> Len(servers) > SizesRoom
                      /\ \A j \in DOMAIN servers :
                            /\ Len(servers[j].jobs) > SizesRoom => JobVector(j) \in overrun
                            /\ JobVector(j) \in overrun =>
                                  Cardinality({k \in 1..i : events[k].vCpuName = servers[j].cpu})
                                    > SizesRoom + 1
    BY DEF SizesOverrun, SizesInv
  <2>1. serverVec.length = Len(servers) /\ SizesKept(serverVec, ServerVector)
    BY DEF MemInv, ServersKept, SizesInv
  <2>2. ASSUME NEW j \in DOMAIN servers
        PROVE  /\ Len(servers[j].jobs) > SizesRoom => JobVector(j) \in overrun
               /\ JobVector(j) \in overrun => JobsCome(servers[j].cpu) > SizesRoom + 1
    BY DEF MemInv, JobsKept, JobsMatch, SizesInv, SizesKept
  <2>3. \A name : JobsCome(name) = Cardinality({k \in 1..i : events[k].vCpuName = name})
    <3>1. \A k \in 1..i : events[k] \in SimulationEvents
      BY SimInvFields DEF MemInv, LedgerInv
    <3>2. \A name : Handled(EventsOf(name)) = {k \in 1..i : events[k].vCpuName = name}
      BY <3>1 DEF Handled, EventsOf
    <3> QED
      BY <3>2 DEF JobsCome
  <2> QED
    BY <2>1, <2>2, <2>3 DEF SizesInv, SizesKept
<1> QED
  BY <1>1, <1>2, MemoryInit, MemoryStep, SizesStep, PTL DEF MemSpec

-----------------------------------------------------------------------------
(* The vectors and the lists of the simulator hold what the simulation is  *)
(* about: its servers, their waiting jobs in order, and what has been      *)
(* recorded about them, forwards and backwards.                            *)
THEOREM MemoryHoldsSimulation == MemSpec => []MemoryMatches
<1>1. MemInv => MemoryMatches
  <2> SUFFICES ASSUME MemInv, phase = "simulate" PROVE MemoryMatches
    BY DEF MemoryMatches
  <2>0. serverVec.length = Len(servers)
    BY DEF MemInv, ServersKept
  <2> SUFFICES ASSUME NEW j \in DOMAIN servers
               PROVE  /\ vector_get(serverVec, j - 1) = ServerCopy(j)
                      /\ Len(Elements(jobVec[j])) = Len(servers[j].jobs)
                      /\ \A k \in DOMAIN Elements(jobVec[j]) :
                            \E e \in 1..i :
                                /\ Elements(jobVec[j])[k] = JobCopy(e)
                                /\ servers[j].jobs[k] = events[e].requiredProcessingTime
                      /\ Represents(lists, RunHead(j),
                                    [k \in 1..Len(RunsOf(j)) |-> RunNode(j, k)])
    BY <2>0 DEF MemoryMatches
  <2>1. /\ ServersKept /\ JobsKept /\ ListsKept /\ cleaned = 0
        /\ DOMAIN servers = 1..Len(servers) /\ Len(servers) \in Nat
        /\ Len(RunsOf(j)) \in Nat
    BY TurnLeft DEF MemInv, Stage
  <2>2. vector_get(serverVec, j - 1) = ServerCopy(j)
    BY <2>1 DEF ServersKept, vector_get
  <2>3. JobsMatch(jobVec[j], servers[j].jobs)
    BY <2>1 DEF JobsKept
  <2> DEFINE v == jobVec[j]
             n == v.length
  <2>4. n \in Nat /\ n = Len(servers[j].jobs)
    BY <2>3 DEF JobsMatch, GoodVector
  <2>5. Elements(v) = [k \in 1..n |-> v.data[k - 1]]
    BY DEF Elements
  <2>6. \A x \in 0..n - 1 : \E e \in 1..i :
           v.data[x] = JobCopy(e) /\ servers[j].jobs[x + 1] = events[e].requiredProcessingTime
    BY <2>3 DEF JobsMatch
  <2> HIDE DEF n, v
  <2>7. Len(Elements(v)) = Len(servers[j].jobs) /\ DOMAIN Elements(v) = 1..n
    BY <2>4, <2>5
  <2>8. ASSUME NEW k \in 1..n
        PROVE  \E e \in 1..i : /\ Elements(v)[k] = JobCopy(e)
                               /\ servers[j].jobs[k] = events[e].requiredProcessingTime
    <3>1. k - 1 \in 0..n - 1 /\ (k - 1) + 1 = k
      BY <2>4
    <3>2. Elements(v)[k] = v.data[k - 1]
      BY <2>5
    <3> QED
      BY <2>6, <3>1, <3>2
  <2>9. Represents(lists, RunHead(j), [k \in 1..Len(RunsOf(j)) |-> RunNode(j, k)])
    <3>1. ListKept(j, 0)
      BY <2>1 DEF ListsKept
    <3>2. Represents(lists, RunHead(j), RunList(j, 0))
      BY <3>1 DEF ListKept, CircularList
    <3>3. RunList(j, 0) = [k \in 1..Len(RunsOf(j)) |-> RunNode(j, k)]
      <4>1. RunList(j, 0) = [k \in 1..(Len(RunsOf(j)) - 0) |-> RunNode(j, k + 0)]
        BY DEF RunList
      <4>2. Len(RunsOf(j)) - 0 = Len(RunsOf(j)) /\ \A k \in 1..Len(RunsOf(j)) : k + 0 = k
        BY <2>1
      <4> QED
        BY <4>1, <4>2
    <3> QED
      BY <3>2, <3>3
  <2> QED
    BY <2>2, <2>7, <2>8, <2>9 DEF v
<1> QED
  BY <1>1, MemoryInit, MemoryStep, PTL DEF MemSpec

(* When main returns, everything it has allocated has been freed.          *)
THEOREM EverythingFreed == MemSpec => []NothingLeaked
<1>1. MemInv => NothingLeaked
  BY DEF MemInv, HeapKept, NothingLeaked
<1> QED
  BY <1>1, MemoryInit, MemoryStep, PTL DEF MemSpec

-----------------------------------------------------------------------------
(* A set of numbers that are bounded has a largest element.                *)
LEMMA MaxIsLargest ==
    ASSUME NEW n \in Nat, NEW S \in SUBSET (1..n), S # {}
    PROVE  /\ Max(S) \in S
           /\ \A y \in S : y <= Max(S)
<1> DEFINE Bounds == {b \in Nat : \A y \in S : y <= b}
           m == Min(Bounds)
<1>1. Bounds \in SUBSET Nat /\ n \in Bounds
  OBVIOUS
<1>2. m \in Bounds /\ \A b \in Bounds : m <= b
  <2> HIDE DEF Bounds
  <2> QED
    BY <1>1, MinIsLeast
<1>3. m \in Nat /\ \A y \in S : y <= m
  BY <1>2
<1>4. m \in S
  <2> HIDE DEF m
  <2> SUFFICES ASSUME m \notin S PROVE FALSE
    OBVIOUS
  <2>0. PICK x \in S : TRUE
    OBVIOUS
  <2>1. m # 0 /\ \A y \in S : y <= m - 1
    BY <1>3, <2>0
  <2>2. m - 1 \in Bounds
    BY <1>3, <2>1
  <2> QED
    BY <1>2, <1>3, <2>2
<1> HIDE DEF m
<1>5. \A y \in S : m >= y
  BY <1>3
<1> QED
  BY <1>4, <1>5 DEF Max

(* What an event adds to a chart: nothing, or the columns up to its own.   *)
LEMMA NothingDrawn ==
    ASSUME NEW c \in Seq(Signs), NEW e \in RunData, e.time < Len(c)
    PROVE  Drawn(c, e) = c
<1>1. e.time \in Nat /\ Len(c) \in Nat
  BY DEF RunData
<1>2. ~(e.time >= Len(c))
  BY <1>1
<1> QED
  BY <1>2 DEF Drawn

(* A sequence with w times x and then y behind it, element by element.     *)
LEMMA Extended ==
    ASSUME NEW S, NEW c \in Seq(S), NEW w \in Nat, NEW x \in S, NEW y \in S,
           NEW r, r = (c \o [t \in 1..w |-> x]) \o <<y>>
    PROVE  /\ r \in Seq(S) /\ Len(r) = Len(c) + w + 1
           /\ r[Len(c) + w + 1] = y
           /\ \A t \in 1..(Len(c) + w) : r[t] = IF t <= Len(c) THEN c[t] ELSE x
<1>1. PICK gap : gap = [t \in 1..w |-> x]
  OBVIOUS
<1>2. gap \in Seq(S) /\ Len(gap) = w /\ \A t \in 1..w : gap[t] = x
  BY <1>1
<1>3. PICK d : d = c \o gap
  OBVIOUS
<1>4. /\ d \in Seq(S) /\ Len(d) = Len(c) + w
      /\ \A t \in 1..(Len(c) + w) : d[t] = IF t <= Len(c) THEN c[t] ELSE gap[t - Len(c)]
  <2>1. /\ c \o gap \in Seq(S) /\ Len(c \o gap) = Len(c) + Len(gap)
        /\ \A t \in 1..(Len(c) + Len(gap)) :
              (c \o gap)[t] = IF t <= Len(c) THEN c[t] ELSE gap[t - Len(c)]
    BY <1>2, ConcatElements
  <2> QED
    BY <1>2, <1>3, <2>1
<1>5. <<y>> \in Seq(S) /\ Len(<<y>>) = 1 /\ <<y>>[1] = y
  OBVIOUS
<1>6. r = d \o <<y>>
  BY <1>1, <1>3
<1>7. /\ r \in Seq(S) /\ Len(r) = Len(c) + w + 1 /\ r[Len(c) + w + 1] = y
      /\ \A t \in 1..(Len(c) + w) : r[t] = d[t]
  BY <1>4, <1>5, <1>6
<1>8. ASSUME NEW t \in 1..(Len(c) + w), ~(t <= Len(c)) PROVE t - Len(c) \in 1..w
  BY <1>8
<1> QED
  BY <1>2, <1>4, <1>7, <1>8

(* The columns up to the event's own: empty ones, and its sign.           *)
LEMMA ColumnsDrawn ==
    ASSUME NEW c \in Seq(Signs), NEW e \in RunData, e.time >= Len(c)
    PROVE  /\ Drawn(c, e) \in Seq(Signs) /\ Len(Drawn(c, e)) = e.time + 1
           /\ Drawn(c, e)[e.time + 1] = Sign(e.action)
           /\ \A t \in 1..e.time :
                 Drawn(c, e)[t] = IF t <= Len(c) THEN c[t] ELSE NoSign
<1>1. e.time \in Nat /\ Len(c) \in Nat
  BY DEF RunData
<1>2. Sign(e.action) \in Signs /\ NoSign \in Signs
  BY Zenon DEF Sign, Signs
<1>3. PICK w \in Nat : w = e.time - Len(c) /\ Len(c) + w = e.time
  BY <1>1
<1>4. Drawn(c, e) = (c \o [t \in 1..w |-> NoSign]) \o <<Sign(e.action)>>
  BY <1>3 DEF Drawn, Columns, NoSign
<1>5. PICK r : r = Drawn(c, e)
  OBVIOUS
<1>6. PICK y \in Signs : y = Sign(e.action)
  BY <1>2
<1>7. r = (c \o [t \in 1..w |-> NoSign]) \o <<y>>
  BY <1>4, <1>5, <1>6
<1>8. /\ r \in Seq(Signs) /\ Len(r) = Len(c) + w + 1
      /\ r[Len(c) + w + 1] = y
      /\ \A t \in 1..(Len(c) + w) : r[t] = IF t <= Len(c) THEN c[t] ELSE NoSign
  BY <1>2, <1>7, Extended
<1>9. /\ r \in Seq(Signs) /\ Len(r) = e.time + 1 /\ r[e.time + 1] = Sign(e.action)
      /\ \A t \in 1..e.time : r[t] = IF t <= Len(c) THEN c[t] ELSE NoSign
  BY <1>3, <1>6, <1>8
<1> QED
  BY <1>5, <1>9

(* In any case the chart consists of signs.                               *)
LEMMA DrawnTyped ==
    ASSUME NEW c \in Seq(Signs), NEW e \in RunData
    PROVE  Drawn(c, e) \in Seq(Signs)
<1>1. e.time < Len(c) \/ e.time >= Len(c)
  BY DEF RunData
<1> QED
  BY <1>1, NothingDrawn, ColumnsDrawn

(* FoldLeft takes the largest index first: it draws the events in order.   *)
LEMMA ChartGrows ==
    ASSUME NEW q \in Seq(RunData)
    PROVE  \E D : Growing(D, q) /\ FoldLeft(Drawn, << >>, q) = D[Len(q)]
<1> DEFINE S == DOMAIN q
           V == Seq(Signs)
           h == [x \in S |-> [c \in V |-> Drawn(c, q[x])]]
           pick == [s \in SUBSET S |-> Max(s)]
           Rec(F) == F = [s \in SUBSET S |-> IF s = {} THEN << >>
                                             ELSE Drawn(F[s \ {Max(s)}], q[Max(s)])]
           iter == CHOOSE F : Rec(F)
<1>1. FoldLeft(Drawn, << >>, q) = iter[S]
  BY DEF FoldLeft, MapThenFoldSet
<1>2. S = 1..Len(q) /\ Len(q) \in Nat /\ IsFiniteSet(S) /\ \A x \in S : q[x] \in RunData
  BY FS_Interval
<1>3. ASSUME NEW s \in SUBSET S, s # {}
      PROVE  Max(s) \in s /\ (\A y \in s : y <= Max(s)) /\ pick[s] = Max(s)
  <2>1. pick[s] = Max(s)
    BY Zenon
  <2> HIDE DEF pick
  <2> QED
    BY <1>2, <1>3, <2>1, MaxIsLargest
<1>4. PICK g : FoldOf(g, pick, h, << >>, S, V)
  <2>1. h \in [S -> [V -> V]]
    <3>1. \A x \in S : \A c \in V : Drawn(c, q[x]) \in V
      BY <1>2, DrawnTyped
    <3> QED
      BY <3>1
  <2>2. Picks(pick, S) /\ << >> \in V
    <3> HIDE DEF pick
    <3> QED
      BY <1>3 DEF Picks
  <2> HIDE DEF S, V, h, pick
  <2> QED
    BY <1>2, <2>1, <2>2, FoldExists
<1>5. Rec(g)
  <2>1. ASSUME NEW s \in SUBSET S, s # {}
        PROVE  h[pick[s]][g[s \ {pick[s]}]] = Drawn(g[s \ {Max(s)}], q[Max(s)])
    <3>1. PICK z : z = Max(s)
      OBVIOUS
    <3>2. z \in S /\ pick[s] = z
      BY <1>3, <2>1, <3>1, Zenon
    <3>3. g[s \ {z}] \in V
      BY <1>4, <2>1 DEF FoldOf
    <3> HIDE DEF pick
    <3>4. h[z][g[s \ {z}]] = Drawn(g[s \ {z}], q[z])
      BY <3>2, <3>3
    <3> QED
      BY <3>1, <3>2, <3>4, Zenon
  <2>2. g = [s \in SUBSET S |-> IF s = {} THEN << >> ELSE h[pick[s]][g[s \ {pick[s]}]]]
    BY <1>4 DEF FoldOf
  <2> HIDE DEF S, V, h, pick
  <2> QED
    BY <2>1, <2>2, Zenon
<1>6. Rec(iter)
  <2> HIDE DEF Rec
  <2> QED BY <1>5
<1>7. ASSUME NEW F, Rec(F)
      PROVE  F[{}] = << >> /\ \A m \in 1..Len(q) : F[1..m] = Drawn(F[1..m - 1], q[m])
  <2>1. {} \in SUBSET S
    OBVIOUS
  <2>2. ASSUME NEW m \in 1..Len(q)
        PROVE  F[1..m] = Drawn(F[1..m - 1], q[m])
    <3>1. 1..m \in SUBSET S /\ m \in 1..m /\ \A y \in 1..m : y <= m
      BY <1>2
    <3>2. 1..m # {}
      BY <3>1
    <3>3. PICK s : s = 1..m
      OBVIOUS
    <3>4. PICK z : z = Max(s)
      OBVIOUS
    <3>5. z \in 1..m /\ m <= z
      BY <1>3, <3>1, <3>2, <3>3, <3>4, Zenon
    <3>6. z = m
      BY <1>2, <3>5
    <3>7. (1..m) \ {m} = 1..m - 1
      BY <1>2
    <3>8. F[s] = Drawn(F[s \ {Max(s)}], q[Max(s)])
      BY <1>7, <3>1, <3>2, <3>3, Zenon
    <3>9. F[s] = Drawn(F[s \ {z}], q[z])
      BY <3>4, <3>8, Zenon
    <3> QED
      BY <3>3, <3>6, <3>7, <3>9, Zenon
  <2> QED
    BY <1>7, <2>1, <2>2, Zenon
<1> DEFINE D == [m \in 0..Len(q) |-> iter[1..m]]
           P == {m \in Nat : m <= Len(q) => D[m] \in Seq(Signs)}
<1>8. D[0] = << >> /\ \A m \in 1..Len(q) : D[m] = Drawn(D[m - 1], q[m])
  <2>1. iter[{}] = << >> /\ \A m \in 1..Len(q) : iter[1..m] = Drawn(iter[1..m - 1], q[m])
    <3> HIDE DEF iter, Rec, S
    <3> QED
      BY <1>6, <1>7
  <2>2. 1..0 = {} /\ 0 \in 0..Len(q) /\ \A m \in 1..Len(q) : m \in 0..Len(q) /\ m - 1 \in 0..Len(q)
    BY <1>2
  <2> HIDE DEF iter
  <2> QED
    BY <2>1, <2>2
<1> HIDE DEF D, iter, Rec
<1>9. P = Nat
  <2>1. 0 \in P
    <3>1. << >> \in Seq(Signs)
      OBVIOUS
    <3> QED
      BY <1>8, <3>1
  <2>2. ASSUME NEW m \in P PROVE m + 1 \in P
    <3> SUFFICES ASSUME m + 1 <= Len(q) PROVE D[m + 1] \in Seq(Signs)
      OBVIOUS
    <3>1. m + 1 \in 1..Len(q) /\ (m + 1) - 1 = m /\ D[m] \in Seq(Signs)
      BY <1>2
    <3>2. D[m + 1] = Drawn(D[m], q[m + 1]) /\ q[m + 1] \in RunData
      BY <1>2, <1>8, <3>1
    <3>3. Drawn(D[m], q[m + 1]) \in Seq(Signs)
      BY <3>1, <3>2, DrawnTyped
    <3> QED
      BY <3>2, <3>3
  <2>3. P \in SUBSET Nat
    OBVIOUS
  <2> HIDE DEF P
  <2> QED
    BY <2>1, <2>2, <2>3, SetInduction
<1>10. Growing(D, q)
  <2>1. \A m \in 0..Len(q) : m \in P /\ m <= Len(q)
    BY <1>2, <1>9
  <2> QED
    BY <1>8, <2>1 DEF Growing
<1>11. iter[S] = D[Len(q)]
  BY <1>2 DEF D
<1> QED
  BY <1>1, <1>10, <1>11

-----------------------------------------------------------------------------
(* The times of a record are numbers.                                      *)
LEMMA EntryTimes ==
    ASSUME NEW q \in Seq(RunData)
    PROVE  \A k \in DOMAIN q : q[k] \in RunData /\ q[k].time \in Nat
<1>1. \A k \in DOMAIN q : q[k] \in RunData
  OBVIOUS
<1>2. \A e \in RunData : e.time \in Nat
  BY DEF RunData
<1> QED
  BY <1>1, <1>2

(* Time goes by. *)
LEMMA OrderKept ==
    ASSUME NEW q \in Seq(RunData), NEW now \in Nat, RunInOrder(q, now),
           NEW later \in Nat, now <= later
    PROVE  RunInOrder(q, later)
<1>1. \A k \in DOMAIN q : q[k].time \in Nat
  BY EntryTimes
<1>2. ASSUME NEW k \in DOMAIN q
      PROVE  q[k].time <= later /\ (q[k].action # "NewJob" => q[k].time < later)
  BY <1>1 DEF RunInOrder
<1> QED
  BY <1>2 DEF RunInOrder

(* One more entry, now: after a unit of work the time has gone on.         *)
LEMMA OrderExtended ==
    ASSUME NEW q \in Seq(RunData), NEW now \in Nat, RunInOrder(q, now),
           NEW e \in RunData, e.time = now,
           NEW later \in Nat, now <= later, e.action # "NewJob" => now < later
    PROVE  RunInOrder(Append(q, e), later)
<1>1. PICK r : r = Append(q, e)
  OBVIOUS
<1>2. /\ DOMAIN q = 1..Len(q) /\ Len(q) \in Nat /\ DOMAIN r = 1..Len(q) + 1
      /\ r[Len(q) + 1] = e /\ \A k \in DOMAIN q : r[k] = q[k] /\ k \in DOMAIN r
  BY <1>1
<1>3. \A k \in DOMAIN q : q[k].time \in Nat
  BY EntryTimes
<1>4. ASSUME NEW k \in DOMAIN r
      PROVE  r[k].time <= later /\ (r[k].action # "NewJob" => r[k].time < later)
  <2>1. CASE k \in DOMAIN q
    BY <1>2, <1>3, <2>1 DEF RunInOrder
  <2>2. CASE k = Len(q) + 1
    BY <1>2, <2>2
  <2> QED
    BY <1>2, <2>1, <2>2
<1>5. ASSUME NEW k \in DOMAIN r, NEW m \in DOMAIN r, k < m
      PROVE  r[k].time <= r[m].time /\ (r[k].action # "NewJob" => r[k].time < r[m].time)
  <2>1. k \in DOMAIN q /\ r[k] = q[k]
    BY <1>2, <1>5
  <2>2. CASE m \in DOMAIN q
    BY <1>2, <1>5, <2>1, <2>2 DEF RunInOrder
  <2>3. CASE m = Len(q) + 1
    BY <1>2, <2>1, <2>3 DEF RunInOrder
  <2> QED
    BY <1>2, <2>2, <2>3
<1> QED
  BY <1>1, <1>4, <1>5 DEF RunInOrder

(* The records stay in order. *)
LEMMA OrderStep ==
    ASSUME SimInv, RunsFit, RunsInOrder, [SimNext]_simvars
    PROVE  RunsInOrder'
<1>1. /\ runTimes \in [DOMAIN runTimes -> Seq(RunData)] /\ currentTime \in Nat
      /\ \A k \in DOMAIN events : events[k].arrivalTime \in Nat
      /\ i \in Nat /\ i <= count /\ DOMAIN events = 1..count /\ count \in Nat
  BY SimInvFields DEF SimTypeOK
<1>2. ASSUME NEW e \in RunData, e.time = currentTime, DOMAIN runTimes' = DOMAIN runTimes,
             \A n \in DOMAIN runTimes :
                runTimes'[n] = runTimes[n] \/ runTimes'[n] = Append(runTimes[n], e),
             currentTime' \in Nat, currentTime <= currentTime',
             e.action # "NewJob" => currentTime < currentTime'
      PROVE  RunsInOrder'
  <2>1. DOMAIN runTimes' = DOMAIN runTimes
    BY <1>2
  <2>2. ASSUME NEW n \in DOMAIN runTimes
        PROVE  RunInOrder(runTimes'[n], currentTime')
    <3>1. runTimes[n] \in Seq(RunData) /\ RunInOrder(runTimes[n], currentTime)
      BY <1>1 DEF RunsInOrder
    <3>2. CASE runTimes'[n] = Append(runTimes[n], e)
      <4>2. RunInOrder(Append(runTimes[n], e), currentTime')
        BY <1>1, <1>2, <3>1, OrderExtended
      <4> QED
        BY <3>2, <4>2
    <3>3. CASE runTimes'[n] = runTimes[n]
      <4>1. RunInOrder(runTimes[n], currentTime')
        BY <1>1, <1>2, <3>1, OrderKept
      <4> QED
        BY <3>3, <4>1
    <3> QED
      BY <1>2, <3>2, <3>3
  <2> QED
    BY <2>1, <2>2 DEF RunsInOrder
<1>3. CASE Arrive
  <2>1. PICK name : runTimes' = [runTimes EXCEPT ![name] =
                       Append(@, [time |-> currentTime, action |-> "NewJob"])]
    BY <1>3 DEF Arrive, InsertRunEvent
  <2>2. PICK e : e = [time |-> currentTime, action |-> "NewJob"]
    OBVIOUS
  <2>3. /\ e \in RunData /\ e.time = currentTime /\ e.action = "NewJob"
        /\ runTimes' = [runTimes EXCEPT ![name] = Append(@, e)]
    BY <1>1, <2>1, <2>2 DEF RunData
  <2>4. currentTime' = currentTime
    BY <1>3 DEF Arrive
  <2>5. /\ DOMAIN runTimes' = DOMAIN runTimes
        /\ \A n \in DOMAIN runTimes :
              runTimes'[n] = runTimes[n] \/ runTimes'[n] = Append(runTimes[n], e)
    BY <2>3
  <2> QED
    BY <1>1, <1>2, <2>3, <2>4, <2>5
<1>4. CASE Work
  <2>1. PICK name, action :
              /\ action \in {"JobEnd", "Work"}
              /\ runTimes' = [runTimes EXCEPT ![name] =
                       Append(@, [time |-> currentTime, action |-> action])]
    <3>1. PICK action : action = IF JobFinished(servers[Active]) THEN "JobEnd" ELSE "Work"
      OBVIOUS
    <3>2. runTimes' = [runTimes EXCEPT ![servers[Active].cpu] =
                          Append(@, [time |-> currentTime, action |-> action])]
      BY <1>4, <3>1 DEF Work, InsertRunEvent
    <3> QED
      BY <3>1, <3>2
  <2>2. PICK e : e = [time |-> currentTime, action |-> action]
    OBVIOUS
  <2>3. /\ e \in RunData /\ e.time = currentTime
        /\ runTimes' = [runTimes EXCEPT ![name] = Append(@, e)]
    BY <1>1, <2>1, <2>2 DEF RunData
  <2>4. currentTime' = currentTime + 1
    BY <1>4 DEF Work
  <2>5. /\ DOMAIN runTimes' = DOMAIN runTimes
        /\ \A n \in DOMAIN runTimes :
              runTimes'[n] = runTimes[n] \/ runTimes'[n] = Append(runTimes[n], e)
    BY <2>3
  <2>6. currentTime' \in Nat /\ currentTime <= currentTime' /\ currentTime < currentTime'
    BY <1>1, <2>4
  <2> QED
    BY <1>2, <2>3, <2>5, <2>6
<1>5. CASE UNCHANGED runTimes /\ currentTime' \in Nat /\ currentTime <= currentTime'
  <2>1. ASSUME NEW n \in DOMAIN runTimes
        PROVE  RunInOrder(runTimes[n], currentTime')
    <3>1. runTimes[n] \in Seq(RunData) /\ RunInOrder(runTimes[n], currentTime)
      BY <1>1 DEF RunsInOrder
    <3> QED
      BY <1>1, <1>5, <3>1, OrderKept
  <2> QED
    BY <1>5, <2>1 DEF RunsInOrder
<1>6. CASE Idle
  <2>1. /\ ~Due /\ i < count /\ currentTime' = events[i + 1].arrivalTime
        /\ UNCHANGED runTimes
    BY <1>6 DEF Idle
  <2>2. events[i + 1].arrivalTime \in Nat
    BY <1>1, <2>1
  <2>3. currentTime <= currentTime'
    BY <1>1, <2>1, <2>2 DEF Due
  <2> QED
    BY <1>5, <2>1, <2>2, <2>3
<1>7. CASE RegisterVCPU \/ Sort \/ DropEvent \/ IdleAtEnd \/ UNCHANGED simvars
  <2>1. UNCHANGED <<runTimes, currentTime>>
    BY <1>7 DEF RegisterVCPU, Sort, DropEvent, IdleAtEnd, simvars
  <2> QED
    BY <1>1, <1>5, <2>1
<1> QED
  BY <1>3, <1>4, <1>6, <1>7 DEF SimNext

(* PrintResult draws one more entry: because the entries are in order, the *)
(* columns that are already there are right about it too.                  *)
LEMMA ColumnAdded ==
    ASSUME NEW q \in Seq(RunData), NEW now, RunInOrder(q, now),
           NEW m \in Nat, m + 1 <= Len(q), NEW chart, ChartOf(q, m, chart)
    PROVE  ChartOf(q, m + 1, Drawn(chart, q[m + 1]))
<1>0. Len(q) \in Nat /\ DOMAIN q = 1..Len(q)
  OBVIOUS
<1>1. PICK e \in RunData : e = q[m + 1]
  <2>1. m + 1 \in DOMAIN q
    BY <1>0
  <2> QED
    BY <2>1, EntryTimes
<1>2. PICK c \in Seq(Signs) : c = chart
  BY DEF ChartOf
<1>3. /\ e.time \in Nat /\ Len(c) \in Nat /\ DOMAIN q = 1..Len(q)
      /\ \A k \in 1..m + 1 : k \in DOMAIN q /\ q[k].time \in Nat
  <2>1. \A k \in 1..m + 1 : k \in DOMAIN q
    BY <1>0
  <2>2. m + 1 \in 1..m + 1
    OBVIOUS
  <2> QED
    BY <1>0, <1>1, <2>1, <2>2, EntryTimes
<1>4. \A k \in 1..m : q[k].time <= e.time
  BY <1>1, <1>3 DEF RunInOrder
<1>5. \A k \in 1..m : q[k].time < Len(c)
  <2>1. CASE m = 0
    BY <2>1
  <2>2. CASE m # 0
    <3>1. Len(c) = q[m].time + 1 /\ m \in 1..m
      BY <1>2, <2>2 DEF ChartOf
    <3>2. \A k \in 1..m : q[k].time <= q[m].time
      BY <1>3, <3>1 DEF RunInOrder
    <3> QED
      BY <1>3, <3>1, <3>2
  <2> QED
    BY <2>1, <2>2
<1>6. ASSUME NEW t \in 1..Len(c), e.time >= Len(c) \/ \E k \in 1..m : q[k].time = t - 1
      PROVE  Column(q, m + 1, t, c[t])
  <2>1. Column(q, m, t, c[t])
    BY <1>2 DEF ChartOf
  <2>2. CASE \A k \in 1..m : q[k].time # t - 1
    <3>1. \A k \in 1..m + 1 : q[k].time # t - 1
      BY <1>1, <1>3, <1>6, <2>2
    <3> QED
      BY <2>1, <2>2, <3>1 DEF Column
  <2>3. CASE \E k \in 1..m : q[k].time = t - 1
    <3>1. PICK k \in 1..m : /\ c[t] = Sign(q[k].action) /\ q[k].time = t - 1
                            /\ \A l \in 1..k - 1 : q[l].time # t - 1
      BY <2>1, <2>3 DEF Column
    <3>2. k \in 1..m + 1
      OBVIOUS
    <3> QED
      BY <3>1, <3>2 DEF Column
  <2> QED
    BY <2>2, <2>3
<1>7. CASE e.time < Len(c)
  <2>1. Drawn(chart, q[m + 1]) = c
    BY <1>1, <1>2, <1>7, NothingDrawn
  <2>2. m # 0 /\ Len(c) = q[m].time + 1 /\ e.time = q[m].time
    BY <1>2, <1>3, <1>4, <1>7 DEF ChartOf
  <2>3. ASSUME NEW t \in 1..Len(c) PROVE Column(q, m + 1, t, c[t])
    <3>1. CASE \E k \in 1..m : q[k].time = t - 1
      BY <1>6, <3>1
    <3>2. CASE \A k \in 1..m : q[k].time # t - 1
      <4>1. c[t] = NoSign
        BY <1>2, <3>2 DEF ChartOf, Column
      <4>2. \A k \in 1..m + 1 : q[k].time # t - 1
        BY <1>1, <2>2, <3>2
      <4> QED
        BY <4>1, <4>2 DEF Column
    <3> QED
      BY <3>1, <3>2
  <2>4. Len(c) = q[m + 1].time + 1 /\ m + 1 # 0
    BY <1>1, <2>2
  <2> QED
    BY <2>1, <2>3, <2>4 DEF ChartOf
<1>8. CASE e.time >= Len(c)
  <2>1. PICK d : d = Drawn(c, e)
    OBVIOUS
  <2>2. PICK last \in Nat : last = e.time /\ last = q[m + 1].time
    BY <1>1, <1>3
  <2>3. /\ d \in Seq(Signs) /\ Len(d) = last + 1
        /\ d[last + 1] = Sign(q[m + 1].action) /\ last >= Len(c)
        /\ \A t \in 1..last : d[t] = IF t <= Len(c) THEN c[t] ELSE NoSign
    BY <1>1, <1>8, <2>1, <2>2, ColumnsDrawn
  <2>4. ASSUME NEW t \in 1..last + 1 PROVE Column(q, m + 1, t, d[t])
    <3>1. CASE t <= Len(c)
      <4>1. t \in 1..Len(c) /\ t \in 1..last
        BY <1>3, <2>3, <3>1
      <4>2. d[t] = c[t]
        BY <2>3, <3>1, <4>1
      <4>3. Column(q, m + 1, t, c[t])
        BY <1>6, <1>8, <4>1
      <4> QED
        BY <4>2, <4>3
    <3>2. CASE ~(t <= Len(c)) /\ t <= last
      <4>1. t \in 1..last
        BY <3>2
      <4>2. d[t] = NoSign
        BY <2>3, <3>2, <4>1
      <4>3. ASSUME NEW k \in 1..m + 1 PROVE q[k].time # t - 1
        <5>1. CASE k = m + 1
          BY <2>2, <3>2, <5>1
        <5>2. CASE k # m + 1
          <6>1. k \in 1..m
            BY <5>2
          <6> QED
            BY <1>3, <1>5, <3>2, <6>1
        <5> QED
          BY <5>1, <5>2
      <4> QED
        BY <4>2, <4>3 DEF Column
    <3>3. CASE t = last + 1
      <4>1. m + 1 \in 1..m + 1 /\ q[m + 1].time = t - 1
        BY <2>2, <3>3
      <4>2. d[t] = Sign(q[m + 1].action)
        BY <2>3, <3>3
      <4>3. \A l \in 1..(m + 1) - 1 : q[l].time # t - 1
        <5>1. (m + 1) - 1 = m
          OBVIOUS
        <5> QED
          BY <1>3, <1>5, <2>3, <3>3, <5>1
      <4> QED
        BY <4>1, <4>2, <4>3 DEF Column
    <3> QED
      BY <1>3, <3>1, <3>2, <3>3
  <2>5. Len(d) = q[m + 1].time + 1 /\ m + 1 # 0
    BY <2>2, <2>3
  <2>6. \A t \in 1..Len(d) : Column(q, m + 1, t, d[t])
    BY <2>3, <2>4
  <2>7. ChartOf(q, m + 1, d)
    BY <2>3, <2>5, <2>6 DEF ChartOf
  <2> QED
    BY <1>1, <1>2, <2>1, <2>7
<1> QED
  BY <1>3, <1>7, <1>8

(* The chart of a record. *)
LEMMA ChartDrawn ==
    ASSUME NEW q \in Seq(RunData), NEW now, RunInOrder(q, now)
    PROVE  ChartOf(q, Len(q), FoldLeft(Drawn, << >>, q))
<1>1. PICK D : Growing(D, q) /\ FoldLeft(Drawn, << >>, q) = D[Len(q)]
  BY ChartGrows
<1>2. Len(q) \in Nat
  OBVIOUS
<1> DEFINE P == {m \in Nat : m <= Len(q) => ChartOf(q, m, D[m])}
<1>3. 0 \in P
  <2>1. D[0] = << >> /\ << >> \in Seq(Signs) /\ Len(<< >>) = 0
    BY <1>1 DEF Growing
  <2>2. ChartOf(q, 0, D[0])
    BY <2>1 DEF ChartOf
  <2> QED
    BY <2>2
<1>4. ASSUME NEW m \in P PROVE m + 1 \in P
  <2> SUFFICES ASSUME m + 1 <= Len(q) PROVE ChartOf(q, m + 1, D[m + 1])
    OBVIOUS
  <2>1. m \in Nat /\ ChartOf(q, m, D[m]) /\ m + 1 \in 1..Len(q) /\ (m + 1) - 1 = m
    BY <1>2
  <2>2. D[m + 1] = Drawn(D[m], q[m + 1])
    BY <1>1, <2>1 DEF Growing
  <2>3. ChartOf(q, m + 1, Drawn(D[m], q[m + 1]))
    BY <2>1, ColumnAdded
  <2> QED
    BY <2>2, <2>3
<1>5. P = Nat
  <2>1. P \in SUBSET Nat
    OBVIOUS
  <2> HIDE DEF P
  <2> QED
    BY <1>3, <1>4, <2>1, SetInduction
<1>6. ChartOf(q, Len(q), D[Len(q)])
  BY <1>2, <1>5
<1> QED
  BY <1>1, <1>6

(* What a column shows of the whole record.                                *)
LEMMA SignRight ==
    ASSUME NEW q \in Seq(RunData), NEW now, RunInOrder(q, now),
           NEW t, NEW sign, Column(q, Len(q), t, sign)
    PROVE  /\ Was(q, t, {"NewJob"}) => sign = "J"
           /\ ~Was(q, t, {"NewJob"}) /\ Was(q, t, {"JobEnd"}) =>
                 sign = "E" /\ ~Was(q, t, {"Work"})
           /\ ~Was(q, t, {"NewJob"}) /\ Was(q, t, {"Work"}) => sign = "="
           /\ \/ Was(q, t, {"NewJob"}) \/ Was(q, t, {"JobEnd"}) \/ Was(q, t, {"Work"})
              \/ sign = "_"
<1>1. /\ DOMAIN q = 1..Len(q) /\ Len(q) \in Nat
      /\ \A k \in DOMAIN q : q[k].time \in Nat
  BY EntryTimes
<1>2. \A k \in DOMAIN q : q[k].action \in {"NewJob", "Work", "JobEnd"}
  <2>1. \A e \in RunData : e.action \in {"NewJob", "Work", "JobEnd"}
    BY DEF RunData
  <2> QED
    BY <2>1, EntryTimes
<1>3. CASE \A k \in DOMAIN q : q[k].time # t - 1
  <2>1. sign = "_"
    BY <1>1, <1>3 DEF Column, NoSign
  <2>2. \A acts : ~Was(q, t, acts)
    BY <1>3 DEF Was
  <2> QED
    BY <2>1, <2>2
<1>4. CASE ~(\A k \in DOMAIN q : q[k].time # t - 1)
  <2>1. PICK k \in DOMAIN q : /\ sign = Sign(q[k].action) /\ q[k].time = t - 1
                              /\ \A l \in 1..k - 1 : q[l].time # t - 1
    BY <1>1, <1>4 DEF Column
  <2>2. ASSUME NEW m \in DOMAIN q, q[m].time = t - 1, q[k].action # "NewJob"
        PROVE  m = k
    <3>1. ~(m < k)
      <4>1. m < k => m \in 1..k - 1
        BY <1>1
      <4> QED
        BY <2>1, <2>2, <4>1
    <3>2. ~(k < m)
      BY <1>1, <2>1, <2>2 DEF RunInOrder
    <3> QED
      BY <1>1, <3>1, <3>2
  <2>3. CASE q[k].action = "NewJob"
    <3>1. sign = "J"
      BY <2>1, <2>3, Zenon DEF Sign
    <3>2. Was(q, t, {"NewJob"})
      BY <2>1, <2>3 DEF Was
    <3> QED
      BY <3>1, <3>2
  <2>4. CASE q[k].action = "JobEnd"
    <3>1. sign = "E"
      BY <2>1, <2>4 DEF Sign
    <3>2. ~Was(q, t, {"NewJob"}) /\ Was(q, t, {"JobEnd"}) /\ ~Was(q, t, {"Work"})
      BY <2>1, <2>2, <2>4 DEF Was
    <3> QED
      BY <3>1, <3>2
  <2>5. CASE q[k].action = "Work"
    <3>1. sign = "="
      BY <2>1, <2>5 DEF Sign
    <3>2. ~Was(q, t, {"NewJob"}) /\ ~Was(q, t, {"JobEnd"}) /\ Was(q, t, {"Work"})
      BY <2>1, <2>2, <2>5 DEF Was
    <3> QED
      BY <3>1, <3>2
  <2> QED
    BY <1>2, <2>3, <2>4, <2>5
<1> QED
  BY <1>3, <1>4

(* The chart of every server tells of its run: an arrival is always shown, *)
(* and otherwise what has been done in the unit, if anything.              *)
THEOREM ChartTellsRun == MemSpec => []ChartShowsRun
<1>1. MemInit => RunsInOrder
  <2> SUFFICES ASSUME MemInit, NEW name \in DOMAIN runTimes
               PROVE  RunInOrder(runTimes[name], currentTime)
    BY DEF RunsInOrder
  <2>1. runTimes[name] = << >>
    BY DEF MemInit, SimInit
  <2> QED
    BY <2>1 DEF RunInOrder
<1>2. MemInv /\ RunsInOrder /\ [MemNext]_mvars => RunsInOrder'
  BY MemoryStepSimulates, OrderStep DEF MemInv, LedgerInv
<1>3. MemInv /\ RunsInOrder => ChartShowsRun
  <2> SUFFICES ASSUME MemInv, RunsInOrder, NEW j \in DOMAIN servers, NEW t \in DOMAIN Chart(j)
               PROVE  Chart(j)[t] =
                        CASE \E k \in DOMAIN RunsOf(j) :
                                /\ RunsOf(j)[k].action \in {"NewJob"}
                                /\ RunsOf(j)[k].time = t - 1 -> "J"
                          [] /\ ~\E k \in DOMAIN RunsOf(j) :
                                    /\ RunsOf(j)[k].action \in {"NewJob"}
                                    /\ RunsOf(j)[k].time = t - 1
                             /\ \E k \in DOMAIN RunsOf(j) :
                                    /\ RunsOf(j)[k].action \in {"JobEnd"}
                                    /\ RunsOf(j)[k].time = t - 1 -> "E"
                          [] /\ ~\E k \in DOMAIN RunsOf(j) :
                                    /\ RunsOf(j)[k].action \in {"NewJob"}
                                    /\ RunsOf(j)[k].time = t - 1
                             /\ \E k \in DOMAIN RunsOf(j) :
                                    /\ RunsOf(j)[k].action \in {"Work"}
                                    /\ RunsOf(j)[k].time = t - 1 -> "="
                          [] OTHER -> "_"
    BY DEF ChartShowsRun
  <2>1. PICK q : q = RunsOf(j)
    OBVIOUS
  <2>2. q \in Seq(RunData) /\ servers[j].cpu \in DOMAIN runTimes
    BY <2>1, RunsTyped DEF MemInv, LedgerInv
  <2>3. RunInOrder(q, currentTime)
    <3>1. CASE q = << >>
      BY <3>1 DEF RunInOrder
    <3>2. CASE q = runTimes[servers[j].cpu]
      BY <2>2, <3>2 DEF RunsInOrder
    <3> QED
      BY <2>1, <3>1, <3>2 DEF RunsOf
  <2>4. PICK chart : chart = Chart(j)
    OBVIOUS
  <2>5. ChartOf(q, Len(q), chart)
    BY <2>1, <2>2, <2>3, <2>4, ChartDrawn DEF Chart
  <2>6. DOMAIN chart = 1..Len(chart)
    BY <2>5 DEF ChartOf
  <2>7. Column(q, Len(q), t, chart[t])
    BY <2>4, <2>5, <2>6 DEF ChartOf
  <2>8. /\ Was(q, t, {"NewJob"}) => chart[t] = "J"
        /\ ~Was(q, t, {"NewJob"}) /\ Was(q, t, {"JobEnd"}) =>
              chart[t] = "E" /\ ~Was(q, t, {"Work"})
        /\ ~Was(q, t, {"NewJob"}) /\ Was(q, t, {"Work"}) => chart[t] = "="
        /\ \/ Was(q, t, {"NewJob"}) \/ Was(q, t, {"JobEnd"}) \/ Was(q, t, {"Work"})
           \/ chart[t] = "_"
    BY <2>2, <2>3, <2>7, SignRight
  <2>9. chart[t] = CASE Was(q, t, {"NewJob"}) -> "J"
                     [] ~Was(q, t, {"NewJob"}) /\ Was(q, t, {"JobEnd"}) -> "E"
                     [] ~Was(q, t, {"NewJob"}) /\ Was(q, t, {"Work"}) -> "="
                     [] OTHER -> "_"
    BY <2>8
  <2> QED
    BY <2>1, <2>4, <2>9 DEF Was
<1> QED
  BY <1>1, <1>2, <1>3, MemoryInit, MemoryStep, PTL DEF MemSpec
=============================================================================
