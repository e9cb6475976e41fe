--------------------------- MODULE SimulatorProofs ---------------------------
(***************************************************************************)
(* The simulator, for any input and any capacity: its records keep their   *)
(* types, a server idles exactly when it has no work, its job is worked on *)
(* by its deadline, and every step of the loop is one of FifoCpu or none.  *)
(* While the shares of the servers fit in the processor their budgets are  *)
(* used up in time, what is admitted fits, the records tell of every event *)
(* and every unit of work, and the loop ends.  (DataProofs provides what   *)
(* is known about Min, and about sums, products and quotients.)            *)
(***************************************************************************)
EXTENDS SimulatorProps, DataProofs, SequenceTheorems

(* Of the servers of one name only the first is ever given a job.          *)
FirstServes ==
    \A j, k \in DOMAIN servers :
        k < j /\ servers[k].cpu = servers[j].cpu => servers[j].state = IDLE

(* The names and the jobs come from the input.                             *)
FromInput ==
    /\ \A j \in DOMAIN vcpus : vcpus[j].name \in AllNames
    /\ \A j \in DOMAIN servers : servers[j].cpu \in AllNames
    /\ \A k \in DOMAIN events : events[k].requiredProcessingTime \in AllWorks

(* The inductive invariant.                                                *)
SimInv == SimTypeOK /\ IdleIffNoWork /\ JobDeadlineCurrent /\ FirstServes /\ FromInput

-----------------------------------------------------------------------------
(* A server, by itself: its type, and what it is when it has no work.      *)
GoodServer(s) ==
    /\ s \in Servers
    /\ s.currentBudget \in 1..s.requestedBudget
    /\ s.state = IDLE <=> s.workTime = 0
    /\ s.state = IDLE => s.jobs = << >>
    /\ s.state = ACTIVE => s.jobDeadline = s.deadline

(* What a server still has to work on. *)
WorkOf(s) == (IF s.state = ACTIVE THEN <<s.workTime>> ELSE << >>) \o s.jobs

(* r is the server s, except for the fields that the program changes. *)
Becomes(s, r, d, b, st, w, jd, js) ==
    /\ r \in Servers
    /\ r.cpu = s.cpu /\ r.requestedBudget = s.requestedBudget /\ r.period = s.period
    /\ r.deadline = d /\ r.currentBudget = b /\ r.state = st
    /\ r.workTime = w /\ r.jobDeadline = jd /\ r.jobs = js

(* The types of a server's fields.                                         *)
LEMMA ServerFields ==
    ASSUME NEW s \in Servers
    PROVE  /\ s.cpu \in STRING
           /\ s.requestedBudget \in Nat \ {0} /\ s.period \in Nat \ {0}
           /\ s.deadline \in Nat /\ s.currentBudget \in Nat
           /\ s.state \in {IDLE, ACTIVE} /\ s.workTime \in Nat
           /\ s.jobDeadline \in Nat /\ s.jobs \in Seq(Nat \ {0})
BY DEF Servers

(* The assignments of the program, in the combinations that it makes.      *)
LEMMA JobsAssigned ==
    ASSUME NEW s \in Servers, NEW js \in Seq(Nat \ {0})
    PROVE  Becomes(s, [s EXCEPT !.jobs = js], s.deadline, s.currentBudget,
                   s.state, s.workTime, s.jobDeadline, js)
BY Zenon DEF Becomes, Servers

(* A server without a next job goes idle.                                  *)
LEMMA StateAssigned ==
    ASSUME NEW s \in Servers, NEW st \in {IDLE, ACTIVE}
    PROVE  Becomes(s, [s EXCEPT !.state = st], s.deadline, s.currentBudget,
                   st, s.workTime, s.jobDeadline, s.jobs)
BY Zenon DEF Becomes, Servers

(* AddJob renews the deadline together with the budget.                    *)
LEMMA DeadlineAssigned ==
    ASSUME NEW s \in Servers, NEW d \in Nat, NEW b \in Nat
    PROVE  Becomes(s, [s EXCEPT !.deadline = d, !.currentBudget = b], d, b,
                   s.state, s.workTime, s.jobDeadline, s.jobs)
BY Zenon DEF Becomes, Servers

(* DoWork takes a unit from the job and from the budget.                   *)
LEMMA WorkAssigned ==
    ASSUME NEW s \in Servers, NEW w \in Nat, NEW b \in Nat
    PROVE  Becomes(s, [s EXCEPT !.workTime = w, !.currentBudget = b], s.deadline, b,
                   s.state, w, s.jobDeadline, s.jobs)
BY Zenon DEF Becomes, Servers

(* AssignJob takes over a job and its deadline.                            *)
LEMMA JobAssigned ==
    ASSUME NEW s \in Servers, NEW w \in Nat, NEW d \in Nat, NEW st \in {IDLE, ACTIVE}
    PROVE  Becomes(s, [s EXCEPT !.workTime = w, !.jobDeadline = d, !.state = st],
                   s.deadline, s.currentBudget, st, w, d, s.jobs)
BY Zenon DEF Becomes, Servers

(* DoWork replenishes a used-up budget.                                    *)
LEMMA BudgetAssigned ==
    ASSUME NEW s \in Servers, NEW b \in Nat, NEW d \in Nat, NEW jd \in Nat
    PROVE  Becomes(s, [s EXCEPT !.currentBudget = b, !.deadline = d,
                                !.jobDeadline = jd],
                   d, b, s.state, s.workTime, jd, s.jobs)
BY Zenon DEF Becomes, Servers

(* What InsertNewServer makes of a vCPU.                                   *)
LEMMA NewServerGood ==
    ASSUME NEW v \in VCpus
    PROVE  /\ GoodServer(NewServer(v))
           /\ NewServer(v).state = IDLE
           /\ NewServer(v).cpu = v.name
BY StateAssumption DEF VCpus, NewServer, GoodServer, Servers

(* Appending to the second part of a concatenation.                        *)
LEMMA AppendInside ==
    ASSUME NEW S, NEW a \in Seq(S), NEW b \in Seq(S), NEW e \in S
    PROVE  a \o Append(b, e) = Append(a \o b, e)
OBVIOUS

(* A new job: the last of the list, or the one to be worked on.            *)
LEMMA AddJobGood ==
    ASSUME NEW s, GoodServer(s), NEW work \in Nat \ {0}, NEW t \in Nat
    PROVE  /\ GoodServer(AddJob(s, work, t))
           /\ AddJob(s, work, t).cpu = s.cpu
           /\ WorkOf(AddJob(s, work, t)) = Append(WorkOf(s), work)
<1> DEFINE r == AddJob(s, work, t)
<1>1. s \in Servers
  BY DEF GoodServer
<1>2. CASE s.state # IDLE
  <2> DEFINE js == Append(s.jobs, work)
  <2>1. js \in Seq(Nat \ {0})
    BY <1>1, ServerFields
  <2>2. r = [s EXCEPT !.jobs = js]
    BY <1>2, Zenon DEF AddJob, Queued
  <2> HIDE DEF js, r
  <2>3. Becomes(s, r, s.deadline, s.currentBudget, s.state, s.workTime,
                s.jobDeadline, js)
    BY <1>1, <2>1, <2>2, JobsAssigned
  <2>4. GoodServer(r) /\ r.cpu = s.cpu
    BY <1>2, <2>3 DEF Becomes, GoodServer
  <2>5. WorkOf(r) = Append(WorkOf(s), work)
    <3>1. s.state = ACTIVE /\ r.state = ACTIVE
      BY <1>1, <1>2, <2>3, ServerFields DEF Becomes
    <3>2. WorkOf(s) = <<s.workTime>> \o s.jobs /\ WorkOf(r) = <<s.workTime>> \o js
      BY <2>3, <3>1 DEF WorkOf, Becomes
    <3>3. s.workTime \in Nat /\ s.jobs \in Seq(Nat) /\ work \in Nat
      BY <1>1, ServerFields
    <3>4. <<s.workTime>> \in Seq(Nat)
      BY <3>3
    <3>5. \A a, b \in Seq(Nat), e \in Nat : a \o Append(b, e) = Append(a \o b, e)
      BY AppendInside
    <3>6. <<s.workTime>> \o Append(s.jobs, work) = Append(<<s.workTime>> \o s.jobs, work)
      BY <3>3, <3>4, <3>5, Zenon
    <3> QED
      BY <3>2, <3>6, Zenon DEF js
  <2> QED
    BY <2>4, <2>5 DEF r
<1>3. CASE s.state = IDLE
  <2>1. ASSUME NEW x \in Servers, NEW d \in Nat, NEW b \in 1..s.requestedBudget,
               Becomes(s, x, d, b, s.state, s.workTime, s.jobDeadline, s.jobs),
               r = AssignJob(x, work)
        PROVE  GoodServer(r) /\ r.cpu = s.cpu /\ WorkOf(r) = <<work>>
    <3>1. Becomes(x, r, x.deadline, x.currentBudget, ACTIVE, work, x.deadline, x.jobs)
      <4>1. x.deadline \in Nat
        BY <2>1, ServerFields
      <4> QED
        BY <2>1, <4>1, JobAssigned DEF AssignJob
    <3> HIDE DEF r
    <3>2. GoodServer(r) /\ r.cpu = s.cpu /\ r.jobs = << >>
      BY <1>3, <2>1, <3>1, StateAssumption DEF Becomes, GoodServer
    <3> QED
      BY <3>1, <3>2 DEF WorkOf, Becomes
  <2>2. GoodServer(r) /\ r.cpu = s.cpu /\ WorkOf(r) = <<work>>
    <3> DEFINE x == [s EXCEPT !.deadline = t + s.period,
                              !.currentBudget = s.requestedBudget]
    <3>1. CASE OutOfDate(s, t)
      <4>1. r = AssignJob(x, work)
        BY <1>3, <3>1, Zenon DEF AddJob
      <4>2. /\ s.requestedBudget \in Nat \ {0} /\ t + s.period \in Nat
            /\ s.requestedBudget \in 1..s.requestedBudget
        BY <1>1, ServerFields
      <4>3. Becomes(s, x, t + s.period, s.requestedBudget, s.state, s.workTime,
                    s.jobDeadline, s.jobs)
        BY <1>1, <4>2, DeadlineAssigned
      <4> HIDE DEF x, r
      <4> QED
        BY <2>1, <4>1, <4>2, <4>3 DEF Becomes
    <3>2. CASE ~OutOfDate(s, t)
      <4>1. r = AssignJob(s, work)
        BY <1>3, <3>2 DEF AddJob
      <4> HIDE DEF r
      <4>2. s.deadline \in Nat /\ s.currentBudget \in 1..s.requestedBudget
        BY <1>1, ServerFields DEF GoodServer
      <4>3. Becomes(s, s, s.deadline, s.currentBudget, s.state, s.workTime,
                    s.jobDeadline, s.jobs)
        BY <1>1 DEF Becomes
      <4> QED
        BY <1>1, <2>1, <4>1, <4>2, <4>3
    <3> QED
      BY <3>1, <3>2
  <2>3. WorkOf(s) = << >>
    BY <1>3, StateAssumption DEF WorkOf, GoodServer
  <2> HIDE DEF r
  <2>4. WorkOf(r) = Append(WorkOf(s), work)
    BY <2>2, <2>3
  <2> QED
    BY <2>2, <2>4 DEF r
<1> QED
  BY <1>2, <1>3

(* One unit of work: the first job shrinks, or is done and leaves.         *)
LEMMA DoWorkGood ==
    ASSUME NEW s, GoodServer(s), s.state = ACTIVE
    PROVE  /\ GoodServer(DoWork(s))
           /\ DoWork(s).cpu = s.cpu
           /\ WorkOf(s) # << >>
           /\ WorkOf(DoWork(s)) = Fifo!Advanced(WorkOf(s))
<1> DEFINE w == s.workTime
           js == s.jobs
           b == s.currentBudget
           y == Worked(s)
           z == IF JobFinished(s) THEN NextJob(y) ELSE y
           r == DoWork(s)
<1>1. s \in Servers
  BY DEF GoodServer
<1>2. /\ w \in Nat \ {0} /\ js \in Seq(Nat \ {0})
      /\ b \in 1..s.requestedBudget /\ b \in Nat \ {0} /\ b - 1 \in Nat /\ w - 1 \in Nat
      /\ s.jobDeadline = s.deadline /\ s.deadline \in Nat
  BY <1>1, ServerFields, StateAssumption DEF GoodServer
<1>3. Becomes(s, y, s.deadline, b - 1, ACTIVE, w - 1, s.deadline, js)
  <2>1. y = [s EXCEPT !.workTime = w - 1, !.currentBudget = b - 1]
    BY Zenon DEF Worked
  <2> HIDE DEF y, w, b
  <2>2. Becomes(s, y, s.deadline, b - 1, s.state, w - 1, s.jobDeadline, s.jobs)
    BY <1>1, <1>2, <2>1, WorkAssigned
  <2> QED
    BY <1>2, <2>2
<1>4. r = Replenish(z)
  BY DEF DoWork
<1>5. WorkOf(s) = <<w>> \o js
  BY DEF WorkOf
<1>6. JobFinished(s) <=> w = 1
  BY DEF JobFinished
<1> HIDE DEF w, js, b, y, r
<1>7. ASSUME NEW st \in {IDLE, ACTIVE}, NEW w2 \in Nat, NEW q \in Seq(Nat \ {0}),
             Becomes(s, z, s.deadline, b - 1, st, w2, s.deadline, q),
             st = IDLE <=> w2 = 0, st = IDLE => q = << >>
      PROVE  /\ GoodServer(r)
             /\ r.cpu = s.cpu
             /\ WorkOf(r) = (IF st = ACTIVE THEN <<w2>> ELSE << >>) \o q
  <2> HIDE DEF z
  <2>0. z \in Servers /\ z.currentBudget = b - 1
    BY <1>7 DEF Becomes
  <2>1. CASE b - 1 # 0
    <3>1. r = z
      BY <1>4, <2>0, <2>1 DEF Replenish
    <3>2. b - 1 \in 1..s.requestedBudget
      <4>1. s.requestedBudget \in Nat
        BY <1>1, ServerFields
      <4> QED
        BY <1>2, <2>1, <4>1
    <3>3. GoodServer(z) /\ z.cpu = s.cpu
      BY <1>7, <3>2 DEF GoodServer, Becomes
    <3> QED
      BY <1>7, <3>1, <3>3 DEF WorkOf, Becomes
  <2>2. CASE b - 1 = 0
    <3> DEFINE d == z.deadline + z.period
    <3>1. r = [z EXCEPT !.currentBudget = z.requestedBudget, !.deadline = d,
                        !.jobDeadline = d]
      BY <1>4, <2>0, <2>2, Zenon DEF Replenish
    <3>2. z.requestedBudget \in Nat \ {0} /\ d \in Nat
      BY <2>0, ServerFields
    <3> HIDE DEF d
    <3>3. Becomes(z, r, d, z.requestedBudget, z.state, z.workTime, d, z.jobs)
      BY <2>0, <3>1, <3>2, BudgetAssigned
    <3>4. GoodServer(r) /\ r.cpu = s.cpu
      BY <1>7, <3>2, <3>3 DEF GoodServer, Becomes
    <3> QED
      BY <1>7, <3>3, <3>4 DEF WorkOf, Becomes
  <2> QED
    BY <2>1, <2>2
<1>8. CASE w # 1
  <2>1. z = y /\ w - 1 \in Nat \ {0}
    BY <1>2, <1>6, <1>8
  <2>2. GoodServer(r) /\ r.cpu = s.cpu /\ WorkOf(r) = <<w - 1>> \o js
    BY <1>2, <1>3, <1>7, <2>1, StateAssumption
  <2>3. /\ <<w>> \o js # << >> /\ (<<w>> \o js)[1] = w
        /\ <<w - 1>> \o js = [<<w>> \o js EXCEPT ![1] = w - 1]
    <3> DEFINE a == <<w>> \o js
               c == <<w - 1>> \o js
               e == [a EXCEPT ![1] = w - 1]
    <3>1. /\ <<w>> \in Seq(Nat) /\ <<w - 1>> \in Seq(Nat) /\ js \in Seq(Nat)
          /\ Len(<<w>>) = 1 /\ Len(<<w - 1>>) = 1
          /\ <<w>>[1] = w /\ <<w - 1>>[1] = w - 1
      BY <1>2
    <3>2. /\ a \in Seq(Nat) /\ Len(a) = 1 + Len(js)
          /\ \A j \in 1..(1 + Len(js)) : a[j] = IF j <= 1 THEN w ELSE js[j - 1]
      BY <3>1, ConcatElements
    <3>3. /\ c \in Seq(Nat) /\ Len(c) = 1 + Len(js)
          /\ \A j \in 1..(1 + Len(js)) : c[j] = IF j <= 1 THEN w - 1 ELSE js[j - 1]
      BY <3>1, ConcatElements
    <3>4. Len(js) \in Nat
      BY <1>2
    <3> HIDE DEF a, c
    <3>5. /\ e \in Seq(Nat) /\ Len(e) = 1 + Len(js)
          /\ \A j \in 1..(1 + Len(js)) : e[j] = IF j = 1 THEN w - 1 ELSE a[j]
      BY <1>2, <3>2, <3>4
    <3> HIDE DEF e
    <3>6. c = e
      <4>1. ASSUME NEW j \in 1..(1 + Len(js)) PROVE c[j] = e[j]
        <5>1. CASE j = 1
          BY <3>3, <3>5, <5>1
        <5>2. CASE j # 1
          <6>1. ~(j <= 1)
            BY <3>4, <5>2
          <6>2. c[j] = js[j - 1]
            BY <3>3, <6>1
          <6>3. a[j] = js[j - 1]
            BY <3>2, <6>1
          <6>4. e[j] = a[j]
            BY <3>5, <5>2
          <6> QED
            BY <6>2, <6>3, <6>4
        <5> QED
          BY <5>1, <5>2
      <4>2. Len(c) = Len(e) /\ \A j \in 1..Len(c) : c[j] = e[j]
        BY <3>3, <3>5, <4>1
      <4> QED
        BY <3>3, <3>5, <4>2, SeqEqual
    <3>7. a # << >> /\ a[1] = w
      BY <3>2, <3>4
    <3> QED
      BY <3>6, <3>7 DEF a, c, e
  <2> QED
    BY <1>5, <1>8, <2>2, <2>3 DEF r, Fifo!Advanced
<1>9. CASE w = 1
  <2>1. z = NextJob(y)
    BY <1>6, <1>9
  <2>2. /\ <<w>> \o js # << >> /\ (<<w>> \o js)[1] = 1
        /\ Tail(<<w>> \o js) = js
    BY <1>2, <1>9
  <2>3. y \in Servers /\ y.jobs = js /\ y.deadline = s.deadline
    BY <1>3 DEF Becomes
  <2>4. CASE js = << >>
    <3>1. z = [y EXCEPT !.state = IDLE]
      BY <2>1, <2>3, <2>4 DEF NextJob
    <3> HIDE DEF z
    <3>2. Becomes(y, z, y.deadline, y.currentBudget, IDLE, y.workTime,
                  y.jobDeadline, y.jobs)
      BY <2>3, <3>1, StateAssigned
    <3>3. Becomes(s, z, s.deadline, b - 1, IDLE, 0, s.deadline, js)
      BY <1>2, <1>3, <1>9, <2>4, <3>2 DEF Becomes
    <3>4. GoodServer(r) /\ r.cpu = s.cpu /\ WorkOf(r) = << >> \o js
      BY <1>2, <1>7, <2>4, <3>3, StateAssumption DEF z
    <3> QED
      BY <1>5, <2>2, <2>4, <3>4 DEF r, Fifo!Advanced
  <2>5. CASE js # << >>
    <3> DEFINE x == AssignJob(y, Head(js))
    <3>0. /\ Head(js) \in Nat \ {0} /\ Tail(js) \in Seq(Nat \ {0})
          /\ <<Head(js)>> \o Tail(js) = js
      BY <1>2, <2>5
    <3>1. z = [x EXCEPT !.jobs = Tail(x.jobs)]
      BY <2>1, <2>3, <2>5, Zenon DEF NextJob
    <3>2. Becomes(y, x, y.deadline, y.currentBudget, ACTIVE, Head(js), y.deadline, js)
      BY <1>2, <2>3, <3>0, JobAssigned DEF AssignJob
    <3> HIDE DEF x, z
    <3>3. x \in Servers /\ x.jobs = js
      BY <3>2 DEF Becomes
    <3>4. Becomes(x, z, x.deadline, x.currentBudget, x.state, x.workTime,
                  x.jobDeadline, Tail(js))
      BY <3>0, <3>1, <3>3, JobsAssigned
    <3>5. Becomes(s, z, s.deadline, b - 1, ACTIVE, Head(js), s.deadline, Tail(js))
      BY <1>3, <3>2, <3>4 DEF Becomes
    <3>6. GoodServer(r) /\ r.cpu = s.cpu /\ WorkOf(r) = <<Head(js)>> \o Tail(js)
      BY <1>7, <3>0, <3>5, StateAssumption DEF z
    <3> QED
      BY <1>5, <2>2, <3>0, <3>6 DEF r, Fifo!Advanced
  <2> QED
    BY <2>4, <2>5
<1> QED
  BY <1>8, <1>9

-----------------------------------------------------------------------------
(* The invariant of the loop. *)

GoodServers ==
    /\ servers \in Seq(Servers)
    /\ \A j \in DOMAIN servers : GoodServer(servers[j])

(* What SimInv says of every server.                                       *)
LEMMA ServersGood ==
    /\ SimTypeOK /\ IdleIffNoWork /\ JobDeadlineCurrent => GoodServers
    /\ GoodServers => IdleIffNoWork /\ JobDeadlineCurrent
BY DEF SimTypeOK, IdleIffNoWork, JobDeadlineCurrent, GoodServers, GoodServer

(* GetServerWithED finds an active server whenever there is one, and none  *)
(* that is active has an earlier deadline.                                 *)
LEMMA ActiveFound ==
    ASSUME GoodServers
    PROVE  /\ Active = 0 => \A j \in DOMAIN servers : servers[j].state = IDLE
           /\ Active # 0 => /\ Active \in DOMAIN servers
                            /\ servers[Active].state = ACTIVE
                            /\ \A j \in DOMAIN servers :
                                  servers[j].state = ACTIVE =>
                                     servers[Active].deadline <= servers[j].deadline
<1> DEFINE active == {j \in DOMAIN servers : servers[j].state # IDLE}
           first  == {j \in active : \A k \in active :
                         servers[j].deadline <= servers[k].deadline}
           dls    == {servers[j].deadline : j \in active}
<1>1. /\ DOMAIN servers \in SUBSET (Nat \ {0})
      /\ \A j \in DOMAIN servers : servers[j] \in Servers
  BY DEF GoodServers
<1>2. \A j \in DOMAIN servers : servers[j].deadline \in Nat
                                /\ servers[j].state \in {IDLE, ACTIVE}
  BY <1>1, ServerFields
<1>3. Active = IF active = {} THEN 0 ELSE Min(first)
  BY DEF Active, GetServerWithED
<1>4. CASE active = {}
  BY <1>3, <1>4
<1>5. CASE active # {}
  <2>1. dls \in SUBSET Nat /\ dls # {}
    BY <1>2, <1>5
  <2>2. PICK d \in dls : \A e \in dls : d <= e
    <3> HIDE DEF dls
    <3> QED
      BY <2>1, MinIsLeast
  <2>3. PICK j \in active : d = servers[j].deadline
    BY <2>2
  <2>4. j \in first
    BY <2>2, <2>3
  <2>5. first \in SUBSET Nat /\ first # {}
    BY <1>1, <2>4
  <2> HIDE DEF first
  <2>6. Min(first) \in first
    BY <2>5, MinIsLeast
  <2>7. /\ Active \in active
        /\ \A k \in active : servers[Active].deadline <= servers[k].deadline
    BY <1>3, <1>5, <2>6 DEF first
  <2>8. Active # 0 /\ servers[Active].state = ACTIVE
    BY <1>1, <1>2, <2>7
  <2>9. \A k \in DOMAIN servers : servers[k].state = ACTIVE => k \in active
    BY StateAssumption
  <2> QED
    BY <1>1, <2>7, <2>8, <2>9
<1> QED
  BY <1>4, <1>5

(* The event that the loop looks at. *)
LEMMA EventFields ==
    ASSUME SimTypeOK, FromInput, i < count
    PROVE  /\ i + 1 \in DOMAIN events
           /\ events[i + 1].arrivalTime \in Nat
           /\ events[i + 1].requiredProcessingTime \in Nat \ {0}
           /\ events[i + 1].requiredProcessingTime \in AllWorks
<1>1. i + 1 \in DOMAIN events /\ events[i + 1] \in SimulationEvents
  BY DEF SimTypeOK, count
<1> QED
  BY <1>1 DEF FromInput, SimulationEvents

(* SimInv is inductive: the start, the registration and the sorting.       *)
LEMMA InitGood == SimInit => SimInv
<1> SUFFICES ASSUME SimInit PROVE SimInv
  OBVIOUS
<1>1. PICK input \in Inputs : SimInit!(input)
  BY DEF SimInit
<1>2. input.vcpus \in Seq(VCpus) /\ input.events \in Seq(SimulationEvents)
  BY InputAssumption
<1>3. SimTypeOK
  <2>1. runTimes \in [DOMAIN runTimes -> Seq(RunData)]
    BY <1>1
  <2>2. count \in Nat
    BY <1>1, <1>2 DEF count
  <2> QED
    BY <1>1, <1>2, <2>1, <2>2, InputAssumption DEF SimTypeOK
<1>4. IdleIffNoWork /\ JobDeadlineCurrent /\ FirstServes
  BY <1>1 DEF IdleIffNoWork, JobDeadlineCurrent, FirstServes
<1>5. FromInput
  <2>1. \A j \in DOMAIN vcpus : vcpus[j].name \in AllNames
    BY <1>1 DEF AllNames, Names
  <2>2. \A k \in DOMAIN events : events[k].requiredProcessingTime \in AllWorks
    BY <1>1 DEF AllWorks
  <2> QED
    BY <1>1, <2>1, <2>2 DEF FromInput
<1> QED
  BY <1>3, <1>4, <1>5 DEF SimInv

(* A server is registered idle, and with no job.                           *)
LEMMA RegisterGood == SimInv /\ RegisterVCPU => SimInv'
<1> SUFFICES ASSUME SimInv, RegisterVCPU PROVE SimInv'
  OBVIOUS
<1> DEFINE v == Head(vcpus)
<1>1. SimTypeOK /\ GoodServers /\ FirstServes /\ FromInput
  BY ServersGood DEF SimInv
<1>2. /\ v \in VCpus /\ v.name \in AllNames
      /\ vcpus' \in Seq(VCpus) /\ Len(vcpus') = Len(vcpus) - 1
      /\ \A j \in DOMAIN vcpus' : vcpus'[j] = vcpus[j + 1]
  BY <1>1 DEF SimTypeOK, RegisterVCPU, FromInput
<1>3. \A j \in DOMAIN vcpus' : vcpus'[j].name \in AllNames
  <2>1. ASSUME NEW j \in DOMAIN vcpus' PROVE j + 1 \in DOMAIN vcpus
    <3>1. vcpus \in Seq(VCpus)
      BY <1>1 DEF SimTypeOK
    <3>2. j \in 1..(Len(vcpus) - 1)
      BY <1>2
    <3> QED
      BY <3>1, <3>2
  <2> QED
    BY <1>1, <1>2, <2>1 DEF FromInput
<1>4. UNCHANGED <<at, events, i, currentTime, runTimes>>
  BY DEF RegisterVCPU
<1>5. v.requestedBudget \in Nat \ {0}
  BY <1>2 DEF VCpus
<1>6. /\ GoodServers' /\ FirstServes' /\ availableCapacity' \in 0..Capacity
      /\ \A j \in DOMAIN servers' : servers'[j].cpu \in AllNames
  <2>1. CASE v.requestedBudget > availableCapacity
    <3>1. UNCHANGED <<servers, availableCapacity>>
      BY <2>1 DEF RegisterVCPU
    <3> QED
      BY <1>1, <3>1 DEF GoodServers, FirstServes, FromInput, SimTypeOK
  <2>2. CASE ~(v.requestedBudget > availableCapacity)
    <3> DEFINE s == NewServer(v)
    <3>1. /\ servers' = Append(servers, s)
          /\ availableCapacity' = availableCapacity - v.requestedBudget
      BY <2>2 DEF RegisterVCPU, LeftAfter
    <3>2. GoodServer(s) /\ s.state = IDLE /\ s.cpu = v.name /\ s \in Servers
      BY <1>2, NewServerGood DEF GoodServer
    <3> HIDE DEF s
    <3>3. /\ servers' \in Seq(Servers)
          /\ Len(servers') = Len(servers) + 1
          /\ DOMAIN servers = 1..Len(servers) /\ DOMAIN servers' = 1..Len(servers')
          /\ \A j \in 1..Len(servers) : servers'[j] = servers[j]
          /\ servers'[Len(servers) + 1] = s
          /\ Len(servers) \in Nat
      BY <1>1, <3>1, <3>2 DEF GoodServers
    <3>4. GoodServers'
      <4>1. \A j \in DOMAIN servers' : GoodServer(servers'[j])
        BY <1>1, <3>2, <3>3 DEF GoodServers
      <4> QED
        BY <3>3, <4>1 DEF GoodServers, GoodServer
    <3>5. FirstServes'
      BY <1>1, <3>2, <3>3 DEF FirstServes
    <3>6. \A j \in DOMAIN servers' : servers'[j].cpu \in AllNames
      BY <1>1, <1>2, <3>2, <3>3 DEF FromInput
    <3>7. availableCapacity' \in 0..Capacity
      BY <1>1, <1>5, <2>2, <3>1, InputAssumption DEF SimTypeOK
    <3> QED
      BY <3>4, <3>5, <3>6, <3>7
  <2> QED
    BY <2>1, <2>2
<1>7. SimTypeOK'
  BY <1>1, <1>2, <1>4, <1>6 DEF SimTypeOK, GoodServers, GoodServer, count
<1>8. IdleIffNoWork' /\ JobDeadlineCurrent'
  BY <1>6 DEF IdleIffNoWork, JobDeadlineCurrent, GoodServers, GoodServer
<1>9. FromInput'
  BY <1>1, <1>3, <1>4, <1>6 DEF FromInput
<1> QED
  BY <1>6, <1>7, <1>8, <1>9 DEF SimInv

(* Sorting permutes the events and touches no server.                      *)
LEMMA SortGood == SimInv /\ Sort => SimInv'
<1> SUFFICES ASSUME SimInv, Sort PROVE SimInv'
  OBVIOUS
<1>1. SimTypeOK /\ FromInput
  BY DEF SimInv
<1>2. UNCHANGED <<vcpus, availableCapacity, servers, i, currentTime, runTimes>>
      /\ at' = "arrivals"
  BY DEF Sort
<1>3. events \in Seq(SimulationEvents) /\ Len(events) \in Nat
  BY <1>1 DEF SimTypeOK
<1>4. PICK p \in [1..Len(events) -> 1..Len(events)] :
         events' = [k \in 1..Len(events) |-> events[p[k]]]
  BY DEF Sort, Sorted
<1>5. events' \in Seq(SimulationEvents) /\ Len(events') = Len(events)
  BY <1>3, <1>4
<1>6. \A k \in DOMAIN events' : events'[k].requiredProcessingTime \in AllWorks
  BY <1>1, <1>3, <1>4 DEF FromInput
<1>7. SimTypeOK'
  BY <1>1, <1>2, <1>5 DEF SimTypeOK, count
<1>8. IdleIffNoWork' /\ JobDeadlineCurrent' /\ FirstServes'
  BY <1>2 DEF SimInv, IdleIffNoWork, JobDeadlineCurrent, FirstServes
<1>9. FromInput'
  BY <1>1, <1>2, <1>6 DEF FromInput
<1> QED
  BY <1>7, <1>8, <1>9 DEF SimInv

(* The servers of a name; of these only the first one works.               *)
Mine(name) == {j \in DOMAIN servers : servers[j].cpu = name}

(* Which server stands for a name.                                         *)
LEMMA FirstOfMine ==
    ASSUME servers \in Seq(Servers), NEW name, Mine(name) # {}
    PROVE  /\ Min(Mine(name)) \in DOMAIN servers
           /\ servers[Min(Mine(name))].cpu = name
           /\ \A j \in Mine(name) : Min(Mine(name)) <= j
<1> DEFINE S == Mine(name)
<1>1. S \in SUBSET Nat
  BY DEF Mine
<1> HIDE DEF S
<1>2. Min(S) \in S /\ \A j \in S : Min(S) <= j
  BY <1>1, MinIsLeast DEF S
<1> QED
  BY <1>2 DEF S, Mine

(* A step of one server keeps the invariant of all of them, and shows in   *)
(* the backlog of its name.                                                *)
LEMMA OneServerSteps ==
    ASSUME SimInv, NEW j \in DOMAIN servers, NEW r, GoodServer(r),
           r.cpu = servers[j].cpu, \A k \in Mine(r.cpu) : j <= k,
           servers' = [servers EXCEPT ![j] = r]
    PROVE  /\ GoodServers' /\ FirstServes'
           /\ \A k \in DOMAIN servers' : servers'[k].cpu \in AllNames
           /\ r.cpu \in AllNames
           /\ Backlog[r.cpu] = WorkOf(servers[j])
           /\ Backlog' = [Backlog EXCEPT ![r.cpu] = WorkOf(r)]
<1>1. /\ GoodServers /\ FirstServes /\ FromInput
      /\ servers \in Seq(Servers) /\ DOMAIN servers \in SUBSET Nat
  BY ServersGood DEF SimInv, GoodServers
<1>2. /\ DOMAIN servers' = DOMAIN servers
      /\ servers'[j] = r
      /\ \A k \in DOMAIN servers : k # j => servers'[k] = servers[k]
  OBVIOUS
<1>3. r \in Servers
  BY DEF GoodServer
<1>4. GoodServers'
  <2>1. servers' \in Seq(Servers)
    BY <1>1, <1>3
  <2>2. \A k \in DOMAIN servers' : GoodServer(servers'[k])
    BY <1>1, <1>2 DEF GoodServers
  <2> QED
    BY <2>1, <2>2 DEF GoodServers, GoodServer
<1>5. \A k \in DOMAIN servers : servers'[k].cpu = servers[k].cpu
  BY <1>2
<1>6. FirstServes'
  <2> SUFFICES ASSUME NEW a \in DOMAIN servers, NEW b \in DOMAIN servers,
                      b < a, servers'[b].cpu = servers'[a].cpu
               PROVE  servers'[a].state = IDLE
    BY <1>2 DEF FirstServes
  <2>1. a # j
    BY <1>1, <1>5 DEF Mine
  <2> QED
    BY <1>1, <1>2, <1>5, <2>1 DEF FirstServes
<1>7. \A k \in DOMAIN servers' : servers'[k].cpu \in AllNames
  BY <1>1, <1>2, <1>5 DEF FromInput
<1>8. r.cpu \in AllNames
  BY <1>1 DEF FromInput
<1>9. \A name : Mine(name)' = Mine(name)
  BY <1>2, <1>5 DEF Mine
<1>10. Min(Mine(r.cpu)) = j
  <2>1. j \in Mine(r.cpu)
    BY DEF Mine
  <2>2. Min(Mine(r.cpu)) \in Mine(r.cpu) /\ Min(Mine(r.cpu)) <= j
    BY <1>1, <2>1, FirstOfMine DEF Mine
  <2> QED
    BY <1>1, <2>1, <2>2 DEF Mine
<1>11. \A name \in AllNames :
          /\ Backlog[name] = IF Mine(name) = {} THEN << >>
                             ELSE WorkOf(servers[Min(Mine(name))])
          /\ Backlog'[name] = IF Mine(name) = {} THEN << >>
                              ELSE WorkOf(servers'[Min(Mine(name))])
  <2>1. \A name \in AllNames :
           Backlog[name] = IF Mine(name) = {} THEN << >>
                           ELSE WorkOf(servers[Min(Mine(name))])
    BY DEF Backlog, WorkOf, Mine
  <2>2. \A name \in AllNames :
           Backlog'[name] = IF Mine(name)' = {} THEN << >>
                            ELSE WorkOf(servers'[Min(Mine(name)')])
    BY DEF Backlog, WorkOf, Mine
  <2> QED
    BY <1>9, <2>1, <2>2
<1>12. \A name \in AllNames :
          Backlog'[name] = IF name = r.cpu THEN WorkOf(r) ELSE Backlog[name]
  <2> SUFFICES ASSUME NEW name \in AllNames
               PROVE  Backlog'[name] = IF name = r.cpu THEN WorkOf(r) ELSE Backlog[name]
    OBVIOUS
  <2>1. CASE name = r.cpu
    <3>1. Mine(name) # {}
      BY <2>1 DEF Mine
    <3> QED
      BY <1>2, <1>10, <1>11, <2>1, <3>1
  <2>2. CASE name # r.cpu
    <3>1. Mine(name) # {} => Min(Mine(name)) \in DOMAIN servers /\ Min(Mine(name)) # j
      BY <1>1, <2>2, FirstOfMine
    <3> QED
      BY <1>2, <1>11, <2>2, <3>1
  <2> QED
    BY <2>1, <2>2
<1>13. Backlog[r.cpu] = WorkOf(servers[j])
  BY <1>8, <1>10, <1>11 DEF Mine
<1>14. /\ DOMAIN Backlog = AllNames /\ DOMAIN Backlog' = AllNames
       /\ Backlog = [name \in AllNames |-> Backlog[name]]
       /\ Backlog' = [name \in AllNames |-> Backlog'[name]]
  BY DEF Backlog
<1>15. Backlog' = [Backlog EXCEPT ![r.cpu] = WorkOf(r)]
  BY <1>8, <1>12, <1>14
<1> QED
  BY <1>4, <1>6, <1>7, <1>8, <1>13, <1>15

(* What is recorded is a run event. *)
LEMMA Recorded ==
    ASSUME NEW f, f \in [DOMAIN f -> Seq(RunData)], NEW e \in RunData, NEW name,
           NEW g, g = [f EXCEPT ![name] = Append(@, e)]
    PROVE  g \in [DOMAIN g -> Seq(RunData)]
<1> DEFINE D == DOMAIN f
<1>1. DOMAIN g = D
  OBVIOUS
<1>2. ASSUME NEW x \in D PROVE g[x] \in Seq(RunData)
  <2>1. f[x] \in Seq(RunData)
    OBVIOUS
  <2>2. g[x] = f[x] \/ g[x] = Append(f[x], e)
    OBVIOUS
  <2> QED
    BY <2>1, <2>2
<1>3. g = [x \in D |-> g[x]]
  OBVIOUS
<1> HIDE DEF D
<1> QED
  BY <1>1, <1>2, <1>3

(* A job arrives: one more for its client. *)
LEMMA ArriveGood ==
    ASSUME SimInv, Arrive
    PROVE  /\ SimInv' /\ Fifo!Submit(events[i + 1].vCpuName)
           /\ events[i + 1].vCpuName \in AllNames
           /\ Backlog' = [Backlog EXCEPT ![events[i + 1].vCpuName] =
                             Append(@, events[i + 1].requiredProcessingTime)]
<1> DEFINE event == events[i + 1]
           j     == Min(Served(event))
           work  == event.requiredProcessingTime
           r     == AddJob(servers[j], work, event.arrivalTime)
<1>1. SimTypeOK /\ GoodServers /\ FirstServes /\ FromInput /\ servers \in Seq(Servers)
  BY ServersGood DEF SimInv, GoodServers
<1>2. Due /\ Served(event) # {} /\ i < count
  BY DEF Arrive, Due
<1>3. /\ event.arrivalTime \in Nat /\ work \in Nat \ {0} /\ work \in AllWorks
  BY <1>1, <1>2, EventFields
<1>4. Served(event) = Mine(event.vCpuName)
  BY DEF Served, Mine
<1>5. /\ j \in DOMAIN servers /\ servers[j].cpu = event.vCpuName
      /\ \A k \in Mine(event.vCpuName) : j <= k
  BY <1>1, <1>2, <1>4, FirstOfMine
<1>6. GoodServer(servers[j])
  BY <1>1, <1>5 DEF GoodServers
<1>7. /\ GoodServer(r) /\ r.cpu = servers[j].cpu
      /\ WorkOf(r) = Append(WorkOf(servers[j]), work)
  BY <1>3, <1>6, AddJobGood
<1>8. /\ servers' = [servers EXCEPT ![j] = r]
      /\ i' = i + 1
      /\ UNCHANGED <<at, vcpus, availableCapacity, events, currentTime>>
      /\ runTimes' = [runTimes EXCEPT
            ![event.vCpuName] = Append(@, [time |-> currentTime, action |-> "NewJob"])]
  BY DEF Arrive, InsertRunEvent
<1> HIDE DEF event, j, work, r
<1>9. /\ GoodServers' /\ FirstServes'
      /\ \A k \in DOMAIN servers' : servers'[k].cpu \in AllNames
      /\ r.cpu \in AllNames
      /\ Backlog[r.cpu] = WorkOf(servers[j])
      /\ Backlog' = [Backlog EXCEPT ![r.cpu] = WorkOf(r)]
  BY <1>5, <1>7, <1>8, OneServerSteps
<1>10. SimTypeOK'
  <2>1. runTimes' \in [DOMAIN runTimes' -> Seq(RunData)]
    <3>1. /\ runTimes \in [DOMAIN runTimes -> Seq(RunData)]
          /\ [time |-> currentTime, action |-> "NewJob"] \in RunData
      BY <1>1 DEF SimTypeOK, RunData
    <3> QED
      BY <1>8, <3>1, Recorded
  <2>2. i' \in 0..count'
    BY <1>1, <1>2, <1>8 DEF SimTypeOK, count
  <2> QED
    BY <1>1, <1>8, <1>9, <2>1, <2>2 DEF SimTypeOK, GoodServers, GoodServer
<1>11. IdleIffNoWork' /\ JobDeadlineCurrent'
  BY <1>9 DEF IdleIffNoWork, JobDeadlineCurrent, GoodServers, GoodServer
<1>12. FromInput'
  BY <1>1, <1>8, <1>9 DEF FromInput
<1>13. Fifo!Submit(r.cpu)
  BY <1>3, <1>7, <1>8, <1>9 DEF Fifo!Submit
<1>14. Backlog' = [Backlog EXCEPT ![r.cpu] = Append(@, work)]
  BY <1>7, <1>9
<1> QED
  BY <1>5, <1>7, <1>9, <1>10, <1>11, <1>12, <1>13, <1>14 DEF SimInv, event, work

(* A unit of work: one of the client of the active server.                 *)
LEMMA WorkGood ==
    ASSUME SimInv, Work
    PROVE  /\ SimInv' /\ Fifo!Serve(servers[Active].cpu)
           /\ servers[Active].cpu \in AllNames
           /\ Backlog[servers[Active].cpu] = WorkOf(servers[Active])
<1> DEFINE s == servers[Active]
           r == DoWork(s)
           action == IF JobFinished(s) THEN "JobEnd" ELSE "Work"
<1>1. SimTypeOK /\ GoodServers /\ FirstServes /\ FromInput
  BY ServersGood DEF SimInv
<1>2. Active \in DOMAIN servers /\ s.state = ACTIVE
  BY <1>1, ActiveFound DEF Work
<1>3. GoodServer(s)
  BY <1>1, <1>2 DEF GoodServers
<1>4. /\ GoodServer(r) /\ r.cpu = s.cpu /\ WorkOf(s) # << >>
      /\ WorkOf(r) = Fifo!Advanced(WorkOf(s))
  BY <1>2, <1>3, DoWorkGood
<1>5. /\ servers' = [servers EXCEPT ![Active] = r]
      /\ currentTime' = currentTime + 1
      /\ at' \in {"done", "arrivals"}
      /\ UNCHANGED <<vcpus, availableCapacity, events, i>>
      /\ runTimes' = [runTimes EXCEPT
            ![s.cpu] = Append(@, [time |-> currentTime, action |-> action])]
  BY DEF Work, InsertRunEvent
<1>6. \A k \in Mine(s.cpu) : Active <= k
  <2>1. DOMAIN servers \in SUBSET Nat
    BY <1>1 DEF GoodServers
  <2> QED
    BY <1>1, <1>2, <2>1, StateAssumption DEF FirstServes, Mine
<1>7. [time |-> currentTime, action |-> action] \in RunData
  BY <1>1 DEF RunData, SimTypeOK
<1> HIDE DEF r, action
<1>8. /\ GoodServers' /\ FirstServes'
      /\ \A k \in DOMAIN servers' : servers'[k].cpu \in AllNames
      /\ r.cpu \in AllNames
      /\ Backlog[r.cpu] = WorkOf(s)
      /\ Backlog' = [Backlog EXCEPT ![r.cpu] = WorkOf(r)]
  BY <1>2, <1>4, <1>5, <1>6, OneServerSteps
<1>9. SimTypeOK'
  <2>1. runTimes' \in [DOMAIN runTimes' -> Seq(RunData)]
    <3>1. runTimes \in [DOMAIN runTimes -> Seq(RunData)]
      BY <1>1 DEF SimTypeOK
    <3> QED
      BY <1>5, <1>7, <3>1, Recorded
  <2> QED
    BY <1>1, <1>5, <1>8, <2>1 DEF SimTypeOK, GoodServers, GoodServer, count
<1>10. IdleIffNoWork' /\ JobDeadlineCurrent'
  BY <1>8 DEF IdleIffNoWork, JobDeadlineCurrent, GoodServers, GoodServer
<1>11. FromInput'
  BY <1>1, <1>5, <1>8 DEF FromInput
<1>12. Fifo!Serve(r.cpu)
  BY <1>4, <1>5, <1>8 DEF Fifo!Serve
<1> QED
  BY <1>4, <1>8, <1>9, <1>10, <1>11, <1>12 DEF SimInv

(* The CPU jumps to the next event only when no client has a job.          *)
LEMMA IdleGood ==
    ASSUME SimInv, Idle
    PROVE  SimInv' /\ Fifo!Rest
<1>1. SimTypeOK /\ GoodServers /\ FirstServes /\ FromInput
  BY ServersGood DEF SimInv
<1>2. /\ ~Due /\ i < count /\ currentTime' = events[i + 1].arrivalTime
      /\ UNCHANGED <<at, vcpus, availableCapacity, servers, events, i, runTimes>>
  BY DEF Idle
<1>3. events[i + 1].arrivalTime \in Nat
  BY <1>1, <1>2, EventFields
<1>4. currentTime' > currentTime
  BY <1>1, <1>2, <1>3 DEF Due, SimTypeOK
<1>5. \A name \in AllNames : Backlog[name] = << >>
  <2> SUFFICES ASSUME NEW name \in AllNames PROVE Backlog[name] = << >>
    OBVIOUS
  <2>1. Backlog[name] = IF Mine(name) = {} THEN << >>
                        ELSE WorkOf(servers[Min(Mine(name))])
    BY DEF Backlog, WorkOf, Mine
  <2>2. CASE Mine(name) = {}
    BY <2>1, <2>2
  <2>3. CASE Mine(name) # {}
    <3> DEFINE s == servers[Min(Mine(name))]
    <3>1. GoodServer(s) /\ s.state = IDLE
      BY <1>1, <2>3, FirstOfMine, ActiveFound DEF Idle, GoodServers
    <3>2. WorkOf(s) = << >>
      BY <3>1, StateAssumption DEF GoodServer, WorkOf
    <3> QED
      BY <2>1, <2>3, <3>2
  <2> QED
    BY <2>2, <2>3
<1>6. UNCHANGED Backlog
  BY <1>2 DEF Backlog
<1>7. SimInv'
  <2>1. SimTypeOK'
    BY <1>1, <1>2, <1>3 DEF SimTypeOK, count
  <2>2. IdleIffNoWork' /\ JobDeadlineCurrent' /\ FirstServes' /\ FromInput'
    BY <1>1, <1>2 DEF SimInv, IdleIffNoWork, JobDeadlineCurrent, FirstServes, FromInput
  <2> QED
    BY <2>1, <2>2 DEF SimInv
<1>8. Fifo!Rest
  BY <1>4, <1>5, <1>6 DEF Fifo!Rest
<1> QED
  BY <1>7, <1>8

(* What the loop does besides changes neither a server nor the clock.      *)
LEMMA OthersGood ==
    ASSUME SimInv, DropEvent \/ IdleAtEnd \/ UNCHANGED simvars
    PROVE  SimInv' /\ UNCHANGED <<currentTime, Backlog>>
<1>1. SimTypeOK /\ FromInput
  BY DEF SimInv
<1>2. UNCHANGED <<vcpus, availableCapacity, servers, events, currentTime, runTimes>>
  BY DEF DropEvent, IdleAtEnd, simvars
<1>3. i' \in 0..count
  <2>1. count \in Nat
    BY <1>1 DEF SimTypeOK, count
  <2> QED
    BY <1>1, <2>1 DEF SimTypeOK, DropEvent, Due, IdleAtEnd, simvars
<1>4. at' \in {"register", "arrivals", "done", "overrun"}
  BY <1>1 DEF SimTypeOK, DropEvent, IdleAtEnd, simvars
<1>5. SimTypeOK'
  BY <1>1, <1>2, <1>3, <1>4 DEF SimTypeOK, count
<1>6. IdleIffNoWork' /\ JobDeadlineCurrent' /\ FirstServes' /\ FromInput'
  BY <1>1, <1>2 DEF SimInv, IdleIffNoWork, JobDeadlineCurrent, FirstServes, FromInput
<1>7. UNCHANGED Backlog
  BY <1>2 DEF Backlog
<1> QED
  BY <1>2, <1>5, <1>6, <1>7 DEF SimInv

(* A new server has no job yet, and sorting touches none.                  *)
LEMMA PreparingRests ==
    ASSUME SimInv, RegisterVCPU \/ Sort
    PROVE  UNCHANGED <<currentTime, Backlog>>
<1>1. GoodServers /\ SimTypeOK
  BY ServersGood DEF SimInv
<1>2. UNCHANGED currentTime
  BY DEF RegisterVCPU, Sort
<1>3. CASE UNCHANGED servers
  BY <1>2, <1>3 DEF Backlog
<1>4. CASE ~UNCHANGED servers
  <2> DEFINE s == NewServer(Head(vcpus))
             n == Len(servers) + 1
  <2>1. servers' = Append(servers, s) /\ Head(vcpus) \in VCpus
    BY <1>1, <1>4 DEF RegisterVCPU, Sort, SimTypeOK
  <2>2. GoodServer(s) /\ s.state = IDLE /\ s \in Servers
    BY <2>1, NewServerGood DEF GoodServer
  <2>3. WorkOf(s) = << >>
    BY <2>2, StateAssumption DEF WorkOf, GoodServer
  <2> HIDE DEF s
  <2>4. /\ servers \in Seq(Servers) /\ servers' \in Seq(Servers)
        /\ DOMAIN servers = 1..Len(servers) /\ DOMAIN servers' = 1..n
        /\ \A j \in 1..Len(servers) : servers'[j] = servers[j]
        /\ servers'[n] = s
        /\ Len(servers) \in Nat
    BY <1>1, <2>1, <2>2 DEF GoodServers
  <2> HIDE DEF n
  <2>5. ASSUME NEW name \in AllNames PROVE Backlog'[name] = Backlog[name]
    <3>1. Backlog[name] = IF Mine(name) = {} THEN << >>
                          ELSE WorkOf(servers[Min(Mine(name))])
      BY DEF Backlog, WorkOf, Mine
    <3>2. Backlog'[name] = IF Mine(name)' = {} THEN << >>
                           ELSE WorkOf(servers'[Min(Mine(name)')])
      BY DEF Backlog, WorkOf, Mine
    <3>3. /\ Mine(name) \subseteq Mine(name)'
          /\ \A j \in Mine(name)' : j \in Mine(name) \/ j = n
      BY <2>4 DEF Mine, n
    <3>4. CASE Mine(name) = {}
      <4>1. Mine(name)' \subseteq {n}
        BY <3>3, <3>4
      <4>2. Mine(name)' # {} => Min(Mine(name)') = n
        <5> SUFFICES ASSUME Mine(name)' # {} PROVE Min(Mine(name)') = n
          OBVIOUS
        <5>1. Mine(name)' = {n} /\ n \in Nat
          BY <2>4, <4>1 DEF n
        <5>2. Min({n}) \in {n}
          BY <5>1, MinIsLeast
        <5> QED
          BY <5>1, <5>2
      <4> QED
        BY <2>3, <2>4, <3>1, <3>2, <3>4, <4>2
    <3>5. CASE Mine(name) # {}
      <4> DEFINE a == Min(Mine(name))
                 S == Mine(name)'
                 b == Min(S)
      <4>1. a \in DOMAIN servers /\ a \in Mine(name) /\ \A j \in Mine(name) : a <= j
        BY <2>4, <3>5, FirstOfMine DEF Mine
      <4>2. S \in SUBSET Nat /\ S # {} /\ a \in S
        BY <2>4, <3>3, <4>1 DEF Mine, n
      <4> HIDE DEF S, a
      <4>3. b \in S /\ b <= a
        BY <4>2, MinIsLeast
      <4>4. b = a
        <5>1. b \in Mine(name) \/ b = n
          BY <3>3, <4>3 DEF S
        <5> QED
          BY <2>4, <4>1, <4>3, <5>1 DEF n, Mine
      <4> QED
        BY <2>4, <3>1, <3>2, <3>5, <4>1, <4>2, <4>4 DEF S, a
    <3> QED
      BY <3>4, <3>5
  <2>6. /\ Backlog = [name \in AllNames |-> Backlog[name]]
        /\ Backlog' = [name \in AllNames |-> Backlog'[name]]
    BY DEF Backlog
  <2> QED
    BY <1>2, <2>5, <2>6
<1> QED
  BY <1>3, <1>4

(* SimInv is inductive, and every step is one of FifoCpu or none.          *)
LEMMA StepGood ==
    ASSUME SimInv, [SimNext]_simvars
    PROVE  SimInv' /\ [Fifo!FifoNext]_<<currentTime, Backlog>>
<1>1. CASE RegisterVCPU \/ Sort
  BY <1>1, RegisterGood, SortGood, PreparingRests
<1>2. CASE Arrive
  BY <1>2, ArriveGood DEF Fifo!FifoNext
<1>3. CASE Work
  BY <1>3, WorkGood DEF Fifo!FifoNext
<1>4. CASE Idle
  BY <1>4, IdleGood DEF Fifo!FifoNext
<1>5. CASE DropEvent \/ IdleAtEnd \/ UNCHANGED simvars
  BY <1>5, OthersGood
<1> QED
  BY <1>1, <1>2, <1>3, <1>4, <1>5 DEF SimNext

-----------------------------------------------------------------------------
(* The records keep their types, the capacity is never overdrawn, and a    *)
(* budget that is used up is renewed at once, whatever the input.          *)
THEOREM SimTypesCorrect == SimSpec => []SimTypeOK
<1>1. SimInv => SimTypeOK
  BY DEF SimInv
<1> QED
  BY InitGood, StepGood, <1>1, PTL DEF SimSpec

(* A server is idle exactly when it has no work: the assertion of          *)
(* AssignJob holds, and GetServerWithED forgets no job.                    *)
THEOREM IdleExactly == SimSpec => []IdleIffNoWork
<1>1. SimInv => IdleIffNoWork
  BY DEF SimInv
<1> QED
  BY InitGood, StepGood, <1>1, PTL DEF SimSpec

(* A job is worked on by the deadline of its server, through every renewal *)
(* of the budget and every next job.                                       *)
THEOREM DeadlinesCurrent == SimSpec => []JobDeadlineCurrent
<1>1. SimInv => JobDeadlineCurrent
  BY DEF SimInv
<1> QED
  BY InitGood, StepGood, <1>1, PTL DEF SimSpec

(* The simulator implements FifoCpu but for its fairness: every step is    *)
(* the arrival of one job, one unit of work on the first job of a client,  *)
(* or a rest while there is none, or nothing that FifoCpu can see.         *)
THEOREM ImplementsFifo ==
    SimSpec => Fifo!FifoInit /\ [][Fifo!FifoNext]_<<currentTime, Backlog>>
<1>1. SimInit => Fifo!FifoInit
  <2> SUFFICES ASSUME SimInit PROVE Fifo!FifoInit
    OBVIOUS
  <2>1. currentTime = 0 /\ DOMAIN servers = {}
    BY DEF SimInit
  <2>2. Backlog = [name \in AllNames |-> << >>]
    BY <2>1 DEF Backlog
  <2> QED
    BY <2>1, <2>2 DEF Fifo!FifoInit
<1> QED
  BY InitGood, StepGood, <1>1, PTL DEF SimSpec

-----------------------------------------------------------------------------
(* u of P units of the CPU are what the server asks for. *)
ShareOf(s, P, u) == P \in Nat \ {0} /\ u \in Nat /\ u * s.period = P * s.requestedBudget

(* OutOfDate compares the budget left with the share of the time left.     *)
LEMMA OutOfDateShare ==
    ASSUME NEW s, GoodServer(s), NEW P, NEW u, ShareOf(s, P, u), NEW t \in Nat
    PROVE  /\ OutOfDate(s, t) => P * s.currentBudget >= (s.deadline - t) * u
           /\ OutOfDate(s, t) => s.deadline <= t + s.period
           /\ ~OutOfDate(s, t) => P * s.currentBudget <= (s.deadline - t) * u
           /\ ~OutOfDate(s, t) => s.deadline > t
<1> DEFINE c == s.currentBudget
           q == s.requestedBudget
           T == s.period
           x == s.deadline - t
<1>1. /\ c \in Nat \ {0} /\ q \in Nat \ {0} /\ T \in Nat \ {0} /\ x \in Int /\ c <= q
      /\ s.deadline \in Nat
  BY ServerFields DEF GoodServer
<1>2. P \in Nat \ {0} /\ u \in Nat /\ u * T = P * q
  BY DEF ShareOf
<1>3. OutOfDate(s, t) <=> c * T >= x * q
  BY DEF OutOfDate
<1> HIDE DEF c, q, T, x
<1>4. (P * c) * q = (c * T) * u
  <2>1. (c * T) * u = c * (u * T)
    BY <1>1, <1>2
  <2>2. c * (P * q) = (P * c) * q
    BY <1>1, <1>2
  <2> QED
    BY <1>2, <2>1, <2>2
<1>5. (x * u) * q = (x * q) * u
  BY <1>1, <1>2
<1>6. u \in Nat \ {0}
  <2>1. P * q \in Nat \ {0}
    BY <1>1, <1>2
  <2>2. 0 * T = 0
    BY <1>1
  <2> QED
    BY <1>2, <2>1, <2>2
<1>7. /\ c * T \in Int /\ x * q \in Int /\ P * c \in Int /\ x * u \in Int
      /\ T * q \in Int /\ c * T <= T * q
  <2>1. c * T \in Int /\ x * q \in Int /\ P * c \in Int /\ x * u \in Int /\ T * q \in Int
    BY <1>1, <1>2
  <2>2. q * T >= c * T
    BY <1>1, Cancel
  <2> QED
    BY <1>1, <2>1, <2>2
<1>8. c * T >= x * q => P * c >= x * u /\ x <= T
  <2> SUFFICES ASSUME c * T >= x * q PROVE P * c >= x * u /\ x <= T
    OBVIOUS
  <2>1. (c * T) * u >= (x * q) * u
    BY <1>6, <1>7, Cancel
  <2>2. P * c >= x * u
    BY <1>1, <1>4, <1>5, <1>7, <2>1, Cancel
  <2>3. T * q >= x * q
    BY <1>7
  <2>4. T >= x
    BY <1>1, <2>3, Cancel
  <2> QED
    BY <1>1, <2>2, <2>4
<1>9. ~(c * T >= x * q) => P * c <= x * u /\ x > 0
  <2> SUFFICES ASSUME ~(c * T >= x * q) PROVE P * c <= x * u /\ x > 0
    OBVIOUS
  <2>1. x * q >= c * T
    BY <1>7
  <2>2. (x * q) * u >= (c * T) * u
    BY <1>6, <1>7, <2>1, Cancel
  <2>3. x * u >= P * c
    BY <1>1, <1>4, <1>5, <1>7, <2>2, Cancel
  <2>4. x > 0
    <3>1. c * T >= 0
      BY <1>1
    <3>2. 0 >= x => 0 * q >= x * q
      BY <1>1, Cancel
    <3> QED
      BY <1>1, <1>7, <2>1, <3>1, <3>2
  <2> QED
    BY <1>7, <2>3, <2>4
<1>10. x \in Int /\ (x <= T => s.deadline <= t + T) /\ (x > 0 => s.deadline > t)
  BY <1>1 DEF x
<1> QED
  BY <1>3, <1>8, <1>9, <1>10 DEF c, q, T, x

(* The demand of a server on the time before D, from time t on, in units   *)
(* of 1/P: what its budget entitles it to until its deadline and its       *)
(* share after it, and if it is idle with an outdated deadline, what a     *)
(* job at time t would entitle it to.                                      *)
Claim(s, P, u, D) ==
    IF s.deadline <= D THEN P * s.currentBudget + (D - s.deadline) * u ELSE 0
Demand(s, P, u, t, D) ==
    IF s.state = IDLE /\ OutOfDate(s, t)
    THEN IF t + s.period <= D THEN (D - t) * u ELSE 0
    ELSE Claim(s, P, u, D)

(* The demand is a number, at most the claim, and for an idle server at    *)
(* most its share of the time left.                                        *)
LEMMA DemandBounds ==
    ASSUME NEW s, GoodServer(s), NEW P, NEW u, ShareOf(s, P, u), NEW t \in Nat, NEW D \in Nat
    PROVE  /\ Claim(s, P, u, D) \in Nat /\ Demand(s, P, u, t, D) \in Nat
           /\ Demand(s, P, u, t, D) <= Claim(s, P, u, D)
           /\ s.state = IDLE /\ t <= D => Demand(s, P, u, t, D) <= (D - t) * u
<1> DEFINE c == s.currentBudget
           d == s.deadline
           T == s.period
<1>1. /\ c \in Nat \ {0} /\ d \in Nat /\ T \in Nat \ {0}
      /\ P \in Nat \ {0} /\ u \in Nat
  BY ServerFields DEF GoodServer, ShareOf
<1>2. /\ OutOfDate(s, t) => P * c >= (d - t) * u
      /\ OutOfDate(s, t) => d <= t + T
      /\ ~OutOfDate(s, t) => P * c <= (d - t) * u
      /\ ~OutOfDate(s, t) => d > t
  BY OutOfDateShare
<1>3. /\ P * c \in Nat
      /\ \A n \in Nat : n * u \in Nat
  BY <1>1
<1> HIDE DEF c, d, T
<1>4. Claim(s, P, u, D) = IF d <= D THEN P * c + (D - d) * u ELSE 0
  BY DEF Claim, c, d
<1>5. Claim(s, P, u, D) \in Nat
  <2>1. d <= D => D - d \in Nat
    BY <1>1
  <2> QED
    BY <1>3, <1>4, <2>1
<1>6. (D - d) * u + (d - t) * u = (D - t) * u
      /\ (D - d) * u \in Int /\ (d - t) * u \in Int /\ (D - t) * u \in Int
  BY <1>1
<1>7. t <= D => (D - t) * u >= 0
  <2>1. t <= D => D - t \in Nat
    OBVIOUS
  <2> QED
    BY <1>3, <2>1
<1>8. CASE s.state = IDLE /\ OutOfDate(s, t)
  <2>1. Demand(s, P, u, t, D) = IF t + T <= D THEN (D - t) * u ELSE 0
    BY <1>8 DEF Demand, T
  <2>2. t + T <= D => t <= D /\ d <= D
    BY <1>1, <1>2, <1>8
  <2> QED
    BY <1>1, <1>2, <1>3, <1>4, <1>5, <1>6, <1>7, <1>8, <2>1, <2>2
<1>9. CASE ~(s.state = IDLE /\ OutOfDate(s, t))
  <2>1. Demand(s, P, u, t, D) = Claim(s, P, u, D)
    BY <1>9, Zenon DEF Demand
  <2>2. ASSUME s.state = IDLE, t <= D
        PROVE  Demand(s, P, u, t, D) <= (D - t) * u
    BY <1>2, <1>3, <1>4, <1>6, <1>7, <1>9, <2>1, <2>2
  <2> QED
    BY <1>5, <2>1, <2>2
<1> QED
  BY <1>8, <1>9

(* An idle server asks for less and less. *)
LEMMA DemandFalls ==
    ASSUME NEW s, GoodServer(s), NEW P, NEW u, ShareOf(s, P, u), NEW t \in Nat, NEW D \in Nat,
           NEW r \in Nat, t <= r
    PROVE  Demand(s, P, u, r, D) <= Demand(s, P, u, t, D)
<1> DEFINE c == s.currentBudget
           d == s.deadline
           T == s.period
<1>1. /\ c \in Nat \ {0} /\ d \in Nat /\ T \in Nat \ {0}
      /\ P \in Nat \ {0} /\ u \in Nat
  BY ServerFields DEF GoodServer, ShareOf
<1>2. CASE s.state # IDLE
  <2>1. Demand(s, P, u, t, D) = Claim(s, P, u, D) /\ Demand(s, P, u, r, D) = Claim(s, P, u, D)
    BY <1>2, Zenon DEF Demand
  <2> QED
    BY <2>1, DemandBounds
<1>3. CASE s.state = IDLE /\ ~OutOfDate(s, t)
  <2>1. Demand(s, P, u, t, D) = Claim(s, P, u, D)
    BY <1>3, Zenon DEF Demand
  <2> QED
    BY <2>1, DemandBounds
<1>4. CASE s.state = IDLE /\ OutOfDate(s, t)
  <2>1. s.requestedBudget \in Nat
    BY ServerFields DEF GoodServer
  <2>2. OutOfDate(s, r)
    <3>1. d - t >= d - r
      BY <1>1
    <3>2. s.requestedBudget # 0
      BY ServerFields DEF GoodServer
    <3>3. (d - t) * s.requestedBudget >= (d - r) * s.requestedBudget
      BY <1>1, <2>1, <3>1, <3>2, Cancel
    <3>4. /\ c * T \in Int /\ (d - t) * s.requestedBudget \in Int
          /\ (d - r) * s.requestedBudget \in Int
      BY <1>1, <2>1
    <3>5. c * T >= (d - t) * s.requestedBudget
      BY <1>4 DEF OutOfDate
    <3>6. c * T >= (d - r) * s.requestedBudget
      BY <3>3, <3>4, <3>5
    <3> QED
      BY <3>6 DEF OutOfDate
  <2> HIDE DEF T
  <2>3. /\ Demand(s, P, u, t, D) = IF t + T <= D THEN (D - t) * u ELSE 0
        /\ Demand(s, P, u, r, D) = IF r + T <= D THEN (D - r) * u ELSE 0
    BY <1>4, <2>2 DEF Demand, T
  <2>4. (D - r) * u <= (D - t) * u
    <3>1. D - t >= D - r
      OBVIOUS
    <3>2. u = 0 => (D - r) * u = 0 /\ (D - t) * u = 0
      OBVIOUS
    <3>3. u # 0 => (D - t) * u >= (D - r) * u
      BY <1>1, <3>1, Cancel
    <3>4. (D - r) * u \in Int /\ (D - t) * u \in Int
      BY <1>1
    <3> QED
      BY <3>2, <3>3, <3>4
  <2>5. (D - r) * u \in Int /\ (D - t) * u \in Int
    BY <1>1
  <2>6. Demand(s, P, u, t, D) \in Nat
    BY DemandBounds
  <2> QED
    BY <1>1, <2>3, <2>4, <2>5, <2>6
<1> QED
  BY <1>2, <1>3, <1>4

(* What AddJob and DoWork do to the budget and the deadline. *)
LEMMA AddJobBudget ==
    ASSUME NEW s, GoodServer(s), NEW work \in Nat \ {0}, NEW t \in Nat, NEW r, r = AddJob(s, work, t)
    PROVE  /\ r.period = s.period /\ r.requestedBudget = s.requestedBudget
           /\ r.state = ACTIVE
           /\ IF s.state = IDLE /\ OutOfDate(s, t)
              THEN r.deadline = t + s.period /\ r.currentBudget = s.requestedBudget
              ELSE r.deadline = s.deadline /\ r.currentBudget = s.currentBudget
<1>1. s \in Servers
  BY DEF GoodServer
<1>2. CASE s.state # IDLE
  <2>1. r = [s EXCEPT !.jobs = Append(s.jobs, work)] /\ Append(s.jobs, work) \in Seq(Nat \ {0})
    <3>1. r = [s EXCEPT !.jobs = Append(s.jobs, work)]
      BY <1>2, Zenon DEF AddJob, Queued
    <3> QED
      BY <1>1, <3>1, ServerFields
  <2>2. Becomes(s, r, s.deadline, s.currentBudget, s.state, s.workTime, s.jobDeadline,
                Append(s.jobs, work))
    BY <1>1, <2>1, JobsAssigned
  <2> QED
    BY <1>1, <1>2, <2>2, ServerFields DEF Becomes
<1>3. ASSUME NEW x \in Servers, r = AssignJob(x, work)
      PROVE  Becomes(x, r, x.deadline, x.currentBudget, ACTIVE, work, x.deadline, x.jobs)
  <2>1. x.deadline \in Nat
    BY ServerFields
  <2> QED
    BY <1>3, <2>1, JobAssigned DEF AssignJob
<1>4. CASE s.state = IDLE /\ OutOfDate(s, t)
  <2> DEFINE x == [s EXCEPT !.deadline = t + s.period, !.currentBudget = s.requestedBudget]
  <2>1. r = AssignJob(x, work)
    BY <1>4, Zenon DEF AddJob
  <2>2. s.requestedBudget \in Nat /\ t + s.period \in Nat
    BY <1>1, ServerFields
  <2>3. Becomes(s, x, t + s.period, s.requestedBudget, s.state, s.workTime,
                s.jobDeadline, s.jobs)
    BY <1>1, <2>2, DeadlineAssigned
  <2> HIDE DEF x
  <2> QED
    BY <1>3, <1>4, <2>1, <2>3 DEF Becomes
<1>5. CASE s.state = IDLE /\ ~OutOfDate(s, t)
  <2>1. r = AssignJob(s, work)
    BY <1>5, Zenon DEF AddJob
  <2> QED
    BY <1>1, <1>3, <1>5, <2>1 DEF Becomes
<1> QED
  BY <1>2, <1>4, <1>5

(* What a unit of work does to budget and deadline.                        *)
LEMMA DoWorkBudget ==
    ASSUME NEW s, GoodServer(s), s.state = ACTIVE, NEW r, r = DoWork(s)
    PROVE  /\ r.period = s.period /\ r.requestedBudget = s.requestedBudget
           /\ IF s.currentBudget = 1
              THEN r.deadline = s.deadline + s.period /\ r.currentBudget = s.requestedBudget
              ELSE r.deadline = s.deadline /\ r.currentBudget = s.currentBudget - 1
<1> DEFINE Kept(x) ==
             /\ x \in Servers /\ x.period = s.period /\ x.requestedBudget = s.requestedBudget
             /\ x.deadline = s.deadline /\ x.currentBudget = s.currentBudget - 1
           y == Worked(s)
           n == NextJob(y)
           z == IF JobFinished(s) THEN n ELSE y
<1>1. s \in Servers /\ s.workTime - 1 \in Nat /\ s.currentBudget - 1 \in Nat
  <2>1. s \in Servers
    BY DEF GoodServer
  <2>2. s.workTime \in Nat \ {0} /\ s.currentBudget \in Nat \ {0}
    BY <2>1, ServerFields, StateAssumption DEF GoodServer
  <2> QED
    BY <2>1, <2>2
<1>2. Kept(y)
  <2>1. y = [s EXCEPT !.workTime = s.workTime - 1, !.currentBudget = s.currentBudget - 1]
    BY Zenon DEF Worked
  <2> HIDE DEF y
  <2>2. Becomes(s, y, s.deadline, s.currentBudget - 1, s.state, s.workTime - 1,
                s.jobDeadline, s.jobs)
    BY <1>1, <2>1, WorkAssigned
  <2> QED
    BY <2>2 DEF Becomes
<1> HIDE DEF y
<1>3. Kept(n)
  <2>1. y.jobs \in Seq(Nat \ {0}) /\ y.deadline \in Nat
    BY <1>2, ServerFields
  <2>2. CASE y.jobs = << >>
    <3>1. n = [y EXCEPT !.state = IDLE]
      BY <2>2, Zenon DEF NextJob
    <3> HIDE DEF n
    <3>2. Becomes(y, n, y.deadline, y.currentBudget, IDLE, y.workTime, y.jobDeadline, y.jobs)
      BY <1>2, <3>1, StateAssigned
    <3> QED
      BY <1>2, <3>2 DEF Becomes
  <2>3. CASE y.jobs # << >>
    <3> DEFINE x == AssignJob(y, Head(y.jobs))
    <3>1. n = [x EXCEPT !.jobs = Tail(x.jobs)]
      BY <2>3, Zenon DEF NextJob
    <3>2. Head(y.jobs) \in Nat
      BY <2>1, <2>3
    <3>3. Becomes(y, x, y.deadline, y.currentBudget, ACTIVE, Head(y.jobs), y.deadline, y.jobs)
      BY <1>2, <2>1, <3>2, JobAssigned DEF AssignJob
    <3> HIDE DEF x, n
    <3>4. x \in Servers /\ x.jobs = y.jobs /\ Tail(x.jobs) \in Seq(Nat \ {0})
      BY <2>1, <2>3, <3>3 DEF Becomes
    <3>5. Becomes(x, n, x.deadline, x.currentBudget, x.state, x.workTime, x.jobDeadline,
                  Tail(x.jobs))
      BY <3>1, <3>4, JobsAssigned
    <3> QED
      BY <1>2, <3>3, <3>5 DEF Becomes
  <2> QED
    BY <2>2, <2>3
<1> HIDE DEF n
<1>4. Kept(z)
  BY <1>2, <1>3
<1>5. r = Replenish(z)
  BY DEF DoWork, y, n
<1> HIDE DEF z
<1>6. CASE s.currentBudget # 1
  <2>1. z.currentBudget # 0
    BY <1>1, <1>4, <1>6, ServerFields
  <2>2. r = z
    BY <1>5, <2>1 DEF Replenish
  <2> QED
    BY <1>4, <1>6, <2>2
<1>7. CASE s.currentBudget = 1
  <2>1. z.currentBudget = 0
    BY <1>4, <1>7
  <2> DEFINE d == z.deadline + z.period
  <2>2. r = [z EXCEPT !.currentBudget = z.requestedBudget, !.deadline = d, !.jobDeadline = d]
    BY <1>5, <2>1, Zenon DEF Replenish
  <2>3. z.requestedBudget \in Nat /\ d \in Nat
    BY <1>4, ServerFields
  <2> HIDE DEF d
  <2>4. Becomes(z, r, d, z.requestedBudget, z.state, z.workTime, d, z.jobs)
    BY <1>4, <2>2, <2>3, BudgetAssigned
  <2> QED
    BY <1>4, <1>7, <2>4 DEF Becomes, d
<1> QED
  BY <1>6, <1>7

(* A new job at time t does not change the demand at t: that is why the    *)
(* code compares before it keeps a deadline.                               *)
LEMMA ArrivalDemand ==
    ASSUME NEW s, GoodServer(s), NEW work \in Nat \ {0}, NEW t \in Nat,
           NEW r, r = AddJob(s, work, t),
           NEW P, NEW u, ShareOf(s, P, u), NEW D \in Nat
    PROVE  ShareOf(r, P, u) /\ Demand(r, P, u, t, D) = Demand(s, P, u, t, D)
<1> DEFINE c == s.currentBudget
           d == s.deadline
           T == s.period
           q == s.requestedBudget
<1>1. /\ r.period = T /\ r.requestedBudget = q
      /\ r.state = ACTIVE
      /\ IF s.state = IDLE /\ OutOfDate(s, t)
         THEN r.deadline = t + T /\ r.currentBudget = q
         ELSE r.deadline = d /\ r.currentBudget = c
  BY AddJobBudget
<1>2. Demand(r, P, u, t, D) =
        IF r.deadline <= D THEN P * r.currentBudget + (D - r.deadline) * u ELSE 0
  BY <1>1, StateAssumption DEF Demand, Claim
<1>3. CASE s.state = IDLE /\ OutOfDate(s, t)
  <2>1. Demand(r, P, u, t, D) = IF t + T <= D THEN P * q + (D - (t + T)) * u ELSE 0
    BY <1>1, <1>2, <1>3
  <2>2. Demand(s, P, u, t, D) = IF t + T <= D THEN (D - t) * u ELSE 0
    BY <1>3 DEF Demand
  <2>3. P * q = u * T /\ u \in Nat /\ T \in Nat
    BY ServerFields DEF ShareOf, GoodServer
  <2>4. u * T + (D - (t + T)) * u = (D - t) * u
    BY <2>3
  <2> QED
    BY <1>1, <2>1, <2>2, <2>3, <2>4 DEF ShareOf
<1>4. CASE ~(s.state = IDLE /\ OutOfDate(s, t))
  <2>1. Demand(s, P, u, t, D) = Claim(s, P, u, D)
    BY <1>4, Zenon DEF Demand
  <2> QED
    BY <1>1, <1>2, <1>4, <2>1 DEF Claim, ShareOf
<1> QED
  BY <1>3, <1>4

(* A unit of work pays one unit, P, of the demand on the time before D,    *)
(* when the server's deadline is not behind D.                             *)
LEMMA WorkDemand ==
    ASSUME NEW s, GoodServer(s), s.state = ACTIVE, NEW t \in Nat,
           NEW r, r = DoWork(s),
           NEW P, NEW u, ShareOf(s, P, u), NEW D \in Nat
    PROVE  /\ ShareOf(r, P, u)
           /\ IF s.deadline <= D
              THEN Demand(r, P, u, t + 1, D) <= Demand(s, P, u, t, D) - P
              ELSE Demand(r, P, u, t + 1, D) = 0
<1> DEFINE c == s.currentBudget
           d == s.deadline
           T == s.period
           q == s.requestedBudget
<1>1. /\ r.period = T /\ r.requestedBudget = q
      /\ IF c = 1 THEN r.deadline = d + T /\ r.currentBudget = q
                  ELSE r.deadline = d /\ r.currentBudget = c - 1
  BY DoWorkBudget
<1>2. ShareOf(r, P, u) /\ GoodServer(r)
  BY <1>1, DoWorkGood DEF ShareOf
<1>3. /\ P * q = u * T /\ P \in Nat \ {0} /\ u \in Nat /\ T \in Nat /\ d \in Nat
      /\ c \in Nat \ {0}
  BY ServerFields DEF ShareOf, GoodServer
<1>4. Demand(r, P, u, t + 1, D) \in Nat /\ Demand(r, P, u, t + 1, D) <= Claim(r, P, u, D)
  BY <1>2, DemandBounds
<1>5. Demand(s, P, u, t, D) = IF d <= D THEN P * c + (D - d) * u ELSE 0
  BY StateAssumption DEF Demand, Claim
<1>6. Claim(r, P, u, D) =
        IF r.deadline <= D THEN P * r.currentBudget + (D - r.deadline) * u ELSE 0
  BY DEF Claim
<1>7. CASE d <= D
  <2>1. (D - d) * u \in Nat
    <3>1. D - d \in Nat
      BY <1>3, <1>7
    <3> QED
      BY <1>3, <3>1
  <2>2. CASE c = 1
    <3>1. Claim(r, P, u, D) = IF d + T <= D THEN u * T + (D - (d + T)) * u ELSE 0
      BY <1>1, <1>3, <1>6, <2>2
    <3>2. u * T + (D - (d + T)) * u = (D - d) * u
      BY <1>3
    <3>3. Demand(s, P, u, t, D) = P + (D - d) * u
      BY <1>3, <1>5, <1>7, <2>2
    <3>4. Claim(r, P, u, D) <= (D - d) * u
      BY <2>1, <3>1, <3>2
    <3> QED
      BY <1>2, <1>3, <1>4, <1>7, <2>1, <3>1, <3>2, <3>3
  <2>3. CASE c # 1
    <3>1. P * (c - 1) = P * c - P /\ P * c \in Int
      BY <1>3
    <3>2. Claim(r, P, u, D) = P * (c - 1) + (D - d) * u
      BY <1>1, <1>6, <1>7, <2>3
    <3> QED
      BY <1>2, <1>3, <1>4, <1>5, <1>7, <2>1, <3>1, <3>2
  <2> QED
    BY <2>2, <2>3
<1>8. CASE ~(d <= D)
  <2>1. ~(r.deadline <= D)
    BY <1>1, <1>3, <1>8
  <2> QED
    BY <1>2, <1>4, <1>6, <1>8, <2>1
<1> QED
  BY <1>7, <1>8

-----------------------------------------------------------------------------
(* The shares of the servers. *)
LEMMA SharesGood ==
    ASSUME GoodServers
    PROVE  /\ Periods \in Nat \ {0}
           /\ IsFiniteSet(DOMAIN servers)
           /\ DOMAIN Shares = DOMAIN servers
           /\ \A j \in DOMAIN servers : ShareOf(servers[j], Periods, Shares[j])
<1> DEFINE S == DOMAIN servers
           f == [j \in DOMAIN servers |-> servers[j].period]
<1>1. IsFiniteSet(S)
  <2>1. S = 1..Len(servers) /\ Len(servers) \in Nat
    BY DEF GoodServers
  <2> QED
    BY <2>1, FS_Interval
<1>2. \A j \in S : /\ f[j] = servers[j].period
                   /\ servers[j].period \in Nat \ {0}
                   /\ servers[j].requestedBudget \in Nat \ {0}
  BY ServerFields DEF GoodServers, GoodServer
<1>3. Periods = ProductOnSet(f, S)
  BY Zenon DEF Periods, ProductOnSet
<1> HIDE DEF f, S
<1>4. Periods \in Nat \ {0} /\ \A j \in S : \E k \in Nat \ {0} : Periods = f[j] * k
  BY <1>1, <1>2, <1>3, ProductProperties
<1>5. ASSUME NEW j \in S PROVE ShareOf(servers[j], Periods, Shares[j])
  <2> DEFINE T == servers[j].period
             q == servers[j].requestedBudget
  <2>1. PICK k \in Nat \ {0} : Periods = T * k
    BY <1>2, <1>4
  <2>2. T \in Nat \ {0} /\ q \in Nat \ {0}
    BY <1>2
  <2>3. Shares[j] = (Periods \div T) * q
    BY DEF Shares, S
  <2> HIDE DEF T, q
  <2>4. Periods \div T = k
    <3>1. (T * k) \div T = k
      BY <2>2, ExactQuotient
    <3> QED
      BY <2>1, <3>1
  <2>5. k * q \in Nat /\ (k * q) * T = (T * k) * q
    BY <2>2
  <2> QED
    BY <1>4, <2>1, <2>3, <2>4, <2>5 DEF ShareOf, T, q
<1> QED
  BY <1>1, <1>4, <1>5 DEF S, Shares

-----------------------------------------------------------------------------
(* Events arrive in the order of their times, and none that is not         *)
(* handled yet lies in the past.                                           *)
OnTime ==
    IF at = "register"
    THEN /\ i = 0 /\ currentTime = 0
         /\ \A j \in DOMAIN servers : servers[j].state = IDLE
    ELSE \A k, m \in DOMAIN events :
            /\ k <= m => events[k].arrivalTime <= events[m].arrivalTime
            /\ k > i => events[k].arrivalTime >= currentTime

(* The demands of all the servers, and their sum.                          *)
DemandAt(t, D) ==
    [j \in DOMAIN servers |-> Demand(servers[j], Periods, Shares[j], t, D)]
TotalDemand(t, D) == SumFunctionOnSet(DemandAt(t, D), DOMAIN servers)

(* While the shares fit, the demand on the time before any D is at most    *)
(* the time there is: the processor-demand criterion of earliest-          *)
(* deadline-first, as an invariant.                                        *)
DemandMet ==
    at = "arrivals" /\ Schedulable =>
        \A D \in Nat : currentTime <= D =>
            TotalDemand(currentTime, D) <= Periods * (D - currentTime)

(* While the shares fit, the deadline of a server with work has not        *)
(* passed.                                                                 *)
DeadlineAhead ==
    at = "arrivals" /\ Schedulable =>
        \A j \in DOMAIN servers :
            servers[j].state = ACTIVE => currentTime <= servers[j].deadline

(* The inductive invariant from which BudgetBeforeDeadline follows.        *)
BudgetInv == SimInv /\ OnTime /\ DemandMet /\ DeadlineAhead

(* What the steps below need of SimInv.                                    *)
LEMMA SimInvFields ==
    ASSUME SimInv
    PROVE  /\ GoodServers /\ SimTypeOK /\ FromInput /\ currentTime \in Nat
           /\ i \in Nat /\ count \in Nat /\ i <= count
           /\ events \in Seq(SimulationEvents) /\ DOMAIN events = 1..count
           /\ \A k \in DOMAIN events : events[k].arrivalTime \in Nat
<1>1. SimTypeOK /\ GoodServers /\ FromInput
  BY ServersGood DEF SimInv
<1>2. events \in Seq(SimulationEvents)
  BY <1>1 DEF SimTypeOK
<1>3. \A k \in DOMAIN events : events[k].arrivalTime \in Nat
  <2> SUFFICES ASSUME NEW k \in DOMAIN events PROVE events[k].arrivalTime \in Nat
    OBVIOUS
  <2>1. events[k] \in SimulationEvents
    BY <1>2
  <2> QED
    BY <2>1 DEF SimulationEvents
<1>4. count \in Nat /\ DOMAIN events = 1..count
  BY <1>2 DEF count
<1>5. currentTime \in Nat /\ i \in 0..count
  BY <1>1 DEF SimTypeOK
<1> QED
  BY <1>1, <1>2, <1>3, <1>4, <1>5

(* The event at hand is due now, not earlier. *)
LEMMA EventOnTime ==
    ASSUME SimInv, OnTime, Arrive
    PROVE  events[i + 1].arrivalTime = currentTime
<1>1. i + 1 \in DOMAIN events /\ i + 1 > i /\ at = "arrivals"
      /\ events[i + 1].arrivalTime <= currentTime
  BY SimInvFields DEF Arrive, Due
<1>2. events[i + 1].arrivalTime >= currentTime
  BY <1>1 DEF OnTime
<1> QED
  BY <1>1, <1>2, SimInvFields

(* Every step keeps the events in time: Idle goes to the next of them,     *)
(* and Work takes one unit when none is due.                               *)
LEMMA OnTimeKept ==
    ASSUME SimInv, OnTime, [SimNext]_simvars
    PROVE  OnTime'
<1> DEFINE Later(k, n, t) == k > n => events[k].arrivalTime >= t
<1>0. /\ i \in Nat /\ count \in Nat /\ currentTime \in Nat
      /\ DOMAIN events = 1..count
      /\ \A k \in DOMAIN events : events[k].arrivalTime \in Nat
  BY SimInvFields
<1>1. CASE RegisterVCPU
  <2>1. at = "register" /\ UNCHANGED <<at, events, i, currentTime>>
    BY <1>1 DEF RegisterVCPU
  <2>2. servers \in Seq(Servers) /\ Head(vcpus) \in VCpus
    BY <1>1, SimInvFields DEF SimTypeOK, RegisterVCPU
  <2>3. servers' = servers \/ servers' = Append(servers, NewServer(Head(vcpus)))
    BY <1>1 DEF RegisterVCPU
  <2>4. NewServer(Head(vcpus)).state = IDLE
    BY <2>2, NewServerGood
  <2>5. \A j \in DOMAIN servers' : servers'[j].state = IDLE
    <3>1. \A j \in DOMAIN servers : servers[j].state = IDLE
      BY <2>1 DEF OnTime
    <3> DEFINE s == NewServer(Head(vcpus))
    <3>2. s.state = IDLE /\ (servers' = servers \/ servers' = Append(servers, s))
      BY <2>3, <2>4
    <3> HIDE DEF s
    <3> QED
      BY <2>2, <3>1, <3>2
  <2> QED
    BY <2>1, <2>5 DEF OnTime
<1>2. CASE Sort
  <2>1. at' = "arrivals" /\ i' = 0 /\ currentTime' = 0
    BY <1>2 DEF Sort, OnTime
  <2>2. /\ \A a, b \in 1..count : a < b => events'[a].arrivalTime <= events'[b].arrivalTime
        /\ DOMAIN events' = 1..count
        /\ \A a \in 1..count : events'[a].arrivalTime \in Nat
    <3>1. PICK p \in [1..Len(events) -> 1..Len(events)] :
             events' = [k \in 1..Len(events) |-> events[p[k]]]
      BY <1>2 DEF Sort, Sorted
    <3>2. \A a, b \in 1..Len(events) : a < b => events'[a].arrivalTime <= events'[b].arrivalTime
      BY <1>2 DEF Sort, Sorted
    <3> QED
      BY <1>0, <3>1, <3>2 DEF count
  <2>3. \A k, m \in DOMAIN events' :
           /\ k <= m => events'[k].arrivalTime <= events'[m].arrivalTime
           /\ k > i' => events'[k].arrivalTime >= currentTime'
    BY <1>0, <2>1, <2>2
  <2> QED
    BY <2>1, <2>3 DEF OnTime
<1>3. ASSUME at \in {"arrivals", "done", "overrun"}, at' \in {"arrivals", "done", "overrun"},
             UNCHANGED events,
             \A k \in DOMAIN events : Later(k, i, currentTime) => Later(k, i', currentTime')
      PROVE  OnTime'
  <2>1. \A k, m \in DOMAIN events : k <= m => events[k].arrivalTime <= events[m].arrivalTime
    BY <1>3 DEF OnTime
  <2>2. \A k \in DOMAIN events : Later(k, i, currentTime)
    BY <1>3 DEF OnTime
  <2>3. \A k \in DOMAIN events : Later(k, i', currentTime')
    BY <1>3, <2>2
  <2> QED
    BY <1>3, <2>1, <2>3 DEF OnTime
<1>4. CASE Arrive \/ DropEvent \/ IdleAtEnd
  <2>1. /\ at \in {"arrivals", "overrun"} /\ at' \in {"arrivals", "overrun"}
        /\ UNCHANGED <<events, currentTime>>
        /\ (i' = i + 1 \/ i' = i)
    BY <1>4 DEF Arrive, DropEvent, IdleAtEnd
  <2> QED
    BY <1>0, <1>3, <2>1
<1>5. CASE Idle \/ Work
  <2>1. /\ at = "arrivals" /\ at' \in {"arrivals", "done"} /\ UNCHANGED <<events, i>>
        /\ ~Due
    BY <1>5 DEF Idle, Work
  <2>2. \A k \in DOMAIN events : k > i => events[k].arrivalTime >= events[i + 1].arrivalTime
                                      /\ i < count
    <3>1. \A k, m \in DOMAIN events : k <= m => events[k].arrivalTime <= events[m].arrivalTime
      BY <2>1 DEF OnTime
    <3> QED
      BY <1>0, <3>1
  <2>3. i < count => i + 1 \in DOMAIN events /\ events[i + 1].arrivalTime > currentTime
    BY <1>0, <2>1 DEF Due
  <2>4. i < count => currentTime' <= events[i + 1].arrivalTime /\ currentTime' \in Nat
    BY <1>0, <1>5, <2>3 DEF Idle, Work
  <2>5. \A k \in DOMAIN events : k > i => events[k].arrivalTime >= currentTime'
    BY <1>0, <2>2, <2>3, <2>4
  <2> QED
    BY <1>3, <2>1, <2>5
<1>6. CASE UNCHANGED simvars
  BY <1>6 DEF simvars, OnTime
<1> QED
  BY <1>1, <1>2, <1>4, <1>5, <1>6 DEF SimNext

(* Everything that a sum of demands needs to be a number. *)
LEMMA DemandTypes ==
    ASSUME GoodServers, NEW t \in Nat, NEW D \in Nat
    PROVE  /\ IsFiniteSet(DOMAIN servers)
           /\ DOMAIN DemandAt(t, D) = DOMAIN servers
           /\ \A j \in DOMAIN servers :
                 /\ DemandAt(t, D)[j] = Demand(servers[j], Periods, Shares[j], t, D)
                 /\ DemandAt(t, D)[j] \in Nat
           /\ TotalDemand(t, D) \in Nat
           /\ \A j \in DOMAIN servers : DemandAt(t, D)[j] <= TotalDemand(t, D)
<1> DEFINE S == DOMAIN servers
           f == DemandAt(t, D)
<1>1. IsFiniteSet(S)
  BY SharesGood
<1>2. \A j \in S : f[j] = Demand(servers[j], Periods, Shares[j], t, D)
  BY DEF DemandAt
<1>3. \A j \in S : f[j] \in Nat
  <2> SUFFICES ASSUME NEW j \in S PROVE f[j] \in Nat
    OBVIOUS
  <2>1. GoodServer(servers[j]) /\ ShareOf(servers[j], Periods, Shares[j])
    BY SharesGood DEF GoodServers
  <2>2. Demand(servers[j], Periods, Shares[j], t, D) \in Nat
    BY <2>1, DemandBounds
  <2> QED
    BY <1>2, <2>2
<1>4. DOMAIN f = S
  BY DEF DemandAt
<1>5. TotalDemand(t, D) = SumFunctionOnSet(f, S)
  BY DEF TotalDemand
<1> HIDE DEF f, S
<1>6. SumFunctionOnSet(f, S) \in Nat /\ \A j \in S : f[j] <= SumFunctionOnSet(f, S)
  BY <1>1, <1>3, SumNonNegative
<1> QED
  BY <1>1, <1>2, <1>3, <1>4, <1>5, <1>6 DEF f, S

(* The demand that is met by a deadline includes the rest of a budget. *)
LEMMA DemandGivesBudget ==
    ASSUME BudgetInv
    PROVE  BudgetBeforeDeadline
<1> SUFFICES ASSUME at = "arrivals", Schedulable, NEW j \in DOMAIN servers,
                    servers[j].state = ACTIVE
             PROVE  currentTime + servers[j].currentBudget <= servers[j].deadline
  BY DEF BudgetBeforeDeadline
<1> DEFINE s == servers[j]
           d == s.deadline
           c == s.currentBudget
           t == currentTime
           P == Periods
<1>1. GoodServers /\ GoodServer(s) /\ t \in Nat
  BY SimInvFields DEF BudgetInv, GoodServers
<1>2. d \in Nat /\ c \in Nat /\ P \in Nat \ {0} /\ t <= d
  BY <1>1, ServerFields, SharesGood DEF GoodServer, BudgetInv, DeadlineAhead
<1>3. TotalDemand(t, d) <= P * (d - t)
  BY <1>2 DEF BudgetInv, DemandMet
<1>4. DemandAt(t, d)[j] <= TotalDemand(t, d) /\ TotalDemand(t, d) \in Nat
      /\ DemandAt(t, d)[j] = Demand(s, P, Shares[j], t, d)
  BY <1>1, <1>2, DemandTypes
<1>5. Demand(s, P, Shares[j], t, d) = P * c
  <2>1. Demand(s, P, Shares[j], t, d) = P * c + (d - d) * Shares[j]
    BY <1>2, StateAssumption DEF Demand, Claim
  <2>2. Shares[j] \in Nat /\ P * c \in Nat
    BY <1>1, <1>2, SharesGood DEF ShareOf
  <2> QED
    BY <1>2, <2>1, <2>2
<1> HIDE DEF s, c, d, t, P
<1>6. P * c <= P * (d - t) /\ P * c = c * P /\ P * (d - t) = (d - t) * P
  BY <1>2, <1>3, <1>4, <1>5, <1>1
<1>7. d - t >= c
  BY <1>1, <1>2, <1>6, Cancel
<1> QED
  BY <1>1, <1>2, <1>7 DEF s, c, d, t

(* Periods is the product of the periods of the servers.                   *)
PeriodOf == [j \in DOMAIN servers |-> servers[j].period]

(* The product that Periods folds.                                         *)
LEMMA PeriodsProduct == Periods = ProductOnSet(PeriodOf, DOMAIN servers)
BY Zenon DEF Periods, ProductOnSet, PeriodOf

(* The step of one server changes no share. *)
LEMMA SharesKept ==
    ASSUME GoodServers, NEW j \in DOMAIN servers, NEW r,
           r.period = servers[j].period, r.requestedBudget = servers[j].requestedBudget,
           servers' = [servers EXCEPT ![j] = r]
    PROVE  /\ DOMAIN servers' = DOMAIN servers
           /\ servers'[j] = r /\ \A k \in DOMAIN servers : k # j => servers'[k] = servers[k]
           /\ Periods' = Periods /\ Shares' = Shares
           /\ Schedulable' <=> Schedulable
<1>1. /\ DOMAIN servers' = DOMAIN servers
      /\ servers'[j] = r /\ \A k \in DOMAIN servers : k # j => servers'[k] = servers[k]
  BY DEF GoodServers
<1>2. /\ \A k \in DOMAIN servers : servers'[k].period = servers[k].period
      /\ \A k \in DOMAIN servers : servers'[k].requestedBudget = servers[k].requestedBudget
  BY <1>1
<1>3. [k \in DOMAIN servers' |-> servers'[k].period]
        = [k \in DOMAIN servers |-> servers[k].period]
  BY <1>1, <1>2
<1>4. Periods' = Periods
  <2>1. Periods = ProductOnSet(PeriodOf, DOMAIN servers)
    BY PeriodsProduct
  <2>2. Periods' = ProductOnSet(PeriodOf', DOMAIN servers')
    <3>1. (Periods = ProductOnSet(PeriodOf, DOMAIN servers))'
      BY PeriodsProduct, PTL
    <3> QED
      BY <3>1
  <2>3. PeriodOf' = PeriodOf
    BY <1>3 DEF PeriodOf
  <2> QED
    BY <1>1, <2>1, <2>2, <2>3, Zenon
<1>5. Shares' = Shares
  <2> DEFINE sh(k, P, svs) == (P \div svs[k].period) * svs[k].requestedBudget
  <2>1. Shares = [k \in DOMAIN servers |-> sh(k, Periods, servers)]
    BY DEF Shares
  <2>2. Shares' = [k \in DOMAIN servers' |-> sh(k, Periods', servers')]
    BY DEF Shares
  <2>3. \A k \in DOMAIN servers : sh(k, Periods', servers') = sh(k, Periods, servers)
    BY <1>2, <1>4
  <2> HIDE DEF sh
  <2> QED
    BY <1>1, <2>1, <2>2, <2>3
<1> QED
  BY <1>1, <1>4, <1>5, Zenon DEF Schedulable

(* The demands after the step of one server. *)
LEMMA DemandAfter ==
    ASSUME GoodServers, NEW j \in DOMAIN servers, NEW r,
           r.period = servers[j].period, r.requestedBudget = servers[j].requestedBudget,
           servers' = [servers EXCEPT ![j] = r], NEW D
    PROVE  /\ TotalDemand(currentTime, D)' =
                SumFunctionOnSet(DemandAt(currentTime, D)', DOMAIN servers)
           /\ \A k \in DOMAIN servers :
                 DemandAt(currentTime, D)'[k] =
                   Demand(IF k = j THEN r ELSE servers[k], Periods, Shares[k],
                          currentTime', D)
<1>1. /\ DOMAIN servers' = DOMAIN servers
      /\ servers'[j] = r /\ \A k \in DOMAIN servers : k # j => servers'[k] = servers[k]
      /\ Periods' = Periods /\ Shares' = Shares
  BY SharesKept
<1>2. \A k \in DOMAIN servers' :
         DemandAt(currentTime, D)'[k] =
           Demand(servers'[k], Periods', Shares'[k], currentTime', D)
  BY DEF DemandAt
<1>3. TotalDemand(currentTime, D)' =
        SumFunctionOnSet(DemandAt(currentTime, D)', DOMAIN servers')
  BY DEF TotalDemand
<1> QED
  BY <1>1, <1>2, <1>3

(* An arrival changes the demand of no server.                             *)
LEMMA ArriveDemand ==
    ASSUME BudgetInv, Arrive
    PROVE  DemandMet' /\ DeadlineAhead'
<1> DEFINE event == events[i + 1]
           j     == Min(Served(event))
           work  == event.requiredProcessingTime
           s     == servers[j]
           r     == AddJob(s, work, event.arrivalTime)
           S     == DOMAIN servers
           t     == currentTime
<1>1. SimInv /\ GoodServers /\ t \in Nat /\ OnTime /\ at = "arrivals"
  BY SimInvFields DEF BudgetInv, Arrive
<1>2. j \in S
  <2>1. Served(event) = Mine(event.vCpuName) /\ Served(event) # {}
    BY DEF Served, Mine, Arrive
  <2> QED
    BY <1>1, <2>1, FirstOfMine DEF GoodServers
<1>3. work \in Nat \ {0} /\ event.arrivalTime = t
  BY <1>1, EventOnTime, EventFields, SimInvFields DEF Arrive, Due
<1>4. /\ servers' = [servers EXCEPT ![j] = r]
      /\ UNCHANGED <<at, currentTime>>
  BY DEF Arrive
<1>5. GoodServer(s) /\ ShareOf(s, Periods, Shares[j])
  BY <1>1, <1>2, SharesGood DEF GoodServers
<1>6. r = AddJob(s, work, t)
  BY <1>3
<1> HIDE DEF event, j, work, r, s
<1>7. /\ r.period = s.period /\ r.requestedBudget = s.requestedBudget
      /\ r.state = ACTIVE
      /\ IF s.state = IDLE /\ OutOfDate(s, t)
         THEN r.deadline = t + s.period ELSE r.deadline = s.deadline
  BY <1>1, <1>3, <1>5, <1>6, AddJobBudget
<1>8. /\ DOMAIN servers' = S
      /\ servers'[j] = r /\ \A k \in S : k # j => servers'[k] = servers[k]
      /\ Periods' = Periods /\ Shares' = Shares
      /\ Schedulable' <=> Schedulable
  BY <1>1, <1>2, <1>4, <1>7, SharesKept DEF s
<1>9. ASSUME NEW D \in Nat
      PROVE  TotalDemand(currentTime, D)' = TotalDemand(currentTime, D)
  <2> DEFINE f == DemandAt(t, D)
             g == DemandAt(t, D)'
  <2>1. /\ TotalDemand(t, D)' = SumFunctionOnSet(g, S)
        /\ \A k \in S : g[k] = Demand(IF k = j THEN r ELSE servers[k], Periods, Shares[k], t', D)
    BY <1>1, <1>2, <1>4, <1>7, DemandAfter DEF s
  <2>2. /\ IsFiniteSet(S)
        /\ \A k \in S : /\ f[k] = Demand(servers[k], Periods, Shares[k], t, D)
                        /\ f[k] \in Int
    BY <1>1, DemandTypes
  <2>3. Demand(r, Periods, Shares[j], t, D) = Demand(s, Periods, Shares[j], t, D)
    BY <1>1, <1>3, <1>5, <1>6, ArrivalDemand
  <2>4. \A k \in S : g[k] = f[k]
    BY <1>4, <2>1, <2>2, <2>3 DEF s
  <2>5. TotalDemand(t, D) = SumFunctionOnSet(f, S)
    BY DEF TotalDemand
  <2> HIDE DEF f, g
  <2>6. SumFunctionOnSet(g, S) = SumFunctionOnSet(f, S)
    BY <2>2, <2>4, SumSame
  <2> QED
    BY <2>1, <2>5, <2>6
<1>10. DemandMet'
  <2> SUFFICES ASSUME Schedulable', NEW D \in Nat, t' <= D
               PROVE  TotalDemand(currentTime, D)' <= Periods' * (D - t')
    BY DEF DemandMet
  <2>1. TotalDemand(t, D) <= Periods * (D - t)
    BY <1>1, <1>4, <1>8 DEF BudgetInv, DemandMet
  <2> QED
    BY <1>4, <1>8, <1>9, <2>1
<1>11. DeadlineAhead'
  <2> SUFFICES ASSUME Schedulable', NEW k \in S, servers'[k].state = ACTIVE
               PROVE  t <= servers'[k].deadline
    BY <1>4, <1>8 DEF DeadlineAhead
  <2>1. CASE k # j
    BY <1>1, <1>8, <2>1 DEF BudgetInv, DeadlineAhead
  <2>2. CASE k = j
    <3>1. s \in Servers
      BY <1>5 DEF GoodServer
    <3>2. s.period \in Nat /\ s.deadline \in Nat /\ s.state \in {IDLE, ACTIVE}
      BY <3>1, ServerFields
    <3>3. CASE s.state = IDLE /\ OutOfDate(s, t)
      BY <1>1, <1>7, <1>8, <2>2, <3>2, <3>3
    <3>4. CASE s.state = IDLE /\ ~OutOfDate(s, t)
      <4>1. s.deadline > t
        BY <1>1, <1>5, <3>4, OutOfDateShare
      <4> QED
        BY <1>1, <1>7, <1>8, <2>2, <3>2, <3>4, <4>1
    <3>5. CASE s.state = ACTIVE
      <4>1. t <= s.deadline
        BY <1>1, <1>2, <1>8, <3>5 DEF BudgetInv, DeadlineAhead, s
      <4> QED
        BY <1>7, <1>8, <2>2, <3>5, <4>1, StateAssumption
    <3> QED
      BY <3>2, <3>3, <3>4, <3>5
  <2> QED
    BY <2>1, <2>2
<1> QED
  BY <1>10, <1>11

(* A unit of work pays the demand on the time before every D that reaches  *)
(* the deadline of the active server; before an earlier D no server has    *)
(* any demand left, because the active one has the earliest deadline of    *)
(* those with work.                                                        *)
LEMMA WorkDemandMet ==
    ASSUME BudgetInv, BudgetBeforeDeadline, Work
    PROVE  DemandMet' /\ DeadlineAhead'
<1> DEFINE j == Active
           s == servers[j]
           r == DoWork(s)
           S == DOMAIN servers
           t == currentTime
           P == Periods
<1>1. SimInv /\ GoodServers /\ t \in Nat /\ at = "arrivals"
  BY SimInvFields DEF BudgetInv, Work
<1>2. /\ j \in S /\ s.state = ACTIVE
      /\ \A k \in S : servers[k].state = ACTIVE => s.deadline <= servers[k].deadline
  BY <1>1, ActiveFound DEF Work
<1>3. servers' = [servers EXCEPT ![j] = r] /\ t' = t + 1 /\ at' \in {"done", "arrivals"}
  BY DEF Work
<1>4. /\ GoodServer(s) /\ ShareOf(s, P, Shares[j])
      /\ \A k \in S : GoodServer(servers[k]) /\ ShareOf(servers[k], P, Shares[k])
      /\ P \in Nat \ {0} /\ IsFiniteSet(S)
  BY <1>1, <1>2, SharesGood DEF GoodServers
<1>5. \A k \in S : servers[k].deadline \in Nat /\ servers[k].currentBudget \in Nat \ {0}
                   /\ servers[k].state \in {IDLE, ACTIVE}
  BY <1>4, ServerFields DEF GoodServer
<1>6. s.deadline \in Nat
  BY <1>2, <1>5
<1> HIDE DEF j, r, s
<1>7. /\ r.period = s.period /\ r.requestedBudget = s.requestedBudget
      /\ r.deadline = s.deadline \/ r.deadline = s.deadline + s.period
      /\ GoodServer(r) /\ s.period \in Nat
  BY <1>2, <1>4, DoWorkBudget, DoWorkGood, ServerFields DEF r, GoodServer
<1>8. /\ DOMAIN servers' = S
      /\ servers'[j] = r /\ \A k \in S : k # j => servers'[k] = servers[k]
      /\ Periods' = Periods /\ Shares' = Shares
      /\ Schedulable' <=> Schedulable
  BY <1>1, <1>2, <1>3, <1>7, SharesKept DEF s
<1>9. ASSUME Schedulable, NEW D \in Nat, t + 1 <= D
      PROVE  TotalDemand(currentTime, D)' <= P * (D - (t + 1))
  <2> DEFINE f == DemandAt(t, D)
             g == DemandAt(t, D)'
  <2>1. /\ TotalDemand(t, D)' = SumFunctionOnSet(g, S)
        /\ \A k \in S : g[k] = Demand(IF k = j THEN r ELSE servers[k], P, Shares[k], t + 1, D)
    <3>1. /\ TotalDemand(t, D)' = SumFunctionOnSet(g, S)
          /\ \A k \in S : g[k] = Demand(IF k = j THEN r ELSE servers[k], P, Shares[k], t', D)
      BY <1>1, <1>2, <1>3, <1>7, DemandAfter DEF s
    <3> HIDE DEF g, P
    <3> QED
      BY <1>3, <3>1
  <2>2. /\ \A k \in S : /\ f[k] = Demand(servers[k], P, Shares[k], t, D)
                        /\ f[k] \in Nat
    BY <1>1, DemandTypes
  <2>3. TotalDemand(t, D) = SumFunctionOnSet(f, S)
    BY DEF TotalDemand
  <2>4. /\ ShareOf(r, P, Shares[j])
        /\ IF s.deadline <= D
           THEN g[j] <= f[j] - P
           ELSE g[j] = 0
    <3>1. /\ ShareOf(r, P, Shares[j])
          /\ IF s.deadline <= D
             THEN Demand(r, P, Shares[j], t + 1, D) <= Demand(s, P, Shares[j], t, D) - P
             ELSE Demand(r, P, Shares[j], t + 1, D) = 0
      BY <1>1, <1>2, <1>4, WorkDemand DEF r
    <3>2. g[j] = Demand(r, P, Shares[j], t + 1, D) /\ f[j] = Demand(s, P, Shares[j], t, D)
      BY <1>2, <2>1, <2>2 DEF s
    <3> QED
      BY <3>1, <3>2
  <2>5. \A k \in S : g[k] \in Nat
    <3> SUFFICES ASSUME NEW k \in S PROVE g[k] \in Nat
      OBVIOUS
    <3> DEFINE x == IF k = j THEN r ELSE servers[k]
    <3>1. GoodServer(x) /\ ShareOf(x, P, Shares[k])
      BY <1>4, <1>7, <2>4
    <3>2. t + 1 \in Nat
      BY <1>1
    <3> HIDE DEF x, g
    <3>3. Demand(x, P, Shares[k], t + 1, D) \in Nat
      BY <3>1, <3>2, DemandBounds
    <3>4. g[k] = Demand(x, P, Shares[k], t + 1, D)
      BY <2>1 DEF x
    <3> QED
      BY <3>3, <3>4
  <2>6. \A k \in S \ {j} : g[k] <= f[k]
    <3> SUFFICES ASSUME NEW k \in S \ {j} PROVE g[k] <= f[k]
      OBVIOUS
    <3>1. t + 1 \in Nat /\ t <= t + 1
      BY <1>1
    <3>2. Demand(servers[k], P, Shares[k], t + 1, D) <= Demand(servers[k], P, Shares[k], t, D)
      BY <1>1, <1>4, <3>1, DemandFalls
    <3> QED
      BY <2>1, <2>2, <3>2
  <2> HIDE DEF f, g, P, t
  <2>7. CASE s.deadline <= D
    <3> DEFINE h == [k \in S |-> IF k = j THEN f[j] - P ELSE f[k]]
    <3>1. \A k \in S : h[k] \in Int /\ g[k] <= h[k]
      BY <1>2, <1>4, <2>2, <2>4, <2>6, <2>7
    <3>2. h[j] = f[j] - P /\ \A k \in S \ {j} : h[k] = f[k]
      BY <1>2
    <3> HIDE DEF h
    <3>3. SumFunctionOnSet(g, S) <= SumFunctionOnSet(h, S)
      BY <1>4, <2>5, <3>1, SumMonotone
    <3>4. SumFunctionOnSet(h, S) = SumFunctionOnSet(f, S) - f[j] + h[j]
      <4>1. \A k \in S : f[k] \in Int /\ h[k] \in Int
        BY <2>2, <3>1
      <4>2. \A k \in S \ {j} : h[k] = f[k]
        BY <3>2
      <4> HIDE DEF S
      <4> QED
        BY <1>2, <1>4, <4>1, <4>2, SumChanged
    <3>5. SumFunctionOnSet(f, S) \in Int /\ f[j] \in Int /\ SumFunctionOnSet(g, S) \in Int
      BY <1>2, <1>4, <2>2, <2>5, SumType
    <3>6. SumFunctionOnSet(f, S) <= P * (D - t)
      <4>1. t <= D
        BY <1>1, <1>9
      <4> QED
        BY <1>1, <1>9, <2>3, <4>1 DEF BudgetInv, DemandMet, P, t
    <3>7. P * (D - (t + 1)) = P * (D - t) - P /\ P * (D - t) \in Int
      BY <1>1, <1>4
    <3> QED
      <4>1. SumFunctionOnSet(h, S) \in Int
        BY <1>4, <3>1, SumType
      <4>2. SumFunctionOnSet(g, S) <= P * (D - (t + 1))
        BY <1>4, <3>2, <3>3, <3>4, <3>5, <3>6, <3>7, <4>1
      <4> QED
        BY <2>1, <4>2 DEF t
  <2>8. CASE ~(s.deadline <= D)
    <3> DEFINE h == [k \in S |-> (D - (t + 1)) * Shares[k]]
    <3>1. \A k \in S : Shares[k] \in Nat
      BY <1>4 DEF ShareOf
    <3>2. D - (t + 1) \in Nat
      BY <1>1, <1>9
    <3>3. \A k \in S : h[k] \in Int /\ g[k] <= h[k] /\ h[k] = (D - (t + 1)) * Shares[k]
      <4> SUFFICES ASSUME NEW k \in S PROVE h[k] \in Nat /\ g[k] <= h[k]
        OBVIOUS
      <4>1. h[k] \in Nat /\ h[k] = (D - (t + 1)) * Shares[k]
        BY <3>1, <3>2
      <4>2. CASE k = j
        BY <2>4, <2>8, <4>1, <4>2
      <4>3. CASE k # j /\ servers[k].state = ACTIVE
        <5>1. ~(servers[k].deadline <= D)
          BY <1>2, <1>5, <1>6, <2>8, <4>3
        <5>2. Demand(servers[k], P, Shares[k], t + 1, D) = 0
          BY <4>3, <5>1, StateAssumption DEF Demand, Claim
        <5> QED
          BY <2>1, <4>1, <4>3, <5>2
      <4>4. CASE k # j /\ servers[k].state = IDLE
        <5>1. t + 1 \in Nat /\ t + 1 <= D
          BY <1>1, <1>9
        <5>2. Demand(servers[k], P, Shares[k], t + 1, D) <= (D - (t + 1)) * Shares[k]
          BY <1>4, <4>4, <5>1, DemandBounds
        <5> QED
          BY <2>1, <4>1, <4>4, <5>2
      <4> QED
        BY <1>5, <4>2, <4>3, <4>4
    <3> HIDE DEF h
    <3>4. SumFunctionOnSet(g, S) <= SumFunctionOnSet(h, S)
      BY <1>4, <2>5, <3>3, SumMonotone
    <3>5. SumFunctionOnSet(h, S) = (D - (t + 1)) * SumFunctionOnSet(Shares, S)
      <4>1. \A k \in S : Shares[k] \in Int /\ h[k] = (D - (t + 1)) * Shares[k]
        BY <3>1, <3>3
      <4>2. D - (t + 1) \in Int
        BY <3>2
      <4> QED
        BY <1>4, <4>1, <4>2, SumScaled
    <3>6. SumFunctionOnSet(Shares, S) <= P /\ SumFunctionOnSet(Shares, S) \in Nat
      BY <1>4, <1>9, <3>1, SumNonNegative DEF Schedulable, P
    <3>7. (D - (t + 1)) * SumFunctionOnSet(Shares, S) <= P * (D - (t + 1))
      <4> DEFINE n == D - (t + 1)
                 m == SumFunctionOnSet(Shares, S)
      <4>1. n \in Nat /\ m \in Nat /\ P \in Nat /\ m <= P
        BY <1>4, <3>2, <3>6
      <4> HIDE DEF n, m
      <4>2. P - m \in Nat
        BY <4>1
      <4>3. n * (P - m) >= 0
        BY <4>1, <4>2
      <4>4. n * m <= P * n
        BY <4>1, <4>3
      <4> QED
        BY <4>4 DEF n, m
    <3>8. SumFunctionOnSet(g, S) \in Int /\ SumFunctionOnSet(h, S) \in Int
      BY <1>4, <2>5, <3>3, SumType
    <3>9. P * (D - (t + 1)) \in Int
      BY <1>4, <3>2
    <3> QED
      BY <2>1, <3>4, <3>5, <3>7, <3>8, <3>9 DEF t
  <2> QED
    BY <2>7, <2>8 DEF t
<1>10. DemandMet'
  <2> SUFFICES ASSUME Schedulable', NEW D \in Nat, t' <= D
               PROVE  TotalDemand(currentTime, D)' <= Periods' * (D - t')
    BY DEF DemandMet
  <2> QED
    BY <1>3, <1>8, <1>9
<1>11. DeadlineAhead'
  <2> SUFFICES ASSUME Schedulable', NEW k \in S, servers'[k].state = ACTIVE
               PROVE  t + 1 <= servers'[k].deadline
    BY <1>3, <1>8 DEF DeadlineAhead
  <2>1. \A m \in S : servers[m].state = ACTIVE =>
           /\ t + servers[m].currentBudget <= servers[m].deadline
           /\ servers[m].currentBudget \in Nat \ {0} /\ servers[m].deadline \in Nat
    BY <1>1, <1>5, <1>8 DEF BudgetBeforeDeadline
  <2>2. \A m \in S : servers[m].state = ACTIVE => t + 1 <= servers[m].deadline
    BY <1>1, <2>1
  <2> QED
    BY <1>1, <1>2, <1>6, <1>7, <1>8, <2>2 DEF s
<1> QED
  BY <1>10, <1>11

(* Without a change of the servers the demands depend on the time only.    *)
LEMMA SharesUnchanged ==
    ASSUME UNCHANGED servers
    PROVE  /\ Periods' = Periods /\ Shares' = Shares /\ (Schedulable' <=> Schedulable)
           /\ \A D : TotalDemand(currentTime, D)' = TotalDemand(currentTime', D)
<1>1. Periods' = Periods
  <2>1. Periods = ProductOnSet(PeriodOf, DOMAIN servers)
    BY PeriodsProduct
  <2>2. (Periods = ProductOnSet(PeriodOf, DOMAIN servers))'
    BY PeriodsProduct, PTL
  <2>3. PeriodOf' = PeriodOf
    BY DEF PeriodOf
  <2> QED
    BY <2>1, <2>2, <2>3
<1>2. Shares' = Shares
  BY <1>1 DEF Shares
<1>3. Schedulable' <=> Schedulable
  BY <1>1, <1>2 DEF Schedulable
<1>4. ASSUME NEW D PROVE TotalDemand(currentTime, D)' = TotalDemand(currentTime', D)
  BY <1>1, <1>2 DEF TotalDemand, DemandAt
<1> QED
  BY <1>1, <1>2, <1>3, <1>4

(* While all servers are idle the CPU has no more than their shares to do. *)
LEMMA IdleDemand ==
    ASSUME GoodServers, Schedulable, \A j \in DOMAIN servers : servers[j].state = IDLE,
           NEW t \in Nat, NEW D \in Nat, t <= D
    PROVE  TotalDemand(t, D) <= Periods * (D - t)
<1> DEFINE S == DOMAIN servers
           f == DemandAt(t, D)
           h == [k \in S |-> (D - t) * Shares[k]]
           P == Periods
           n == D - t
           m == SumFunctionOnSet(Shares, S)
<1>1. /\ P \in Nat \ {0} /\ IsFiniteSet(S)
      /\ \A k \in S : GoodServer(servers[k]) /\ ShareOf(servers[k], P, Shares[k])
  BY SharesGood DEF GoodServers
<1>2. n \in Nat /\ \A k \in S : Shares[k] \in Nat
  BY <1>1 DEF ShareOf
<1>3. \A k \in S : h[k] = n * Shares[k] /\ h[k] \in Int
  BY <1>2
<1>4. \A k \in S : f[k] = Demand(servers[k], P, Shares[k], t, D) /\ f[k] \in Int
  BY DemandTypes
<1>5. \A k \in S : f[k] <= h[k]
  <2> SUFFICES ASSUME NEW k \in S PROVE f[k] <= h[k]
    OBVIOUS
  <2>1. Demand(servers[k], P, Shares[k], t, D) <= (D - t) * Shares[k]
    BY <1>1, DemandBounds
  <2> QED
    BY <1>3, <1>4, <2>1
<1>6. TotalDemand(t, D) = SumFunctionOnSet(f, S)
  BY DEF TotalDemand
<1>7. m <= P
  BY DEF Schedulable
<1> HIDE DEF S, f, h, P, n
<1>8. SumFunctionOnSet(f, S) <= SumFunctionOnSet(h, S)
  BY <1>1, <1>3, <1>4, <1>5, SumMonotone
<1>9. SumFunctionOnSet(h, S) = n * m
  <2>1. n \in Int /\ \A k \in S : Shares[k] \in Int /\ h[k] = n * Shares[k]
    BY <1>2, <1>3
  <2> QED
    BY <1>1, <2>1, SumScaled
<1>10. m \in Nat
  BY <1>1, <1>2, SumNonNegative
<1>11. SumFunctionOnSet(f, S) \in Int /\ SumFunctionOnSet(h, S) \in Int
  BY <1>1, <1>3, <1>4, SumType
<1> HIDE DEF m
<1>12. n * m <= P * n
  <2>1. P - m \in Nat
    BY <1>1, <1>7, <1>10
  <2>2. n * (P - m) >= 0
    BY <1>2, <2>1
  <2> QED
    BY <1>1, <1>2, <1>10, <2>2
<1>13. n * m \in Int /\ P * n \in Int
  BY <1>1, <1>2, <1>10
<1> QED
  BY <1>6, <1>8, <1>9, <1>11, <1>12, <1>13 DEF P, n

(* The invariant is inductive.                                             *)
LEMMA BudgetStep ==
    ASSUME BudgetInv, [SimNext]_simvars
    PROVE  BudgetInv'
<1>0. SimInv /\ OnTime /\ GoodServers /\ currentTime \in Nat
  BY SimInvFields DEF BudgetInv
<1>1. SimInv' /\ OnTime'
  BY <1>0, StepGood, OnTimeKept
<1>2. CASE at' # "arrivals"
  BY <1>1, <1>2 DEF BudgetInv, DemandMet, DeadlineAhead
<1>3. CASE Arrive
  BY <1>1, <1>3, ArriveDemand DEF BudgetInv
<1>4. CASE Work
  BY <1>1, <1>4, DemandGivesBudget, WorkDemandMet DEF BudgetInv
<1>5. CASE at' = "arrivals" /\ (Sort \/ Idle)
  <2>1. UNCHANGED servers /\ currentTime' \in Nat
    BY <1>1, <1>5 DEF SimInv, SimTypeOK, Sort, Idle
  <2>2. \A j \in DOMAIN servers : servers[j].state = IDLE
    BY <1>0, <1>5, ActiveFound DEF Sort, Idle, OnTime
  <2>3. ASSUME Schedulable', NEW D \in Nat, currentTime' <= D
        PROVE  TotalDemand(currentTime, D)' <= Periods' * (D - currentTime')
    BY <1>0, <2>1, <2>2, <2>3, SharesUnchanged, IdleDemand
  <2>4. DemandMet'
    BY <2>3 DEF DemandMet
  <2>5. DeadlineAhead'
    BY <2>1, <2>2, StateAssumption DEF DeadlineAhead
  <2> QED
    BY <1>1, <2>4, <2>5 DEF BudgetInv
<1>6. CASE at' = "arrivals" /\ (DropEvent \/ UNCHANGED simvars)
  <2>1. UNCHANGED <<servers, currentTime>> /\ at = "arrivals"
    BY <1>6 DEF DropEvent, simvars
  <2>2. \A D : TotalDemand(currentTime, D)' = TotalDemand(currentTime, D)
    BY <2>1, SharesUnchanged
  <2>3. DemandMet'
    BY <2>1, <2>2, SharesUnchanged DEF BudgetInv, DemandMet
  <2>4. DeadlineAhead'
    BY <2>1, SharesUnchanged DEF BudgetInv, DeadlineAhead
  <2> QED
    BY <1>1, <2>3, <2>4 DEF BudgetInv
<1>7. RegisterVCPU \/ IdleAtEnd => at' # "arrivals"
  BY DEF RegisterVCPU, IdleAtEnd
<1> QED
  BY <1>2, <1>3, <1>4, <1>5, <1>6, <1>7 DEF SimNext

(* The invariant holds at the start.                                       *)
LEMMA BudgetInit == SimInit => BudgetInv
<1> SUFFICES ASSUME SimInit PROVE BudgetInv
  OBVIOUS
<1>1. at = "register" /\ i = 0 /\ currentTime = 0 /\ servers = << >>
  BY DEF SimInit
<1> QED
  BY <1>1, InitGood DEF BudgetInv, OnTime, DemandMet, DeadlineAhead

(* While the shares of the admitted servers fit in the processor, no       *)
(* server with work has a budget that it could not use up by its           *)
(* deadline, whatever the events are (PickServerWithEarliestDeadline is    *)
(* right to look at deadlines only).                                       *)
THEOREM BudgetsInTime == SimSpec => []BudgetBeforeDeadline
BY BudgetInit, BudgetStep, DemandGivesBudget, PTL DEF SimSpec

-----------------------------------------------------------------------------
(* The capacity that the servers have taken and the capacity that is left  *)
(* are what there was.                                                     *)
Budgets == [j \in DOMAIN servers |-> servers[j].requestedBudget]

(* What IsAvailableCapacity takes from is what no server has.              *)
CapacitySpent ==
    SumFunctionOnSet(Budgets, DOMAIN servers) + availableCapacity = Capacity

(* An arrival and a unit of work are steps of one server, which keeps what *)
(* it has been registered with.                                            *)
LEMMA OneServerMoves ==
    ASSUME SimInv, Arrive \/ Work
    PROVE  \E j \in DOMAIN servers : \E r :
              /\ servers' = [servers EXCEPT ![j] = r]
              /\ r.cpu = servers[j].cpu
              /\ r.requestedBudget = servers[j].requestedBudget
              /\ r.period = servers[j].period
<1>0. GoodServers
  BY SimInvFields
<1>1. CASE Arrive
  <2> DEFINE event == events[i + 1]
             j     == Min(Served(event))
             work  == event.requiredProcessingTime
             r     == AddJob(servers[j], work, event.arrivalTime)
  <2>1. j \in DOMAIN servers
    <3>1. Served(event) = Mine(event.vCpuName) /\ Served(event) # {}
      BY <1>1 DEF Served, Mine, Arrive
    <3> QED
      BY <1>0, <3>1, FirstOfMine DEF GoodServers
  <2>2. work \in Nat \ {0} /\ event.arrivalTime \in Nat
    BY <1>1, EventFields, SimInvFields DEF Arrive, Due
  <2>3. servers' = [servers EXCEPT ![j] = r]
    BY <1>1 DEF Arrive
  <2>4. GoodServer(servers[j])
    BY <1>0, <2>1 DEF GoodServers
  <2>5. /\ r.cpu = servers[j].cpu /\ r.requestedBudget = servers[j].requestedBudget
        /\ r.period = servers[j].period
    <3>1. PICK s, w, t : s = servers[j] /\ w = work /\ t = event.arrivalTime
      OBVIOUS
    <3>2. GoodServer(s) /\ w \in Nat \ {0} /\ t \in Nat
      BY <2>2, <2>4, <3>1
    <3>3. PICK a : a = AddJob(s, w, t)
      OBVIOUS
    <3>4. a = r
      BY <3>1, <3>3
    <3> HIDE DEF r, j, work, event
    <3>5. a.cpu = s.cpu
      BY <3>2, <3>3, AddJobGood
    <3>6. a.requestedBudget = s.requestedBudget /\ a.period = s.period
      BY <3>2, <3>3, AddJobBudget
    <3> QED
      BY <3>1, <3>4, <3>5, <3>6
  <2> HIDE DEF j, r
  <2> QED
    BY <2>1, <2>3, <2>5
<1>2. CASE Work
  <2> DEFINE j == Active
             r == DoWork(servers[j])
  <2>1. j \in DOMAIN servers /\ servers[j].state = ACTIVE
    BY <1>0, <1>2, ActiveFound DEF Work
  <2>2. servers' = [servers EXCEPT ![j] = r]
    BY <1>2 DEF Work
  <2>3. GoodServer(servers[j])
    BY <1>0, <2>1 DEF GoodServers
  <2>4. /\ r.cpu = servers[j].cpu /\ r.requestedBudget = servers[j].requestedBudget
        /\ r.period = servers[j].period
    BY <2>1, <2>3, DoWorkGood, DoWorkBudget
  <2> HIDE DEF j, r
  <2> QED
    BY <2>1, <2>2, <2>4
<1> QED
  BY <1>1, <1>2

(* Nothing but an admission spends capacity. *)
LEMMA BudgetsKept ==
    ASSUME SimInv, [SimNext]_simvars, ~RegisterVCPU
    PROVE  UNCHANGED <<Budgets, DOMAIN servers, availableCapacity>>
<1>1. UNCHANGED availableCapacity
  BY DEF SimNext, simvars, Sort, Arrive, DropEvent, Idle, IdleAtEnd, Work
<1>2. CASE UNCHANGED servers
  BY <1>1, <1>2 DEF Budgets
<1>3. ASSUME NEW j \in DOMAIN servers, NEW r, r.requestedBudget = servers[j].requestedBudget,
             servers' = [servers EXCEPT ![j] = r]
      PROVE  UNCHANGED <<Budgets, DOMAIN servers>>
  <2>1. DOMAIN servers' = DOMAIN servers
    BY <1>3
  <2>2. \A k \in DOMAIN servers : servers'[k].requestedBudget = servers[k].requestedBudget
    BY <1>3
  <2> QED
    BY <2>1, <2>2 DEF Budgets
<1>4. CASE Arrive \/ Work
  BY <1>1, <1>3, <1>4, OneServerMoves
<1>6. Sort \/ DropEvent \/ Idle \/ IdleAtEnd \/ UNCHANGED simvars => UNCHANGED servers
  BY DEF simvars, Sort, DropEvent, Idle, IdleAtEnd
<1> QED
  BY <1>2, <1>4, <1>6 DEF SimNext

(* Every step keeps the books of the capacity.                             *)
LEMMA SpentStep ==
    ASSUME SimInv, CapacitySpent, [SimNext]_simvars
    PROVE  CapacitySpent'
<1>1. CASE ~RegisterVCPU
  BY <1>1, BudgetsKept DEF CapacitySpent
<1>2. CASE RegisterVCPU
  <2> DEFINE v == Head(vcpus)
             b == v.requestedBudget
             s == NewServer(v)
             S == DOMAIN servers
             n == Len(servers) + 1
  <2>1. /\ servers \in Seq(Servers) /\ v \in VCpus /\ availableCapacity \in Nat
        /\ GoodServers
    BY <1>2, SimInvFields DEF GoodServers, SimTypeOK, RegisterVCPU
  <2>2. s \in Servers /\ s.requestedBudget = b /\ b \in Nat \ {0}
    BY <2>1, NewServerGood DEF GoodServer, NewServer, VCpus
  <2>3. CASE b > availableCapacity
    <3>1. UNCHANGED <<servers, availableCapacity>>
      BY <1>2, <2>3 DEF RegisterVCPU
    <3> QED
      BY <3>1 DEF CapacitySpent, Budgets
  <2>4. CASE ~(b > availableCapacity)
    <3>1. servers' = Append(servers, s) /\ availableCapacity' = availableCapacity - b
      BY <1>2, <2>4 DEF RegisterVCPU, LeftAfter
    <3> HIDE DEF s, b
    <3>2. /\ n \in Nat /\ S = 1..(n - 1) /\ DOMAIN servers' = 1..n
          /\ servers'[n] = s /\ \A j \in S : servers'[j] = servers[j]
      BY <2>1, <2>2, <3>1
    <3> DEFINE f == Budgets
               g == Budgets'
               R == 1..n
    <3>3. /\ \A j \in S : f[j] \in Int /\ g[j] = f[j]
          /\ \A j \in R : g[j] \in Int
          /\ g[n] = b /\ n \in R /\ S = R \ {n}
      <4>1. \A j \in S : f[j] = servers[j].requestedBudget /\ f[j] \in Nat
        <5>1. \A j \in S : servers[j].requestedBudget \in Nat
          BY <2>1, ServerFields
        <5> QED
          BY <5>1 DEF Budgets
      <4>2. \A j \in R : g[j] = servers'[j].requestedBudget
        <5>1. \A j \in DOMAIN servers' : Budgets'[j] = servers'[j].requestedBudget
          BY DEF Budgets
        <5> QED
          BY <3>2, <5>1
      <4>3. n \in R /\ S = R \ {n}
        BY <2>1, <3>2
      <4>4. \A j \in S : j \in R /\ servers'[j] = servers[j]
        BY <3>2, <4>3
      <4>5. \A j \in S : g[j] = f[j]
        BY <4>1, <4>2, <4>4
      <4>6. n \in R /\ g[n] = b
        BY <2>2, <3>2, <4>2, <4>3
      <4>7. \A j \in R : g[j] \in Int
        <5>1. \A j \in R : j \in S \/ j = n
          BY <4>3
        <5> HIDE DEF f, g, R, S
        <5> QED
          BY <2>2, <4>1, <4>5, <4>6, <5>1
      <4> QED
        BY <4>1, <4>3, <4>5, <4>6, <4>7
    <3>4. IsFiniteSet(R) /\ IsFiniteSet(S)
      BY <3>2, FS_Interval
    <3>5. SumFunctionOnSet(Budgets, DOMAIN servers)' = SumFunctionOnSet(g, R)
      BY <3>2
    <3> HIDE DEF f, g, R, S
    <3>6. SumFunctionOnSet(g, R) = b + SumFunctionOnSet(g, S)
      BY <3>3, <3>4, SumAny
    <3>7. SumFunctionOnSet(g, S) = SumFunctionOnSet(f, S)
      BY <3>3, <3>4, SumSame
    <3>8. SumFunctionOnSet(f, S) \in Int
      BY <3>3, <3>4, SumType
    <3> QED
      BY <2>1, <2>2, <3>1, <3>5, <3>6, <3>7, <3>8, InputAssumption DEF CapacitySpent, f, S
  <2> QED
    BY <2>3, <2>4
<1> QED
  BY <1>1, <1>2

(* Where no period is shorter than the capacity, budgets that add up to    *)
(* at most the capacity are shares that fit in the processor.              *)
LEMMA AdmittedFits ==
    ASSUME SimInv, CapacitySpent
    PROVE  AdmissionSafe
<1> SUFFICES ASSUME \A j \in DOMAIN servers : Capacity <= servers[j].period
             PROVE  Schedulable
  BY DEF AdmissionSafe
<1> DEFINE S == DOMAIN servers
           u == Shares
           b == Budgets
           P == Periods
           C == Capacity
           Cu == [j \in S |-> C * u[j]]
           Pb == [j \in S |-> P * b[j]]
<1>1. /\ GoodServers /\ IsFiniteSet(S) /\ P \in Nat \ {0} /\ C \in Nat
      /\ availableCapacity \in Nat
  BY SimInvFields, SharesGood, InputAssumption DEF SimTypeOK
<1>2. ASSUME NEW j \in S
      PROVE  /\ u[j] \in Nat /\ b[j] \in Nat \ {0}
             /\ Cu[j] = C * u[j] /\ Pb[j] = P * b[j]
             /\ Cu[j] \in Nat /\ Pb[j] \in Nat /\ Cu[j] <= Pb[j]
  <2> DEFINE T == servers[j].period
  <2>1. /\ T \in Nat \ {0} /\ b[j] \in Nat \ {0} /\ u[j] \in Nat
        /\ u[j] * T = P * b[j] /\ C <= T
    BY <1>1, ServerFields, SharesGood DEF Budgets, ShareOf, GoodServers, GoodServer
  <2>2. /\ Cu[j] = C * u[j] /\ Pb[j] = P * b[j]
    OBVIOUS
  <2> HIDE DEF T, S, u, b, P, C, Cu, Pb
  <2>3. T - C \in Nat
    BY <1>1, <2>1
  <2>4. u[j] * (T - C) >= 0
    BY <2>1, <2>3
  <2>5. C * u[j] <= u[j] * T
    BY <1>1, <2>1, <2>4
  <2>6. C * u[j] \in Nat /\ P * b[j] \in Nat
    BY <1>1, <2>1
  <2> QED
    BY <2>1, <2>2, <2>5, <2>6
<1>3. SumFunctionOnSet(b, S) + availableCapacity = C
  BY DEF CapacitySpent
<1> HIDE DEF S, u, b, P, C, Cu, Pb
<1>4. /\ SumFunctionOnSet(u, S) \in Nat /\ SumFunctionOnSet(b, S) \in Nat
      /\ \A j \in S : b[j] <= SumFunctionOnSet(b, S)
  <2>1. \A j \in S : b[j] \in Nat
    BY <1>2
  <2>2. \A j \in S : u[j] \in Nat
    BY <1>2
  <2> QED
    BY <1>1, <2>1, <2>2, SumNonNegative
<1>5. SumFunctionOnSet(u, S) <= P
  <2>1. CASE C = 0
    <3>1. S = {}
      <4> SUFFICES ASSUME NEW j \in S PROVE FALSE
        OBVIOUS
      <4>1. b[j] \in Nat \ {0}
        BY <1>2
      <4>2. SumFunctionOnSet(b, S) <= 0
        BY <1>1, <1>3, <1>4, <2>1
      <4>3. b[j] <= SumFunctionOnSet(b, S)
        BY <1>4
      <4> QED
        BY <1>4, <4>1, <4>2, <4>3
    <3>2. SumFunctionOnSet(u, S) = 0
      BY <3>1, SumEmpty
    <3> QED
      BY <1>1, <3>2
  <2>2. CASE C # 0
    <3>1. SumFunctionOnSet(Cu, S) = C * SumFunctionOnSet(u, S)
      <4>1. C \in Int /\ \A j \in S : u[j] \in Int /\ Cu[j] = C * u[j]
        BY <1>1, <1>2
      <4> QED
        BY <1>1, <4>1, SumScaled
    <3>2. SumFunctionOnSet(Pb, S) = P * SumFunctionOnSet(b, S)
      <4>1. P \in Int /\ \A j \in S : b[j] \in Int /\ Pb[j] = P * b[j]
        BY <1>1, <1>2
      <4> QED
        BY <1>1, <4>1, SumScaled
    <3>3. SumFunctionOnSet(Cu, S) <= SumFunctionOnSet(Pb, S)
      <4>1. \A j \in S : Cu[j] \in Int /\ Pb[j] \in Int /\ Cu[j] <= Pb[j]
        BY <1>2
      <4> QED
        BY <1>1, <4>1, SumMonotone
    <3> DEFINE x == SumFunctionOnSet(u, S)
               y == SumFunctionOnSet(b, S)
    <3>4. x \in Nat /\ y \in Nat /\ y <= C /\ C * x <= P * y
      BY <1>1, <1>3, <1>4, <3>1, <3>2, <3>3
    <3> HIDE DEF x, y
    <3>5. P * y <= P * C
      <4>1. C - y \in Nat
        BY <1>1, <3>4
      <4>2. P * (C - y) >= 0
        BY <1>1, <4>1
      <4> QED
        BY <1>1, <3>4, <4>2
    <3>6. P * C >= x * C
      BY <1>1, <3>4, <3>5
    <3>7. P >= x
      BY <1>1, <2>2, <3>4, <3>6, Cancel
    <3> QED
      BY <3>7 DEF x
  <2> QED
    BY <2>1, <2>2
<1> QED
  BY <1>5 DEF Schedulable, u, S, P

(* What IsAvailableCapacity admits is schedulable, where no period is      *)
(* shorter than the capacity.                                              *)
THEOREM AdmissionCorrect == SimSpec => []AdmissionSafe
<1>1. SimInit => CapacitySpent
  <2> SUFFICES ASSUME SimInit PROVE CapacitySpent
    OBVIOUS
  <2>1. DOMAIN servers = {} /\ availableCapacity = Capacity
    BY DEF SimInit
  <2>2. SumFunctionOnSet(Budgets, DOMAIN servers) = 0
    BY <2>1, SumEmpty
  <2> QED
    BY <2>1, <2>2, InputAssumption DEF CapacitySpent
<1> QED
  BY InitGood, StepGood, SpentStep, AdmittedFits, <1>1, PTL DEF SimSpec

-----------------------------------------------------------------------------
(* The entries of a record, and the events handled, of some kinds.         *)
EntriesIn(q, R) == {k \in DOMAIN q : q[k] \in R}

(* The entries for a job that arrived at t, for the end of a job, and for  *)
(* a unit of work.                                                         *)
NewAt(t) == {e \in RunData : e.action = "NewJob" /\ e.time = t}
Ends == {e \in RunData : e.action = "JobEnd"}
Units == {e \in RunData : e.action \in {"Work", "JobEnd"}}

(* The events handled so far, those of a vCPU, and their work.             *)
Handled(E) == {k \in 1..i : events[k] \in E}
EventsOf(name) == {ev \in SimulationEvents : ev.vCpuName = name}
EventsAt(name, t) == {ev \in EventsOf(name) : ev.arrivalTime = t}
RequiredBy(S) == [k \in S |-> events[k].requiredProcessingTime]
WorkOfEvents(S) == SumFunctionOnSet(RequiredBy(S), S)
WorkLeft(b) == SumFunctionOnSet(b, DOMAIN b)

(* The books of one vCPU balance: every event handled has been recorded as *)
(* a new job at its time, every job has ended or is in the backlog, and    *)
(* every unit of work has been done or is in the backlog.                  *)
BookKept(name) ==
    LET q == runTimes[name]
        b == Backlog[name]
    IN  /\ \A t \in Nat : Cardinality(EntriesIn(q, NewAt(t)))
                            = Cardinality(Handled(EventsAt(name, t)))
        /\ Cardinality(EntriesIn(q, Ends)) + Len(b) = Cardinality(Handled(EventsOf(name)))
        /\ Cardinality(EntriesIn(q, Units)) + WorkLeft(b)
             = WorkOfEvents(Handled(EventsOf(name)))

(* The books of every vCPU that has a server balance.                      *)
BooksKept == \A j \in DOMAIN servers : BookKept(servers[j].cpu)

(* There is a record for every vCPU, empty until the servers are           *)
(* registered.                                                             *)
RunsFit ==
    /\ \A j \in DOMAIN vcpus : vcpus[j].name \in DOMAIN runTimes
    /\ \A j \in DOMAIN servers : servers[j].cpu \in DOMAIN runTimes
    /\ at = "register" => \A name \in DOMAIN runTimes : runTimes[name] = << >>

(* The loop ends when all events are handled and all servers are idle.     *)
Ended == at = "done" => i >= count /\ \A j \in DOMAIN servers : servers[j].state = IDLE

(* The inductive invariant from which ArrivalsOnTime and AllWorkDone       *)
(* follow.                                                                 *)
LedgerInv == SimInv /\ OnTime /\ RunsFit /\ Ended /\ BooksKept

(* One more entry in a record.                                             *)
LEMMA EntryAdded ==
    ASSUME NEW q \in Seq(RunData), NEW e \in RunData, NEW R
    PROVE  /\ Cardinality(EntriesIn(q, R)) \in Nat
           /\ Cardinality(EntriesIn(Append(q, e), R))
                = Cardinality(EntriesIn(q, R)) + IF e \in R THEN 1 ELSE 0
<1> DEFINE n == Len(q) + 1
           r == Append(q, e)
           A == EntriesIn(q, R)
           B == EntriesIn(r, R)
<1>1. /\ n \in Nat /\ DOMAIN q = 1..(n - 1) /\ DOMAIN r = 1..n
      /\ r[n] = e /\ \A k \in 1..(n - 1) : r[k] = q[k]
  OBVIOUS
<1>2. IsFiniteSet(A) /\ Cardinality(A) \in Nat
  <2>1. IsFiniteSet(1..(n - 1)) /\ A \subseteq 1..(n - 1)
    BY <1>1, FS_Interval DEF EntriesIn
  <2> HIDE DEF A
  <2> QED
    BY <2>1, FS_Subset, FS_CardinalityType
<1>3. B = (IF e \in R THEN A \cup {n} ELSE A) /\ n \notin A
  <2>1. 1..n = 1..(n - 1) \cup {n} /\ n \notin 1..(n - 1)
    BY <1>1
  <2> HIDE DEF n, r
  <2> QED
    BY <1>1, <2>1 DEF EntriesIn
<1> HIDE DEF n, A, B
<1>4. Cardinality(A \cup {n}) = Cardinality(A) + 1
  BY <1>2, <1>3, FS_AddElement
<1>5. Cardinality(B) = Cardinality(A) + IF e \in R THEN 1 ELSE 0
  BY <1>2, <1>3, <1>4
<1> QED
  BY <1>2, <1>5 DEF A, B

(* One more event handled.                                                 *)
LEMMA EventHandled ==
    ASSUME SimInv, i < count, i' = i + 1, UNCHANGED events, NEW E
    PROVE  /\ IsFiniteSet(Handled(E)) /\ Cardinality(Handled(E)) \in Nat
           /\ i + 1 \notin Handled(E)
           /\ Handled(E)' = IF events[i + 1] \in E THEN Handled(E) \cup {i + 1}
                                                   ELSE Handled(E)
           /\ Cardinality(Handled(E)') =
                Cardinality(Handled(E)) + IF events[i + 1] \in E THEN 1 ELSE 0
<1> DEFINE A == Handled(E)
           B == Handled(E)'
           n == i + 1
<1>1. i \in Nat
  BY SimInvFields
<1>2. IsFiniteSet(A) /\ Cardinality(A) \in Nat
  <2>1. IsFiniteSet(1..i) /\ A \subseteq 1..i
    BY <1>1, FS_Interval DEF Handled
  <2> HIDE DEF A
  <2> QED
    BY <2>1, FS_Subset, FS_CardinalityType
<1>3. B = (IF events[n] \in E THEN A \cup {n} ELSE A) /\ n \notin A
  <2>1. 1..n = 1..i \cup {n} /\ n \notin 1..i
    BY <1>1
  <2>2. B = {k \in 1..n : events[k] \in E} /\ A = {k \in 1..i : events[k] \in E}
    BY DEF Handled
  <2> HIDE DEF n, A, B
  <2> QED
    BY <1>1, <2>1, <2>2
<1> HIDE DEF n, A, B
<1>4. Cardinality(A \cup {n}) = Cardinality(A) + 1
  BY <1>2, <1>3, FS_AddElement
<1>5. Cardinality(B) = Cardinality(A) + IF events[n] \in E THEN 1 ELSE 0
  BY <1>2, <1>3, <1>4
<1> QED
  BY <1>2, <1>3, <1>5 DEF A, B, n

(* A step that touches neither the record nor the backlog of a vCPU.       *)
LEMMA BookUnchanged ==
    ASSUME NEW name, runTimes'[name] = runTimes[name], Backlog'[name] = Backlog[name],
           UNCHANGED events, \A E \in SUBSET EventsOf(name) : Handled(E)' = Handled(E),
           BookKept(name)
    PROVE  BookKept(name)'
<1>1. \A t \in Nat : EventsAt(name, t) \in SUBSET EventsOf(name)
  BY DEF EventsAt
<1>2. /\ Handled(EventsOf(name))' = Handled(EventsOf(name))
      /\ \A t \in Nat : Handled(EventsAt(name, t))' = Handled(EventsAt(name, t))
  BY <1>1
<1>3. WorkOfEvents(Handled(EventsOf(name)))' = WorkOfEvents(Handled(EventsOf(name)))
  BY <1>2 DEF WorkOfEvents, RequiredBy
<1> QED
  BY <1>2, <1>3 DEF BookKept

(* The backlog of a server's vCPU, empty when all servers are idle.        *)
LEMMA BacklogType ==
    ASSUME SimInv, NEW j \in DOMAIN servers
    PROVE  /\ servers[j].cpu \in AllNames
           /\ Backlog[servers[j].cpu] \in Seq(Nat)
           /\ (\A k \in DOMAIN servers : servers[k].state = IDLE)
                => Backlog[servers[j].cpu] = << >>
<1> DEFINE name == servers[j].cpu
           m == Min(Mine(name))
<1>1. GoodServers /\ FromInput
  BY SimInvFields
<1>2. j \in Mine(name) /\ name \in AllNames
  BY <1>1 DEF Mine, FromInput
<1>3. m \in DOMAIN servers
  BY <1>1, <1>2, FirstOfMine DEF GoodServers
<1>4. Backlog[name] = WorkOf(servers[m])
  BY <1>2 DEF Backlog, WorkOf, Mine
<1>5. GoodServer(servers[m]) /\ servers[m] \in Servers
  BY <1>1, <1>3 DEF GoodServers, GoodServer
<1> HIDE DEF m
<1>6. WorkOf(servers[m]) \in Seq(Nat)
  <2>1. servers[m].workTime \in Nat /\ servers[m].jobs \in Seq(Nat)
    BY <1>5, ServerFields
  <2>2. <<servers[m].workTime>> \in Seq(Nat) /\ << >> \in Seq(Nat)
    BY <2>1
  <2>3. \A a, b \in Seq(Nat) : a \o b \in Seq(Nat)
    OBVIOUS
  <2> QED
    BY <2>1, <2>2, <2>3, Zenon DEF WorkOf
<1>7. servers[m].state = IDLE => WorkOf(servers[m]) = << >>
  BY <1>5, StateAssumption DEF GoodServer, WorkOf
<1> QED
  BY <1>2, <1>3, <1>4, <1>6, <1>7

(* Until the first event is handled the books are empty.                   *)
LEMMA EmptyBooks ==
    SimInv /\ OnTime /\ RunsFit /\ at = "register" => BooksKept
<1> SUFFICES ASSUME SimInv, OnTime, RunsFit, at = "register", NEW j \in DOMAIN servers
             PROVE  BookKept(servers[j].cpu)
  BY DEF BooksKept
<1> DEFINE name == servers[j].cpu
<1>1. i = 0 /\ runTimes[name] = << >> /\ Backlog[name] = << >>
  BY BacklogType DEF OnTime, RunsFit
<1>2. \A E : Handled(E) = {}
  BY <1>1 DEF Handled
<1>3. \A R : EntriesIn(<< >>, R) = {}
  BY DEF EntriesIn
<1>4. WorkLeft(<< >>) = 0 /\ WorkOfEvents({}) = 0
  BY SumEmpty DEF WorkLeft, WorkOfEvents
<1>5. Cardinality({}) = 0 /\ Len(<< >>) = 0
  BY FS_EmptySet
<1>6. \A t \in Nat : Cardinality(EntriesIn(<< >>, NewAt(t)))
                     = Cardinality(Handled(EventsAt(name, t)))
  BY <1>2, <1>3
<1>7. Cardinality(EntriesIn(<< >>, Ends)) + Len(<< >>) = Cardinality(Handled(EventsOf(name)))
  <2>1. Cardinality(EntriesIn(<< >>, Ends)) = 0
    BY <1>3, <1>5
  <2>2. Cardinality(Handled(EventsOf(name))) = 0
    BY <1>2, <1>5
  <2> QED
    BY <1>5, <2>1, <2>2
<1>8. Cardinality(EntriesIn(<< >>, Units)) + WorkLeft(<< >>)
        = WorkOfEvents(Handled(EventsOf(name)))
  BY <1>2, <1>3, <1>4, <1>5
<1> HIDE DEF name
<1> QED
  BY <1>1, <1>6, <1>7, <1>8 DEF BookKept, name

(* No step removes a record.                                               *)
LEMMA RunsFitStep ==
    ASSUME SimInv, RunsFit, [SimNext]_simvars
    PROVE  RunsFit'
<1>0. /\ GoodServers /\ currentTime \in Nat /\ vcpus \in Seq(VCpus)
      /\ servers \in Seq(Servers)
  BY SimInvFields DEF SimTypeOK, GoodServers
<1>1. DOMAIN runTimes' = DOMAIN runTimes
  BY DEF SimNext, simvars, RegisterVCPU, Sort, Arrive, DropEvent, Idle, IdleAtEnd, Work,
         InsertRunEvent
<1>2. CASE RegisterVCPU
  <2> DEFINE v == Head(vcpus)
             s == NewServer(v)
  <2>1. /\ v \in VCpus /\ v.name \in DOMAIN runTimes
        /\ \A j \in DOMAIN vcpus' : vcpus'[j].name \in DOMAIN runTimes
    <3>1. vcpus # << >> /\ vcpus' = Tail(vcpus)
      BY <1>2 DEF RegisterVCPU
    <3>2. v \in VCpus /\ v = vcpus[1] /\ 1 \in DOMAIN vcpus
      BY <1>0, <3>1
    <3>3. \A j \in DOMAIN vcpus' : j + 1 \in DOMAIN vcpus /\ vcpus'[j] = vcpus[j + 1]
      BY <1>0, <3>1
    <3> QED
      BY <3>2, <3>3 DEF RunsFit
  <2>2. servers' = servers \/ servers' = Append(servers, s)
    BY <1>2 DEF RegisterVCPU
  <2>3. s.cpu = v.name /\ UNCHANGED <<at, runTimes>>
    BY <1>2, <2>1, NewServerGood DEF RegisterVCPU
  <2> HIDE DEF s, v
  <2>4. \A j \in DOMAIN servers' : servers'[j].cpu \in DOMAIN runTimes
    BY <1>0, <2>1, <2>2, <2>3 DEF RunsFit
  <2> QED
    BY <2>1, <2>3, <2>4 DEF RunsFit
<1>3. CASE Arrive \/ Work
  <2>1. PICK j \in DOMAIN servers : \E r :
           r.cpu = servers[j].cpu /\ servers' = [servers EXCEPT ![j] = r]
    BY <1>3, OneServerMoves
  <2>2. \A k \in DOMAIN servers' : servers'[k].cpu \in DOMAIN runTimes
    BY <2>1 DEF RunsFit
  <2>3. UNCHANGED vcpus /\ at' \in {"done", "arrivals"}
    BY <1>3 DEF Arrive, Work
  <2> QED
    BY <1>1, <2>2, <2>3 DEF RunsFit
<1>6. CASE Sort \/ DropEvent \/ Idle \/ IdleAtEnd \/ UNCHANGED simvars
  <2>1. /\ UNCHANGED <<servers, runTimes, vcpus>>
        /\ at' = "register" => at = "register"
    BY <1>6 DEF Sort, DropEvent, Idle, IdleAtEnd, simvars
  <2> QED
    BY <2>1 DEF RunsFit
<1> QED
  BY <1>2, <1>3, <1>6 DEF SimNext

(* Nothing happens after the end.                                          *)
LEMMA EndedStep ==
    ASSUME SimInv, Ended, [SimNext]_simvars
    PROVE  Ended'
<1>0. GoodServers /\ SimInv'
  BY SimInvFields, StepGood
<1>1. CASE Work
  <2>1. UNCHANGED <<i, events>> /\ (at' = "done" => Finished(servers'))
    BY <1>1 DEF Work
  <2>2. \A j \in DOMAIN servers' : servers'[j].state \in {IDLE, ACTIVE}
    <3>1. servers' \in Seq(Servers)
      BY <1>0 DEF SimInv, SimTypeOK
    <3>2. \A j \in DOMAIN servers' : servers'[j] \in Servers
      BY <3>1
    <3> QED
      BY <3>2, ServerFields
  <2> QED
    BY <2>1, <2>2 DEF Ended, Finished, count
<1>2. CASE at' # "done"
  BY <1>2 DEF Ended
<1>3. CASE UNCHANGED simvars
  BY <1>3 DEF simvars, Ended, count
<1> QED
  BY <1>1, <1>2, <1>3 DEF SimNext, RegisterVCPU, Sort, Arrive, DropEvent, Idle, IdleAtEnd

(* An arrival enters one more job in one book. *)
LEMMA ArriveBooks ==
    ASSUME SimInv, OnTime, Arrive, NEW name \in AllNames, BookKept(name),
           name \in DOMAIN runTimes, Backlog[name] \in Seq(Nat)
    PROVE  BookKept(name)'
<1> DEFINE event == events[i + 1]
           work  == event.requiredProcessingTime
           q     == runTimes[name]
           b     == Backlog[name]
           e     == [time |-> currentTime, action |-> "NewJob"]
<1>1. /\ BookKept(name) /\ name \in AllNames /\ b \in Seq(Nat) /\ name \in DOMAIN runTimes
  OBVIOUS
<1>2. i < count /\ i' = i + 1 /\ UNCHANGED <<events, currentTime>>
      /\ runTimes' = [runTimes EXCEPT ![event.vCpuName] = Append(@, e)]
  BY DEF Arrive, Due, InsertRunEvent
<1>3. /\ event.vCpuName \in AllNames
      /\ Backlog' = [Backlog EXCEPT ![event.vCpuName] = Append(@, work)]
      /\ DOMAIN Backlog = AllNames
  BY ArriveGood DEF Backlog
<1>4. /\ event \in SimulationEvents /\ event.arrivalTime = currentTime
      /\ currentTime \in Nat /\ work \in Nat
  <2>1. i + 1 \in DOMAIN events /\ events \in Seq(SimulationEvents)
    BY <1>2, SimInvFields
  <2>2. event \in SimulationEvents
    BY <2>1
  <2> QED
    BY <2>2, EventOnTime, SimInvFields DEF SimulationEvents
<1>5. q \in Seq(RunData) /\ e \in RunData
  <2>1. runTimes \in [DOMAIN runTimes -> Seq(RunData)]
    BY SimInvFields DEF SimTypeOK
  <2> QED
    BY <1>1, <1>4, <2>1 DEF RunData
<1>6. CASE name # event.vCpuName
  <2>1. runTimes'[name] = runTimes[name] /\ Backlog'[name] = Backlog[name]
    BY <1>1, <1>2, <1>3, <1>6
  <2>2. \A E \in SUBSET EventsOf(name) : Handled(E)' = Handled(E)
    <3> SUFFICES ASSUME NEW E \in SUBSET EventsOf(name) PROVE Handled(E)' = Handled(E)
      OBVIOUS
    <3>1. event \notin E
      BY <1>6 DEF EventsOf
    <3> QED
      BY <1>2, <3>1, EventHandled
  <2> QED
    BY <1>1, <1>2, <2>1, <2>2, BookUnchanged
<1>7. CASE name = event.vCpuName
  <2> DEFINE H == Handled(EventsOf(name))
             n == i + 1
  <2>1. runTimes'[name] = Append(q, e) /\ Backlog'[name] = Append(b, work)
    BY <1>1, <1>2, <1>3, <1>7
  <2>2. \A R : /\ Cardinality(EntriesIn(q, R)) \in Nat
               /\ Cardinality(EntriesIn(Append(q, e), R))
                    = Cardinality(EntriesIn(q, R)) + IF e \in R THEN 1 ELSE 0
    BY <1>5, EntryAdded
  <2>3. \A E : /\ Cardinality(Handled(E)) \in Nat
               /\ Cardinality(Handled(E)')
                    = Cardinality(Handled(E)) + IF event \in E THEN 1 ELSE 0
    BY <1>2, EventHandled
  <2>4. e \notin Ends /\ e \notin Units /\ \A t : e \in NewAt(t) <=> t = currentTime
    BY <1>5 DEF Ends, Units, NewAt
  <2>5. event \in EventsOf(name) /\ \A t : event \in EventsAt(name, t) <=> t = currentTime
    BY <1>4, <1>7 DEF EventsOf, EventsAt
  <2>6. WorkOfEvents(H)' = WorkOfEvents(H) + work /\ WorkOfEvents(H) \in Int
    <3> DEFINE f == RequiredBy(H)
               g == RequiredBy(H)'
               S == H \cup {n}
    <3>1. /\ IsFiniteSet(H) /\ n \notin H /\ H' = S
      BY <1>2, <2>5, EventHandled
    <3>2. /\ \A k \in H : f[k] = events[k].requiredProcessingTime
          /\ \A k \in S : g[k] = events[k].requiredProcessingTime
      <4>1. RequiredBy(H)' = [k \in H' |-> events'[k].requiredProcessingTime]
        BY DEF RequiredBy
      <4> HIDE DEF H, S
      <4> QED
        BY <1>2, <3>1, <4>1 DEF RequiredBy
    <3>3. \A k \in S : events[k].requiredProcessingTime \in Nat
      <4>1. \A k \in H : events[k] \in SimulationEvents
        BY DEF Handled, EventsOf
      <4>2. \A k \in S : events[k] \in SimulationEvents
        BY <1>4, <4>1
      <4> QED
        BY <4>2 DEF SimulationEvents
    <3>4. /\ WorkOfEvents(H)' = SumFunctionOnSet(g, S)
          /\ WorkOfEvents(H) = SumFunctionOnSet(f, H)
      BY <3>1 DEF WorkOfEvents
    <3> HIDE DEF f, g, H, n
    <3>5. SumFunctionOnSet(g, S) = g[n] + SumFunctionOnSet(g, S \ {n})
      <4>1. IsFiniteSet(S) /\ n \in S /\ \A k \in S : g[k] \in Int
        BY <3>1, <3>2, <3>3, FS_AddElement
      <4> HIDE DEF S
      <4> QED
        BY <4>1, SumAny
    <3>6. S \ {n} = H
      BY <3>1
    <3>7. SumFunctionOnSet(g, H) = SumFunctionOnSet(f, H)
      <4>1. \A k \in H : f[k] \in Int /\ g[k] = f[k]
        BY <3>2, <3>3
      <4> QED
        BY <3>1, <4>1, SumSame
    <3>8. SumFunctionOnSet(f, H) \in Int
      <4>1. \A k \in H : f[k] \in Int
        BY <3>2, <3>3
      <4> QED
        BY <3>1, <4>1, SumType
    <3>9. g[n] = work
      BY <3>2 DEF n
    <3>10. SumFunctionOnSet(g, S) = work + SumFunctionOnSet(f, H)
      BY <3>5, <3>6, <3>7, <3>9
    <3>11. work \in Int
      BY <1>4
    <3> HIDE DEF S, work, event
    <3>12. work + SumFunctionOnSet(f, H) = SumFunctionOnSet(f, H) + work
      BY <3>8, <3>11
    <3> QED
      BY <3>4, <3>8, <3>10, <3>12
  <2>7. WorkLeft(Append(b, work)) = WorkLeft(b) + work /\ WorkLeft(b) \in Int
    <3>1. \A k \in DOMAIN b : b[k] \in Int
      BY <1>1
    <3>2. IsFiniteSet(DOMAIN b)
      <4>1. DOMAIN b = 1..Len(b) /\ Len(b) \in Nat
        BY <1>1
      <4> QED
        BY <4>1, FS_Interval
    <3> HIDE DEF b, work
    <3> QED
      BY <1>1, <1>4, <3>1, <3>2, SumAppend, SumType DEF WorkLeft
  <2>8. Len(Append(b, work)) = Len(b) + 1 /\ Len(b) \in Nat
    BY <1>1, <1>4
  <2> DEFINE qq == runTimes'[name]
             bb == Backlog'[name]
  <2>9. \A t \in Nat : Cardinality(EntriesIn(qq, NewAt(t)))
                         = Cardinality(Handled(EventsAt(name, t))')
    <3> SUFFICES ASSUME NEW t \in Nat
                 PROVE  Cardinality(EntriesIn(qq, NewAt(t)))
                          = Cardinality(Handled(EventsAt(name, t))')
      OBVIOUS
    <3>1. Cardinality(EntriesIn(q, NewAt(t))) = Cardinality(Handled(EventsAt(name, t)))
      BY <1>1 DEF BookKept
    <3> HIDE DEF q, e, event
    <3> QED
      BY <2>1, <2>2, <2>3, <2>4, <2>5, <3>1
  <2>10. Cardinality(EntriesIn(qq, Ends)) + Len(bb) = Cardinality(H')
    <3>1. Cardinality(EntriesIn(q, Ends)) + Len(b) = Cardinality(H)
      BY <1>1 DEF BookKept
    <3>2. Cardinality(H') = Cardinality(H) + 1 /\ Cardinality(H) \in Nat
      <4> HIDE DEF event
      <4> QED
        BY <2>3, <2>5
    <3> HIDE DEF q, e, event, b, work, H
    <3>3. Cardinality(EntriesIn(qq, Ends)) = Cardinality(EntriesIn(q, Ends))
          /\ Cardinality(EntriesIn(q, Ends)) \in Nat
      BY <2>1, <2>2, <2>4
    <3>4. Len(bb) = Len(b) + 1 /\ Len(b) \in Nat
      BY <2>1, <2>8
    <3> HIDE DEF qq, bb
    <3> QED
      BY <3>1, <3>2, <3>3, <3>4
  <2>11. Cardinality(EntriesIn(qq, Units)) + WorkLeft(bb) = WorkOfEvents(H)'
    <3>1. Cardinality(EntriesIn(q, Units)) + WorkLeft(b) = WorkOfEvents(H)
      BY <1>1 DEF BookKept
    <3> HIDE DEF q, e, event, b, work, H
    <3> QED
      BY <1>4, <2>1, <2>2, <2>4, <2>6, <2>7, <3>1
  <2> QED
    BY <2>9, <2>10, <2>11 DEF BookKept
<1> QED
  BY <1>6, <1>7

(* The first job of a list gets one unit of its work. *)
LEMMA AdvancedWork ==
    ASSUME NEW b \in Seq(Nat), b # << >>, b[1] # 0
    PROVE  /\ WorkLeft(b) \in Int
           /\ WorkLeft(Fifo!Advanced(b)) = WorkLeft(b) - 1
           /\ Len(b) \in Nat
           /\ Len(Fifo!Advanced(b)) = IF b[1] = 1 THEN Len(b) - 1 ELSE Len(b)
<1> DEFINE S == DOMAIN b
           r == [b EXCEPT ![1] = b[1] - 1]
<1>1. S = 1..Len(b) /\ Len(b) \in Nat \ {0} /\ \A k \in S : b[k] \in Nat
  BY EmptySeq
<1>2. 1 \in S /\ b[1] \in Nat \ {0} /\ \A k \in S : b[k] \in Int
  BY <1>1
<1>3. IsFiniteSet(S)
  BY <1>1, FS_Interval
<1>4. WorkLeft(b) \in Int
  BY <1>2, <1>3, SumType DEF WorkLeft
<1>5. CASE b[1] = 1
  <2>1. Fifo!Advanced(b) = Tail(b)
    BY <1>5, Zenon DEF Fifo!Advanced
  <2>2. WorkLeft(b) = b[1] + WorkLeft(Tail(b))
    BY SumTail DEF WorkLeft
  <2>3. Len(Tail(b)) = Len(b) - 1 /\ Tail(b) \in Seq(Nat)
    OBVIOUS
  <2>4. WorkLeft(Tail(b)) \in Int
    <3> DEFINE d == Tail(b)
    <3>1. d \in Seq(Nat)
      BY <2>3
    <3> HIDE DEF d
    <3>2. DOMAIN d = 1..Len(d) /\ Len(d) \in Nat /\ \A x \in DOMAIN d : d[x] \in Int
      BY <3>1
    <3>3. IsFiniteSet(DOMAIN d)
      BY <3>2, FS_Interval
    <3>4. WorkLeft(d) \in Int
      BY <3>2, <3>3, SumType DEF WorkLeft
    <3> QED
      BY <3>4 DEF d
  <2> QED
    BY <1>1, <1>4, <1>5, <2>1, <2>2, <2>3, <2>4
<1>6. CASE b[1] # 1
  <2>1. Fifo!Advanced(b) = r
    BY <1>6 DEF Fifo!Advanced
  <2>2. /\ DOMAIN r = S /\ r[1] = b[1] - 1 /\ \A k \in S \ {1} : r[k] = b[k]
        /\ \A k \in S : r[k] \in Int /\ Len(r) = Len(b)
    BY <1>1, <1>2
  <2> HIDE DEF r, S
  <2>3. SumFunctionOnSet(r, S) = SumFunctionOnSet(b, S) - b[1] + r[1]
    <3>1. \A k \in S : b[k] \in Int /\ r[k] \in Int
      BY <1>2, <2>2
    <3>2. \A k \in S \ {1} : r[k] = b[k]
      BY <2>2
    <3>3. PICK one \in S : one = 1
      BY <1>2
    <3>4. SumFunctionOnSet(r, S) = SumFunctionOnSet(b, S) - b[one] + r[one]
      <4>1. \A k \in S \ {one} : r[k] = b[k]
        BY <3>2, <3>3
      <4> QED
        BY <1>3, <3>1, <4>1, SumChanged
    <3> QED
      BY <3>3, <3>4
  <2>4. WorkLeft(r) = SumFunctionOnSet(r, S) /\ WorkLeft(b) = SumFunctionOnSet(b, S)
    BY <2>2 DEF WorkLeft, S
  <2>5. WorkLeft(r) = WorkLeft(b) - 1
    BY <1>2, <1>4, <2>2, <2>3, <2>4
  <2>6. Len(r) = Len(b)
    BY <1>2, <2>2
  <2> QED
    BY <1>1, <1>4, <1>6, <2>1, <2>5, <2>6
<1> QED
  BY <1>5, <1>6

(* A unit of work leaves the backlog of one book for its record. *)
LEMMA WorkBooks ==
    ASSUME SimInv, Work, NEW name \in AllNames, BookKept(name),
           name \in DOMAIN runTimes, Backlog[name] \in Seq(Nat)
    PROVE  BookKept(name)'
<1> DEFINE s == servers[Active]
           q == runTimes[name]
           b == Backlog[name]
           e == [time |-> currentTime,
                 action |-> IF JobFinished(s) THEN "JobEnd" ELSE "Work"]
<1>1. /\ GoodServers /\ currentTime \in Nat
  BY SimInvFields
<1>2. /\ UNCHANGED <<i, events>>
      /\ runTimes' = [runTimes EXCEPT ![s.cpu] = Append(@, e)]
  BY DEF Work, InsertRunEvent
<1>3. /\ Backlog' = [Backlog EXCEPT ![s.cpu] = Fifo!Advanced(Backlog[s.cpu])]
      /\ Backlog[s.cpu] # << >> /\ Backlog[s.cpu] = WorkOf(s)
      /\ DOMAIN Backlog = AllNames
  BY WorkGood DEF Backlog, Fifo!Serve
<1>4. \A E : Handled(E)' = Handled(E)
  BY <1>2 DEF Handled
<1>5. CASE name # s.cpu
  <2>1. runTimes'[name] = runTimes[name] /\ Backlog'[name] = Backlog[name]
    BY <1>2, <1>3, <1>5
  <2> QED
    BY <1>2, <1>4, <2>1, BookUnchanged
<1>6. CASE name = s.cpu
  <2>1. runTimes'[name] = Append(q, e) /\ Backlog'[name] = Fifo!Advanced(b) /\ b # << >>
    BY <1>2, <1>3, <1>6
  <2>2. q \in Seq(RunData) /\ e \in RunData
    <3>1. runTimes \in [DOMAIN runTimes -> Seq(RunData)]
      BY SimInvFields DEF SimTypeOK
    <3> QED
      BY <1>1, <3>1 DEF RunData
  <2>3. \A R : /\ Cardinality(EntriesIn(q, R)) \in Nat
               /\ Cardinality(EntriesIn(Append(q, e), R))
                    = Cardinality(EntriesIn(q, R)) + IF e \in R THEN 1 ELSE 0
    BY <2>2, EntryAdded
  <2>4. b[1] \in Nat \ {0} /\ (JobFinished(s) <=> b[1] = 1)
    <3>1. s.state = ACTIVE /\ GoodServer(s) /\ s \in Servers
      BY <1>1, ActiveFound DEF Work, GoodServers, GoodServer
    <3>2. s.workTime \in Nat \ {0} /\ s.jobs \in Seq(Nat)
      BY <3>1, ServerFields, StateAssumption DEF GoodServer
    <3>3. b = <<s.workTime>> \o s.jobs
      BY <1>3, <1>6, <3>1 DEF WorkOf
    <3> HIDE DEF s, b
    <3>4. b[1] = s.workTime
      BY <3>2, <3>3
    <3> QED
      BY <3>2, <3>4 DEF JobFinished
  <2>5. /\ e \in Units /\ (e \in Ends <=> b[1] = 1)
        /\ \A t : e \notin NewAt(t)
    BY <2>2, <2>4 DEF Units, Ends, NewAt
  <2>6. /\ WorkLeft(b) \in Int
        /\ WorkLeft(Fifo!Advanced(b)) = WorkLeft(b) - 1
        /\ Len(b) \in Nat
        /\ Len(Fifo!Advanced(b)) = IF b[1] = 1 THEN Len(b) - 1 ELSE Len(b)
    <3> HIDE DEF b
    <3>1. b \in Seq(Nat) /\ b # << >> /\ b[1] # 0
      BY <2>1, <2>4 DEF b
    <3> QED
      BY <3>1, AdvancedWork
  <2> DEFINE qq == runTimes'[name]
             bb == Backlog'[name]
             H == Handled(EventsOf(name))
  <2>7. WorkOfEvents(H)' = WorkOfEvents(H)
    <3>1. H' = H
      BY <1>4
    <3> HIDE DEF H
    <3> QED
      BY <1>2, <3>1 DEF WorkOfEvents, RequiredBy
  <2>8. \A t \in Nat : Cardinality(EntriesIn(qq, NewAt(t)))
                         = Cardinality(Handled(EventsAt(name, t))')
    <3> SUFFICES ASSUME NEW t \in Nat
                 PROVE  Cardinality(EntriesIn(qq, NewAt(t)))
                          = Cardinality(Handled(EventsAt(name, t))')
      OBVIOUS
    <3>1. Cardinality(EntriesIn(q, NewAt(t))) = Cardinality(Handled(EventsAt(name, t)))
      BY DEF BookKept
    <3>2. Cardinality(EntriesIn(q, NewAt(t))) \in Nat
      BY <2>3
    <3> HIDE DEF q, e
    <3> QED
      BY <1>4, <2>1, <2>3, <2>5, <3>1, <3>2
  <2>9. Cardinality(EntriesIn(qq, Ends)) + Len(bb) = Cardinality(H')
    <3>1. Cardinality(EntriesIn(q, Ends)) + Len(b) = Cardinality(H)
      BY DEF BookKept
    <3>2. H' = H
      BY <1>4
    <3> HIDE DEF q, e, b, H
    <3>3. /\ Cardinality(EntriesIn(qq, Ends))
                = Cardinality(EntriesIn(q, Ends)) + IF b[1] = 1 THEN 1 ELSE 0
          /\ Cardinality(EntriesIn(q, Ends)) \in Nat
      BY <2>1, <2>3, <2>5
    <3>4. Len(bb) = (IF b[1] = 1 THEN Len(b) - 1 ELSE Len(b)) /\ Len(b) \in Nat
      BY <2>1, <2>6
    <3> HIDE DEF qq, bb
    <3> QED
      BY <3>1, <3>2, <3>3, <3>4
  <2>10. Cardinality(EntriesIn(qq, Units)) + WorkLeft(bb) = WorkOfEvents(H)'
    <3>1. Cardinality(EntriesIn(q, Units)) + WorkLeft(b) = WorkOfEvents(H)
      BY DEF BookKept
    <3> HIDE DEF q, e, b, H
    <3>2. /\ Cardinality(EntriesIn(qq, Units)) = Cardinality(EntriesIn(q, Units)) + 1
          /\ Cardinality(EntriesIn(q, Units)) \in Nat
      BY <2>1, <2>3, <2>5
    <3>3. WorkLeft(bb) = WorkLeft(b) - 1 /\ WorkLeft(b) \in Int
      BY <2>1, <2>6
    <3> HIDE DEF qq, bb
    <3> QED
      BY <2>7, <3>1, <3>2, <3>3
  <2> QED
    BY <2>8, <2>9, <2>10 DEF BookKept
<1> QED
  BY <1>5, <1>6

(* The invariant is inductive.                                             *)
LEMMA LedgerStep ==
    ASSUME LedgerInv, [SimNext]_simvars
    PROVE  LedgerInv'
<1>0. SimInv /\ OnTime /\ RunsFit /\ Ended /\ BooksKept /\ GoodServers
  BY SimInvFields DEF LedgerInv
<1>1. SimInv' /\ OnTime' /\ RunsFit' /\ Ended'
  BY <1>0, StepGood, OnTimeKept, RunsFitStep, EndedStep
<1>2. \A j \in DOMAIN servers :
         LET name == servers[j].cpu
         IN  /\ name \in AllNames /\ name \in DOMAIN runTimes /\ BookKept(name)
             /\ Backlog[name] \in Seq(Nat)
  BY <1>0, BacklogType DEF RunsFit, BooksKept
<1>3. CASE at' = "register"
  <2>1. (SimInv /\ OnTime /\ RunsFit /\ at = "register" => BooksKept)'
    BY EmptyBooks, PTL
  <2> QED
    BY <1>1, <1>3, <2>1 DEF LedgerInv
<1>4. ASSUME NEW j \in DOMAIN servers, NEW r, r.cpu = servers[j].cpu,
             servers' = [servers EXCEPT ![j] = r],
             \A name \in AllNames : BookKept(name) /\ name \in DOMAIN runTimes
                                    /\ Backlog[name] \in Seq(Nat) => BookKept(name)'
      PROVE  BooksKept'
  <2>1. /\ DOMAIN servers' = DOMAIN servers
        /\ \A k \in DOMAIN servers : servers'[k].cpu = servers[k].cpu
    BY <1>4
  <2>2. \A k \in DOMAIN servers : BookKept(servers[k].cpu)'
    <3> SUFFICES ASSUME NEW k \in DOMAIN servers PROVE BookKept(servers[k].cpu)'
      OBVIOUS
    <3>1. PICK name \in AllNames : name = servers[k].cpu
      BY <1>2
    <3>2. BookKept(name)'
      BY <1>2, <1>4, <3>1
    <3> QED
      BY <2>1, <3>1, <3>2
  <2> QED
    BY <2>1, <2>2 DEF BooksKept
<1>5. CASE Arrive \/ Work
  <2>1. PICK j \in DOMAIN servers : \E r :
           r.cpu = servers[j].cpu /\ servers' = [servers EXCEPT ![j] = r]
    BY <1>0, <1>5, OneServerMoves
  <2>2. \A name \in AllNames : BookKept(name) /\ name \in DOMAIN runTimes
                                /\ Backlog[name] \in Seq(Nat) => BookKept(name)'
    BY <1>0, <1>5, ArriveBooks, WorkBooks
  <2> QED
    BY <1>1, <1>4, <2>1, <2>2 DEF LedgerInv
<1>6. CASE at' # "register" /\ (Sort \/ DropEvent \/ Idle \/ IdleAtEnd \/ UNCHANGED simvars)
  <2>1. UNCHANGED <<servers, runTimes>>
    BY <1>6 DEF Sort, DropEvent, Idle, IdleAtEnd, simvars
  <2>2. UNCHANGED Backlog
    BY <2>1 DEF Backlog
  <2>3. \A j \in DOMAIN servers : \A E \in SUBSET EventsOf(servers[j].cpu) :
           Handled(E)' = Handled(E)
    <3>1. CASE Sort
      <4>1. i = 0 /\ i' = 0
        BY <1>0, <3>1 DEF Sort, OnTime
      <4> QED
        BY <4>1 DEF Handled
    <3>2. CASE DropEvent
      <4> SUFFICES ASSUME NEW j \in DOMAIN servers, NEW E \in SUBSET EventsOf(servers[j].cpu)
                   PROVE  Handled(E)' = Handled(E)
        OBVIOUS
      <4>1. i < count /\ i' = i + 1 /\ UNCHANGED events
        BY <3>2 DEF DropEvent, Due
      <4>2. events[i + 1] \notin E
        BY <3>2 DEF DropEvent, Served, EventsOf
      <4> QED
        BY <1>0, <4>1, <4>2, EventHandled
    <3>3. CASE UNCHANGED <<events, i>>
      BY <3>3 DEF Handled
    <3> QED
      BY <1>6, <3>1, <3>2, <3>3 DEF Idle, IdleAtEnd, simvars
  <2>4. BooksKept'
    <3> SUFFICES ASSUME NEW j \in DOMAIN servers PROVE BookKept(servers[j].cpu)'
      BY <2>1 DEF BooksKept
    <3>1. PICK name \in AllNames : name = servers[j].cpu
      BY <1>2
    <3>2. CASE UNCHANGED events
      <4>1. BookKept(name)'
        BY <1>2, <2>1, <2>2, <2>3, <3>1, <3>2, BookUnchanged
      <4> QED
        BY <2>1, <3>1, <4>1
    <3>3. CASE Sort
      <4>1. i = 0 /\ i' = 0
        BY <1>0, <3>3 DEF Sort, OnTime
      <4>2. \A E : Handled(E) = {} /\ Handled(E)' = {}
        BY <4>1 DEF Handled
      <4>3. WorkOfEvents({})' = WorkOfEvents({})
        BY SumEmpty DEF WorkOfEvents
      <4>4. BookKept(name)'
        BY <1>2, <2>1, <2>2, <3>1, <4>2, <4>3 DEF BookKept
      <4> QED
        BY <2>1, <3>1, <4>4
    <3> QED
      BY <1>6, <3>2, <3>3 DEF DropEvent, Idle, IdleAtEnd, simvars
  <2> QED
    BY <1>1, <2>4 DEF LedgerInv
<1> QED
  BY <1>3, <1>5, <1>6 DEF SimNext, RegisterVCPU

(* The invariant holds at the start.                                       *)
LEMMA LedgerInit == SimInit => LedgerInv
<1> SUFFICES ASSUME SimInit PROVE LedgerInv
  OBVIOUS
<1>1. PICK input \in Inputs : SimInit!(input)
  BY DEF SimInit
<1>2. servers = << >> /\ at = "register" /\ i = 0 /\ currentTime = 0
  BY <1>1
<1>3. RunsFit
  <2>1. DOMAIN runTimes = Names(input) /\ \A name \in DOMAIN runTimes : runTimes[name] = << >>
    BY <1>1
  <2>2. \A j \in DOMAIN vcpus : vcpus[j].name \in DOMAIN runTimes
    BY <1>1, <2>1 DEF Names
  <2> QED
    BY <1>2, <2>1, <2>2 DEF RunsFit
<1> QED
  BY <1>2, <1>3, InitGood DEF LedgerInv, OnTime, Ended, BooksKept

(* The new jobs recorded for a vCPU at a time are the events handled that  *)
(* arrive for it at that time.                                             *)
THEOREM ArrivalsRecorded == SimSpec => []ArrivalsOnTime
<1>1. LedgerInv => ArrivalsOnTime
  <2> SUFFICES ASSUME LedgerInv, NEW j \in DOMAIN servers, NEW t \in 0..currentTime
               PROVE  LET name    == servers[j].cpu
                          handled == {k \in 1..i : events[k].vCpuName = name}
                      IN  Cardinality({k \in Entries(name, {"NewJob"}) :
                                          runTimes[name][k].time = t})
                           = Cardinality({k \in handled : events[k].arrivalTime = t})
    BY DEF ArrivalsOnTime
  <2> DEFINE name == servers[j].cpu
             q    == runTimes[name]
  <2>1. SimInv /\ BookKept(name) /\ name \in DOMAIN runTimes /\ t \in Nat
    BY SimInvFields DEF LedgerInv, BooksKept, RunsFit
  <2>2. q \in Seq(RunData)
    BY <2>1, SimInvFields DEF SimTypeOK
  <2>3. \A k \in DOMAIN q : q[k] \in RunData
    BY <2>2
  <2>4. EntriesIn(q, NewAt(t))
          = {k \in Entries(name, {"NewJob"}) : runTimes[name][k].time = t}
    BY <2>3 DEF EntriesIn, NewAt, Entries
  <2>5. \A k \in 1..i : events[k] \in SimulationEvents
    BY <2>1, SimInvFields
  <2>6. Handled(EventsAt(name, t))
          = {k \in {m \in 1..i : events[m].vCpuName = name} : events[k].arrivalTime = t}
    BY <2>5 DEF Handled, EventsAt, EventsOf
  <2> QED
    BY <2>1, <2>4, <2>6 DEF BookKept
<1> QED
  BY LedgerInit, LedgerStep, <1>1, PTL DEF SimSpec

(* When the loop has ended, every job has ended and every unit of its      *)
(* work has been done.                                                     *)
THEOREM WorkDone == SimSpec => []AllWorkDone
<1>1. LedgerInv => AllWorkDone
  <2> SUFFICES ASSUME LedgerInv, at = "done", NEW j \in DOMAIN servers
               PROVE  LET name == servers[j].cpu
                          mine == {k \in DOMAIN events : events[k].vCpuName = name}
                      IN  /\ Cardinality(Entries(name, {"JobEnd"})) = Cardinality(mine)
                          /\ Cardinality(Entries(name, {"Work", "JobEnd"})) =
                               SumFunctionOnSet(
                                  [k \in mine |-> events[k].requiredProcessingTime], mine)
    BY DEF AllWorkDone
  <2> DEFINE name == servers[j].cpu
             q    == runTimes[name]
             mine == {k \in DOMAIN events : events[k].vCpuName = name}
  <2>1. SimInv /\ BookKept(name) /\ name \in DOMAIN runTimes /\ i = count
    BY SimInvFields DEF LedgerInv, BooksKept, RunsFit, Ended
  <2>2. Backlog[name] = << >>
    BY <2>1, BacklogType DEF LedgerInv, Ended
  <2>3. \A k \in DOMAIN q : q[k] \in RunData
    <3>1. q \in Seq(RunData)
      BY <2>1, SimInvFields DEF SimTypeOK
    <3> QED
      BY <3>1
  <2>4. /\ EntriesIn(q, Ends) = Entries(name, {"JobEnd"})
        /\ EntriesIn(q, Units) = Entries(name, {"Work", "JobEnd"})
    BY <2>3 DEF EntriesIn, Ends, Units, Entries
  <2>5. Handled(EventsOf(name)) = mine
    <3>1. DOMAIN events = 1..i /\ \A k \in 1..i : events[k] \in SimulationEvents
      BY <2>1, SimInvFields
    <3> QED
      BY <3>1 DEF Handled, EventsOf
  <2>6. /\ Cardinality(EntriesIn(q, Ends)) \in Nat /\ Cardinality(EntriesIn(q, Units)) \in Nat
    <3>1. q \in Seq(RunData)
      BY <2>1, SimInvFields DEF SimTypeOK
    <3>2. [time |-> 0, action |-> "Work"] \in RunData
      BY DEF RunData
    <3> HIDE DEF q
    <3> QED
      BY <3>1, <3>2, EntryAdded
  <2>7. Len(<< >>) = 0 /\ WorkLeft(<< >>) = 0
    BY SumEmpty DEF WorkLeft
  <2>8. WorkOfEvents(mine)
          = SumFunctionOnSet([k \in mine |-> events[k].requiredProcessingTime], mine)
    BY DEF WorkOfEvents, RequiredBy
  <2> HIDE DEF mine, q
  <2>9. /\ Cardinality(EntriesIn(q, Ends)) + Len(<< >>) = Cardinality(mine)
        /\ Cardinality(EntriesIn(q, Units)) + WorkLeft(<< >>) = WorkOfEvents(mine)
    BY <2>1, <2>2, <2>5 DEF BookKept, q
  <2>10. Cardinality(EntriesIn(q, Ends)) = Cardinality(mine)
    BY <2>6, <2>7, <2>9
  <2>11. Cardinality(EntriesIn(q, Units)) = WorkOfEvents(mine)
    BY <2>6, <2>7, <2>9
  <2> QED
    BY <2>4, <2>8, <2>10, <2>11 DEF mine
<1> QED
  BY LedgerInit, LedgerStep, <1>1, PTL DEF SimSpec

-----------------------------------------------------------------------------
(* How far the loop of StartSimulation is from its end, or from the idle   *)
(* branch that it never leaves.  What it has still to do:                  *)
(* an event is taken, and before that the clock may be moved to it, and    *)
(* every unit of work takes a step, of the jobs that are waiting and of    *)
(* those still to come.                                                    *)
NamesServed == {servers[j].cpu : j \in DOMAIN servers}
WorkWaiting ==
    SumFunctionOnSet([name \in NamesServed |-> WorkLeft(Backlog[name])], NamesServed)
WorkToCome == WorkOfEvents((i + 1)..count)
LoopLeft ==
    IF at # "arrivals" THEN 0
    ELSE 1 + 2 * (count - i) + WorkToCome + WorkWaiting
           + (IF Due \/ i >= count THEN 0 ELSE 1)

(* The loop has no more to do than when it began. *)
LoopBound ==
    at # "register" => LoopLeft \in 0..(2 + 2 * count + WorkOfEvents(1..count))

(* The work of a backlog is a natural number.                              *)
LEMMA WorkLeftType ==
    ASSUME NEW b \in Seq(Nat)
    PROVE  WorkLeft(b) \in Nat
<1>1. DOMAIN b = 1..Len(b) /\ Len(b) \in Nat /\ \A k \in DOMAIN b : b[k] \in Nat
  OBVIOUS
<1>2. IsFiniteSet(DOMAIN b)
  BY <1>1, FS_Interval
<1> QED
  BY <1>1, <1>2, SumNonNegative DEF WorkLeft

(* There are finitely many servers, and what waits for them is a natural   *)
(* number.                                                                 *)
LEMMA WaitingType ==
    ASSUME SimInv
    PROVE  /\ IsFiniteSet(NamesServed) /\ NamesServed \subseteq AllNames
           /\ \A name \in NamesServed : /\ Backlog[name] \in Seq(Nat)
                                        /\ WorkLeft(Backlog[name]) \in Nat
           /\ WorkWaiting \in Nat
<1>1. IsFiniteSet(NamesServed)
  <2>1. DOMAIN servers = 1..Len(servers) /\ Len(servers) \in Nat
    BY SimInvFields DEF GoodServers
  <2>2. IsFiniteSet(DOMAIN servers)
    BY <2>1, FS_Interval
  <2>3. PICK cpuOf : cpuOf = [j \in DOMAIN servers |-> servers[j].cpu]
    OBVIOUS
  <2>4. cpuOf \in Surjection(DOMAIN servers, NamesServed)
    BY <2>3 DEF Surjection, NamesServed
  <2> QED
    BY <2>2, <2>4, FS_Surjection
<1>2. ASSUME NEW name \in NamesServed
      PROVE  /\ name \in AllNames /\ Backlog[name] \in Seq(Nat)
             /\ WorkLeft(Backlog[name]) \in Nat
  <2>1. PICK j \in DOMAIN servers : name = servers[j].cpu
    BY DEF NamesServed
  <2>2. name \in AllNames /\ Backlog[name] \in Seq(Nat)
    BY <2>1, BacklogType
  <2> QED
    BY <2>2, WorkLeftType
<1>3. WorkWaiting \in Nat
  <2>1. PICK f : f = [name \in NamesServed |-> WorkLeft(Backlog[name])]
    OBVIOUS
  <2>2. \A name \in NamesServed : f[name] \in Nat
    BY <1>2, <2>1
  <2> QED
    BY <1>1, <2>1, <2>2, SumNonNegative DEF WorkWaiting
<1> QED
  BY <1>1, <1>2, <1>3

(* The backlog of one server's vCPU changes. *)
LEMMA WaitingMoves ==
    ASSUME SimInv, NEW name \in NamesServed, NamesServed' = NamesServed,
           NEW b, Backlog' = [Backlog EXCEPT ![name] = b],
           NEW d \in Int, WorkLeft(b) = WorkLeft(Backlog[name]) + d
    PROVE  WorkWaiting' = WorkWaiting + d
<1>1. PICK f : f = [x \in NamesServed |-> WorkLeft(Backlog[x])]
  OBVIOUS
<1>2. PICK g : g = [x \in NamesServed |-> WorkLeft(Backlog'[x])]
  OBVIOUS
<1>3. /\ IsFiniteSet(NamesServed) /\ NamesServed \subseteq AllNames
      /\ \A x \in NamesServed : WorkLeft(Backlog[x]) \in Nat
  BY WaitingType
<1>4. /\ Backlog'[name] = b
      /\ \A x \in NamesServed \ {name} : Backlog'[x] = Backlog[x]
  <2>1. DOMAIN Backlog = AllNames
    BY DEF Backlog
  <2> QED
    BY <1>3, <2>1
<1>5. /\ \A x \in NamesServed : f[x] \in Int /\ g[x] \in Int
      /\ \A x \in NamesServed \ {name} : g[x] = f[x]
      /\ g[name] = f[name] + d
  BY <1>1, <1>2, <1>3, <1>4
<1>6. SumFunctionOnSet(g, NamesServed)
        = SumFunctionOnSet(f, NamesServed) - f[name] + g[name]
  BY <1>3, <1>5, SumChanged
<1>7. SumFunctionOnSet(f, NamesServed) \in Int
  BY <1>3, <1>5, SumType
<1>8. /\ WorkWaiting = SumFunctionOnSet(f, NamesServed)
      /\ WorkWaiting' = SumFunctionOnSet(g, NamesServed)
  <2>1. WorkLeft(Backlog[name])' = WorkLeft(Backlog'[name])
    BY DEF WorkLeft
  <2> QED
    BY <1>1, <1>2 DEF WorkWaiting, WorkLeft
<1> QED
  BY <1>5, <1>6, <1>7, <1>8

(* What is still to come.                                                  *)
LEMMA ToComeType ==
    ASSUME SimInv, NEW k \in 1..(count + 1)
    PROVE  /\ i \in Nat /\ count \in Nat /\ i <= count
           /\ IsFiniteSet(k..count)
           /\ \A n \in k..count : /\ RequiredBy(k..count)[n] \in Nat
                                  /\ events[n].requiredProcessingTime \in Nat
           /\ WorkOfEvents(k..count) \in Nat
<1>1. events \in Seq(SimulationEvents) /\ i \in 0..count /\ count = Len(events)
  BY SimInvFields DEF SimTypeOK, count, SimInv
<1>2. i \in Nat /\ count \in Nat /\ i <= count
  BY <1>1
<1>3. IsFiniteSet(k..count)
  BY <1>2, FS_Interval
<1>4. \A n \in k..count : events[n] \in SimulationEvents
  BY <1>1, <1>2
<1>5. \A n \in k..count : events[n].requiredProcessingTime \in Nat
  BY <1>4 DEF SimulationEvents
<1>6. \A n \in k..count : RequiredBy(k..count)[n] \in Nat
  BY <1>5 DEF RequiredBy
<1>7. WorkOfEvents(k..count) \in Nat
  BY <1>3, <1>6, SumNonNegative DEF WorkOfEvents
<1> QED
  BY <1>2, <1>3, <1>5, <1>6, <1>7

(* An event is taken. *)
LEMMA EventTaken ==
    ASSUME SimInv, i < count, i' = i + 1, UNCHANGED events
    PROVE  /\ WorkToCome = events[i + 1].requiredProcessingTime + WorkToCome'
           /\ WorkToCome \in Nat /\ WorkToCome' \in Nat
           /\ events[i + 1].requiredProcessingTime \in Nat
<1>1. /\ i \in Nat /\ count \in Nat /\ count' = count
      /\ i + 1 \in 1..(count + 1) /\ i + 2 \in 1..(count + 1)
  <2>1. count + 1 \in 1..(count + 1) /\ i \in Nat /\ count \in Nat
    BY SimInvFields DEF SimTypeOK, count, SimInv
  <2> QED
    BY <2>1 DEF count
<1>2. PICK S : S = (i + 1)..count
  OBVIOUS
<1>3. PICK T : T = (i + 2)..count
  OBVIOUS
<1>4. PICK n : n = i + 1
  OBVIOUS
<1>5. /\ IsFiniteSet(S) /\ n \in S /\ S \ {n} = T /\ IsFiniteSet(T)
  <2>1. IsFiniteSet(S) /\ IsFiniteSet(T)
    BY <1>1, <1>2, <1>3, FS_Interval
  <2>2. n \in S /\ S \ {n} = T
    BY <1>1, <1>2, <1>3, <1>4
  <2> QED
    BY <2>1, <2>2
<1>6. PICK f : f = RequiredBy(S)
  OBVIOUS
<1>7. PICK g : g = RequiredBy(T)
  OBVIOUS
<1>8. /\ \A k \in S : f[k] \in Nat /\ f[k] = events[k].requiredProcessingTime
      /\ \A k \in T : g[k] \in Nat /\ g[k] = events[k].requiredProcessingTime
      /\ WorkOfEvents(S) \in Nat /\ WorkOfEvents(T) \in Nat
  <2>1. /\ \A k \in S : RequiredBy(S)[k] \in Nat
        /\ WorkOfEvents(S) \in Nat
    BY <1>1, <1>2, ToComeType
  <2>2. /\ \A k \in T : RequiredBy(T)[k] \in Nat
        /\ WorkOfEvents(T) \in Nat
    BY <1>1, <1>3, ToComeType
  <2> QED
    BY <1>6, <1>7, <2>1, <2>2 DEF RequiredBy
<1>9. SumFunctionOnSet(f, S) = f[n] + SumFunctionOnSet(f, T)
  BY <1>5, <1>8, SumAny
<1>10. SumFunctionOnSet(f, T) = SumFunctionOnSet(g, T)
  <2>1. \A k \in T : f[k] = g[k] /\ f[k] \in Int /\ g[k] \in Int
    BY <1>5, <1>8
  <2> QED
    BY <1>5, <2>1, SumSame
<1>11. WorkOfEvents(S) = SumFunctionOnSet(f, S) /\ WorkOfEvents(T) = SumFunctionOnSet(g, T)
  BY <1>6, <1>7 DEF WorkOfEvents
<1>12. WorkToCome = WorkOfEvents(S)
  BY <1>2 DEF WorkToCome
<1>13. WorkToCome' = WorkOfEvents(T)
  <2>1. (i' + 1)..count' = T
    BY <1>1, <1>3
  <2> QED
    BY <2>1 DEF WorkToCome, WorkOfEvents, RequiredBy
<1> QED
  BY <1>4, <1>5, <1>8, <1>9, <1>10, <1>11, <1>12, <1>13

(* What the loop has to do is a natural number. *)
LEMMA LoopLeftType == SimInv => LoopLeft \in Nat
<1> SUFFICES ASSUME SimInv PROVE LoopLeft \in Nat
  OBVIOUS
<1>1. i \in Nat /\ count \in Nat /\ i <= count
  BY SimInvFields DEF SimTypeOK, count, SimInv
<1>2. i + 1 \in 1..(count + 1)
  BY <1>1
<1>3. WorkToCome \in Nat
  BY <1>2, ToComeType DEF WorkToCome
<1>4. WorkWaiting \in Nat
  BY WaitingType
<1> QED
  BY <1>1, <1>3, <1>4 DEF LoopLeft

(* No server comes or goes in the loop.                                    *)
LEMMA NamesKept ==
    ASSUME SimInv, Arrive \/ Work
    PROVE  NamesServed' = NamesServed
<1>1. PICK j \in DOMAIN servers : \E r :
         r.cpu = servers[j].cpu /\ servers' = [servers EXCEPT ![j] = r]
  BY OneServerMoves
<1>2. /\ DOMAIN servers' = DOMAIN servers
      /\ \A k \in DOMAIN servers : servers'[k].cpu = servers[k].cpu
  BY <1>1
<1> QED
  BY <1>2 DEF NamesServed

(* The server that is worked on has work left. *)
LEMMA BacklogBusy ==
    ASSUME SimInv, Work
    PROVE  /\ Backlog[servers[Active].cpu] # << >>
           /\ Backlog[servers[Active].cpu][1] # 0
<1> DEFINE s == servers[Active]
           b == Backlog[s.cpu]
<1>1. s.state = ACTIVE /\ GoodServer(s) /\ s \in Servers
  BY SimInvFields, ActiveFound DEF Work, GoodServers, GoodServer
<1>2. s.workTime \in Nat \ {0} /\ s.jobs \in Seq(Nat)
  BY <1>1, ServerFields, StateAssumption DEF GoodServer
<1>3. b = <<s.workTime>> \o s.jobs
  BY <1>1, WorkGood DEF WorkOf
<1> HIDE DEF s, b
<1>4. b # << >> /\ b[1] # 0
  BY <1>2, <1>3
<1> QED
  BY <1>4 DEF b, s

(* Each step of the loop leaves less to do.                                *)
LEMMA LoopStep ==
    ASSUME SimInv, OnTime, [SimNext]_simvars, at = "arrivals", ~UNCHANGED simvars
    PROVE  LoopLeft' < LoopLeft
<1>1. /\ i \in Nat /\ count \in Nat /\ i <= count
      /\ WorkToCome \in Nat /\ WorkWaiting \in Nat
  <2>1. i \in Nat /\ count \in Nat /\ i <= count
    BY SimInvFields DEF SimTypeOK, count, SimInv
  <2>2. i + 1 \in 1..(count + 1)
    BY <2>1
  <2> QED
    BY <2>1, <2>2, ToComeType, WaitingType DEF WorkToCome
<1>2. SimInv'
  BY StepGood
<1>3. /\ LoopLeft = 1 + 2 * (count - i) + WorkToCome + WorkWaiting
                      + (IF Due \/ i >= count THEN 0 ELSE 1)
      /\ LoopLeft' = IF at' # "arrivals" THEN 0
                     ELSE 1 + 2 * (count' - i') + WorkToCome' + WorkWaiting'
                            + (IF Due' \/ i' >= count' THEN 0 ELSE 1)
  BY DEF LoopLeft
<1>4. CASE at' # "arrivals"
  BY <1>1, <1>3, <1>4
<1>5. CASE Arrive
  <2> DEFINE event == events[i + 1]
             work  == event.requiredProcessingTime
             name  == event.vCpuName
             b     == Append(Backlog[name], work)
  <2>1. i < count /\ i' = i + 1 /\ UNCHANGED events /\ count' = count
    BY <1>5 DEF Arrive, Due, count
  <2>2. /\ WorkToCome = work + WorkToCome'
        /\ WorkToCome' \in Nat /\ work \in Nat
    BY <2>1, EventTaken
  <2>3. name \in NamesServed /\ NamesServed' = NamesServed
    <3>1. name \in NamesServed
      BY <1>5 DEF Arrive, Served, NamesServed
    <3> QED
      BY <1>5, <3>1, NamesKept
  <2>4. Backlog' = [Backlog EXCEPT ![name] = b]
    BY <1>5, ArriveGood
  <2>5. WorkLeft(b) = WorkLeft(Backlog[name]) + work
    <3>1. Backlog[name] \in Seq(Nat)
      BY <2>3, WaitingType
    <3> HIDE DEF name, work
    <3> QED
      BY <2>2, <3>1, SumAppend DEF WorkLeft
  <2>6. WorkWaiting' = WorkWaiting + work
    <3>1. PICK n, d, c : n = name /\ d = work /\ c = b
      OBVIOUS
    <3>2. /\ n \in NamesServed /\ NamesServed' = NamesServed
          /\ Backlog' = [Backlog EXCEPT ![n] = c]
          /\ d \in Int /\ WorkLeft(c) = WorkLeft(Backlog[n]) + d
      <4> HIDE DEF name, work, b
      <4> QED
        BY <2>2, <2>3, <2>4, <2>5, <3>1
    <3>3. WorkWaiting' = WorkWaiting + d
      BY <3>2, WaitingMoves
    <3> QED
      BY <3>1, <3>3
  <2>7. Due
    BY <1>5 DEF Arrive
  <2>8. PICK d \in Nat : d = work
    BY <2>2
  <2>9. /\ WorkToCome = d + WorkToCome' /\ WorkWaiting' = WorkWaiting + d
        /\ WorkToCome' \in Nat
    <3> HIDE DEF work
    <3> QED
      BY <2>2, <2>6, <2>8
  <2> HIDE DEF event, name, work, b
  <2>10. PICK k \in Nat : count - (i + 1) = k /\ count - i = k + 1
    BY <1>1, <2>1
  <2>11. PICK t, w \in Nat : t = WorkToCome' /\ w = WorkWaiting
    BY <1>1, <2>9
  <2>12. LoopLeft = 1 + 2 * (k + 1) + (d + t) + w
    BY <1>1, <1>3, <2>7, <2>9, <2>10, <2>11
  <2>13. \/ LoopLeft' = 0
         \/ LoopLeft' = 1 + 2 * k + t + (w + d) + 0
         \/ LoopLeft' = 1 + 2 * k + t + (w + d) + 1
    BY <1>1, <1>3, <2>1, <2>9, <2>10, <2>11
  <2> QED
    BY <2>12, <2>13
<1>6. CASE DropEvent
  <2>1. /\ i < count /\ i' = i + 1 /\ UNCHANGED <<events, servers>>
        /\ count' = count /\ Due
    BY <1>6 DEF DropEvent, Due, count
  <2>2. /\ WorkToCome = events[i + 1].requiredProcessingTime + WorkToCome'
        /\ WorkToCome' \in Nat /\ events[i + 1].requiredProcessingTime \in Nat
    BY <2>1, EventTaken
  <2>3. WorkWaiting' = WorkWaiting
    BY <2>1 DEF WorkWaiting, NamesServed, Backlog, WorkLeft
  <2> QED
    BY <1>1, <1>3, <2>1, <2>2, <2>3
<1>7. CASE Idle
  <2>1. /\ i < count /\ UNCHANGED <<i, events, servers>> /\ ~Due
        /\ currentTime' = events[i + 1].arrivalTime /\ count' = count
    BY <1>7 DEF Idle, count
  <2>2. Due'
    <3>1. events[i + 1] \in SimulationEvents
      <4>1. i + 1 \in DOMAIN events /\ events \in Seq(SimulationEvents)
        BY <2>1, SimInvFields
      <4> QED
        BY <4>1
    <3>2. events[i + 1].arrivalTime \in Nat
      BY <3>1 DEF SimulationEvents
    <3> QED
      BY <2>1, <3>2 DEF Due, count
  <2>3. WorkWaiting' = WorkWaiting /\ WorkToCome' = WorkToCome
    BY <2>1 DEF WorkWaiting, NamesServed, Backlog, WorkLeft, WorkToCome,
       WorkOfEvents, RequiredBy
  <2> QED
    BY <1>1, <1>3, <2>1, <2>2, <2>3
<1>8. CASE Work
  <2> DEFINE name == servers[Active].cpu
             b    == Fifo!Advanced(Backlog[name])
  <2>1. UNCHANGED <<i, events>> /\ ~Due /\ count' = count
    BY <1>8 DEF Work, count
  <2>2. WorkToCome' = WorkToCome
    BY <2>1 DEF WorkToCome, WorkOfEvents, RequiredBy
  <2>3. name \in NamesServed /\ NamesServed' = NamesServed
    <3>1. Active \in DOMAIN servers
      BY <1>8, SimInvFields, ActiveFound DEF Work
    <3> QED
      BY <1>8, <3>1, NamesKept DEF NamesServed
  <2>4. Backlog' = [Backlog EXCEPT ![name] = b]
    BY <1>8, WorkGood DEF Fifo!Serve
  <2>5. WorkLeft(b) = WorkLeft(Backlog[name]) + (-1)
    <3>1. Backlog[name] \in Seq(Nat) /\ WorkLeft(Backlog[name]) \in Nat
      BY <2>3, WaitingType
    <3>2. Backlog[name] # << >> /\ Backlog[name][1] # 0
      BY <1>8, BacklogBusy
    <3> HIDE DEF name
    <3> QED
      BY <3>1, <3>2, AdvancedWork
  <2>6. WorkWaiting' = WorkWaiting + (-1)
    <3>1. PICK n, d, c : n = name /\ d = -1 /\ c = b
      OBVIOUS
    <3>2. /\ n \in NamesServed /\ NamesServed' = NamesServed
          /\ Backlog' = [Backlog EXCEPT ![n] = c]
          /\ d \in Int /\ WorkLeft(c) = WorkLeft(Backlog[n]) + d
      <4> HIDE DEF name, b
      <4> QED
        BY <2>3, <2>4, <2>5, <3>1
    <3>3. WorkWaiting' = WorkWaiting + d
      BY <3>2, WaitingMoves
    <3> QED
      BY <3>1, <3>3
  <2> QED
    BY <1>1, <1>3, <2>1, <2>2, <2>6
<1> QED
  BY <1>4, <1>5, <1>6, <1>7, <1>8 DEF SimNext, RegisterVCPU, Sort, IdleAtEnd
(* The work of all events is a natural number. *)
LEMMA AllWorkType == SimInv => count \in Nat /\ WorkOfEvents(1..count) \in Nat
<1> SUFFICES ASSUME SimInv PROVE count \in Nat /\ WorkOfEvents(1..count) \in Nat
  OBVIOUS
<1>1. count \in Nat
  BY SimInvFields DEF SimTypeOK, count, SimInv
<1>2. 1 \in 1..(count + 1)
  BY <1>1
<1> QED
  BY <1>1, <1>2, ToComeType

(* Before the loop begins nothing is waiting. *)
LEMMA NothingWaits ==
    ASSUME SimInv, OnTime, at = "register"
    PROVE  WorkWaiting = 0
<1>1. PICK f : f = [name \in NamesServed |-> WorkLeft(Backlog[name])]
  OBVIOUS
<1>2. ASSUME NEW name \in NamesServed PROVE f[name] = 0
  <2>1. PICK j \in DOMAIN servers : name = servers[j].cpu
    BY DEF NamesServed
  <2>2. Backlog[name] = << >>
    BY <2>1, BacklogType DEF OnTime
  <2>3. WorkLeft(<< >>) = 0
    BY SumEmpty DEF WorkLeft
  <2> QED
    BY <1>1, <2>2, <2>3
<1>3. IsFiniteSet(NamesServed) /\ WorkWaiting = SumFunctionOnSet(f, NamesServed)
  BY <1>1, WaitingType DEF WorkWaiting
<1>4. \A x \in NamesServed : f[x] \in Int /\ f[x] = 0 * f[x]
  BY <1>2
<1>5. SumFunctionOnSet(f, NamesServed) = 0 * SumFunctionOnSet(f, NamesServed)
  BY <1>3, <1>4, SumScaled
<1>6. SumFunctionOnSet(f, NamesServed) \in Int
  BY <1>3, <1>4, SumType
<1> QED
  BY <1>3, <1>5, <1>6

(* The loop never has more to do than when it began.                       *)
LEMMA LoopBoundStep ==
    ASSUME SimInv, OnTime, LoopBound, [SimNext]_simvars
    PROVE  LoopBound'
<1>1. SimInv' /\ LoopLeft \in Nat /\ LoopLeft' \in Nat
  <2>1. SimInv'
    BY StepGood
  <2>2. (SimInv => LoopLeft \in Nat)'
    BY LoopLeftType, PTL
  <2> QED
    BY <2>1, <2>2, LoopLeftType
<1>2. CASE UNCHANGED simvars
  <2>1. UNCHANGED <<LoopLeft, count, WorkOfEvents(1..count)>>
    BY <1>2 DEF simvars, LoopLeft, WorkToCome, WorkWaiting, NamesServed, WorkLeft,
       Backlog, WorkOfEvents, RequiredBy, Due, count
  <2> QED
    BY <1>2, <2>1 DEF LoopBound, simvars
<1>3. CASE at = "arrivals" /\ ~UNCHANGED simvars
  <2>1. LoopLeft' < LoopLeft
    BY <1>3, LoopStep
  <2>2. UNCHANGED events
    BY <1>3 DEF SimNext, RegisterVCPU, Sort, Arrive, DropEvent, Idle, IdleAtEnd, Work
  <2>3. UNCHANGED <<count, WorkOfEvents(1..count)>>
    BY <2>2 DEF count, WorkOfEvents, RequiredBy
  <2>4. count \in Nat /\ WorkOfEvents(1..count) \in Nat
    BY AllWorkType
  <2>5. LoopLeft \in 0..(2 + 2 * count + WorkOfEvents(1..count))
    BY <1>3 DEF LoopBound
  <2>6. PICK m : m = 2 + 2 * count + WorkOfEvents(1..count)
    OBVIOUS
  <2>7. m \in Int /\ LoopLeft' \in 0..m
    BY <1>1, <2>1, <2>4, <2>5, <2>6
  <2>8. 2 + 2 * count' + WorkOfEvents(1..count)' = m
    BY <2>3, <2>6
  <2> QED
    BY <2>7, <2>8 DEF LoopBound
<1>4. CASE Sort
  <2>1. /\ at = "register" /\ at' = "arrivals" /\ i' = 0
        /\ UNCHANGED servers
    BY <1>4 DEF Sort, OnTime
  <2>2. WorkWaiting' = 0
    <3>1. WorkWaiting' = WorkWaiting
      BY <2>1 DEF WorkWaiting, NamesServed, WorkLeft, Backlog
    <3> QED
      BY <2>1, <3>1, NothingWaits
  <2>3. WorkToCome' = WorkOfEvents(1..count)'
    <3>1. WorkToCome' = WorkOfEvents((i + 1)..count)'
      BY DEF WorkToCome
    <3>2. (i' + 1)..count' = 1..count'
      BY <2>1
    <3> QED
      BY <3>1, <3>2 DEF WorkOfEvents, RequiredBy
  <2>4. /\ count' \in Nat
        /\ WorkOfEvents(1..count)' \in Nat
    <3>2. (SimInv => count \in Nat /\ WorkOfEvents(1..count) \in Nat)'
      BY AllWorkType, PTL
    <3> QED
      BY <1>1, <3>2
  <2>5. LoopLeft' = 1 + 2 * (count' - 0) + WorkOfEvents(1..count)' + 0
                      + (IF Due' \/ i' >= count' THEN 0 ELSE 1)
    BY <2>1, <2>2, <2>3 DEF LoopLeft
  <2>6. PICK n, w \in Nat : n = count' /\ w = WorkOfEvents(1..count)'
    BY <2>4
  <2>7. LoopLeft' \in 0..(2 + 2 * n + w)
    BY <1>1, <2>5, <2>6
  <2> QED
    BY <2>6, <2>7 DEF LoopBound
<1>5. CASE RegisterVCPU
  BY <1>5 DEF RegisterVCPU, LoopBound
<1>6. CASE at = "overrun" /\ IdleAtEnd
  <2>1. LoopLeft' = 0
    BY <1>6 DEF IdleAtEnd, LoopLeft
  <2>2. UNCHANGED <<count, WorkOfEvents(1..count)>>
    BY <1>6 DEF IdleAtEnd, count, WorkOfEvents, RequiredBy
  <2>3. count \in Nat /\ WorkOfEvents(1..count) \in Nat
    BY AllWorkType
  <2>4. PICK n, w \in Nat : n = count /\ w = WorkOfEvents(1..count)
    BY <2>3
  <2> QED
    BY <2>1, <2>2, <2>4 DEF LoopBound
<1> QED
  BY <1>2, <1>3, <1>4, <1>5, <1>6
     DEF SimNext, Arrive, DropEvent, Idle, IdleAtEnd, Work

(* The idle branch without an event to wait for: whoever is in it has no   *)
(* job and no event left, and if there has been an event at all, the last  *)
(* one was for no registered vCPU.                                         *)
EndlessIdle ==
    at = "overrun" =>
        /\ Active = 0 /\ i >= count
        /\ events # << >> => Served(events[count]) = {}

(* When the events have been taken, the loop goes on because there is a    *)
(* job, or because the last event was dropped.                             *)
GoesOn ==
    at = "arrivals" /\ i >= count /\ events # << >>
        => Active # 0 \/ Served(events[count]) = {}

(* A server with a job is found. *)
LEMMA BusyFound ==
    SimInv => \A j \in DOMAIN servers : servers[j].state # IDLE => Active # 0
BY ActiveFound, SimInvFields

(* Every step keeps this: a job that arrives last makes its server busy,   *)
(* and the work ends the loop when it leaves none of them busy.            *)
LEMMA EndlessStep ==
    ASSUME SimInv, OnTime, EndlessIdle, GoesOn, [SimNext]_simvars
    PROVE  EndlessIdle' /\ GoesOn'
<1>1. SimInv'
  BY StepGood
<1>2. \A j \in DOMAIN servers' : servers'[j].state # IDLE => Active' # 0
  <2>1. (SimInv => \A j \in DOMAIN servers : servers[j].state # IDLE => Active # 0)'
    BY BusyFound, PTL
  <2> QED
    BY <1>1, <2>1
<1>3. i \in Nat /\ count \in Nat
  BY SimInvFields DEF SimTypeOK, count, SimInv
<1>4. CASE UNCHANGED simvars
  BY <1>4 DEF EndlessIdle, GoesOn, Active, GetServerWithED, Served, count, simvars
<1>5. CASE RegisterVCPU \/ Idle
  <2>1. at' # "overrun" /\ (at' = "arrivals" => i' < count')
    BY <1>5 DEF RegisterVCPU, Idle, count
  <2>2. i' \in Nat /\ count' \in Nat
    BY <1>3, <1>5 DEF RegisterVCPU, Idle, count
  <2> QED
    BY <2>1, <2>2 DEF EndlessIdle, GoesOn
<1>6. CASE Sort
  <2>1. at = "register" /\ at' = "arrivals" /\ i' = 0
    BY <1>6 DEF Sort, OnTime
  <2>2. events' \in Seq(SimulationEvents)
    <3>1. (SimInv => events \in Seq(SimulationEvents))'
      BY SimInvFields, PTL
    <3> QED
      BY <1>1, <3>1
  <2>3. ~(i' >= count' /\ events' # << >>)
    BY <2>1, <2>2 DEF count
  <2> QED
    BY <2>1, <2>3 DEF EndlessIdle, GoesOn
<1>7. CASE Arrive
  <2> DEFINE j == Min(Served(events[i + 1]))
             r == AddJob(servers[j], events[i + 1].requiredProcessingTime,
                         events[i + 1].arrivalTime)
  <2>1. at' = "arrivals" /\ servers' = [servers EXCEPT ![j] = r]
    BY <1>7 DEF Arrive
  <2>2. j \in DOMAIN servers
    <3>1. Served(events[i + 1]) # {} /\ Served(events[i + 1]) \in SUBSET DOMAIN servers
      BY <1>7 DEF Arrive, Served
    <3>2. DOMAIN servers \in SUBSET Nat
      BY SimInvFields
    <3>3. PICK S : S = Served(events[i + 1])
      OBVIOUS
    <3>4. Min(S) \in S
      BY <3>1, <3>2, <3>3, MinIsLeast
    <3> QED
      BY <3>1, <3>3, <3>4
  <2>3. r.state # IDLE
    <3>1. GoodServer(servers[j])
      BY <2>2, SimInvFields DEF GoodServers
    <3> HIDE DEF j
    <3> QED
      BY <3>1, StateAssumption, ServerFields
         DEF AddJob, Queued, AssignJob, GoodServer, Servers
  <2> HIDE DEF r, j
  <2>4. j \in DOMAIN servers' /\ servers'[j] = r
    BY <2>1, <2>2
  <2>5. Active' # 0
    BY <1>2, <2>3, <2>4
  <2> QED
    BY <2>1, <2>5 DEF EndlessIdle, GoesOn
<1>8. CASE DropEvent
  <2>1. /\ at = "arrivals" /\ at' = at /\ i' = i + 1 /\ i < count
        /\ Served(events[i + 1]) = {}
        /\ UNCHANGED <<servers, events>>
    BY <1>8 DEF DropEvent, Due
  <2>2. count' = count
    BY <2>1 DEF count
  <2>3. i' >= count' => i + 1 = count
    BY <1>3, <2>1, <2>2
  <2>4. Served(events[count])' = Served(events[count])
    BY <2>1, <2>2 DEF Served
  <2> QED
    BY <2>1, <2>3, <2>4 DEF EndlessIdle, GoesOn
<1>9. CASE IdleAtEnd
  <2>1. /\ at \in {"arrivals", "overrun"} /\ at' = "overrun"
        /\ Active = 0 /\ i >= count
        /\ UNCHANGED <<servers, events, i>>
    BY <1>9 DEF IdleAtEnd
  <2>2. events # << >> => Served(events[count]) = {}
    BY <2>1 DEF EndlessIdle, GoesOn
  <2>3. count' = count /\ Active' = Active /\ Served(events[count])' = Served(events[count])
    BY <2>1 DEF count, Active, GetServerWithED, Served
  <2> QED
    BY <2>1, <2>2, <2>3 DEF EndlessIdle, GoesOn
<1>10. CASE Work
  <2>1. /\ at' = IF Finished(servers') THEN "done" ELSE "arrivals"
        /\ UNCHANGED <<i, events>>
    BY <1>10 DEF Work
  <2>2. CASE Finished(servers')
    BY <2>1, <2>2 DEF EndlessIdle, GoesOn
  <2>3. CASE ~Finished(servers')
    <3>1. i' >= count' => \E j \in DOMAIN servers' : servers'[j].state = ACTIVE
      BY <2>1, <2>3 DEF Finished, count
    <3>2. i' >= count' => Active' # 0
      BY <1>2, <3>1, StateAssumption
    <3> QED
      BY <2>1, <3>2 DEF EndlessIdle, GoesOn
  <2> QED
    BY <2>2, <2>3
<1> QED
  BY <1>4, <1>5, <1>6, <1>7, <1>8, <1>9, <1>10 DEF SimNext

(* The loop of StartSimulation, whatever the input and the order in which  *)
(* qsort leaves it: with every step it has less to do, so that after at    *)
(* most two steps, two for every event and one for every unit of work it   *)
(* has ended, or it has come to the idle branch that reads behind the last *)
(* event.  That one goes round for ever (the step that it takes there      *)
(* changes nothing that is modelled), and it is reached only when there is *)
(* no event, or when the last one was for no registered vCPU.              *)
(* (See Exits.)                                                            *)
THEOREM LoopProgresses ==
    SimSpec => /\ []LoopBound
               /\ [][at = "arrivals" => LoopLeft' < LoopLeft]_simvars
               /\ []EndlessIdle
               /\ [][at = "overrun" => at' = "overrun"]_simvars
<1>1. SimInit => SimInv /\ OnTime /\ LoopBound /\ EndlessIdle /\ GoesOn
  <2>1. SimInit => at = "register"
    BY DEF SimInit
  <2> QED
    BY <2>1, LedgerInit DEF LedgerInv, LoopBound, EndlessIdle, GoesOn
<1>2. SimInv /\ OnTime /\ LoopBound /\ EndlessIdle /\ GoesOn /\ [SimNext]_simvars
        => SimInv' /\ OnTime' /\ LoopBound' /\ EndlessIdle' /\ GoesOn'
  BY StepGood, OnTimeKept, LoopBoundStep, EndlessStep
<1>3. SimInv /\ OnTime /\ [SimNext]_simvars
        => [at = "arrivals" => LoopLeft' < LoopLeft]_simvars
  BY LoopStep
<1>4. [SimNext]_simvars => [at = "overrun" => at' = "overrun"]_simvars
  BY DEF SimNext, RegisterVCPU, Sort, Arrive, DropEvent, Idle, IdleAtEnd, Work, simvars
<1> QED
  BY <1>1, <1>2, <1>3, <1>4, PTL DEF SimSpec
=============================================================================
