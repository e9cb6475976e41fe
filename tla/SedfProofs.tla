------------------------------ MODULE SedfProofs ------------------------------
(***************************************************************************)
(* The queue discipline of the scheduler on one CPU, for any number of     *)
(* vCPUs, any period, budget and quantum: the type invariant and the       *)
(* places where a vCPU may be linked.                                      *)
(***************************************************************************)
EXTENDS SedfProps, DataProofs

(* An assignment to a C int yields an int. *)
LEMMA CIntType ==
    ASSUME NEW x \in Int
    PROVE  CInt(x) \in -(INT_MAX + 1)..INT_MAX
<1> DEFINE n == 2 * (INT_MAX + 1)
           y == x + INT_MAX + 1
<1>1. n \in Nat \ {0} /\ y \in Int
  BY IntAssumption
<1> HIDE DEF n, y
<1>2. y % n \in 0..(n - 1)
  BY <1>1
<1>3. CInt(x) = (y % n) - INT_MAX - 1
  BY DEF CInt, n, y
<1>4. n - 1 = INT_MAX + INT_MAX + 1
  BY IntAssumption DEF n
<1> QED
  BY <1>1, <1>2, <1>3, <1>4, IntAssumption

(* The truncating division is a division, whatever the signs. *)
LEMMA CDivType ==
    ASSUME NEW x \in Int, NEW y \in Int, y # 0
    PROVE  CDiv(x, y) \in Int
<1>1. Abs(x) \in Int /\ Abs(y) \in Nat \ {0}
  BY DEF Abs
<1>2. Abs(x) \div Abs(y) \in Int
  BY <1>1
<1> QED
  BY <1>2 DEF CDiv

(* The saved next element is another element of the list, or its head. *)
LEMMA NextOfType ==
    ASSUME NEW S, NEW q \in Seq(S), NEW v, OnQ(q, v), NEW h
    PROVE  /\ NextOf(q, v, h) \in S \cup {h}
           /\ NextOf(q, v, h) # h => OnQ(q, NextOf(q, v, h))
           /\ NoDuplicates(q) /\ h # v => NextOf(q, v, h) # v
<1> DEFINE i == CHOOSE k \in 1..Len(q) : q[k] = v
<1>1. i \in 1..Len(q) /\ q[i] = v
  BY DEF OnQ
<1>2. NextOf(q, v, h) = IF i < Len(q) THEN q[i + 1] ELSE h
  BY DEF NextOf
<1> HIDE DEF i
<1>3. i < Len(q) => i + 1 \in 1..Len(q)
  BY <1>1
<1> QED
  BY <1>1, <1>2, <1>3 DEF OnQ, NoDuplicates

-----------------------------------------------------------------------------
(* Where a vCPU may be linked, as it depends on its status and on the      *)
(* progress of do_schedule.                                                *)
Placement ==
    /\ QueuesDisjoint
    /\ CursorOnRunq
    /\ AwakeIffQueued
    /\ ExtraOnlyIfQueued
    /\ ExtraRunWellPlaced
    /\ EdfRunOnRunq

(* The inductive invariant.  The type invariant alone is not inductive:    *)
(* the traversals of update_queues must stay on the list they walk.        *)
QInv == TypeOK /\ Placement

USE DEF Levels, EXTRA_PEN_Q, EXTRA_UTIL_Q

(* The new scheduler state is in place. *)
LEMMA InitPlaced == Init => QInv
<1> SUFFICES ASSUME Init PROVE QInv
  OBVIOUS
<1>0. PICK p \in [Vcpus -> Params] : Init!(p)
  BY DEF Init
<1> DEFINE Fields == [period : Nat \ {0}, slice : Int, extraweight : Nat,
                      period_orig : Nat \ {0}, slice_orig : Int, aware : BOOLEAN]
<1>p. \A v \in Vcpus : p[v] \in Fields
  BY ConstantsAssumption
<1>1. TypeOK
  <2>1. /\ now \in Nat
        /\ stops \in Nat
        /\ current_slice_expires \in Int
        /\ snow \in Nat
        /\ curr \in Vcpus \cup {IDLE}
        /\ cur \in Vcpus \cup {HEAD}
    BY <1>0
  <2>2. /\ softirq \in BOOLEAN
        /\ runnable \in [Vcpus -> BOOLEAN]
        /\ blocked \in [Vcpus -> BOOLEAN]
    BY <1>0, Zenon
  <2>3. pend \in [Vcpus -> SUBSET {"sleep", "wake"}]
    BY <1>0
  <2>4. at \in Points
    BY <1>0 DEF Points
  <2>5. /\ runq \in Seq(Vcpus)
        /\ waitq \in Seq(Vcpus)
        /\ extraq \in [Levels -> Seq(Vcpus)]
    BY <1>0
  <2>6. status \in [Vcpus -> SUBSET StatusBits]
    BY <1>0 DEF StatusBits
  <2>7. /\ deadl_abs \in [Vcpus -> Int]
        /\ sched_start_abs \in [Vcpus -> Nat]
        /\ cputime \in [Vcpus -> Int]
        /\ cbs_current_budget \in [Vcpus -> Int]
        /\ cbs_current_deadline \in [Vcpus -> Int]
    BY <1>0
  <2>8. score \in [Levels -> [Vcpus -> -(INT_MAX + 1)..INT_MAX]]
    BY <1>0, IntAssumption
  <2>9. /\ period \in [Vcpus -> Nat \ {0}]
        /\ period_orig \in [Vcpus -> Nat \ {0}]
        /\ slice \in [Vcpus -> Int]
        /\ slice_orig \in [Vcpus -> Int]
        /\ extraweight \in [Vcpus -> Nat]
    BY <1>0, <1>p
  <2> QED
    BY <2>1, <2>2, <2>3, <2>4, <2>5, <2>6, <2>7, <2>8, <2>9 DEF TypeOK
<1>2. /\ \A v : ~OnQ(runq, v) /\ ~OnQ(waitq, v)
      /\ \A i \in Levels : \A v : ~OnQ(extraq[i], v)
  BY <1>0 DEF OnQ
<1>3. QueuesDisjoint
  BY <1>0, <1>2 DEF QueuesDisjoint, NoDuplicates
<1>4. CursorOnRunq
  BY <1>0 DEF CursorOnRunq
<1>5. \A v \in Vcpus : ~Descheduling(v) /\ ~extra_runs(v) /\ ~sedf_runnable(status, v)
  BY <1>0, ConstantsAssumption
     DEF Descheduling, extra_runs, sedf_runnable, EXTRA_AWARE,
         SEDF_ASLEEP, EXTRA_RUN_PEN, EXTRA_RUN_UTIL
<1>6. AwakeIffQueued /\ ExtraOnlyIfQueued /\ ExtraRunWellPlaced /\ EdfRunOnRunq
  BY <1>2, <1>5
     DEF AwakeIffQueued, ExtraOnlyIfQueued, ExtraRunWellPlaced, EdfRunOnRunq, OnTaskQ
<1> QED
  BY <1>1, <1>3, <1>4, <1>6 DEF QInv, Placement

(* Nothing is out of place after a step that moves no vCPU, marks none and *)
(* deschedules none.                                                       *)
LEMMA SamePlaces ==
    ASSUME QInv,
           UNCHANGED <<runq, waitq, extraq, status>>,
           \A v \in Vcpus : Descheduling(v)' <=> Descheduling(v),
           CursorOnRunq'
    PROVE  Placement'
<1>1. QueuesDisjoint'
  BY DEF QInv, Placement, QueuesDisjoint
<1>2. AwakeIffQueued' /\ EdfRunOnRunq'
  BY DEF QInv, Placement, AwakeIffQueued, EdfRunOnRunq, OnTaskQ,
         sedf_runnable, extra_runs
<1>3. ExtraOnlyIfQueued' /\ ExtraRunWellPlaced'
  BY DEF QInv, Placement, ExtraOnlyIfQueued, ExtraRunWellPlaced, OnTaskQ,
         extra_runs, extra_get_cur_q
<1> QED
  BY <1>1, <1>2, <1>3 DEF Placement

-----------------------------------------------------------------------------
(* The rest of the hypervisor moves no vCPU. *)
LEMMA EnvironmentPlaced == QInv /\ Environment => QInv'
<1> SUFFICES ASSUME QInv, Environment PROVE QInv'
  OBVIOUS
<1>1. UNCHANGED <<curr, current_slice_expires, control, queues, status, account,
                  score, blocked, cbs, params>>
  BY DEF Environment, Tick, TimerFires, Yield, RaiseSchedule, Block, Pause,
         Resume, Drop, Deliver, cpu
<1> DEFINE EnvTypes == /\ now \in Nat
                       /\ runnable \in [Vcpus -> BOOLEAN]
                       /\ stops \in Nat
                       /\ pend \in [Vcpus -> SUBSET {"sleep", "wake"}]
                       /\ softirq \in BOOLEAN
<1>2. EnvTypes'
  <2>1. EnvTypes
    BY DEF QInv, TypeOK
  <2>2. CASE Tick
    BY <2>1, <2>2 DEF Tick, cpu
  <2>3. CASE TimerFires \/ Yield
    BY <2>1, <2>3 DEF TimerFires, Yield, RaiseSchedule
  <2>4. ASSUME NEW v \in Vcpus, Block(v) PROVE EnvTypes'
    BY <2>1, <2>4 DEF Block, RaiseSchedule
  <2>5. ASSUME NEW v \in Vcpus, Pause(v) PROVE EnvTypes'
    BY <2>1, <2>5 DEF Pause, cpu
  <2>6. ASSUME NEW v \in Vcpus, Resume(v) PROVE EnvTypes'
    BY <2>1, <2>6 DEF Resume, cpu
  <2>7. ASSUME NEW v \in Vcpus, Drop(v, "sleep") \/ Drop(v, "wake") PROVE EnvTypes'
    BY <2>1, <2>7 DEF Drop, Deliver, cpu
  <2> QED
    BY <2>2, <2>3, <2>4, <2>5, <2>6, <2>7 DEF Environment
<1>3. TypeOK'
  BY <1>1, <1>2 DEF QInv, TypeOK, control, queues, account, cbs, params
<1>4. Placement'
  BY <1>1, SamePlaces DEF QInv, Placement, Descheduling, CursorOnRunq, control, queues
<1> QED
  BY <1>3, <1>4 DEF QInv

-----------------------------------------------------------------------------
(* The first element of a queue that is not empty. *)
LEMMA HeadElement ==
    ASSUME NEW S, NEW q \in Seq(S), q # << >>
    PROVE  q[1] \in S /\ OnQ(q, q[1])
<1>1. 1 \in 1..Len(q)
  OBVIOUS
<1> QED
  BY <1>1 DEF OnQ

(* cbs_update keeps the types of the server, and of the deadline. *)
LEMMA CbsUpdateType ==
    ASSUME QInv, NEW v \in Vcpus
    PROVE  /\ UpdatedDeadline(v) \in Int
           /\ CbsUpdate(v) => /\ cbs_current_budget' \in [Vcpus -> Int]
                              /\ cbs_current_deadline' \in [Vcpus -> Int]
<1>0. CBS_PERIOD \in Int /\ CBS_MAX_BUDGET \in Int
  BY ConstantsAssumption
<1>1. /\ snow \in Nat
      /\ deadl_abs[v] \in Int
      /\ cbs_current_budget \in [Vcpus -> Int]
      /\ cbs_current_deadline \in [Vcpus -> Int]
  BY DEF QInv, TypeOK
<1>2. UpdatedDeadline(v) \in Int
  BY <1>0, <1>1 DEF UpdatedDeadline
<1>3. ASSUME CbsUpdate(v)
      PROVE  /\ cbs_current_budget' \in [Vcpus -> Int]
             /\ cbs_current_deadline' \in [Vcpus -> Int]
  <2>1. CASE Exhausted(v)
    BY <1>0, <1>1, <1>3, <2>1 DEF CbsUpdate
  <2>2. CASE ~Exhausted(v)
    BY <1>1, <1>3, <2>2 DEF CbsUpdate, cbs
  <2> QED
    BY <2>1, <2>2
<1> QED
  BY <1>2, <1>3

(* do_schedule is called, and charges the head of the runqueue. *)
LEMMA CalledPlaced ==
    QInv /\ (ScheduleCalled \/ ChargeBudget) => QInv'
<1>1. ASSUME QInv, ScheduleCalled PROVE QInv'
  <2>1. TypeOK'
    BY <1>1 DEF QInv, TypeOK, ScheduleCalled, Points, external, queues, account,
                cbs, params
  <2>2. Placement'
    BY <1>1, SamePlaces DEF ScheduleCalled, Descheduling, CursorOnRunq, queues
  <2> QED
    BY <2>1, <2>2 DEF QInv
<1>2. ASSUME QInv, ChargeBudget PROVE QInv'
  <2>1. cbs_current_budget' \in [Vcpus -> Int]
    <3>1. CASE runq = << >>
      BY <1>2, <3>1 DEF QInv, TypeOK, ChargeBudget, HeadPays
    <3>2. CASE runq # << >>
      <4>1. runq[1] \in Vcpus
        BY <1>2, <3>2, HeadElement DEF QInv, TypeOK
      <4>2. /\ cbs_current_budget \in [Vcpus -> Int]
            /\ snow \in Nat
            /\ sched_start_abs[runq[1]] \in Nat
        BY <1>2, <4>1 DEF QInv, TypeOK
      <4>3. cbs_current_budget' = [cbs_current_budget EXCEPT
               ![runq[1]] = @ - (snow - sched_start_abs[runq[1]])]
        <5>1. cbs_current_budget' = HeadPays
          BY <1>2 DEF ChargeBudget
        <5> QED
          BY <3>2, <5>1 DEF HeadPays
      <4> QED
        BY <4>1, <4>2, <4>3
    <3> QED
      BY <3>1, <3>2
  <2>2. at' \in Points /\ (at' = "desched" \/ (at' = "waitq" /\ curr = IDLE))
    <3>0. at' = AfterCharge
      BY <1>2 DEF ChargeBudget
    <3>1. CASE curr = IDLE
      BY <3>0, <3>1 DEF AfterCharge, Points, Locked
    <3>2. CASE curr # IDLE
      BY <3>0, <3>2 DEF AfterCharge, Points, Locked
    <3> QED
      BY <3>1, <3>2
  <2>3. TypeOK'
    BY <1>2, <2>1, <2>2 DEF QInv, TypeOK, ChargeBudget, external, cpu, queues,
                            account, params
  <2>4. Placement'
    BY <1>2, <2>2, SamePlaces, ConstantsAssumption
       DEF ChargeBudget, Descheduling, CursorOnRunq, queues, cpu
  <2> QED
    BY <2>3, <2>4 DEF QInv
<1> QED
  BY <1>1, <1>2

(* The loops of update_queues end, and the division by zero stops all.     *)
LEMMA LoopsEndPlaced ==
    ASSUME QInv, NEW v,
           \/ WaitqDone
           \/ RunqDone
           \/ v \in Vcpus /\ (StopAtRunnable(v) \/ desched_extra_faults(v))
    PROVE  QInv'
<1>1. CASE WaitqDone
  <2>1. cur' \in Vcpus \cup {HEAD} /\ (cur' # HEAD => OnQ(runq', cur'))
    BY <1>1, HeadElement DEF QInv, TypeOK, WaitqDone, FirstOf, queues
  <2>2. /\ deadl_abs' \in [Vcpus -> Int]
        /\ cbs_current_budget' \in [Vcpus -> Int]
        /\ cbs_current_deadline' \in [Vcpus -> Int]
    <3>1. CASE waitq = << >>
      BY <1>1, <3>1 DEF QInv, TypeOK, WaitqDone, cbs
    <3>2. CASE waitq # << >>
      <4>1. waitq[1] \in Vcpus
        BY <3>2, HeadElement DEF QInv, TypeOK
      <4>2. /\ CbsUpdate(waitq[1])
            /\ deadl_abs' = [deadl_abs EXCEPT ![waitq[1]] = UpdatedDeadline(waitq[1])]
        BY <1>1, <3>2 DEF WaitqDone
      <4> QED
        BY <4>1, <4>2, CbsUpdateType DEF QInv, TypeOK
    <3> QED
      BY <3>1, <3>2
  <2>3. TypeOK'
    BY <1>1, <2>1, <2>2
       DEF QInv, TypeOK, WaitqDone, Points, Locked, external, cpu, queues, params
  <2>4. Placement'
    BY <1>1, <2>1, SamePlaces DEF WaitqDone, Descheduling, CursorOnRunq, queues, cpu
  <2> QED
    BY <2>3, <2>4 DEF QInv
<1>2. CASE v \in Vcpus /\ StopAtRunnable(v)
  <2>1. /\ deadl_abs' \in [Vcpus -> Int]
        /\ cbs_current_budget' \in [Vcpus -> Int]
        /\ cbs_current_deadline' \in [Vcpus -> Int]
    BY <1>2, CbsUpdateType DEF QInv, TypeOK, StopAtRunnable, VisitRunq
  <2>2. TypeOK'
    BY <1>2, <2>1 DEF QInv, TypeOK, StopAtRunnable, VisitRunq, Points, Locked,
                      external, cpu, params
  <2>3. Placement'
    BY <1>2, SamePlaces DEF StopAtRunnable, VisitRunq, Descheduling, CursorOnRunq, cpu
  <2> QED
    BY <2>2, <2>3 DEF QInv
<1>3. CASE RunqDone
  <2>1. TypeOK'
    BY <1>3 DEF QInv, TypeOK, RunqDone, Points, Locked, external, cpu, queues,
                account, cbs, params
  <2>2. Placement'
    BY <1>3, SamePlaces DEF RunqDone, Descheduling, CursorOnRunq, queues, cpu
  <2> QED
    BY <2>1, <2>2 DEF QInv
<1>4. CASE v \in Vcpus /\ desched_extra_faults(v)
  <2>1. TypeOK'
    BY <1>4 DEF QInv, TypeOK, desched_extra_faults, Points, external, cpu, queues,
                account, cbs, params
  <2>2. Placement'
    BY <1>4, SamePlaces
       DEF desched_extra_faults, Descheduling, CursorOnRunq, queues, cpu
  <2> QED
    BY <2>1, <2>2 DEF QInv
<1> QED
  BY <1>1, <1>2, <1>3, <1>4

-----------------------------------------------------------------------------
(* The three moves of update_queues between the wait queue and the         *)
(* runqueue: nobody is descheduled while the loops run, and the two queues *)
(* together hold the same vCPUs.                                           *)
LEMMA MovePlaces ==
    ASSUME QInv,
           at \in {"waitq", "runq"},
           UNCHANGED <<at, curr, status, extraq>>,
           NoDuplicates(runq'), NoDuplicates(waitq'),
           \A w \in Vcpus : ~(OnQ(runq', w) /\ OnQ(waitq', w)),
           \A w \in Vcpus : OnTaskQ(w)' <=> OnTaskQ(w),
           CursorOnRunq'
    PROVE  Placement'
<1>1. QueuesDisjoint'
  BY DEF QInv, Placement, QueuesDisjoint
<1>2. \A w \in Vcpus : ~Descheduling(w) /\ ~Descheduling(w)'
  BY DEF Descheduling
<1>3. AwakeIffQueued' /\ EdfRunOnRunq'
  BY <1>2 DEF QInv, Placement, AwakeIffQueued, EdfRunOnRunq, sedf_runnable
<1>4. ExtraOnlyIfQueued'
  BY DEF QInv, Placement, ExtraOnlyIfQueued
<1>5. ExtraRunWellPlaced'
  BY <1>2 DEF QInv, Placement, ExtraRunWellPlaced, extra_runs
<1> QED
  BY <1>1, <1>3, <1>4, <1>5 DEF Placement

(* The vCPU whose period has begun moves from the wait queue to the        *)
(* runqueue and is linked in one of them throughout.                       *)
LEMMA PromotePlaced == QInv /\ PromoteWaiting => QInv'
<1> SUFFICES ASSUME QInv, PromoteWaiting PROVE QInv'
  OBVIOUS
<1> DEFINE v == waitq[1]
<1>1. /\ waitq \in Seq(Vcpus) /\ waitq # << >>
      /\ runq \in Seq(Vcpus)
      /\ deadl_abs \in [Vcpus -> Int]
  BY DEF QInv, TypeOK, PromoteWaiting
<1>2. v \in Vcpus /\ OnQ(waitq, v)
  BY <1>1, HeadElement
<1>3. /\ at = "waitq"
      /\ CbsUpdate(v)
      /\ deadl_abs' = [deadl_abs EXCEPT ![v] = UpdatedDeadline(v)]
      /\ waitq' = DelFromQ(waitq, v)
      /\ runq' = ListInsertSort(runq, v, deadl_abs')
      /\ UNCHANGED <<external, cpu, control, extraq, status, sched_start_abs,
                     cputime, score, blocked, params>>
  BY DEF PromoteWaiting
<1> HIDE DEF v
<1>4. /\ NoDuplicates(runq) /\ NoDuplicates(waitq)
      /\ \A w \in Vcpus : ~(OnQ(runq, w) /\ OnQ(waitq, w))
  BY DEF QInv, Placement, QueuesDisjoint
<1>5. /\ waitq' \in Seq(Vcpus)
      /\ NoDuplicates(waitq')
      /\ ~OnQ(waitq', v)
      /\ \A w : w # v => (OnQ(waitq', w) <=> OnQ(waitq, w))
  BY <1>1, <1>3, <1>4, DelFromQProperties
<1>6. /\ runq' \in Seq(Vcpus)
      /\ NoDuplicates(runq')
      /\ \A w : OnQ(runq', w) <=> w = v \/ OnQ(runq, w)
  BY <1>1, <1>2, <1>3, <1>4, InsertProperties
<1>7. /\ deadl_abs' \in [Vcpus -> Int]
      /\ cbs_current_budget' \in [Vcpus -> Int]
      /\ cbs_current_deadline' \in [Vcpus -> Int]
  BY <1>1, <1>2, <1>3, CbsUpdateType
<1>8. TypeOK'
  BY <1>3, <1>5, <1>6, <1>7 DEF QInv, TypeOK, external, cpu, control, params
<1>9. UNCHANGED <<at, cur, curr, status, extraq>>
  BY <1>3 DEF control, cpu
<1>10. \A w \in Vcpus : ~(OnQ(runq', w) /\ OnQ(waitq', w))
  BY <1>4, <1>5, <1>6
<1>11. \A w \in Vcpus : OnTaskQ(w)' <=> OnTaskQ(w)
  BY <1>2, <1>5, <1>6 DEF OnTaskQ
<1>12. CursorOnRunq'
  BY <1>3, <1>9 DEF CursorOnRunq
<1>13. Placement'
  BY <1>3, <1>5, <1>6, <1>9, <1>10, <1>11, <1>12, MovePlaces
<1> QED
  BY <1>8, <1>13 DEF QInv

(* The traversal has saved the next element before the vCPU it visits is   *)
(* moved.                                                                  *)
LEMMA NextSaved ==
    ASSUME QInv, NEW v \in Vcpus, at = "runq", cur = v
    PROVE  /\ OnQ(runq, v) /\ ~OnQ(waitq, v)
           /\ NextOf(runq, v, HEAD) \in Vcpus \cup {HEAD}
           /\ NextOf(runq, v, HEAD) # HEAD => OnQ(runq, NextOf(runq, v, HEAD))
           /\ NextOf(runq, v, HEAD) # v
<1>1. v # HEAD
  BY ConstantsAssumption
<1>2. OnQ(runq, v) /\ NoDuplicates(runq) /\ ~OnQ(waitq, v) /\ runq \in Seq(Vcpus)
  BY <1>1 DEF QInv, TypeOK, Placement, CursorOnRunq, QueuesDisjoint
<1> QED
  BY <1>1, <1>2, NextOfType

(* SkipEmptySlice and ForgiveMiss to the wait queue: out of one, into the  *)
(* other.                                                                  *)
LEMMA BackToWaitq ==
    ASSUME QInv, NEW v \in Vcpus, VisitRunq(v), NEW key,
           deadl_abs' \in [Vcpus -> Int],
           cputime' \in [Vcpus -> Int],
           runq' = DelFromQ(runq, v),
           waitq' = ListInsertSort(waitq, v, key),
           cur' = NextOf(runq, v, HEAD),
           at' = at
    PROVE  QInv'
<1>1. /\ at = "runq" /\ cur = v /\ CbsUpdate(v)
      /\ UNCHANGED <<external, cpu, snow, extraq, status, sched_start_abs,
                     score, blocked, params>>
  BY DEF VisitRunq
<1>2. /\ OnQ(runq, v) /\ ~OnQ(waitq, v)
      /\ cur' \in Vcpus \cup {HEAD}
      /\ cur' # HEAD => OnQ(runq, cur')
      /\ cur' # v
  BY <1>1, NextSaved
<1>3. /\ NoDuplicates(runq) /\ NoDuplicates(waitq)
      /\ \A w \in Vcpus : ~(OnQ(runq, w) /\ OnQ(waitq, w))
      /\ runq \in Seq(Vcpus) /\ waitq \in Seq(Vcpus)
  BY DEF QInv, TypeOK, Placement, QueuesDisjoint
<1>4. /\ runq' \in Seq(Vcpus)
      /\ NoDuplicates(runq')
      /\ ~OnQ(runq', v)
      /\ \A w : w # v => (OnQ(runq', w) <=> OnQ(runq, w))
  BY <1>3, DelFromQProperties
<1>5. /\ waitq' \in Seq(Vcpus)
      /\ NoDuplicates(waitq')
      /\ \A w : OnQ(waitq', w) <=> w = v \/ OnQ(waitq, w)
  BY <1>2, <1>3, InsertProperties
<1>6. /\ cbs_current_budget' \in [Vcpus -> Int]
      /\ cbs_current_deadline' \in [Vcpus -> Int]
  BY <1>1, CbsUpdateType
<1>7. TypeOK'
  BY <1>1, <1>2, <1>4, <1>5, <1>6 DEF QInv, TypeOK, external, cpu, params
<1>8. \A w \in Vcpus : ~(OnQ(runq', w) /\ OnQ(waitq', w))
  BY <1>3, <1>4, <1>5
<1>9. \A w \in Vcpus : OnTaskQ(w)' <=> OnTaskQ(w)
  BY <1>2, <1>4, <1>5 DEF OnTaskQ
<1>10. CursorOnRunq'
  BY <1>2, <1>4 DEF CursorOnRunq
<1>11. UNCHANGED <<at, curr, status, extraq>>
  BY <1>1 DEF cpu
<1>12. Placement'
  BY <1>1, <1>4, <1>5, <1>8, <1>9, <1>10, <1>11, MovePlaces
<1> QED
  BY <1>7, <1>12 DEF QInv

(* The first period that ends in the future is a whole number of periods   *)
(* away.                                                                   *)
LEMMA NextPeriodType ==
    ASSUME NEW a \in Int, NEW x \in Int, NEW p \in Nat \ {0}
    PROVE  a + DivUp(x, p) * p \in Int
<1>1. (x + p - 1) \div p \in Int
  OBVIOUS
<1> QED
  BY <1>1 DEF DivUp

(* A vCPU without a slice goes back to the wait queue, and the traversal   *)
(* goes on from an element that is still on the runqueue.                  *)
LEMMA SkipPlaced ==
    ASSUME QInv, NEW v \in Vcpus, SkipEmptySlice(v)
    PROVE  QInv'
<1> DEFINE dl    == UpdatedDeadline(v)
           begin == dl - period[v]
           new   == IF begin < snow
                    THEN dl + DivUp(snow - begin, period[v]) * period[v] ELSE dl
<1>1. /\ VisitRunq(v)
      /\ deadl_abs' = [deadl_abs EXCEPT ![v] = new]
      /\ runq' = DelFromQ(runq, v)
      /\ waitq' = ListInsertSort(waitq, v, PeriodBegin(deadl_abs', period))
      /\ cur' = NextOf(runq, v, HEAD)
      /\ UNCHANGED <<at, cputime>>
  BY DEF SkipEmptySlice
<1>2. /\ dl \in Int
      /\ period[v] \in Nat \ {0}
      /\ snow \in Nat
      /\ deadl_abs \in [Vcpus -> Int]
      /\ cputime \in [Vcpus -> Int]
  BY CbsUpdateType DEF QInv, TypeOK
<1> HIDE DEF dl
<1>3. snow - begin \in Int
  BY <1>2
<1>4. new \in Int
  <2> HIDE DEF begin
  <2> QED
    BY <1>2, <1>3, NextPeriodType
<1> HIDE DEF new
<1>5. deadl_abs' \in [Vcpus -> Int]
  BY <1>1, <1>2, <1>4
<1> QED
  BY <1>1, <1>2, <1>5, BackToWaitq

(* A vCPU that missed its deadline goes back to one of the two queues, and *)
(* the traversal goes on from an element that is still on the runqueue.    *)
LEMMA ForgivePlaced ==
    ASSUME QInv, NEW v \in Vcpus, ForgiveMiss(v)
    PROVE  QInv'
<1> DEFINE missed == UpdatedDeadline(v) + period[v]
           dl     == IF missed < snow
                     THEN missed + DivUp(snow - missed, period[v]) * period[v]
                     ELSE missed
<1>1. /\ VisitRunq(v)
      /\ deadl_abs' = [deadl_abs EXCEPT ![v] = dl]
      /\ cputime' = [cputime EXCEPT ![v] = 0]
      /\ cur' = NextOf(runq, v, HEAD)
      /\ at' = at
      /\ IF dl - period[v] > snow
         THEN /\ runq' = DelFromQ(runq, v)
              /\ waitq' = ListInsertSort(waitq, v, PeriodBegin(deadl_abs', period))
         ELSE /\ runq' = ListInsertSort(DelFromQ(runq, v), v, deadl_abs')
              /\ waitq' = waitq
  BY DEF ForgiveMiss
<1>2. /\ UpdatedDeadline(v) \in Int
      /\ period[v] \in Nat \ {0}
      /\ snow \in Nat
      /\ deadl_abs \in [Vcpus -> Int]
      /\ cputime \in [Vcpus -> Int]
  BY CbsUpdateType DEF QInv, TypeOK
<1>3. missed \in Int
  BY <1>2
<1> HIDE DEF missed
<1>4. dl \in Int
  <2>1. snow - missed \in Int
    BY <1>2, <1>3
  <2> QED
    BY <1>2, <1>3, <2>1, NextPeriodType
<1> HIDE DEF dl
<1>5. /\ deadl_abs' \in [Vcpus -> Int]
      /\ cputime' \in [Vcpus -> Int]
  BY <1>1, <1>2, <1>4
<1>6. CASE dl - period[v] > snow
  BY <1>1, <1>5, <1>6, BackToWaitq
<1>7. CASE ~(dl - period[v] > snow)
  <2>1. /\ at = "runq" /\ cur = v /\ CbsUpdate(v)
        /\ UNCHANGED <<external, cpu, snow, extraq, status, sched_start_abs,
                       score, blocked, params>>
    BY <1>1 DEF VisitRunq
  <2>2. /\ OnQ(runq, v)
        /\ cur' \in Vcpus \cup {HEAD}
        /\ cur' # HEAD => OnQ(runq, cur')
    BY <1>1, <2>1, NextSaved
  <2>3. /\ NoDuplicates(runq) /\ NoDuplicates(waitq)
        /\ \A w \in Vcpus : ~(OnQ(runq, w) /\ OnQ(waitq, w))
        /\ runq \in Seq(Vcpus) /\ waitq \in Seq(Vcpus)
    BY DEF QInv, TypeOK, Placement, QueuesDisjoint
  <2> DEFINE rest == DelFromQ(runq, v)
  <2>4. /\ rest \in Seq(Vcpus)
        /\ NoDuplicates(rest)
        /\ ~OnQ(rest, v)
        /\ \A w : w # v => (OnQ(rest, w) <=> OnQ(runq, w))
    BY <2>3, DelFromQProperties
  <2>5. runq' = ListInsertSort(rest, v, deadl_abs') /\ waitq' = waitq
    BY <1>1, <1>7
  <2> HIDE DEF rest
  <2>6. /\ runq' \in Seq(Vcpus)
        /\ NoDuplicates(runq')
        /\ \A w : OnQ(runq', w) <=> w = v \/ OnQ(rest, w)
    BY <2>4, <2>5, InsertProperties
  <2>7. \A w : OnQ(runq', w) <=> OnQ(runq, w)
    BY <2>2, <2>4, <2>6
  <2>8. /\ cbs_current_budget' \in [Vcpus -> Int]
        /\ cbs_current_deadline' \in [Vcpus -> Int]
    BY <2>1, CbsUpdateType
  <2>9. TypeOK'
    BY <1>1, <1>5, <2>1, <2>2, <2>5, <2>6, <2>8
       DEF QInv, TypeOK, external, cpu, params
  <2>10. /\ \A w \in Vcpus : ~(OnQ(runq', w) /\ OnQ(waitq', w))
         /\ \A w \in Vcpus : OnTaskQ(w)' <=> OnTaskQ(w)
    BY <2>3, <2>5, <2>7 DEF OnTaskQ
  <2>11. CursorOnRunq'
    BY <2>2, <2>7 DEF CursorOnRunq
  <2>12. UNCHANGED <<at, curr, status, extraq>>
    BY <1>1, <2>1 DEF cpu
  <2>13. Placement'
    BY <2>1, <2>3, <2>5, <2>6, <2>10, <2>11, <2>12, MovePlaces
  <2> QED
    BY <2>9, <2>13 DEF QInv
<1> QED
  BY <1>6, <1>7

-----------------------------------------------------------------------------
(* A vCPU that falls asleep and is not, or no longer, to be descheduled    *)
(* leaves all queues.                                                      *)
LEMMA OffExtraQueuesProperties ==
    ASSUME QInv, NEW v
    PROVE  /\ OffExtraQueues(v) \in [Levels -> Seq(Vcpus)]
           /\ \A i \in Levels :
                 /\ NoDuplicates(OffExtraQueues(v)[i])
                 /\ ~OnQ(OffExtraQueues(v)[i], v)
                 /\ \A w : w # v => (OnQ(OffExtraQueues(v)[i], w) <=> OnQ(extraq[i], w))
<1>1. ASSUME NEW i \in Levels
      PROVE  /\ DelFromQ(extraq[i], v) \in Seq(Vcpus)
             /\ NoDuplicates(DelFromQ(extraq[i], v))
             /\ ~OnQ(DelFromQ(extraq[i], v), v)
             /\ \A w : w # v => (OnQ(DelFromQ(extraq[i], v), w) <=> OnQ(extraq[i], w))
  <2>1. extraq[i] \in Seq(Vcpus) /\ NoDuplicates(extraq[i])
    BY DEF QInv, TypeOK, Placement, QueuesDisjoint
  <2> QED
    BY <2>1, DelFromQProperties
<1> QED
  BY <1>1 DEF OffExtraQueues

(* A vCPU that is taken off every queue and marked asleep leaves the others *)
(* where they are, on the queues and in their order.                       *)
LEMMA GonePlaces ==
    ASSUME QInv, NEW v \in Vcpus,
           runq' = DelFromQ(runq, v),
           waitq' = DelFromQ(waitq, v),
           extraq' = OffExtraQueues(v),
           SEDF_ASLEEP \in status'[v],
           ~extra_runs(v)',
           \A w \in Vcpus \ {v} : status'[w] = status[w],
           \A w \in Vcpus \ {v} : Descheduling(w)' <=> Descheduling(w),
           ~Descheduling(v)',
           at' # "runq"
    PROVE  /\ runq' \in Seq(Vcpus)
           /\ waitq' \in Seq(Vcpus)
           /\ extraq' \in [Levels -> Seq(Vcpus)]
           /\ Placement'
<1>1. /\ NoDuplicates(runq) /\ NoDuplicates(waitq)
      /\ \A w \in Vcpus : ~(OnQ(runq, w) /\ OnQ(waitq, w))
      /\ runq \in Seq(Vcpus) /\ waitq \in Seq(Vcpus)
  BY DEF QInv, TypeOK, Placement, QueuesDisjoint
<1>2. /\ runq' \in Seq(Vcpus)
      /\ NoDuplicates(runq')
      /\ ~OnQ(runq', v)
      /\ \A w : w # v => (OnQ(runq', w) <=> OnQ(runq, w))
  BY <1>1, DelFromQProperties
<1>3. /\ waitq' \in Seq(Vcpus)
      /\ NoDuplicates(waitq')
      /\ ~OnQ(waitq', v)
      /\ \A w : w # v => (OnQ(waitq', w) <=> OnQ(waitq, w))
  BY <1>1, DelFromQProperties
<1>4. /\ extraq' \in [Levels -> Seq(Vcpus)]
      /\ \A i \in Levels :
            /\ NoDuplicates(extraq'[i])
            /\ ~OnQ(extraq'[i], v)
            /\ \A w : w # v => (OnQ(extraq'[i], w) <=> OnQ(extraq[i], w))
  BY OffExtraQueuesProperties
<1>5. QueuesDisjoint'
  BY <1>1, <1>2, <1>3, <1>4 DEF QueuesDisjoint
<1>6. CursorOnRunq'
  BY DEF CursorOnRunq
<1>7. /\ ~OnTaskQ(v)'
      /\ \A w \in Vcpus : w # v => (OnTaskQ(w)' <=> OnTaskQ(w))
  BY <1>2, <1>3 DEF OnTaskQ
<1>8. AwakeIffQueued'
  BY <1>7 DEF QInv, Placement, AwakeIffQueued, sedf_runnable
<1>9. ExtraOnlyIfQueued'
  BY <1>4, <1>7 DEF QInv, Placement, ExtraOnlyIfQueued
<1>10. \A w \in Vcpus : w # v => /\ extra_runs(w)' <=> extra_runs(w)
                                 /\ extra_get_cur_q(w)' = extra_get_cur_q(w)
  BY DEF extra_runs, extra_get_cur_q
<1>11. \A w \in Vcpus : extra_get_cur_q(w) \in Levels
  BY DEF extra_get_cur_q
<1>12. ExtraRunWellPlaced'
  <2> SUFFICES ASSUME NEW w \in Vcpus, extra_runs(w)'
               PROVE  /\ Descheduling(w)'
                      /\ OnQ(waitq, w)'
                      /\ OnQ(extraq[extra_get_cur_q(w)], w)'
                      /\ ~({EXTRA_RUN_PEN, EXTRA_RUN_UTIL} \subseteq status[w])'
    BY DEF ExtraRunWellPlaced
  <2>1. w # v
    OBVIOUS
  <2>2. /\ Descheduling(w)
        /\ OnQ(waitq, w)
        /\ OnQ(extraq[extra_get_cur_q(w)], w)
        /\ ~({EXTRA_RUN_PEN, EXTRA_RUN_UTIL} \subseteq status[w])
    BY <1>10, <2>1 DEF QInv, Placement, ExtraRunWellPlaced
  <2> QED
    BY <1>3, <1>4, <1>10, <1>11, <2>1, <2>2
<1>13. EdfRunOnRunq'
  BY <1>2, <1>10 DEF QInv, Placement, EdfRunOnRunq
<1> QED
  BY <1>2, <1>3, <1>4, <1>5, <1>6, <1>8, <1>9, <1>12, <1>13 DEF Placement

(* sedf_sleep: the current vCPU is only marked, any other one leaves.      *)
LEMMA SleepPlaced ==
    ASSUME QInv, NEW v \in Vcpus, sedf_sleep(v)
    PROVE  QInv'
<1>1. /\ UNCHANGED <<now, runnable, stops, curr, current_slice_expires, control,
                     account, score, blocked, cbs, params>>
      /\ pend' = [pend EXCEPT ![v] = @ \ {"sleep"}]
      /\ at \in {"guest", "called"}
      /\ status' = [status EXCEPT ![v] = @ \cup {SEDF_ASLEEP}]
  BY DEF sedf_sleep, Deliver, LockFree
<1>2. /\ status \in [Vcpus -> SUBSET StatusBits]
      /\ pend \in [Vcpus -> SUBSET {"sleep", "wake"}]
      /\ softirq \in BOOLEAN
  BY DEF QInv, TypeOK
<1>3. /\ status' \in [Vcpus -> SUBSET StatusBits]
      /\ pend' \in [Vcpus -> SUBSET {"sleep", "wake"}]
  BY <1>1, <1>2 DEF StatusBits
<1>4. /\ status'[v] = status[v] \cup {SEDF_ASLEEP}
      /\ \A w \in Vcpus \ {v} : status'[w] = status[w]
  BY <1>1, <1>2
<1>5. UNCHANGED <<at, curr, cur>>
  BY <1>1 DEF control
<1>6. CASE curr = v
  <2>1. softirq' = TRUE /\ UNCHANGED <<runq, waitq, extraq>>
    BY <1>6 DEF sedf_sleep, IsCurrent, queues
  <2>2. TypeOK'
    BY <1>1, <1>3, <2>1 DEF QInv, TypeOK, control, account, cbs, params
  <2>3. /\ \A w \in Vcpus : OnTaskQ(w)' <=> OnTaskQ(w)
        /\ \A w \in Vcpus : Descheduling(w)' <=> Descheduling(w)
        /\ \A w \in Vcpus : extra_runs(w)' <=> extra_runs(w)
        /\ \A w \in Vcpus : extra_get_cur_q(w)' = extra_get_cur_q(w)
    BY <1>4, <1>5, <2>1
       DEF OnTaskQ, Descheduling, extra_runs, extra_get_cur_q, SEDF_ASLEEP,
           EXTRA_RUN_PEN, EXTRA_RUN_UTIL
  <2>4. QueuesDisjoint' /\ CursorOnRunq'
    BY <1>5, <2>1 DEF QInv, Placement, QueuesDisjoint, CursorOnRunq
  <2>5. AwakeIffQueued'
    <3>1. Descheduling(v)
      BY <1>1, <1>6 DEF Descheduling
    <3> QED
      BY <1>4, <2>3, <3>1 DEF QInv, Placement, AwakeIffQueued, sedf_runnable
  <2>6. ExtraOnlyIfQueued' /\ EdfRunOnRunq'
    BY <2>1, <2>3 DEF QInv, Placement, ExtraOnlyIfQueued, EdfRunOnRunq
  <2>7. ExtraRunWellPlaced'
    <3>1. \A w \in Vcpus : {EXTRA_RUN_PEN, EXTRA_RUN_UTIL} \subseteq status'[w]
                          => {EXTRA_RUN_PEN, EXTRA_RUN_UTIL} \subseteq status[w]
      BY <1>4 DEF SEDF_ASLEEP, EXTRA_RUN_PEN, EXTRA_RUN_UTIL
    <3> QED
      BY <2>1, <2>3, <3>1 DEF QInv, Placement, ExtraRunWellPlaced
  <2> QED
    BY <2>2, <2>4, <2>5, <2>6, <2>7 DEF QInv, Placement
<1>7. CASE curr # v
  <2>1. /\ softirq' = softirq
        /\ runq' = DelFromQ(runq, v)
        /\ waitq' = DelFromQ(waitq, v)
        /\ extraq' = OffExtraQueues(v)
    BY <1>7 DEF sedf_sleep, IsCurrent
  <2>2. /\ \A w \in Vcpus \ {v} : Descheduling(w)' <=> Descheduling(w)
        /\ ~Descheduling(v)
        /\ ~Descheduling(v)'
    BY <1>5, <1>7 DEF Descheduling
  <2>3. ~extra_runs(v)
    BY <2>2 DEF QInv, Placement, ExtraRunWellPlaced
  <2>4. ~extra_runs(v)'
    BY <1>4, <2>3 DEF extra_runs, SEDF_ASLEEP, EXTRA_RUN_PEN, EXTRA_RUN_UTIL
  <2>5. /\ runq' \in Seq(Vcpus)
        /\ waitq' \in Seq(Vcpus)
        /\ extraq' \in [Levels -> Seq(Vcpus)]
        /\ Placement'
    BY <1>1, <1>4, <1>5, <2>1, <2>2, <2>4, GonePlaces
  <2>6. TypeOK'
    BY <1>1, <1>3, <2>1, <2>5 DEF QInv, TypeOK, control, account, cbs, params
  <2> QED
    BY <2>5, <2>6 DEF QInv
<1> QED
  BY <1>6, <1>7

-----------------------------------------------------------------------------
(* What the two ways of descheduling share: from now on nobody is to be    *)
(* descheduled, and a vCPU that is awake keeps its status.                 *)
LEMMA DescheduleEffect ==
    ASSUME QInv, NEW v \in Vcpus, NEW st \in SUBSET StatusBits, Deschedule(v, st)
    PROVE  /\ at = "desched" /\ at' = "waitq" /\ curr = v
           /\ status' \in [Vcpus -> SUBSET StatusBits]
           /\ status' = [status EXCEPT ![v] = st]
           /\ status'[v] = st
           /\ \A w \in Vcpus \ {v} : status'[w] = status[w]
           /\ blocked' \in [Vcpus -> BOOLEAN]
           /\ UNCHANGED <<external, cpu, snow, cur, sched_start_abs, cbs,
                          period_orig, slice_orig, extraweight>>
           /\ Descheduling(v)
           /\ \A w \in Vcpus : ~Descheduling(w)'
           /\ \A w \in Vcpus \ {v} : ~Descheduling(w) /\ ~extra_runs(w) /\ ~extra_runs(w)'
           /\ CursorOnRunq'
<1>1. /\ at = "desched" /\ at' = "waitq" /\ curr = v
      /\ status' = [status EXCEPT ![v] = st]
      /\ UNCHANGED <<external, cpu, snow, cur, sched_start_abs, cbs,
                     period_orig, slice_orig, extraweight>>
  BY DEF Deschedule
<1>2. status \in [Vcpus -> SUBSET StatusBits]
  BY DEF QInv, TypeOK
<1>3. /\ status' \in [Vcpus -> SUBSET StatusBits]
      /\ status'[v] = st
      /\ \A w \in Vcpus \ {v} : status'[w] = status[w]
  BY <1>1, <1>2
<1>4. blocked' \in [Vcpus -> BOOLEAN]
  <2>1. blocked \in [Vcpus -> BOOLEAN]
    BY DEF QInv, TypeOK
  <2>2. CASE SEDF_ASLEEP \in DescheduledStatus(v)
    <3>1. blocked' = [blocked EXCEPT ![v] = TRUE]
      BY <2>2 DEF Deschedule
    <3> QED
      BY <2>1, <3>1
  <2>3. CASE SEDF_ASLEEP \notin DescheduledStatus(v)
    <3>1. blocked' = blocked
      BY <2>3 DEF Deschedule
    <3> QED
      BY <2>1, <3>1
  <2> QED
    BY <2>2, <2>3
<1>5. /\ Descheduling(v)
      /\ \A w \in Vcpus : ~Descheduling(w)'
      /\ \A w \in Vcpus \ {v} : ~Descheduling(w)
      /\ CursorOnRunq'
  BY <1>1 DEF Descheduling, CursorOnRunq
<1>6. \A w \in Vcpus \ {v} : ~extra_runs(w) /\ ~extra_runs(w)'
  BY <1>3, <1>5 DEF QInv, Placement, ExtraRunWellPlaced, extra_runs
<1> QED
  BY <1>1, <1>3, <1>4, <1>5, <1>6

(* The snapshot of vcpu_runnable touches the sleep bit only. *)
LEMMA DescheduledStatusType ==
    ASSUME QInv, NEW v \in Vcpus
    PROVE  /\ DescheduledStatus(v) \in SUBSET StatusBits
           /\ SEDF_ASLEEP \notin DescheduledStatus(v)
                 => DescheduledStatus(v) = status[v]
           /\ \A b : b # SEDF_ASLEEP => (b \in DescheduledStatus(v) <=> b \in status[v])
<1>1. status[v] \in SUBSET StatusBits
  BY DEF QInv, TypeOK
<1> QED
  BY <1>1 DEF DescheduledStatus, StatusBits

(* desched_edf_dom with slice left: nothing moves. *)
LEMMA KeepsPlaced ==
    ASSUME QInv, NEW v \in Vcpus, desched_edf_keeps(v)
    PROVE  QInv'
<1> DEFINE st == DescheduledStatus(v)
<1>1. /\ ~extra_runs(v)
      /\ SEDF_ASLEEP \notin st
      /\ Deschedule(v, st)
      /\ cputime' = [cputime EXCEPT ![v] = RanFor(v)]
      /\ UNCHANGED <<queues, deadl_abs, score, period, slice>>
  BY DEF desched_edf_keeps
<1>2. st \in SUBSET StatusBits /\ st = status[v]
  BY <1>1, DescheduledStatusType
<1>3. /\ at = "desched" /\ at' = "waitq" /\ curr = v
      /\ status' \in [Vcpus -> SUBSET StatusBits]
      /\ status' = [status EXCEPT ![v] = st]
      /\ blocked' \in [Vcpus -> BOOLEAN]
      /\ UNCHANGED <<external, cpu, snow, cur, sched_start_abs, cbs,
                     period_orig, slice_orig, extraweight>>
      /\ Descheduling(v)
      /\ \A w \in Vcpus : ~Descheduling(w)'
      /\ \A w \in Vcpus \ {v} : ~Descheduling(w) /\ ~extra_runs(w)
      /\ CursorOnRunq'
  BY <1>1, <1>2, DescheduleEffect
<1>4. status' = status
  BY <1>2, <1>3 DEF QInv, TypeOK
<1>5. cputime' \in [Vcpus -> Int]
  <2>1. /\ cputime \in [Vcpus -> Int]
        /\ snow \in Nat
        /\ sched_start_abs[v] \in Nat
    BY DEF QInv, TypeOK
  <2>2. RanFor(v) \in Int
    BY <2>1 DEF RanFor
  <2> QED
    BY <1>1, <2>1, <2>2
<1>6. TypeOK'
  BY <1>1, <1>3, <1>5
     DEF QInv, TypeOK, Points, Locked, external, cpu, queues, cbs
<1>7. UNCHANGED <<runq, waitq, extraq>>
  BY <1>1 DEF queues
<1>8. /\ \A w \in Vcpus : OnTaskQ(w)' <=> OnTaskQ(w)
      /\ \A w \in Vcpus : ~extra_runs(w)'
  BY <1>1, <1>3, <1>4, <1>7 DEF OnTaskQ, extra_runs
<1>9. QueuesDisjoint' /\ ExtraOnlyIfQueued'
  BY <1>7, <1>8 DEF QInv, Placement, QueuesDisjoint, ExtraOnlyIfQueued
<1>10. AwakeIffQueued'
  BY <1>1, <1>2, <1>3, <1>4, <1>8 DEF QInv, Placement, AwakeIffQueued, sedf_runnable
<1>11. ExtraRunWellPlaced' /\ EdfRunOnRunq'
  BY <1>3, <1>8 DEF ExtraRunWellPlaced, EdfRunOnRunq
<1> QED
  BY <1>3, <1>6, <1>9, <1>10, <1>11 DEF QInv, Placement

(* Latency scaling keeps a period positive. *)
LEMMA NextParamsType ==
    ASSUME QInv, NEW v \in Vcpus
    PROVE  NextParams(v).period \in Nat \ {0} /\ NextParams(v).slice \in Int
<1>1. /\ period[v] \in Nat \ {0} /\ period_orig[v] \in Nat \ {0}
      /\ slice[v] \in Int /\ slice_orig[v] \in Int
  BY DEF QInv, TypeOK
<1>2. 2 * period[v] \in Nat \ {0} /\ 2 * slice[v] \in Int
  BY <1>1
<1> QED
  BY <1>1, <1>2 DEF NextParams

(* desched_edf_dom: out of the runqueue, to the wait queue or to sleep.    *)
LEMMA EdfPlaced ==
    ASSUME QInv, NEW v \in Vcpus, desched_edf_dom(v)
    PROVE  QInv'
<1> DEFINE st       == DescheduledStatus(v)
           finished == RanFor(v) >= slice[v]
           params1  == IF finished THEN NextParams(v)
                       ELSE [period |-> period[v], slice |-> slice[v]]
<1>1. /\ ~extra_runs(v)
      /\ Deschedule(v, st)
      /\ cputime' = [cputime EXCEPT
            ![v] = IF finished THEN RanFor(v) - slice[v] ELSE RanFor(v)]
      /\ period' = [period EXCEPT ![v] = params1.period]
      /\ slice' = [slice EXCEPT ![v] = params1.slice]
      /\ deadl_abs' = IF finished
            THEN [deadl_abs EXCEPT ![v] = @ + params1.period] ELSE deadl_abs
      /\ runq' = DelFromQ(runq, v)
      /\ IF SEDF_ASLEEP \notin st
         THEN /\ waitq' = ListInsertSort(DelFromQ(waitq, v), v,
                                         PeriodBegin(deadl_abs', period'))
              /\ extraq' = extraq
         ELSE /\ waitq' = DelFromQ(waitq, v)
              /\ extraq' = OffExtraQueues(v)
      /\ score' = score
  BY DEF desched_edf_dom
<1>2. st \in SUBSET StatusBits
  BY DescheduledStatusType
<1>3. /\ at = "desched" /\ at' = "waitq" /\ curr = v
      /\ status' \in [Vcpus -> SUBSET StatusBits]
      /\ status' = [status EXCEPT ![v] = st]
      /\ status'[v] = st
      /\ \A w \in Vcpus \ {v} : status'[w] = status[w]
      /\ blocked' \in [Vcpus -> BOOLEAN]
      /\ UNCHANGED <<external, cpu, snow, cur, sched_start_abs, cbs,
                     period_orig, slice_orig, extraweight>>
      /\ Descheduling(v)
      /\ \A w \in Vcpus : ~Descheduling(w)'
      /\ \A w \in Vcpus \ {v} : ~Descheduling(w) /\ ~extra_runs(w) /\ ~extra_runs(w)'
      /\ CursorOnRunq'
  BY <1>1, <1>2, DescheduleEffect
<1>4. ~extra_runs(v)'
  BY <1>1, <1>3, DescheduledStatusType
     DEF extra_runs, SEDF_ASLEEP, EXTRA_RUN_PEN, EXTRA_RUN_UTIL
<1>5. /\ cputime' \in [Vcpus -> Int]
      /\ period' \in [Vcpus -> Nat \ {0}]
      /\ slice' \in [Vcpus -> Int]
      /\ deadl_abs' \in [Vcpus -> Int]
  <2>1. /\ cputime \in [Vcpus -> Int]
        /\ snow \in Nat
        /\ sched_start_abs[v] \in Nat
        /\ period \in [Vcpus -> Nat \ {0}]
        /\ slice \in [Vcpus -> Int]
        /\ deadl_abs \in [Vcpus -> Int]
    BY DEF QInv, TypeOK
  <2>2. RanFor(v) \in Int /\ RanFor(v) - slice[v] \in Int
    BY <2>1 DEF RanFor
  <2>3. params1.period \in Nat \ {0} /\ params1.slice \in Int
    <3>1. CASE finished
      BY <3>1, NextParamsType
    <3>2. CASE ~finished
      BY <2>1, <3>2
    <3> QED
      BY <3>1, <3>2
  <2> HIDE DEF finished, params1
  <2> QED
    BY <1>1, <2>1, <2>2, <2>3
<1>6. CASE SEDF_ASLEEP \in st
  <2>1. /\ runq' \in Seq(Vcpus)
        /\ waitq' \in Seq(Vcpus)
        /\ extraq' \in [Levels -> Seq(Vcpus)]
        /\ Placement'
    BY <1>1, <1>3, <1>4, <1>6, GonePlaces
  <2>2. TypeOK'
    BY <1>1, <1>3, <1>5, <2>1 DEF QInv, TypeOK, Points, Locked, external, cpu, cbs
  <2> QED
    BY <2>1, <2>2 DEF QInv
<1>7. CASE SEDF_ASLEEP \notin st
  <2> DEFINE rest == DelFromQ(waitq, v)
             key  == PeriodBegin(deadl_abs', period')
  <2>1. waitq' = ListInsertSort(rest, v, key) /\ extraq' = extraq
    BY <1>1, <1>7
  <2>2. /\ NoDuplicates(runq) /\ NoDuplicates(waitq)
        /\ \A w \in Vcpus : ~(OnQ(runq, w) /\ OnQ(waitq, w))
        /\ runq \in Seq(Vcpus) /\ waitq \in Seq(Vcpus)
    BY DEF QInv, TypeOK, Placement, QueuesDisjoint
  <2>3. /\ runq' \in Seq(Vcpus)
        /\ NoDuplicates(runq')
        /\ ~OnQ(runq', v)
        /\ \A w : w # v => (OnQ(runq', w) <=> OnQ(runq, w))
    BY <1>1, <2>2, DelFromQProperties
  <2>4. /\ rest \in Seq(Vcpus)
        /\ NoDuplicates(rest)
        /\ ~OnQ(rest, v)
        /\ \A w : w # v => (OnQ(rest, w) <=> OnQ(waitq, w))
    BY <2>2, DelFromQProperties
  <2> HIDE DEF rest, key
  <2>5. /\ waitq' \in Seq(Vcpus)
        /\ NoDuplicates(waitq')
        /\ \A w : OnQ(waitq', w) <=> w = v \/ OnQ(rest, w)
    BY <2>1, <2>4, InsertProperties
  <2>6. TypeOK'
    BY <1>1, <1>3, <1>5, <2>1, <2>3, <2>5
       DEF QInv, TypeOK, Points, Locked, external, cpu, cbs
  <2>7. QueuesDisjoint'
    BY <2>1, <2>2, <2>3, <2>4, <2>5 DEF QInv, Placement, QueuesDisjoint
  <2>8. /\ OnTaskQ(v) /\ OnTaskQ(v)'
        /\ \A w \in Vcpus : OnTaskQ(w)' <=> OnTaskQ(w)
    BY <1>1, <1>3, <2>3, <2>4, <2>5 DEF QInv, Placement, EdfRunOnRunq, OnTaskQ
  <2>9. AwakeIffQueued'
    BY <1>3, <1>7, <2>8 DEF QInv, Placement, AwakeIffQueued, sedf_runnable
  <2>10. ExtraOnlyIfQueued'
    BY <2>1, <2>8 DEF QInv, Placement, ExtraOnlyIfQueued
  <2>11. ExtraRunWellPlaced' /\ EdfRunOnRunq'
    BY <1>3, <1>4 DEF ExtraRunWellPlaced, EdfRunOnRunq
  <2> QED
    BY <1>3, <2>6, <2>7, <2>9, <2>10, <2>11 DEF QInv, Placement
<1> QED
  BY <1>6, <1>7

(* The charged scores are ints, like those before. *)
ScoreRange == -(INT_MAX + 1)..INT_MAX

(* Charging wraps each score within the width of a C int. *)
LEMMA ChargeScoresType ==
    ASSUME NEW q, NEW sc \in [Vcpus -> ScoreRange], NEW sub \in ScoreRange
    PROVE  ChargeScores(q, sc, sub) \in [Vcpus -> ScoreRange]
<1>1. ASSUME NEW w \in Vcpus
      PROVE  (IF OnQ(q, w) THEN CInt(sc[w] - sub) ELSE sc[w]) \in ScoreRange
  <2>1. sc[w] \in ScoreRange /\ sc[w] \in Int /\ sub \in Int
    BY IntAssumption DEF ScoreRange
  <2>2. sc[w] - sub \in Int
    BY <2>1
  <2>3. CInt(sc[w] - sub) \in ScoreRange
    BY <2>2, CIntType DEF ScoreRange
  <2> QED
    BY <2>1, <2>3
<1> QED
  BY <1>1 DEF ChargeScores

(* The utilisation score is a C int, unless it divides by zero. *)
LEMMA UtilScoreType ==
    ASSUME QInv, NEW v \in Vcpus, extraweight[v] # 0 \/ slice[v] # 0
    PROVE  UtilScore(v) \in ScoreRange
<1>1. /\ extraweight[v] \in Nat
      /\ period[v] \in Nat
      /\ slice[v] \in Int
  BY DEF QInv, TypeOK
<1>2. FIXPOINT \in Nat /\ EXTRA_UNIT \in Nat
  BY ConstantsAssumption
<1>3. CASE extraweight[v] = 0
  <2>1. period[v] * FIXPOINT \in Int
    BY <1>1, <1>2
  <2>2. CDiv(period[v] * FIXPOINT, slice[v]) \in Int
    BY <1>1, <1>3, <2>1, CDivType
  <2> QED
    BY <1>3, <2>2, CIntType DEF UtilScore, ScoreRange
<1>4. CASE extraweight[v] # 0
  <2>1. EXTRA_UNIT \div extraweight[v] \in Int
    BY <1>1, <1>2, <1>4
  <2> QED
    BY <1>4, <2>1, CIntType DEF UtilScore, ScoreRange
<1> QED
  BY <1>3, <1>4

(* desched_extra_dom: out of its extra-time queue, or requeued there; it   *)
(* has been on the wait queue all the time.                                *)
LEMMA ExtraPlaced ==
    ASSUME QInv, NEW v \in Vcpus, desched_extra_dom(v)
    PROVE  QInv'
<1> DEFINE i     == extra_get_cur_q(v)
           awake == SEDF_ASLEEP \notin DescheduledStatus(v)
           st    == DescheduledStatus(v) \ FlagsGone(i)
           rest  == DelFromQ(extraq[i], v)
           sc    == IF i = EXTRA_UTIL_Q
                    THEN [score[i] EXCEPT ![v] = UtilScore(v)] ELSE score[i]
           again == awake /\ i = EXTRA_UTIL_Q /\ EXTRA_AWARE \in status[v]
           sc1   == ChargeScores(rest, sc, score[i][v])
           newq  == IF again THEN ListInsertSort(rest, v, sc1) ELSE rest
<1>1. /\ extra_runs(v)
      /\ ~DividesByZero(v)
      /\ Deschedule(v, st)
      /\ cputime' = [cputime EXCEPT ![v] = 0]
      /\ score' = [score EXCEPT ![i] = IF again THEN sc1 ELSE sc]
      /\ IF awake
         THEN /\ extraq' = [extraq EXCEPT ![i] = newq]
              /\ runq' = runq /\ waitq' = waitq
         ELSE /\ extraq' = OffExtraQueues(v)
              /\ runq' = DelFromQ(runq, v)
              /\ waitq' = DelFromQ(waitq, v)
      /\ UNCHANGED <<deadl_abs, period, slice>>
  BY DEF desched_extra_dom, ExtraqAddSort
<1>2. /\ i \in Levels
      /\ st \in SUBSET StatusBits
      /\ EXTRA_RUN_PEN \notin st /\ EXTRA_RUN_UTIL \notin st
      /\ SEDF_ASLEEP \in st <=> ~awake
  BY DescheduledStatusType
     DEF extra_get_cur_q, FlagsGone, SEDF_ASLEEP, EXTRA_RUN_PEN, EXTRA_RUN_UTIL,
         EXTRA_WANT_PEN_Q
<1>3. /\ at = "desched" /\ at' = "waitq" /\ curr = v
      /\ status' \in [Vcpus -> SUBSET StatusBits]
      /\ status'[v] = st
      /\ \A w \in Vcpus \ {v} : status'[w] = status[w]
      /\ blocked' \in [Vcpus -> BOOLEAN]
      /\ UNCHANGED <<external, cpu, snow, cur, sched_start_abs, cbs,
                     period_orig, slice_orig, extraweight>>
      /\ Descheduling(v)
      /\ \A w \in Vcpus : ~Descheduling(w)'
      /\ \A w \in Vcpus \ {v} : ~Descheduling(w) /\ ~extra_runs(w) /\ ~extra_runs(w)'
      /\ CursorOnRunq'
  <2> HIDE DEF st
  <2> QED
    BY <1>1, <1>2, DescheduleEffect
<1>4. ~extra_runs(v)'
  BY <1>2, <1>3 DEF extra_runs
<1>5. OnQ(waitq, v)
  BY <1>1 DEF QInv, Placement, ExtraRunWellPlaced
<1>6. /\ extraq \in [Levels -> Seq(Vcpus)]
      /\ extraq[i] \in Seq(Vcpus) /\ NoDuplicates(extraq[i])
      /\ score \in [Levels -> [Vcpus -> ScoreRange]]
      /\ score[i] \in [Vcpus -> ScoreRange] /\ score[i][v] \in ScoreRange
      /\ cputime \in [Vcpus -> Int]
  BY <1>2 DEF QInv, TypeOK, Placement, QueuesDisjoint, ScoreRange
<1>7. /\ score' \in [Levels -> [Vcpus -> ScoreRange]]
      /\ cputime' \in [Vcpus -> Int]
  <2>1. sc \in [Vcpus -> ScoreRange]
    <3>1. CASE i = EXTRA_UTIL_Q
      <4>1. UtilScore(v) \in ScoreRange
        BY <1>1, <3>1, UtilScoreType DEF DividesByZero
      <4> HIDE DEF i
      <4> QED
        BY <1>6, <3>1, <4>1
    <3>2. CASE i # EXTRA_UTIL_Q
      BY <1>6, <3>2
    <3> QED
      BY <3>1, <3>2
  <2>2. sc1 \in [Vcpus -> ScoreRange]
    <3> HIDE DEF sc, rest
    <3> QED
      BY <1>6, <2>1, ChargeScoresType
  <2> HIDE DEF i, sc, sc1, again
  <2> QED
    BY <1>1, <1>2, <1>6, <2>1, <2>2
<1>8. CASE ~awake
  <2>1. /\ runq' \in Seq(Vcpus)
        /\ waitq' \in Seq(Vcpus)
        /\ extraq' \in [Levels -> Seq(Vcpus)]
        /\ Placement'
    <3> HIDE DEF st
    <3> QED
      BY <1>1, <1>2, <1>3, <1>4, <1>8, GonePlaces
  <2>2. TypeOK'
    BY <1>1, <1>3, <1>7, <2>1
       DEF QInv, TypeOK, Points, Locked, external, cpu, cbs, ScoreRange
  <2> QED
    BY <2>1, <2>2 DEF QInv
<1>9. CASE awake
  <2>1. /\ rest \in Seq(Vcpus)
        /\ NoDuplicates(rest)
        /\ ~OnQ(rest, v)
        /\ \A w : w # v => (OnQ(rest, w) <=> OnQ(extraq[i], w))
    BY <1>6, DelFromQProperties
  <2>2. /\ newq \in Seq(Vcpus)
        /\ NoDuplicates(newq)
        /\ \A w : OnQ(newq, w) => w = v \/ OnQ(extraq[i], w)
    <3> HIDE DEF rest, sc1, again, i
    <3>1. CASE again
      <4>1. /\ newq \in Seq(Vcpus)
            /\ NoDuplicates(newq)
            /\ \A w : OnQ(newq, w) <=> w = v \/ OnQ(rest, w)
        BY <2>1, <3>1, InsertProperties
      <4> QED
        BY <2>1, <4>1
    <3>2. CASE ~again
      BY <2>1, <3>2
    <3> QED
      BY <3>1, <3>2
  <2>3. /\ extraq' = [extraq EXCEPT ![i] = newq]
        /\ runq' = runq /\ waitq' = waitq
    BY <1>1, <1>9
  <2> HIDE DEF i, newq
  <2>4. /\ extraq' \in [Levels -> Seq(Vcpus)]
        /\ extraq'[i] = newq
        /\ \A j \in Levels : j # i => extraq'[j] = extraq[j]
    BY <1>2, <1>6, <2>2, <2>3
  <2>5. TypeOK'
    BY <1>1, <1>3, <1>7, <2>3, <2>4
       DEF QInv, TypeOK, Points, Locked, external, cpu, cbs, ScoreRange
  <2>6. \A w \in Vcpus : OnTaskQ(w)' <=> OnTaskQ(w)
    BY <2>3 DEF OnTaskQ
  <2>7. QueuesDisjoint'
    <3>1. \A j \in Levels : NoDuplicates(extraq'[j])
      BY <2>2, <2>4 DEF QInv, Placement, QueuesDisjoint
    <3> QED
      BY <2>3, <3>1 DEF QInv, Placement, QueuesDisjoint
  <2>8. AwakeIffQueued'
    BY <1>2, <1>3, <1>5, <1>9, <2>6
       DEF QInv, Placement, AwakeIffQueued, sedf_runnable, OnTaskQ
  <2>9. ExtraOnlyIfQueued'
    <3>1. ASSUME NEW w \in Vcpus, NEW j \in Levels, OnQ(extraq'[j], w)
          PROVE  OnTaskQ(w)
      <4>1. w = v \/ OnQ(extraq[j], w)
        BY <2>2, <2>4, <3>1
      <4> QED
        BY <1>5, <4>1 DEF QInv, Placement, ExtraOnlyIfQueued, OnTaskQ
    <3> QED
      BY <2>6, <3>1 DEF ExtraOnlyIfQueued
  <2>10. ExtraRunWellPlaced' /\ EdfRunOnRunq'
    BY <1>3, <1>4 DEF ExtraRunWellPlaced, EdfRunOnRunq
  <2> QED
    BY <1>3, <2>5, <2>7, <2>8, <2>9, <2>10 DEF QInv, Placement
<1> QED
  BY <1>8, <1>9

-----------------------------------------------------------------------------
(* A vCPU that is on no queue is not current, and on no extra-time queue.  *)
LEMMA OffQueues ==
    ASSUME QInv, NEW v \in Vcpus, LockFree, ~OnTaskQ(v)
    PROVE  /\ ~extra_runs(v)
           /\ ~Descheduling(v)
           /\ \A i \in Levels : ~OnQ(extraq[i], v)
<1>1. ~extra_runs(v)
  BY DEF QInv, Placement, ExtraRunWellPlaced, OnTaskQ
<1>2. ~Descheduling(v)
  BY <1>1 DEF QInv, Placement, EdfRunOnRunq, OnTaskQ
<1>3. \A i \in Levels : ~OnQ(extraq[i], v)
  BY DEF QInv, Placement, ExtraOnlyIfQueued
<1> QED
  BY <1>1, <1>2, <1>3

(* Wherever a woken vCPU is put, it is put there once. *)
LEMMA WokenPlaces ==
    ASSUME QInv, NEW v \in Vcpus, LockFree, ~OnTaskQ(v),
           UNCHANGED <<at, cur, curr>>,
           NoDuplicates(runq'), NoDuplicates(waitq'),
           \A w : OnQ(runq', w) => w = v \/ OnQ(runq, w),
           \A w : OnQ(waitq', w) => w = v \/ OnQ(waitq, w),
           \A w : OnQ(runq, w) => OnQ(runq', w),
           \A w : OnQ(waitq, w) => OnQ(waitq', w),
           OnQ(runq', v) <=> ~OnQ(waitq', v),
           \A i \in Levels : /\ NoDuplicates(extraq'[i])
                             /\ \A w : OnQ(extraq'[i], w) => w = v \/ OnQ(extraq[i], w)
                             /\ \A w \in Vcpus \ {v} : OnQ(extraq[i], w) => OnQ(extraq'[i], w),
           SEDF_ASLEEP \notin status'[v],
           EXTRA_RUN_PEN \in status'[v] => EXTRA_RUN_PEN \in status[v],
           EXTRA_RUN_UTIL \in status'[v] => EXTRA_RUN_UTIL \in status[v],
           \A w \in Vcpus \ {v} : status'[w] = status[w]
    PROVE  Placement'
<1>1. ~extra_runs(v) /\ ~Descheduling(v)
  BY OffQueues
<1>2. ~extra_runs(v)'
  BY <1>1 DEF extra_runs
<1>3. \A w \in Vcpus : Descheduling(w)' <=> Descheduling(w)
  BY DEF Descheduling
<1>4. /\ OnTaskQ(v)'
      /\ \A w \in Vcpus \ {v} : OnTaskQ(w)' <=> OnTaskQ(w)
  BY DEF OnTaskQ
<1>5. QueuesDisjoint'
  <2>1. ASSUME NEW w \in Vcpus PROVE ~(OnQ(runq', w) /\ OnQ(waitq', w))
    <3>1. ~(OnQ(runq, w) /\ OnQ(waitq, w))
      BY DEF QInv, Placement, QueuesDisjoint
    <3>2. CASE w = v
      BY <3>2
    <3>3. CASE w # v
      BY <3>1, <3>3
    <3> QED
      BY <3>2, <3>3
  <2> QED
    BY <2>1 DEF QueuesDisjoint
<1>6. CursorOnRunq'
  BY DEF LockFree, CursorOnRunq
<1>7. AwakeIffQueued'
  BY <1>3, <1>4 DEF QInv, Placement, AwakeIffQueued, sedf_runnable
<1>8. ExtraOnlyIfQueued'
  <2>1. ASSUME NEW w \in Vcpus, NEW i \in Levels, OnQ(extraq'[i], w)
        PROVE  OnTaskQ(w)'
    <3>1. w = v \/ OnQ(extraq[i], w)
      BY <2>1
    <3> QED
      BY <1>4, <3>1 DEF QInv, Placement, ExtraOnlyIfQueued
  <2> QED
    BY <2>1 DEF ExtraOnlyIfQueued
<1>9. ExtraRunWellPlaced'
  <2> SUFFICES ASSUME NEW w \in Vcpus, extra_runs(w)'
               PROVE  /\ Descheduling(w)'
                      /\ OnQ(waitq, w)'
                      /\ OnQ(extraq[extra_get_cur_q(w)], w)'
                      /\ ~({EXTRA_RUN_PEN, EXTRA_RUN_UTIL} \subseteq status[w])'
    BY DEF ExtraRunWellPlaced
  <2>1. w # v
    BY <1>2
  <2>2. extra_runs(w) /\ extra_get_cur_q(w)' = extra_get_cur_q(w)
    BY <2>1 DEF extra_runs, extra_get_cur_q
  <2>3. /\ Descheduling(w)
        /\ OnQ(waitq, w)
        /\ OnQ(extraq[extra_get_cur_q(w)], w)
        /\ ~({EXTRA_RUN_PEN, EXTRA_RUN_UTIL} \subseteq status[w])
    BY <2>2 DEF QInv, Placement, ExtraRunWellPlaced
  <2>4. extra_get_cur_q(w) \in Levels
    BY DEF extra_get_cur_q
  <2> QED
    BY <1>3, <2>1, <2>2, <2>3, <2>4
<1>10. EdfRunOnRunq'
  <2>1. ASSUME NEW w \in Vcpus, Descheduling(w)', ~extra_runs(w)'
        PROVE  OnQ(runq', w)
    <3>1. w # v
      BY <1>1, <1>3, <2>1
    <3>2. Descheduling(w) /\ ~extra_runs(w)
      BY <1>3, <2>1, <3>1 DEF extra_runs
    <3> QED
      BY <3>2 DEF QInv, Placement, EdfRunOnRunq
  <2> QED
    BY <2>1 DEF EdfRunOnRunq
<1> QED
  BY <1>5, <1>6, <1>7, <1>8, <1>9, <1>10 DEF Placement

(* sedf_wake on a vCPU that is still queued. *)
LEMMA WakeQueuedPlaced ==
    ASSUME QInv, NEW v \in Vcpus, sedf_wake_queued(v)
    PROVE  QInv'
<1>1. /\ UNCHANGED <<now, runnable, stops, cpu, control, queues, status, account,
                     score, blocked, cbs, params>>
      /\ pend' = [pend EXCEPT ![v] = @ \ {"wake"}]
  BY DEF sedf_wake_queued, Deliver
<1>2. pend' \in [Vcpus -> SUBSET {"sleep", "wake"}]
  BY <1>1 DEF QInv, TypeOK
<1>3. TypeOK'
  BY <1>1, <1>2 DEF QInv, TypeOK, cpu, control, queues, account, cbs, params
<1>4. Placement'
  BY <1>1, SamePlaces
     DEF QInv, Placement, Descheduling, CursorOnRunq, control, queues, cpu
<1> QED
  BY <1>3, <1>4 DEF QInv

(* The penalty score is a C int. *)
LEMMA PenaltyScoreType ==
    ASSUME QInv, NEW v \in Vcpus, NEW pen \in Nat \ {0}
    PROVE  PenaltyScore(v, pen) \in ScoreRange
<1>1. period[v] \in Nat
  BY DEF QInv, TypeOK
<1>2. FIXPOINT \in Nat
  BY ConstantsAssumption
<1>3. (period[v] * FIXPOINT) \div pen \in Int
  BY <1>1, <1>2
<1> QED
  BY <1>3, CIntType DEF PenaltyScore, ScoreRange

(* sedf_wake on a sleeping vCPU: onto one task queue, and onto the         *)
(* extra-time queues it asks for.                                          *)
LEMMA WakePlaced ==
    ASSUME QInv, NEW v \in Vcpus, sedf_wake(v)
    PROVE  QInv'
<1> DEFINE deadline == IF RenewsDeadline(v) THEN now + CBS_PERIOD ELSE deadl_abs[v]
           early    == now < deadline - period[v]
           short    == ~early /\ now < deadline
           lost     == IF slice[v] > cputime[v] THEN slice[v] - cputime[v] ELSE 0
           repaid   == short /\ blocked[v] /\ lost # 0
           dl       == CASE early -> deadline
                         [] short -> deadline + period[v]
                         [] OTHER -> now + period[v]
           st       == WokenStatus(v, repaid)
           penq     == DelFromQ(extraq[EXTRA_PEN_Q], v)
           pensc    == IF repaid
                       THEN [score[EXTRA_PEN_Q] EXCEPT ![v] = PenaltyScore(v, lost)]
                       ELSE score[EXTRA_PEN_Q]
           wantsPen == repaid \/ (early /\ EXTRA_WANT_PEN_Q \in status[v])
           pen1     == IF wantsPen THEN ListInsertSort(penq, v, pensc)
                       ELSE extraq[EXTRA_PEN_Q]
           util1    == IF extraq_check_add_unblocked(v)
                       THEN ListInsertSort(extraq[EXTRA_UTIL_Q], v, score[EXTRA_UTIL_Q])
                       ELSE extraq[EXTRA_UTIL_Q]
<1>1. /\ LockFree
      /\ pend' = [pend EXCEPT ![v] = @ \ {"wake"}]
      /\ UNCHANGED <<now, runnable, stops>>
      /\ ~OnTaskQ(v)
      /\ cbs_current_deadline' =
            IF RenewsDeadline(v)
            THEN [cbs_current_deadline EXCEPT ![v] = now + CBS_PERIOD]
            ELSE cbs_current_deadline
      /\ status' = [status EXCEPT ![v] = st]
      /\ deadl_abs' = [deadl_abs EXCEPT ![v] = dl]
      /\ cputime' = IF early THEN cputime ELSE [cputime EXCEPT ![v] = 0]
      /\ score' = [score EXCEPT ![EXTRA_PEN_Q] = pensc]
      /\ IF dl - period[v] > now
         THEN /\ waitq' = ListInsertSort(waitq, v, PeriodBegin(deadl_abs', period))
              /\ runq' = runq
         ELSE /\ runq' = ListInsertSort(runq, v, deadl_abs')
              /\ waitq' = waitq
      /\ UNCHANGED <<curr, current_slice_expires, control, sched_start_abs,
                     blocked, cbs_current_budget, params>>
  BY DEF sedf_wake, Deliver
<1>2. extraq' = [extraq EXCEPT ![EXTRA_PEN_Q] = pen1, ![EXTRA_UTIL_Q] = util1]
  BY DEF sedf_wake
<1>3. softirq' \in BOOLEAN
  <2>1. softirq' = (softirq \/ ShouldSwitch(dl - period[v], st, pensc[v]))
    BY DEF sedf_wake
  <2> HIDE DEF dl, st, pensc
  <2> QED
    BY <2>1
<1>4. UNCHANGED <<at, cur, curr, snow>>
  BY <1>1 DEF control
<1>5. /\ now \in Nat /\ CBS_PERIOD \in Nat
      /\ deadl_abs \in [Vcpus -> Int]
      /\ cputime \in [Vcpus -> Int]
      /\ cbs_current_deadline \in [Vcpus -> Int]
      /\ period[v] \in Nat
      /\ slice[v] \in Int
  BY ConstantsAssumption DEF QInv, TypeOK
<1>6. /\ cbs_current_deadline' \in [Vcpus -> Int]
      /\ deadl_abs' \in [Vcpus -> Int]
      /\ cputime' \in [Vcpus -> Int]
  <2>1. now + CBS_PERIOD \in Int
    BY <1>5
  <2>2. deadline \in Int
    BY <1>5, <2>1
  <2> HIDE DEF deadline
  <2>3. deadline + period[v] \in Int /\ now + period[v] \in Int
    BY <1>5, <2>2
  <2>4. dl \in Int
    <3>0. early => ~short
      OBVIOUS
    <3> HIDE DEF early, short
    <3>1. CASE early
      BY <2>2, <3>0, <3>1
    <3>2. CASE ~early /\ short
      BY <2>3, <3>2
    <3>3. CASE ~early /\ ~short
      BY <2>3, <3>3
    <3> QED
      BY <3>1, <3>2, <3>3
  <2> HIDE DEF dl, early, short
  <2> QED
    BY <1>1, <1>5, <2>1, <2>4
<1>7. pend' \in [Vcpus -> SUBSET {"sleep", "wake"}]
  BY <1>1 DEF QInv, TypeOK
<1>8. /\ status' \in [Vcpus -> SUBSET StatusBits]
      /\ status'[v] = st
      /\ \A w \in Vcpus \ {v} : status'[w] = status[w]
      /\ SEDF_ASLEEP \notin st
      /\ EXTRA_RUN_PEN \in st => EXTRA_RUN_PEN \in status[v]
      /\ EXTRA_RUN_UTIL \in st => EXTRA_RUN_UTIL \in status[v]
  <2>1. status \in [Vcpus -> SUBSET StatusBits]
    BY DEF QInv, TypeOK
  <2> HIDE DEF repaid
  <2>2. /\ st \in SUBSET StatusBits
        /\ SEDF_ASLEEP \notin st
        /\ EXTRA_RUN_PEN \in st => EXTRA_RUN_PEN \in status[v]
        /\ EXTRA_RUN_UTIL \in st => EXTRA_RUN_UTIL \in status[v]
    BY <2>1 DEF WokenStatus, StatusBits, SEDF_ASLEEP, EXTRA_RUN_PEN,
                EXTRA_RUN_UTIL, EXTRA_WANT_PEN_Q
  <2> HIDE DEF st
  <2> QED
    BY <1>1, <2>1, <2>2
<1>9. score' \in [Levels -> [Vcpus -> ScoreRange]]
  <2>1. /\ score \in [Levels -> [Vcpus -> ScoreRange]]
        /\ score[EXTRA_PEN_Q] \in [Vcpus -> ScoreRange]
    BY DEF QInv, TypeOK, ScoreRange
  <2>2. pensc \in [Vcpus -> ScoreRange]
    <3>1. CASE repaid
      <4>1. lost \in Nat \ {0}
        <5>1. cputime[v] \in Int
          BY <1>5
        <5> QED
          BY <1>5, <3>1, <5>1
      <4>2. PenaltyScore(v, lost) \in ScoreRange
        <5> HIDE DEF lost
        <5> QED
          BY <4>1, PenaltyScoreType
      <4> HIDE DEF lost, repaid
      <4> QED
        BY <2>1, <3>1, <4>2
    <3>2. CASE ~repaid
      <4> HIDE DEF repaid
      <4> QED
        BY <2>1, <3>2
    <3> QED
      BY <3>1, <3>2
  <2> HIDE DEF pensc
  <2> QED
    BY <1>1, <2>1, <2>2
<1>10. /\ NoDuplicates(runq) /\ NoDuplicates(waitq)
       /\ runq \in Seq(Vcpus) /\ waitq \in Seq(Vcpus)
       /\ extraq \in [Levels -> Seq(Vcpus)]
       /\ \A i \in Levels : extraq[i] \in Seq(Vcpus) /\ NoDuplicates(extraq[i])
       /\ \A i \in Levels : ~OnQ(extraq[i], v)
       /\ ~OnQ(runq, v) /\ ~OnQ(waitq, v)
  BY <1>1, OffQueues DEF QInv, TypeOK, Placement, QueuesDisjoint, OnTaskQ
<1>11. /\ pen1 \in Seq(Vcpus) /\ NoDuplicates(pen1)
       /\ \A w : OnQ(pen1, w) => w = v \/ OnQ(extraq[EXTRA_PEN_Q], w)
       /\ \A w : OnQ(extraq[EXTRA_PEN_Q], w) => OnQ(pen1, w)
  <2>1. penq = extraq[EXTRA_PEN_Q]
    BY <1>10 DEF DelFromQ
  <2> HIDE DEF penq, pensc, wantsPen
  <2>2. CASE wantsPen
    BY <1>10, <2>1, <2>2, InsertProperties
  <2>3. CASE ~wantsPen
    BY <1>10, <2>3
  <2> QED
    BY <2>2, <2>3
<1>12. /\ util1 \in Seq(Vcpus) /\ NoDuplicates(util1)
       /\ \A w : OnQ(util1, w) => w = v \/ OnQ(extraq[EXTRA_UTIL_Q], w)
       /\ \A w : OnQ(extraq[EXTRA_UTIL_Q], w) => OnQ(util1, w)
  <2>1. CASE extraq_check_add_unblocked(v)
    BY <1>10, <2>1, InsertProperties
  <2>2. CASE ~extraq_check_add_unblocked(v)
    BY <1>10, <2>2
  <2> QED
    BY <2>1, <2>2
<1> HIDE DEF pen1, util1, dl, st, pensc
<1>13. /\ extraq' \in [Levels -> Seq(Vcpus)]
       /\ extraq'[EXTRA_PEN_Q] = pen1
       /\ extraq'[EXTRA_UTIL_Q] = util1
  BY <1>2, <1>10, <1>11, <1>12
<1>14. /\ runq' \in Seq(Vcpus) /\ waitq' \in Seq(Vcpus)
       /\ NoDuplicates(runq') /\ NoDuplicates(waitq')
       /\ \A w : OnQ(runq', w) => w = v \/ OnQ(runq, w)
       /\ \A w : OnQ(waitq', w) => w = v \/ OnQ(waitq, w)
       /\ \A w : OnQ(runq, w) => OnQ(runq', w)
       /\ \A w : OnQ(waitq, w) => OnQ(waitq', w)
       /\ OnQ(runq', v) <=> ~OnQ(waitq', v)
  <2>1. CASE dl - period[v] > now
    <3>1. waitq' = ListInsertSort(waitq, v, PeriodBegin(deadl_abs', period)) /\ runq' = runq
      BY <1>1, <2>1
    <3> QED
      BY <1>10, <3>1, InsertProperties
  <2>2. CASE ~(dl - period[v] > now)
    <3>1. runq' = ListInsertSort(runq, v, deadl_abs') /\ waitq' = waitq
      BY <1>1, <2>2
    <3> QED
      BY <1>10, <3>1, InsertProperties
  <2> QED
    BY <2>1, <2>2
<1>15. TypeOK'
  BY <1>1, <1>3, <1>6, <1>7, <1>8, <1>9, <1>13, <1>14
     DEF QInv, TypeOK, control, params, ScoreRange
<1>16. \A i \in Levels :
          /\ NoDuplicates(extraq'[i])
          /\ \A w : OnQ(extraq'[i], w) => w = v \/ OnQ(extraq[i], w)
          /\ \A w \in Vcpus \ {v} : OnQ(extraq[i], w) => OnQ(extraq'[i], w)
  BY <1>11, <1>12, <1>13
<1>17. Placement'
  BY <1>1, <1>4, <1>8, <1>14, <1>16, WokenPlaces
<1> QED
  BY <1>15, <1>17 DEF QInv

-----------------------------------------------------------------------------
(* The choice of the next vCPU. *)
LEMMA RunPlaced ==
    ASSUME QInv, NEW v \in Vcpus \cup {IDLE}, NEW st \in [Vcpus -> SUBSET StatusBits],
           NEW t \in Int, Run(v, st, t),
           \A w \in Vcpus : SEDF_ASLEEP \in st[w] <=> SEDF_ASLEEP \in status[w],
           \A w \in Vcpus : w # v => st[w] = status[w],
           v \in Vcpus =>
              \/ OnQ(runq, v) /\ st[v] = status[v]
              \/ /\ t >= 0
                 /\ OnQ(waitq, v)
                 /\ \/ OnQ(extraq[EXTRA_PEN_Q], v) /\ st[v] = status[v] \cup {EXTRA_RUN_PEN}
                    \/ OnQ(extraq[EXTRA_UTIL_Q], v) /\ st[v] = status[v] \cup {EXTRA_RUN_UTIL}
    PROVE  QInv'
<1>1. /\ at = "pick" /\ status' = st /\ snow' = 0
      /\ UNCHANGED <<external, softirq, cur, queues, deadl_abs, cputime,
                     score, blocked, cbs, params>>
  BY DEF Run
<1>2. /\ \/ /\ at' = "bug" /\ t < 0 /\ curr' = curr
            /\ UNCHANGED <<current_slice_expires, sched_start_abs>>
         \/ /\ at' = "guest" /\ curr' = v
            /\ current_slice_expires' = snow + t
            /\ sched_start_abs' = IF v = IDLE THEN sched_start_abs
                                  ELSE [sched_start_abs EXCEPT ![v] = snow]
  BY DEF Run
<1>3. /\ snow \in Nat /\ sched_start_abs \in [Vcpus -> Nat]
      /\ current_slice_expires \in Int /\ curr \in Vcpus \cup {IDLE}
  BY DEF QInv, TypeOK
<1>4. /\ current_slice_expires' \in Int
      /\ sched_start_abs' \in [Vcpus -> Nat]
      /\ curr' \in Vcpus \cup {IDLE}
      /\ at' \in Points
  BY <1>2, <1>3 DEF Points
<1>5. TypeOK'
  BY <1>1, <1>4 DEF QInv, TypeOK, external, queues, cbs, params
<1>6. UNCHANGED <<runq, waitq, extraq>>
  BY <1>1 DEF queues
<1>7. \A w \in Vcpus : ~Descheduling(w) /\ ~extra_runs(w)
  BY <1>1 DEF QInv, Placement, ExtraRunWellPlaced, Descheduling
<1>8. /\ QueuesDisjoint' /\ CursorOnRunq'
      /\ \A w \in Vcpus : OnTaskQ(w)' <=> OnTaskQ(w)
      /\ \A w \in Vcpus : sedf_runnable(status, w)' <=> sedf_runnable(status, w)
  BY <1>1, <1>2, <1>6
     DEF QInv, Placement, QueuesDisjoint, CursorOnRunq, OnTaskQ, sedf_runnable
<1>9. AwakeIffQueued' /\ ExtraOnlyIfQueued'
  BY <1>6, <1>7, <1>8 DEF QInv, Placement, AwakeIffQueued, ExtraOnlyIfQueued
<1>10. \A w \in Vcpus : w # v => ~extra_runs(w)'
  BY <1>1, <1>7 DEF extra_runs
<1>11. ExtraRunWellPlaced'
  <2> SUFFICES ASSUME v \in Vcpus, extra_runs(v)'
               PROVE  /\ Descheduling(v)'
                      /\ OnQ(waitq, v)'
                      /\ OnQ(extraq[extra_get_cur_q(v)], v)'
                      /\ ~({EXTRA_RUN_PEN, EXTRA_RUN_UTIL} \subseteq status[v])'
    BY <1>10 DEF ExtraRunWellPlaced
  <2>1. st[v] # status[v]
    BY <1>1, <1>7 DEF extra_runs
  <2>2. /\ t >= 0
        /\ OnQ(waitq, v)
        /\ \/ OnQ(extraq[EXTRA_PEN_Q], v) /\ st[v] = status[v] \cup {EXTRA_RUN_PEN}
           \/ OnQ(extraq[EXTRA_UTIL_Q], v) /\ st[v] = status[v] \cup {EXTRA_RUN_UTIL}
    BY <2>1
  <2>3. at' = "guest" /\ curr' = v
    BY <1>2, <2>2
  <2>4. EXTRA_RUN_PEN \notin status[v] /\ EXTRA_RUN_UTIL \notin status[v]
    BY <1>7 DEF extra_runs
  <2>5. Descheduling(v)' /\ OnQ(waitq, v)'
    BY <1>6, <2>2, <2>3 DEF Descheduling
  <2>6. CASE OnQ(extraq[EXTRA_PEN_Q], v) /\ st[v] = status[v] \cup {EXTRA_RUN_PEN}
    <3>1. EXTRA_RUN_PEN \in status'[v] /\ EXTRA_RUN_UTIL \notin status'[v]
      BY <1>1, <2>4, <2>6 DEF EXTRA_RUN_PEN, EXTRA_RUN_UTIL
    <3> QED
      BY <1>6, <2>5, <2>6, <3>1 DEF extra_get_cur_q
  <2>7. CASE OnQ(extraq[EXTRA_UTIL_Q], v) /\ st[v] = status[v] \cup {EXTRA_RUN_UTIL}
    <3>1. EXTRA_RUN_PEN \notin status'[v]
      BY <1>1, <2>4, <2>7 DEF EXTRA_RUN_PEN, EXTRA_RUN_UTIL
    <3> QED
      BY <1>6, <2>5, <2>7, <3>1 DEF extra_get_cur_q
  <2> QED
    BY <2>2, <2>6, <2>7
<1>12. EdfRunOnRunq'
  <2> SUFFICES ASSUME NEW w \in Vcpus, Descheduling(w)', ~extra_runs(w)'
               PROVE  OnQ(runq, w)'
    BY DEF EdfRunOnRunq
  <2>1. at' = "guest" /\ w = v
    BY <1>2 DEF Descheduling
  <2>2. EXTRA_RUN_PEN \notin st[v] /\ EXTRA_RUN_UTIL \notin st[v]
    BY <1>1, <2>1 DEF extra_runs
  <2> QED
    BY <1>6, <2>1, <2>2
<1> QED
  BY <1>5, <1>8, <1>9, <1>11, <1>12 DEF QInv, Placement

(* The smaller of two times is a time, and neither is before it. *)
LEMMA MinOfTwo ==
    ASSUME NEW a \in Int, NEW b \in Int
    PROVE  Min({a, b}) \in Int /\ Min({a, b}) <= a /\ Min({a, b}) <= b
<1>1. \E x \in {a, b} : \A y \in {a, b} : x <= y
  OBVIOUS
<1> QED
  BY <1>1 DEF Min

(* The choice marks a vCPU as running only while it is on the queues that  *)
(* its descheduling will look for it.                                      *)
LEMMA PickPlaced ==
    ASSUME QInv,
           PickTasklet \/ PickIdle \/ PickRunq \/ PickExtra \/ PickExtraIdle
    PROVE  QInv'
<1>1. /\ status \in [Vcpus -> SUBSET StatusBits]
      /\ runq \in Seq(Vcpus) /\ waitq \in Seq(Vcpus)
      /\ extraq \in [Levels -> Seq(Vcpus)]
      /\ snow \in Nat
      /\ slice \in [Vcpus -> Int] /\ cputime \in [Vcpus -> Int]
      /\ deadl_abs \in [Vcpus -> Int] /\ period \in [Vcpus -> Nat \ {0}]
  BY DEF QInv, TypeOK
<1>2. SECOND \in Int /\ EXTRA_QUANTUM \in Nat /\ IDLE \notin Vcpus
  BY ConstantsAssumption
<1>3. waitq # << >> => ExtraTime \in Int /\ waitq[1] \in Vcpus
  <2> SUFFICES ASSUME waitq # << >> PROVE ExtraTime \in Int /\ waitq[1] \in Vcpus
    OBVIOUS
  <2>1. waitq[1] \in Vcpus
    BY <1>1, HeadElement
  <2> QED
    BY <1>1, <2>1 DEF ExtraTime, PERIOD_BEGIN
<1>4. ASSUME NEW t \in Int, Run(IDLE, status, t) PROVE QInv'
  BY <1>1, <1>2, <1>4, RunPlaced
<1>5. CASE PickTasklet \/ PickIdle
  BY <1>2, <1>4, <1>5 DEF PickTasklet, PickIdle
<1>6. CASE PickExtraIdle
  BY <1>3, <1>4, <1>6 DEF PickExtraIdle
<1>7. CASE PickRunq
  <2> DEFINE v == runq[1]
  <2>1. v \in Vcpus /\ OnQ(runq, v)
    BY <1>1, <1>7, HeadElement DEF PickRunq
  <2>2. SliceFor(v) \in Int
    <3>1. slice[v] - cputime[v] \in Int
      BY <1>1, <2>1
    <3>2. waitq # << >> => PERIOD_BEGIN(waitq[1]) - snow \in Int
      BY <1>3 DEF ExtraTime
    <3> HIDE DEF v
    <3> QED
      BY <3>1, <3>2, MinOfTwo DEF SliceFor
  <2>3. Run(v, status, SliceFor(v))
    BY <1>7 DEF PickRunq
  <2> HIDE DEF v
  <2> QED
    BY <1>1, <2>1, <2>2, <2>3, RunPlaced
<1>8. CASE PickExtra
  <2>1. \A v \in Vcpus, i \in Levels : OnQ(extraq[i], v) => OnQ(waitq, v)
    <3>1. runq = << >>
      BY <1>8 DEF PickExtra
    <3>2. \A v : ~OnQ(runq, v)
      BY <3>1 DEF OnQ
    <3> QED
      BY <3>2 DEF QInv, Placement, ExtraOnlyIfQueued, OnTaskQ
  <2>2. ASSUME NEW v \in Vcpus, NEW i \in Levels, OnQ(extraq[i], v),
               NEW f \in {EXTRA_RUN_PEN, EXTRA_RUN_UTIL},
               f = IF i = EXTRA_PEN_Q THEN EXTRA_RUN_PEN ELSE EXTRA_RUN_UTIL,
               Run(v, [status EXCEPT ![v] = @ \cup {f}], EXTRA_QUANTUM)
        PROVE  QInv'
    <3> DEFINE st == [status EXCEPT ![v] = @ \cup {f}]
    <3>1. /\ st \in [Vcpus -> SUBSET StatusBits]
          /\ st[v] = status[v] \cup {f}
          /\ \A w \in Vcpus : w # v => st[w] = status[w]
          /\ f # SEDF_ASLEEP
      BY <1>1 DEF StatusBits, EXTRA_RUN_PEN, EXTRA_RUN_UTIL, SEDF_ASLEEP
    <3>2. \A w \in Vcpus : SEDF_ASLEEP \in st[w] <=> SEDF_ASLEEP \in status[w]
      <4> HIDE DEF st
      <4> QED
        BY <3>1
    <3>3. Run(v, st, EXTRA_QUANTUM)
      BY <2>2
    <3>4. OnQ(waitq, v) /\ EXTRA_QUANTUM \in Int /\ EXTRA_QUANTUM >= 0
      BY <1>2, <2>1, <2>2
    <3>5. \/ OnQ(extraq[EXTRA_PEN_Q], v) /\ st[v] = status[v] \cup {EXTRA_RUN_PEN}
          \/ OnQ(extraq[EXTRA_UTIL_Q], v) /\ st[v] = status[v] \cup {EXTRA_RUN_UTIL}
      <4> HIDE DEF st
      <4> QED
        BY <2>2, <3>1
    <3> HIDE DEF st
    <3> QED
      BY <3>1, <3>2, <3>3, <3>4, <3>5, RunPlaced
  <2>3. CASE extraq[EXTRA_PEN_Q] # << >>
    <3> DEFINE v == extraq[EXTRA_PEN_Q][1]
    <3>1. v \in Vcpus /\ OnQ(extraq[EXTRA_PEN_Q], v)
      BY <1>1, <2>3, HeadElement
    <3>2. Run(v, [status EXCEPT ![v] = @ \cup {EXTRA_RUN_PEN}], EXTRA_QUANTUM)
      BY <1>8, <2>3 DEF PickExtra
    <3> HIDE DEF v
    <3> QED
      BY <2>2, <3>1, <3>2
  <2>4. CASE extraq[EXTRA_PEN_Q] = << >>
    <3> DEFINE v == extraq[EXTRA_UTIL_Q][1]
    <3>1. extraq[EXTRA_UTIL_Q] # << >>
      BY <1>8, <2>4 DEF PickExtra
    <3>2. v \in Vcpus /\ OnQ(extraq[EXTRA_UTIL_Q], v)
      BY <1>1, <3>1, HeadElement
    <3>3. Run(v, [status EXCEPT ![v] = @ \cup {EXTRA_RUN_UTIL}], EXTRA_QUANTUM)
      BY <1>8, <2>4 DEF PickExtra
    <3>4. /\ EXTRA_UTIL_Q \in Levels
          /\ EXTRA_RUN_UTIL = IF EXTRA_UTIL_Q = EXTRA_PEN_Q
                              THEN EXTRA_RUN_PEN ELSE EXTRA_RUN_UTIL
      OBVIOUS
    <3> HIDE DEF v
    <3> HIDE DEF EXTRA_UTIL_Q, EXTRA_PEN_Q, Levels
    <3> QED
      BY <2>2, <3>2, <3>3, <3>4
  <2> QED
    BY <2>3, <2>4
<1> QED
  BY <1>5, <1>6, <1>7, <1>8

-----------------------------------------------------------------------------
(* Every step of the scheduler and of its environment keeps the queues and *)
(* the status of the vCPUs in agreement.                                   *)
LEMMA StepPlaced == QInv /\ [Next]_vars => QInv'
<1> SUFFICES ASSUME QInv, [Next]_vars PROVE QInv'
  OBVIOUS
<1>1. CASE Environment
  BY <1>1, EnvironmentPlaced
<1>2. CASE Handlers
  BY <1>2, SleepPlaced, WakeQueuedPlaced, WakePlaced DEF Handlers
<1>3. CASE DoSchedule
  <2>1. CASE ScheduleCalled \/ ChargeBudget
    BY <2>1, CalledPlaced
  <2>2. ASSUME NEW v \in Vcpus,
               \/ desched_edf_keeps(v) \/ desched_edf_dom(v)
               \/ desched_extra_dom(v) \/ desched_extra_faults(v)
        PROVE  QInv'
    BY <2>2, KeepsPlaced, EdfPlaced, ExtraPlaced, LoopsEndPlaced
  <2>3. CASE PromoteWaiting
    BY <2>3, PromotePlaced
  <2>4. CASE WaitqDone \/ RunqDone
    BY <2>4, LoopsEndPlaced
  <2>5. ASSUME NEW v \in Vcpus,
               SkipEmptySlice(v) \/ ForgiveMiss(v) \/ StopAtRunnable(v)
        PROVE  QInv'
    BY <2>5, SkipPlaced, ForgivePlaced, LoopsEndPlaced
  <2>6. CASE PickTasklet \/ PickIdle \/ PickRunq \/ PickExtra \/ PickExtraIdle
    BY <2>6, PickPlaced
  <2> QED
    BY <1>3, <2>1, <2>2, <2>3, <2>4, <2>5, <2>6 DEF DoSchedule
<1>4. CASE UNCHANGED vars
  <2>1. TypeOK'
    BY <1>4 DEF QInv, TypeOK, vars
  <2>2. Placement'
    BY <1>4, SamePlaces DEF QInv, Placement, vars, Descheduling, CursorOnRunq
  <2> QED
    BY <2>1, <2>2 DEF QInv
<1> QED
  BY <1>1, <1>2, <1>3, <1>4 DEF Next

(* The inductive invariant holds in every reachable state. *)
THEOREM QueuesWellPlaced == Spec => []QInv
<1>1. Init => QInv
  BY InitPlaced
<1>2. QInv /\ [Next]_vars => QInv'
  BY StepPlaced
<1> QED
  BY <1>1, <1>2, PTL DEF Spec

(* Every field stays in its domain, scores within the width of a C int.    *)
THEOREM TypeCorrect == Spec => []TypeOK
<1>1. QInv => TypeOK
  BY DEF QInv
<1> QED
  BY <1>1, QueuesWellPlaced, PTL

(* No vCPU is ever linked twice. *)
THEOREM NeverLinkedTwice == Spec => []QueuesDisjoint
<1>1. QInv => QueuesDisjoint
  BY DEF QInv, Placement
<1> QED
  BY <1>1, QueuesWellPlaced, PTL

(* The saved cursor of the second traversal never leaves the runqueue.     *)
THEOREM CursorSafe == Spec => []CursorOnRunq
<1>1. QInv => CursorOnRunq
  BY DEF QInv, Placement
<1> QED
  BY <1>1, QueuesWellPlaced, PTL

(* An awake vCPU is never forgotten, a sleeping one never left queued.     *)
THEOREM AwakeQueued == Spec => []AwakeIffQueued
<1>1. QInv => AwakeIffQueued
  BY DEF QInv, Placement
<1> QED
  BY <1>1, QueuesWellPlaced, PTL

(* Extra time is only ever offered to vCPUs on a task queue. *)
THEOREM ExtraQueued == Spec => []ExtraOnlyIfQueued
<1>1. QInv => ExtraOnlyIfQueued
  BY DEF QInv, Placement
<1> QED
  BY <1>1, QueuesWellPlaced, PTL

(* The vCPU that runs is where the assertions of its descheduling expect   *)
(* it: on the runqueue, or on the wait queue and its extra-time queue.     *)
THEOREM RunningWellPlaced == Spec => [](ExtraRunWellPlaced /\ EdfRunOnRunq)
<1>1. QInv => ExtraRunWellPlaced /\ EdfRunOnRunq
  BY DEF QInv, Placement
<1> QED
  BY <1>1, QueuesWellPlaced, PTL
=============================================================================
