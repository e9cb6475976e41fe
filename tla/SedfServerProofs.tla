-------------------------- MODULE SedfServerProofs --------------------------
(***************************************************************************)
(* The constant bandwidth server: the deadlines of the server and of EDF,  *)
(* who is at the head of the runqueue when update_queues has come to its   *)
(* end, that the choice never hands out a negative time and when it hands  *)
(* out none, in which order the vCPUs wait and when that is lost, what     *)
(* follows for who runs and who pays, and that update_queues comes to an   *)
(* end.                                                                    *)
(***************************************************************************)
EXTENDS SedfProofs

USE DEF Levels, EXTRA_PEN_Q, EXTRA_UTIL_Q

-----------------------------------------------------------------------------
(* Whole periods that are added until the future is reached do reach it.   *)
LEMMA DivUpReaches ==
    ASSUME NEW x \in Nat, NEW p \in Nat \ {0}
    PROVE  DivUp(x, p) * p \in Nat /\ DivUp(x, p) * p >= x
<1> DEFINE d == (x + p - 1) \div p
<1>1. d \in Nat /\ x + p - 1 = d * p + ((x + p - 1) % p)
  OBVIOUS
<1>2. (x + p - 1) % p \in 0..(p - 1)
  OBVIOUS
<1>3. d * p \in Nat
  BY <1>1
<1> QED
  BY <1>1, <1>2, <1>3 DEF DivUp

(* The traversal that takes out the element it visits has in front of it   *)
(* what was in front of that element.                                      *)
LEMMA DelInFront ==
    ASSUME NEW S, NEW q \in Seq(S), NEW v, OnQ(q, v), NoDuplicates(q), NEW h,
           NEW k \in 1..Len(DelFromQ(q, v)),
           \A j \in 1..k : DelFromQ(q, v)[j] # NextOf(q, v, h)
    PROVE  /\ k \in 1..Len(q)
           /\ DelFromQ(q, v)[k] = q[k]
           /\ \A j \in 1..k : q[j] # v
<1> DEFINE i == CHOOSE x \in 1..Len(q) : q[x] = v
           d == DelFromQ(q, v)
<1>1. i \in 1..Len(q) /\ q[i] = v
  BY DEF OnQ
<1>2. d = RemoveAt(q, i)
  BY DEF DelFromQ
<1>3. NextOf(q, v, h) = IF i < Len(q) THEN q[i + 1] ELSE h
  BY DEF NextOf
<1> HIDE DEF i
<1>4. k \in 1..Len(d) /\ \A j \in 1..k : d[j] # NextOf(q, v, h)
  OBVIOUS
<1> HIDE DEF d
<1>5. /\ Len(d) = Len(q) - 1
      /\ \A j \in 1..(Len(q) - 1) : d[j] = IF j < i THEN q[j] ELSE q[j + 1]
  BY <1>1, <1>2, RemoveAtElements
<1>6. k < i
  <2> SUFFICES ASSUME k >= i PROVE FALSE
    BY <1>1, <1>4
  <2>1. i \in 1..k /\ i < Len(q) /\ i \in 1..(Len(q) - 1)
    BY <1>1, <1>4, <1>5
  <2>2. d[i] = q[i + 1]
    BY <1>5, <2>1
  <2> QED
    BY <1>3, <1>4, <2>1, <2>2
<1>7. k \in 1..Len(q) /\ d[k] = q[k]
  BY <1>1, <1>4, <1>5, <1>6
<1>8. \A j \in 1..k : q[j] # v
  BY <1>1, <1>6, <1>7 DEF NoDuplicates
<1> QED
  BY <1>7, <1>8 DEF d

(* An insertion takes nothing away from the front of an element.           *)
LEMMA InsertInFront ==
    ASSUME NEW S, NEW q \in Seq(S), NEW v \in S, NEW key,
           NEW k \in 1..Len(ListInsertSort(q, v, key))
    PROVE  LET l == ListInsertSort(q, v, key)
           IN  \/ l[k] = v
               \/ \E m \in 1..Len(q) :
                     /\ l[k] = q[m]
                     /\ \A j \in 1..m : \E i \in 1..k : l[i] = q[j]
<1> DEFINE l == ListInsertSort(q, v, key)
           Found == \E m \in 1..Len(q) :
                       /\ l[k] = q[m]
                       /\ \A j \in 1..m : \E i \in 1..k : l[i] = q[j]
<1>0. k \in 1..Len(l)
  OBVIOUS
<1>1. CASE Behind(q, v, key) = {}
  <2>1. l = Append(q, v)
    BY <1>1 DEF ListInsertSort
  <2> HIDE DEF l
  <2>2. /\ Len(l) = Len(q) + 1
        /\ \A j \in 1..Len(q) : l[j] = q[j]
        /\ l[Len(q) + 1] = v
    BY <2>1
  <2>3. l[k] = v \/ Found
    BY <1>0, <2>2
  <2> QED
    BY <2>3 DEF l
<1>2. CASE Behind(q, v, key) # {}
  <2> DEFINE p == Min(Behind(q, v, key))
  <2>1. /\ p \in 1..Len(q)
        /\ Len(l) = Len(q) + 1
        /\ \A j \in 1..(Len(q) + 1) :
              l[j] = IF j < p THEN q[j] ELSE IF j = p THEN v ELSE q[j - 1]
    BY <1>2, InsertElements
  <2> HIDE DEF l, p
  <2>2. CASE k < p
    <3>1. k \in 1..Len(q) /\ l[k] = q[k] /\ \A j \in 1..k : l[j] = q[j]
      BY <1>0, <2>1, <2>2
    <3> QED
      BY <3>1 DEF l
  <2>3. CASE k = p
    BY <1>0, <2>1, <2>3 DEF l
  <2>4. CASE k > p
    <3>1. k - 1 \in 1..Len(q) /\ l[k] = q[k - 1]
      BY <1>0, <2>1, <2>4
    <3>2. ASSUME NEW j \in 1..(k - 1) PROVE \E i \in 1..k : l[i] = q[j]
      <4>1. CASE j < p
        BY <1>0, <2>1, <2>4, <4>1
      <4>2. CASE j >= p
        <5>1. j + 1 \in 1..k /\ l[j + 1] = q[j]
          BY <1>0, <2>1, <2>4, <4>2
        <5> QED
          BY <5>1
      <4> QED
        BY <2>1, <4>1, <4>2
    <3> QED
      BY <3>1, <3>2 DEF l
  <2> QED
    BY <1>0, <2>1, <2>2, <2>3, <2>4
<1> QED
  BY <1>1, <1>2

(* The head of a queue after an insertion. *)
LEMMA InsertHead ==
    ASSUME NEW S, NEW q \in Seq(S), NEW v \in S, NEW key
    PROVE  LET l == ListInsertSort(q, v, key)
           IN  l[1] = v \/ (q # << >> /\ l[1] = q[1])
<1> DEFINE l == ListInsertSort(q, v, key)
<1>1. CASE Behind(q, v, key) = {}
  <2>1. l = Append(q, v)
    BY <1>1 DEF ListInsertSort
  <2> HIDE DEF l
  <2>2. q # << >> => 1 \in 1..Len(q)
    OBVIOUS
  <2> QED
    BY <2>1, <2>2 DEF l
<1>2. CASE Behind(q, v, key) # {}
  <2> DEFINE p == Min(Behind(q, v, key))
  <2>1. /\ p \in 1..Len(q)
        /\ \A j \in 1..(Len(q) + 1) :
              l[j] = IF j < p THEN q[j] ELSE IF j = p THEN v ELSE q[j - 1]
    BY <1>2, InsertElements
  <2> HIDE DEF l, p
  <2>2. 1 \in 1..(Len(q) + 1) /\ q # << >> /\ (~(1 < p) => p = 1)
    BY <2>1
  <2> QED
    BY <2>1, <2>2 DEF l
<1> QED
  BY <1>1, <1>2

-----------------------------------------------------------------------------
(* cbs_update: the server has budget, and its deadline and that of EDF are *)
(* moved together.                                                         *)
LEMMA CbsUpdateEffect ==
    ASSUME QInv, NEW v \in Vcpus, CbsUpdate(v)
    PROVE  /\ cbs_current_budget'[v] > 0
           /\ deadl_abs[v] >= cbs_current_deadline[v]
                 => UpdatedDeadline(v) >= cbs_current_deadline'[v]
           /\ \A w \in Vcpus \ {v} :
                 /\ cbs_current_budget'[w] = cbs_current_budget[w]
                 /\ cbs_current_deadline'[w] = cbs_current_deadline[w]
<1>1. /\ cbs_current_budget \in [Vcpus -> Int]
      /\ cbs_current_deadline \in [Vcpus -> Int]
      /\ deadl_abs[v] \in Int
      /\ snow \in Nat /\ CBS_PERIOD \in Nat /\ CBS_MAX_BUDGET \in Nat \ {0}
  BY ConstantsAssumption DEF QInv, TypeOK
<1>2. CASE Exhausted(v)
  BY <1>1, <1>2 DEF CbsUpdate, UpdatedDeadline
<1>3. CASE ~Exhausted(v)
  BY <1>1, <1>3 DEF CbsUpdate, UpdatedDeadline, Exhausted, cbs
<1> QED
  BY <1>2, <1>3

(* The fresh deadlines of update_queues. *)
SkippedDeadline(v) ==
    IF UpdatedDeadline(v) - period[v] < snow
    THEN UpdatedDeadline(v)
            + DivUp(snow - (UpdatedDeadline(v) - period[v]), period[v]) * period[v]
    ELSE UpdatedDeadline(v)
MissedBy(v) == UpdatedDeadline(v) + period[v]
ForgivenDeadline(v) ==
    IF MissedBy(v) < snow
    THEN MissedBy(v) + DivUp(snow - MissedBy(v), period[v]) * period[v]
    ELSE MissedBy(v)

(* They are ahead, and never earlier than what cbs_update has left.        *)
LEMMA FreshDeadlines ==
    ASSUME QInv, NEW v \in Vcpus
    PROVE  /\ SkippedDeadline(v) \in Int /\ ForgivenDeadline(v) \in Int
           /\ SkippedDeadline(v) - period[v] >= snow
           /\ SkippedDeadline(v) >= UpdatedDeadline(v)
           /\ ForgivenDeadline(v) >= snow
           /\ ForgivenDeadline(v) >= UpdatedDeadline(v)
<1>1. /\ UpdatedDeadline(v) \in Int
      /\ period[v] \in Nat \ {0}
      /\ snow \in Nat
  BY CbsUpdateType DEF QInv, TypeOK
<1>2. /\ SkippedDeadline(v) \in Int
      /\ SkippedDeadline(v) - period[v] >= snow
      /\ SkippedDeadline(v) >= UpdatedDeadline(v)
  <2> DEFINE x == snow - (UpdatedDeadline(v) - period[v])
             step == DivUp(x, period[v]) * period[v]
  <2>1. CASE UpdatedDeadline(v) - period[v] < snow
    <3>1. x \in Nat
      BY <1>1, <2>1
    <3>2. step \in Nat /\ step >= x
      <4> HIDE DEF x
      <4> QED
        BY <1>1, <3>1, DivUpReaches
    <3>3. SkippedDeadline(v) = UpdatedDeadline(v) + step
      BY <2>1 DEF SkippedDeadline
    <3> HIDE DEF step
    <3> QED
      BY <1>1, <3>2, <3>3
  <2>2. CASE ~(UpdatedDeadline(v) - period[v] < snow)
    BY <1>1, <2>2 DEF SkippedDeadline
  <2> QED
    BY <2>1, <2>2
<1>3. /\ ForgivenDeadline(v) \in Int
      /\ ForgivenDeadline(v) >= snow
      /\ ForgivenDeadline(v) >= UpdatedDeadline(v)
  <2> DEFINE x == snow - MissedBy(v)
             step == DivUp(x, period[v]) * period[v]
  <2>0. MissedBy(v) \in Int /\ MissedBy(v) >= UpdatedDeadline(v)
    BY <1>1 DEF MissedBy
  <2>1. CASE MissedBy(v) < snow
    <3>1. x \in Nat
      BY <1>1, <2>0, <2>1
    <3>2. step \in Nat /\ step >= x
      <4> HIDE DEF x
      <4> QED
        BY <1>1, <3>1, DivUpReaches
    <3>3. ForgivenDeadline(v) = MissedBy(v) + step
      BY <2>1 DEF ForgivenDeadline
    <3> HIDE DEF step
    <3> QED
      BY <1>1, <2>0, <3>2, <3>3
  <2>2. CASE ~(MissedBy(v) < snow)
    BY <1>1, <2>0, <2>2 DEF ForgivenDeadline
  <2> QED
    BY <2>1, <2>2
<1> QED
  BY <1>2, <1>3

-----------------------------------------------------------------------------
(* What each part of update_queues does to the vCPU it looks at.           *)
LEMMA QueueSteps ==
    ASSUME QInv, NEW v \in Vcpus
    PROVE  /\ SkipEmptySlice(v)
                => /\ deadl_abs' = [deadl_abs EXCEPT ![v] = SkippedDeadline(v)]
                   /\ runq' = DelFromQ(runq, v)
                   /\ waitq' = ListInsertSort(waitq, v, PeriodBegin(deadl_abs', period))
                   /\ cur' = NextOf(runq, v, HEAD)
                   /\ cputime' = cputime
           /\ ForgiveMiss(v)
                => /\ deadl_abs' = [deadl_abs EXCEPT ![v] = ForgivenDeadline(v)]
                   /\ cputime' = [cputime EXCEPT ![v] = 0]
                   /\ slice[v] # 0
                   /\ cur' = NextOf(runq, v, HEAD)
                   /\ \/ /\ ForgivenDeadline(v) - period[v] > snow
                         /\ runq' = DelFromQ(runq, v)
                         /\ waitq' = ListInsertSort(waitq, v, PeriodBegin(deadl_abs', period))
                      \/ /\ runq' = ListInsertSort(DelFromQ(runq, v), v, deadl_abs')
                         /\ waitq' = waitq
           /\ SkipEmptySlice(v) \/ ForgiveMiss(v)
                => /\ at = "runq" /\ at' = "runq" /\ cur = v /\ CbsUpdate(v)
                   /\ UNCHANGED <<snow, period, slice, slice_orig>>
<1>1. SkipEmptySlice(v) \/ ForgiveMiss(v)
         => /\ at = "runq" /\ at' = "runq" /\ cur = v /\ CbsUpdate(v)
            /\ UNCHANGED <<snow, period, slice, slice_orig>>
  BY DEF SkipEmptySlice, ForgiveMiss, VisitRunq, params
<1>2. ASSUME SkipEmptySlice(v)
      PROVE  /\ deadl_abs' = [deadl_abs EXCEPT ![v] = SkippedDeadline(v)]
             /\ runq' = DelFromQ(runq, v)
             /\ waitq' = ListInsertSort(waitq, v, PeriodBegin(deadl_abs', period))
             /\ cur' = NextOf(runq, v, HEAD)
             /\ cputime' = cputime
  BY <1>2 DEF SkipEmptySlice, SkippedDeadline
<1>3. ASSUME ForgiveMiss(v)
      PROVE  /\ deadl_abs' = [deadl_abs EXCEPT ![v] = ForgivenDeadline(v)]
             /\ cputime' = [cputime EXCEPT ![v] = 0]
             /\ slice[v] # 0
             /\ cur' = NextOf(runq, v, HEAD)
             /\ \/ /\ ForgivenDeadline(v) - period[v] > snow
                   /\ runq' = DelFromQ(runq, v)
                   /\ waitq' = ListInsertSort(waitq, v, PeriodBegin(deadl_abs', period))
                \/ /\ runq' = ListInsertSort(DelFromQ(runq, v), v, deadl_abs')
                   /\ waitq' = waitq
  BY <1>3 DEF ForgiveMiss, ForgivenDeadline, MissedBy, NoSlice
<1> QED
  BY <1>1, <1>2, <1>3

-----------------------------------------------------------------------------
(* The EDF deadline of a vCPU never falls behind that of its server:       *)
(* whatever moves the one moves the other at least as far.                 *)
LEMMA StepDeadlines ==
    QInv /\ DeadlineNotBehindServer /\ [Next]_vars => DeadlineNotBehindServer'
<1> SUFFICES ASSUME QInv, DeadlineNotBehindServer, [Next]_vars
             PROVE  DeadlineNotBehindServer'
  OBVIOUS
<1>0. /\ deadl_abs \in [Vcpus -> Int] /\ cbs_current_deadline \in [Vcpus -> Int]
      /\ period \in [Vcpus -> Nat \ {0}]
      /\ now \in Nat /\ CBS_PERIOD \in Nat
      /\ runq \in Seq(Vcpus) /\ waitq \in Seq(Vcpus)
  BY ConstantsAssumption DEF QInv, TypeOK
<1>1. ASSUME UNCHANGED <<deadl_abs, cbs_current_deadline>>
      PROVE  DeadlineNotBehindServer'
  BY <1>1 DEF DeadlineNotBehindServer
<1>2. ASSUME NEW v \in Vcpus, NEW d \in Int, CbsUpdate(v), d >= UpdatedDeadline(v),
             deadl_abs' = [deadl_abs EXCEPT ![v] = d]
      PROVE  DeadlineNotBehindServer'
  <2>1. /\ UpdatedDeadline(v) >= cbs_current_deadline'[v]
        /\ \A w \in Vcpus \ {v} : cbs_current_deadline'[w] = cbs_current_deadline[w]
    BY <1>2, CbsUpdateEffect DEF DeadlineNotBehindServer
  <2>2. UpdatedDeadline(v) \in Int /\ cbs_current_deadline'[v] \in Int
    BY <1>2, CbsUpdateType
  <2>3. deadl_abs'[v] = d /\ \A w \in Vcpus \ {v} : deadl_abs'[w] = deadl_abs[w]
    BY <1>0, <1>2
  <2>4. deadl_abs'[v] >= cbs_current_deadline'[v]
    BY <1>2, <2>1, <2>2, <2>3
  <2> QED
    BY <2>1, <2>3, <2>4 DEF DeadlineNotBehindServer
<1>3. CASE Environment
  BY <1>1, <1>3 DEF Environment, Tick, TimerFires, Yield, RaiseSchedule, Block,
     Pause, Resume, Drop, Deliver, cpu, account, cbs
<1>4. ASSUME NEW v \in Vcpus, sedf_sleep(v) \/ sedf_wake_queued(v)
      PROVE  DeadlineNotBehindServer'
  BY <1>1, <1>4 DEF sedf_sleep, sedf_wake_queued, account, cbs
<1>5. ASSUME NEW v \in Vcpus, sedf_wake(v) PROVE DeadlineNotBehindServer'
  <2> DEFINE deadline == IF RenewsDeadline(v) THEN now + CBS_PERIOD ELSE deadl_abs[v]
             early    == now < deadline - period[v]
             short    == ~early /\ now < deadline
             dl       == CASE early -> deadline
                           [] short -> deadline + period[v]
                           [] OTHER -> now + period[v]
  <2>1. /\ cbs_current_deadline' =
              IF RenewsDeadline(v)
              THEN [cbs_current_deadline EXCEPT ![v] = now + CBS_PERIOD]
              ELSE cbs_current_deadline
        /\ deadl_abs' = [deadl_abs EXCEPT ![v] = dl]
    BY <1>5 DEF sedf_wake
  <2>2. deadline \in Int /\ deadline >= cbs_current_deadline'[v]
    BY <1>0, <2>1 DEF DeadlineNotBehindServer
  <2>3. \A w \in Vcpus \ {v} : cbs_current_deadline'[w] = cbs_current_deadline[w]
    BY <1>0, <2>1
  <2>4. cbs_current_deadline'[v] \in Int
    BY <1>0, <2>1
  <2> HIDE DEF deadline
  <2>5. dl \in Int /\ dl >= deadline
    BY <1>0, <2>2
  <2> HIDE DEF dl
  <2>6. deadl_abs'[v] = dl /\ \A w \in Vcpus \ {v} : deadl_abs'[w] = deadl_abs[w]
    BY <1>0, <2>1
  <2>7. deadl_abs'[v] >= cbs_current_deadline'[v]
    BY <2>2, <2>4, <2>5, <2>6
  <2> QED
    BY <2>3, <2>6, <2>7 DEF DeadlineNotBehindServer
<1>6. CASE ScheduleCalled \/ ChargeBudget \/ RunqDone
           \/ \E v \in Vcpus : desched_edf_keeps(v) \/ desched_extra_faults(v)
                               \/ desched_extra_dom(v)
  BY <1>1, <1>6
     DEF ScheduleCalled, ChargeBudget, RunqDone, desched_edf_keeps,
         desched_extra_faults, desched_extra_dom, Deschedule, account, cbs
<1>7. ASSUME NEW v \in Vcpus, desched_edf_dom(v) PROVE DeadlineNotBehindServer'
  <2>1. /\ cbs_current_deadline' = cbs_current_deadline
        /\ \/ deadl_abs' = deadl_abs
           \/ deadl_abs' = [deadl_abs EXCEPT ![v] = @ + NextParams(v).period]
    <3>1. CASE RanFor(v) >= slice[v]
      BY <1>7, <3>1 DEF desched_edf_dom, Deschedule, cbs
    <3>2. CASE ~(RanFor(v) >= slice[v])
      BY <1>7, <3>2 DEF desched_edf_dom, Deschedule, cbs
    <3> QED
      BY <3>1, <3>2
  <2>2. NextParams(v).period \in Nat
    BY NextParamsType
  <2> DEFINE new == deadl_abs[v] + NextParams(v).period
  <2>3. new \in Int /\ new >= deadl_abs[v]
    BY <1>0, <2>2
  <2>4. CASE deadl_abs' = deadl_abs
    BY <1>1, <2>1, <2>4
  <2>5. CASE deadl_abs' = [deadl_abs EXCEPT ![v] = new]
    <3> HIDE DEF new
    <3>1. deadl_abs'[v] = new /\ \A w \in Vcpus \ {v} : deadl_abs'[w] = deadl_abs[w]
      BY <1>0, <2>5
    <3>2. deadl_abs'[v] >= cbs_current_deadline[v]
      BY <1>0, <2>3, <3>1 DEF DeadlineNotBehindServer
    <3> QED
      BY <2>1, <3>1, <3>2 DEF DeadlineNotBehindServer
  <2> QED
    BY <2>1, <2>4, <2>5
<1>8. CASE PromoteWaiting
  <2>1. waitq[1] \in Vcpus
    BY <1>0, <1>8, HeadElement DEF PromoteWaiting
  <2>2. CbsUpdate(waitq[1])
        /\ deadl_abs' = [deadl_abs EXCEPT ![waitq[1]] = UpdatedDeadline(waitq[1])]
    BY <1>8 DEF PromoteWaiting
  <2>3. UpdatedDeadline(waitq[1]) \in Int
        /\ UpdatedDeadline(waitq[1]) >= UpdatedDeadline(waitq[1])
    BY <2>1, CbsUpdateType
  <2> QED
    BY <1>2, <2>1, <2>2, <2>3
<1>9. CASE WaitqDone
  <2>1. CASE waitq = << >>
    BY <1>1, <1>9, <2>1 DEF WaitqDone, cbs
  <2>2. CASE waitq # << >>
    <3>1. waitq[1] \in Vcpus
      BY <1>0, <2>2, HeadElement
    <3>2. CbsUpdate(waitq[1])
          /\ deadl_abs' = [deadl_abs EXCEPT ![waitq[1]] = UpdatedDeadline(waitq[1])]
      BY <1>9, <2>2 DEF WaitqDone
    <3>3. UpdatedDeadline(waitq[1]) \in Int
          /\ UpdatedDeadline(waitq[1]) >= UpdatedDeadline(waitq[1])
      BY <3>1, CbsUpdateType
    <3> QED
      BY <1>2, <3>1, <3>2, <3>3
  <2> QED
    BY <2>1, <2>2
<1>10. ASSUME NEW v \in Vcpus, SkipEmptySlice(v) \/ ForgiveMiss(v)
       PROVE  DeadlineNotBehindServer'
  BY <1>2, <1>10, QueueSteps, FreshDeadlines
<1>11. ASSUME NEW v \in Vcpus, StopAtRunnable(v) PROVE DeadlineNotBehindServer'
  <2>1. UpdatedDeadline(v) \in Int /\ CbsUpdate(v)
        /\ UpdatedDeadline(v) >= UpdatedDeadline(v)
        /\ deadl_abs' = [deadl_abs EXCEPT ![v] = UpdatedDeadline(v)]
    BY <1>11, CbsUpdateType DEF StopAtRunnable, VisitRunq
  <2> QED
    BY <1>2, <2>1
<1>12. CASE PickTasklet \/ PickIdle \/ PickRunq \/ PickExtra \/ PickExtraIdle
  <2>1. \E v, st, t : Run(v, st, t)
    BY <1>12 DEF PickTasklet, PickIdle, PickRunq, PickExtra, PickExtraIdle
  <2> QED
    BY <1>1, <2>1 DEF Run, cbs
<1>13. CASE UNCHANGED vars
  BY <1>1, <1>13 DEF vars
<1> QED
  BY <1>3, <1>4, <1>5, <1>6, <1>7, <1>8, <1>9, <1>10, <1>11, <1>12, <1>13
     DEF Next, Handlers, DoSchedule

(* Deferred, renewed or scaled: see DeadlineNotBehindServer. *)
THEOREM DeadlinesTogether == Spec => []DeadlineNotBehindServer
<1>1. Init => DeadlineNotBehindServer
  BY DEF Init, DeadlineNotBehindServer
<1> QED
  BY <1>1, StepDeadlines, QueuesWellPlaced, PTL DEF Spec

-----------------------------------------------------------------------------
(* No slice is negative; the parameters that vCPUs start with have none.   *)
SlicesNat == \A v \in Vcpus : slice[v] >= 0 /\ slice_orig[v] >= 0

(* What makes a vCPU fit to be at the head of the runqueue. *)
Fit(v) ==
    /\ cbs_current_budget[v] > 0
    /\ deadl_abs[v] >= snow
    /\ cputime[v] <= slice[v]
    /\ slice[v] # 0

(* The element k of the runqueue is in front of the cursor. *)
Passed(k) == \A j \in 1..k : runq[j] # cur

(* The traversal of the runqueue leaves only fit vCPUs in front of it: the *)
(* loop stops at the first one in order, and it is that one or a vCPU that *)
(* has been reinserted with a fresh slice that comes to the head.          *)
PassedFit == at = "runq" => \A k \in 1..Len(runq) : Passed(k) => Fit(runq[k])

(* When the wait queue has been walked, its head is not ready, and nobody  *)
(* who is ready gets there from the runqueue.                              *)
HeadWaits ==
    at \in {"runq", "pick"} /\ waitq # << >> => PERIOD_BEGIN(waitq[1]) >= snow

(* What is kept by every step, for HeadCanRun and NeverBehind.             *)
ServerInv ==
    /\ SlicesNat
    /\ PassedFit
    /\ HeadCanRun
    /\ HeadWaits
    /\ NeverBehind

(* Away from update_queues and the choice nothing is promised.             *)
LEMMA Elsewhere ==
    ASSUME QInv, ServerInv, at' \notin {"runq", "pick", "bug"},
           \/ UNCHANGED <<slice, slice_orig>>
           \/ \E v \in Vcpus : desched_edf_dom(v)
    PROVE  ServerInv'
<1>1. PassedFit' /\ HeadCanRun' /\ HeadWaits' /\ NeverBehind'
  BY DEF PassedFit, HeadCanRun, HeadWaits, NeverBehind
<1>2. ASSUME NEW v \in Vcpus, desched_edf_dom(v) PROVE SlicesNat'
  <2>1. /\ slice' = slice \/ slice' = [slice EXCEPT ![v] = NextParams(v).slice]
        /\ slice_orig' = slice_orig
    <3>1. slice \in [Vcpus -> Int]
      BY DEF QInv, TypeOK
    <3>2. CASE RanFor(v) >= slice[v]
      BY <1>2, <3>2 DEF desched_edf_dom, Deschedule
    <3>3. CASE ~(RanFor(v) >= slice[v])
      BY <1>2, <3>1, <3>3 DEF desched_edf_dom, Deschedule
    <3> QED
      BY <3>2, <3>3
  <2>2. /\ slice \in [Vcpus -> Int] /\ slice_orig \in [Vcpus -> Int]
        /\ SlicesNat
    BY DEF QInv, TypeOK, ServerInv
  <2>3. NextParams(v).slice >= 0
    BY <2>2 DEF NextParams, SlicesNat
  <2> QED
    BY <2>1, <2>2, <2>3 DEF SlicesNat
<1>3. SlicesNat'
  BY <1>2 DEF ServerInv, SlicesNat
<1> QED
  BY <1>1, <1>3 DEF ServerInv

(* The end of the first loop: its cursor is at the head of the runqueue.   *)
LEMMA WaitqDoneFit == QInv /\ ServerInv /\ WaitqDone => ServerInv'
<1> SUFFICES ASSUME QInv, ServerInv, WaitqDone PROVE ServerInv'
  OBVIOUS
<1>1. /\ at' = "runq" /\ cur' = FirstOf(runq, HEAD)
      /\ UNCHANGED <<snow, runq, waitq, slice, slice_orig, period>>
  BY DEF WaitqDone, queues, params
<1>2. PassedFit'
  <2> SUFFICES ASSUME NEW k \in 1..Len(runq), Passed(k)' PROVE FALSE
    BY <1>1 DEF PassedFit
  <2>1. runq # << >> /\ 1 \in 1..k
    BY DEF QInv, TypeOK
  <2> QED
    BY <1>1, <2>1 DEF Passed, FirstOf
<1>3. HeadWaits'
  <2> SUFFICES ASSUME waitq # << >> PROVE PERIOD_BEGIN(waitq[1])' >= snow
    BY <1>1 DEF HeadWaits
  <2> DEFINE v == waitq[1]
  <2>1. v \in Vcpus
    BY HeadElement DEF QInv, TypeOK
  <2>2. /\ deadl_abs' = [deadl_abs EXCEPT ![v] = UpdatedDeadline(v)]
        /\ UpdatedDeadline(v) - period[v] > snow
    BY DEF WaitqDone
  <2> HIDE DEF v
  <2>3. deadl_abs'[v] = UpdatedDeadline(v)
    BY <2>1, <2>2 DEF QInv, TypeOK
  <2>4. UpdatedDeadline(v) \in Int
    BY <2>1, CbsUpdateType
  <2>a. period[v] \in Int /\ snow \in Int
    BY <2>1 DEF QInv, TypeOK
  <2>5. deadl_abs'[v] - period'[v] >= snow
    BY <1>1, <2>2, <2>3, <2>4, <2>a
  <2> QED
    BY <1>1, <2>5 DEF PERIOD_BEGIN, v
<1>4. SlicesNat' /\ HeadCanRun' /\ NeverBehind'
  BY <1>1 DEF ServerInv, SlicesNat, HeadCanRun, NeverBehind
<1> QED
  BY <1>2, <1>3, <1>4 DEF ServerInv

(* A vCPU that is in front of the cursor, or at the head of the wait queue,*)
(* is not touched when another one is visited.                             *)
LEMMA VisitOthers ==
    ASSUME QInv, NEW v \in Vcpus, NEW w \in Vcpus, w # v, CbsUpdate(v),
           NEW d, deadl_abs' = [deadl_abs EXCEPT ![v] = d],
           cputime' = cputime \/ cputime' = [cputime EXCEPT ![v] = 0],
           UNCHANGED <<snow, slice, period>>
    PROVE  /\ Fit(w) => Fit(w)'
           /\ PERIOD_BEGIN(w)' = PERIOD_BEGIN(w)
<1>1. cbs_current_budget'[w] = cbs_current_budget[w]
  BY CbsUpdateEffect
<1>2. deadl_abs'[w] = deadl_abs[w] /\ cputime'[w] = cputime[w]
  BY DEF QInv, TypeOK
<1> QED
  BY <1>1, <1>2 DEF Fit, PERIOD_BEGIN

(* A vCPU that is sent back to the wait queue is not ready.                *)
LEMMA BackNotReady ==
    ASSUME QInv, ServerInv, NEW v \in Vcpus, OnQ(runq, v), at = "runq", at' = "runq",
           CbsUpdate(v),
           NEW d \in Int, deadl_abs' = [deadl_abs EXCEPT ![v] = d],
           cputime' = cputime \/ cputime' = [cputime EXCEPT ![v] = 0],
           UNCHANGED <<snow, slice, period>>,
           NEW key,
           \/ waitq' = waitq
           \/ d - period[v] >= snow /\ waitq' = ListInsertSort(waitq, v, key)
    PROVE  HeadWaits'
<1>1. waitq \in Seq(Vcpus) /\ ~OnQ(waitq, v)
  BY DEF QInv, TypeOK, Placement, QueuesDisjoint
<1>2. waitq # << >> => /\ waitq[1] \in Vcpus /\ waitq[1] # v
                       /\ PERIOD_BEGIN(waitq[1]) >= snow
  BY <1>1, HeadElement DEF ServerInv, HeadWaits
<1>3. deadl_abs'[v] = d
  BY DEF QInv, TypeOK
<1>4. waitq # << >> => deadl_abs'[waitq[1]] - period[waitq[1]] >= snow
  BY <1>2 DEF QInv, TypeOK, PERIOD_BEGIN
<1>5. ASSUME waitq' # << >> PROVE deadl_abs'[waitq'[1]] - period[waitq'[1]] >= snow
  <2>1. CASE waitq' = waitq
    BY <1>4, <1>5, <2>1
  <2>2. CASE d - period[v] >= snow /\ waitq' = ListInsertSort(waitq, v, key)
    <3>1. waitq'[1] = v \/ (waitq # << >> /\ waitq'[1] = waitq[1])
      BY <1>1, <2>2, InsertHead
    <3> QED
      BY <1>3, <1>4, <2>2, <3>1
  <2> QED
    BY <2>1, <2>2
<1> QED
  BY <1>5 DEF HeadWaits, PERIOD_BEGIN

(* The second loop goes on. *)
LEMMA MoveFit ==
    ASSUME QInv, ServerInv, NEW v \in Vcpus, SkipEmptySlice(v) \/ ForgiveMiss(v)
    PROVE  ServerInv'
<1>1. /\ at = "runq" /\ at' = "runq" /\ cur = v /\ CbsUpdate(v)
      /\ UNCHANGED <<snow, period, slice, slice_orig>>
      /\ cur' = NextOf(runq, v, HEAD)
      /\ cputime' = cputime \/ cputime' = [cputime EXCEPT ![v] = 0]
  BY QueueSteps
<1>2. /\ OnQ(runq, v) /\ NoDuplicates(runq) /\ runq \in Seq(Vcpus)
      /\ snow \in Nat /\ period[v] \in Nat /\ slice[v] \in Int
      /\ cputime \in [Vcpus -> Int] /\ deadl_abs \in [Vcpus -> Int]
  BY <1>1, NextSaved DEF QInv, TypeOK, Placement, QueuesDisjoint
<1>3. PICK d \in Int :
         /\ deadl_abs' = [deadl_abs EXCEPT ![v] = d]
         /\ \/ /\ runq' = DelFromQ(runq, v)
               /\ d - period[v] >= snow
               /\ waitq' = ListInsertSort(waitq, v, PeriodBegin(deadl_abs', period))
            \/ /\ runq' = ListInsertSort(DelFromQ(runq, v), v, deadl_abs')
               /\ waitq' = waitq
               /\ d >= snow
               /\ cputime' = [cputime EXCEPT ![v] = 0]
               /\ slice[v] # 0
  <2>1. CASE SkipEmptySlice(v)
    BY <2>1, QueueSteps, FreshDeadlines
  <2>2. CASE ForgiveMiss(v)
    <3>1. ForgivenDeadline(v) - period[v] > snow => ForgivenDeadline(v) - period[v] >= snow
      BY <1>2, FreshDeadlines
    <3> QED
      BY <2>2, <3>1, QueueSteps, FreshDeadlines
  <2> QED
    BY <2>1, <2>2
<1>4. HeadWaits'
  BY <1>1, <1>2, <1>3, BackNotReady
<1> DEFINE rest == DelFromQ(runq, v)
           next == NextOf(runq, v, HEAD)
           FitNow(w) == /\ cbs_current_budget'[w] > 0
                        /\ deadl_abs'[w] >= snow'
                        /\ cputime'[w] <= slice'[w]
                        /\ slice'[w] # 0
<1>5. \A w \in Vcpus : w # v /\ Fit(w) => FitNow(w)
  BY <1>1, <1>3, VisitOthers DEF Fit
<1>6. /\ rest \in Seq(Vcpus)
      /\ \A k \in 1..Len(rest) : (\A j \in 1..k : rest[j] # next) => FitNow(rest[k])
  <2>1. rest \in Seq(Vcpus)
    BY <1>2, DelFromQProperties
  <2>2. ASSUME NEW k \in 1..Len(rest), \A j \in 1..k : rest[j] # next
        PROVE  FitNow(rest[k])
    <3>1. /\ k \in 1..Len(runq) /\ rest[k] = runq[k]
          /\ \A j \in 1..k : runq[j] # v
      BY <1>2, <2>2, DelInFront
    <3> HIDE DEF rest, FitNow
    <3>2. Fit(runq[k])
      BY <1>1, <3>1 DEF ServerInv, PassedFit, Passed
    <3>3. runq[k] \in Vcpus /\ runq[k] # v
      BY <1>2, <3>1
    <3> QED
      BY <1>5, <3>1, <3>2, <3>3
  <2> QED
    BY <2>1, <2>2
<1>7. \A k \in 1..Len(runq') : (\A j \in 1..k : runq'[j] # next) => FitNow(runq'[k])
  <2>1. CASE runq' = rest
    <3> HIDE DEF rest, FitNow, next
    <3> QED
      BY <1>6, <2>1
  <2>2. CASE /\ runq' = ListInsertSort(rest, v, deadl_abs')
             /\ d >= snow
             /\ cputime' = [cputime EXCEPT ![v] = 0]
             /\ slice[v] # 0
    <3>1. FitNow(v)
      <4>1. cbs_current_budget'[v] > 0
        BY <1>1, CbsUpdateEffect
      <4>2. deadl_abs'[v] = d /\ cputime'[v] = 0
        BY <1>2, <1>3, <2>2
      <4>3. 0 <= slice[v]
        BY <1>2 DEF ServerInv, SlicesNat
      <4>4. deadl_abs'[v] >= snow' /\ cputime'[v] <= slice'[v] /\ slice'[v] # 0
        BY <1>1, <2>2, <4>2, <4>3
      <4> QED
        BY <4>1, <4>4
    <3> DEFINE key == deadl_abs'
               new == ListInsertSort(rest, v, key)
    <3>2. runq' = new /\ rest \in Seq(Vcpus)
      BY <1>6, <2>2
    <3> HIDE DEF rest, FitNow, next, key
    <3>3. ASSUME NEW k \in 1..Len(new), \A j \in 1..k : new[j] # next
          PROVE  FitNow(new[k])
      <4>1. \/ new[k] = v
            \/ \E m \in 1..Len(rest) :
                  /\ new[k] = rest[m]
                  /\ \A j \in 1..m : \E i \in 1..k : new[i] = rest[j]
        BY <3>2, <3>3, InsertInFront
      <4> HIDE DEF new
      <4> QED
        BY <1>6, <3>1, <3>3, <4>1
    <3> QED
      BY <3>2, <3>3
  <2> QED
    BY <1>3, <2>1, <2>2
<1>8. PassedFit'
  <2> HIDE DEF next
  <2> QED
    BY <1>1, <1>7 DEF PassedFit, Passed, Fit, next
<1>9. SlicesNat' /\ HeadCanRun' /\ NeverBehind'
  BY <1>1 DEF ServerInv, SlicesNat, HeadCanRun, NeverBehind
<1> QED
  BY <1>4, <1>8, <1>9 DEF ServerInv

(* The second loop ends: its first fit vCPU, or one in front of it, is the *)
(* head.                                                                   *)
LEMMA StopFit ==
    ASSUME QInv, ServerInv, NEW v \in Vcpus, StopAtRunnable(v)
    PROVE  ServerInv'
<1>1. /\ at = "runq" /\ at' = "pick" /\ cur = v /\ CbsUpdate(v)
      /\ deadl_abs' = [deadl_abs EXCEPT ![v] = UpdatedDeadline(v)]
      /\ UNCHANGED <<snow, runq, waitq, cputime, slice, slice_orig, period>>
      /\ UpdatedDeadline(v) >= snow /\ cputime[v] <= slice[v] /\ slice[v] # 0
  <2>1. UpdatedDeadline(v) \in Int
    BY CbsUpdateType
  <2>a. snow \in Int /\ cputime[v] \in Int /\ slice[v] \in Int
    BY DEF QInv, TypeOK
  <2>2. ~(UpdatedDeadline(v) < snow) /\ ~(cputime[v] > slice[v]) /\ slice[v] # 0
    BY DEF StopAtRunnable, Behindhand, NoSlice
  <2>3. UpdatedDeadline(v) >= snow /\ cputime[v] <= slice[v]
    BY <2>1, <2>2, <2>a
  <2> QED
    BY <2>2, <2>3 DEF StopAtRunnable, VisitRunq, params
<1>2. /\ OnQ(runq, v) /\ ~OnQ(waitq, v)
      /\ runq \in Seq(Vcpus) /\ waitq \in Seq(Vcpus)
  BY <1>1, NextSaved DEF QInv, TypeOK
<1>3. Fit(v)'
  <2>1. cbs_current_budget'[v] > 0
    BY <1>1, CbsUpdateEffect
  <2>2. deadl_abs'[v] = UpdatedDeadline(v)
    BY <1>1 DEF QInv, TypeOK
  <2> QED
    BY <1>1, <2>1, <2>2 DEF Fit
<1>4. HeadCanRun'
  <2> SUFFICES ASSUME NEW w \in Vcpus, runq # << >>, w = runq[1] PROVE Fit(w)'
    BY <1>1, <1>2, HeadElement DEF HeadCanRun, Fit
  <2>1. 1 \in 1..Len(runq)
    BY <1>2
  <2>2. w # v => Fit(w)
    BY <1>1, <2>1 DEF ServerInv, PassedFit, Passed
  <2>3. w # v => Fit(w)'
    BY <1>1, <2>2, VisitOthers
  <2> QED
    BY <1>3, <2>3
<1>5. HeadWaits'
  <2> SUFFICES ASSUME NEW w \in Vcpus, waitq # << >>, w = waitq[1]
               PROVE  PERIOD_BEGIN(w)' >= snow'
    BY <1>1, <1>2, HeadElement DEF HeadWaits, PERIOD_BEGIN
  <2>1. w # v /\ PERIOD_BEGIN(w) >= snow
    BY <1>1, <1>2, HeadElement DEF ServerInv, HeadWaits
  <2> QED
    BY <1>1, <2>1, VisitOthers
<1>6. SlicesNat' /\ PassedFit' /\ NeverBehind'
  BY <1>1 DEF ServerInv, SlicesNat, PassedFit, NeverBehind
<1> QED
  BY <1>4, <1>5, <1>6 DEF ServerInv

(* So does one that has come to the end of the runqueue.                   *)
LEMMA RunqDoneFit == QInv /\ ServerInv /\ RunqDone => ServerInv'
<1> SUFFICES ASSUME QInv, ServerInv, RunqDone PROVE ServerInv'
  OBVIOUS
<1>1. /\ at = "runq" /\ at' = "pick" /\ cur = HEAD
      /\ UNCHANGED <<snow, runq, waitq, cputime, slice, slice_orig, period,
                     deadl_abs, cbs_current_budget>>
  BY DEF RunqDone, queues, account, cbs, params
<1>2. HeadCanRun'
  <2> SUFFICES ASSUME runq # << >> PROVE Fit(runq[1])
    BY <1>1 DEF HeadCanRun, Fit
  <2>1. runq[1] \in Vcpus /\ 1 \in 1..Len(runq) /\ HEAD \notin Vcpus
    BY HeadElement, ConstantsAssumption DEF QInv, TypeOK
  <2> QED
    BY <1>1, <2>1 DEF ServerInv, PassedFit, Passed
<1>3. SlicesNat' /\ PassedFit' /\ HeadWaits' /\ NeverBehind'
  BY <1>1 DEF ServerInv, SlicesNat, PassedFit, HeadWaits, NeverBehind, PERIOD_BEGIN
<1> QED
  BY <1>2, <1>3 DEF ServerInv

(* The choice hands out no negative time. *)
LEMMA PickFit ==
    ASSUME QInv, ServerInv,
           PickTasklet \/ PickIdle \/ PickRunq \/ PickExtra \/ PickExtraIdle
    PROVE  ServerInv'
<1>0. /\ snow \in Int
      /\ \A w \in Vcpus : /\ PERIOD_BEGIN(w) \in Int
                          /\ slice[w] \in Int /\ cputime[w] \in Int
  BY DEF QInv, TypeOK, PERIOD_BEGIN
<1>1. \E v, st, t : Run(v, st, t) /\ t \in Nat
  <2>0. /\ SECOND \in Nat /\ EXTRA_QUANTUM \in Nat
    BY ConstantsAssumption
  <2>1. CASE PickTasklet \/ PickIdle
    BY <2>0, <2>1 DEF PickTasklet, PickIdle
  <2>2. CASE PickExtra
    <3>1. \E v, st : Run(v, st, EXTRA_QUANTUM)
      BY <2>2 DEF PickExtra
    <3> QED
      BY <2>0, <3>1
  <2>3. at = "pick" /\ waitq # << >> => PERIOD_BEGIN(waitq[1]) - snow \in Nat
    <3> SUFFICES ASSUME at = "pick", waitq # << >>
                 PROVE  PERIOD_BEGIN(waitq[1]) - snow \in Nat
      OBVIOUS
    <3>0. PERIOD_BEGIN(waitq[1]) >= snow
      BY DEF ServerInv, HeadWaits
    <3>1. waitq[1] \in Vcpus
      BY HeadElement DEF QInv, TypeOK
    <3>2. PERIOD_BEGIN(waitq[1]) \in Int /\ snow \in Int
      BY <1>0, <3>1
    <3> QED
      BY <3>0, <3>2
  <2>4. CASE PickExtraIdle
    <3>1. Run(IDLE, status, ExtraTime) /\ waitq # << >> /\ at = "pick"
      BY <2>4 DEF PickExtraIdle, Run
    <3>2. ExtraTime \in Nat
      BY <2>3, <3>1 DEF ExtraTime
    <3> QED
      BY <3>1, <3>2
  <2>5. CASE PickRunq
    <3> DEFINE v == runq[1]
               left == slice[v] - cputime[v]
    <3>1. Run(v, status, SliceFor(v)) /\ runq # << >> /\ at = "pick"
      BY <2>5 DEF PickRunq, Run
    <3>2. v \in Vcpus /\ cputime[v] <= slice[v]
      BY <3>1, HeadElement DEF QInv, TypeOK, ServerInv, HeadCanRun
    <3> HIDE DEF v
    <3>3. left \in Nat
      BY <1>0, <3>2
    <3>4. SliceFor(v) \in Nat
      <4>1. SliceFor(v) = IF waitq = << >> THEN left
                          ELSE Min({left, PERIOD_BEGIN(waitq[1]) - snow})
        BY DEF SliceFor
      <4> HIDE DEF left
      <4>2. CASE waitq = << >>
        BY <3>3, <4>1, <4>2
      <4>3. CASE waitq # << >>
        <5> DEFINE x == PERIOD_BEGIN(waitq[1]) - snow
        <5>1. x \in Nat
          BY <2>3, <3>1, <4>3
        <5> HIDE DEF x
        <5>2. {left, x} \in SUBSET Nat
          BY <3>3, <5>1
        <5>3. Min({left, x}) \in {left, x}
          BY <5>2, MinIsLeast
        <5> QED
          BY <3>3, <4>1, <4>3, <5>1, <5>3 DEF x
      <4> QED
        BY <4>2, <4>3
    <3> QED
      BY <3>1, <3>4
  <2> QED
    BY <2>1, <2>2, <2>4, <2>5
<1>2. PICK v, st, t : Run(v, st, t) /\ t \in Nat
  BY <1>1
<1>3. at' = "guest" /\ UNCHANGED <<slice, slice_orig>>
  <2>1. UNCHANGED <<slice, slice_orig>>
    BY <1>2 DEF Run, params
  <2>2. ~(t < 0)
    BY <1>2
  <2> QED
    BY <1>2, <2>1, <2>2 DEF Run
<1> QED
  BY <1>3, Elsewhere

(* Every step keeps the server invariant.                                  *)
LEMMA StepServer == QInv /\ ServerInv /\ [Next]_vars => ServerInv'
<1> SUFFICES ASSUME QInv, ServerInv, [Next]_vars PROVE ServerInv'
  OBVIOUS
<1>1. CASE Environment \/ Handlers
  <2>1. at' = at /\ at \in {"guest", "called"} /\ UNCHANGED params
    BY <1>1 DEF Environment, Tick, TimerFires, Yield, RaiseSchedule, Block,
       Pause, Resume, Drop, Deliver, LockFree, Handlers, sedf_sleep,
       sedf_wake_queued, sedf_wake, control, cpu
  <2> QED
    BY <2>1, Elsewhere DEF params
<1>2. CASE ScheduleCalled \/ ChargeBudget \/ PromoteWaiting
           \/ \E v \in Vcpus : desched_edf_keeps(v) \/ desched_extra_dom(v)
                               \/ desched_extra_faults(v)
  <2>1. at' \in {"called", "waitq", "desched", "fault"} /\ UNCHANGED <<slice, slice_orig>>
    BY <1>2 DEF ScheduleCalled, ChargeBudget, AfterCharge, PromoteWaiting,
       desched_edf_keeps, desched_extra_dom, desched_extra_faults, Deschedule,
       control, params
  <2> QED
    BY <2>1, Elsewhere
<1>3. ASSUME NEW v \in Vcpus, desched_edf_dom(v) PROVE ServerInv'
  <2>1. at' = "waitq"
    BY <1>3 DEF desched_edf_dom, Deschedule
  <2> QED
    BY <1>3, <2>1, Elsewhere
<1>4. ASSUME NEW v \in Vcpus,
             SkipEmptySlice(v) \/ ForgiveMiss(v) \/ StopAtRunnable(v)
      PROVE  ServerInv'
  BY <1>4, MoveFit, StopFit
<1>5. CASE PickTasklet \/ PickIdle \/ PickRunq \/ PickExtra \/ PickExtraIdle
  BY <1>5, PickFit
<1>6. CASE UNCHANGED vars
  BY <1>6 DEF vars, ServerInv, SlicesNat, PassedFit, Passed, Fit, HeadCanRun,
     HeadWaits, PERIOD_BEGIN, NeverBehind
<1> QED
  BY <1>1, <1>2, <1>3, <1>4, <1>5, <1>6, WaitqDoneFit, RunqDoneFit
     DEF Next, DoSchedule

(* The CPU idles, nobody has been chosen.                                  *)
LEMMA InitFit ==
    ASSUME \A p \in Params : p.slice >= 0 /\ p.slice_orig >= 0
    PROVE  Init => ServerInv
<1> SUFFICES ASSUME Init PROVE ServerInv
  OBVIOUS
<1>1. PICK p \in [Vcpus -> Params] : Init!(p)
  BY DEF Init
<1>2. SlicesNat
  BY <1>1 DEF SlicesNat
<1>3. PassedFit /\ HeadCanRun /\ HeadWaits /\ NeverBehind
  BY <1>1 DEF PassedFit, HeadCanRun, HeadWaits, NeverBehind
<1> QED
  BY <1>2, <1>3 DEF ServerInv

(* For parameters without a negative slice, the server invariant is kept.  *)
THEOREM ServerCorrect ==
    ASSUME \A p \in Params : p.slice >= 0 /\ p.slice_orig >= 0
    PROVE  Spec => []ServerInv
BY InitFit, StepServer, QueuesWellPlaced, PTL DEF Spec

(* Whoever is chosen from the runqueue has budget, slice and a deadline    *)
(* ahead: see HeadCanRun.                                                  *)
THEOREM HeadAlwaysFit ==
    ASSUME \A p \in Params : p.slice >= 0 /\ p.slice_orig >= 0
    PROVE  Spec => []HeadCanRun
<1>1. ServerInv => HeadCanRun
  BY DEF ServerInv
<1> QED
  BY <1>1, ServerCorrect, PTL

(* BUG_ON(1) is unreachable, whatever mixture of late timers, wakeups,     *)
(* empty slices and replenishments leads to the choice: see NeverBehind.   *)
THEOREM NeverSeriouslyBehind ==
    ASSUME \A p \in Params : p.slice >= 0 /\ p.slice_orig >= 0
    PROVE  Spec => []NeverBehind
<1>1. ServerInv => NeverBehind
  BY DEF ServerInv
<1> QED
  BY <1>1, ServerCorrect, PTL

-----------------------------------------------------------------------------
(* Zero time slices.                                                       *)

(* When the wait queue has been walked, the period of its head begins      *)
(* later than now, unless the head has no slice.                           *)
HeadLater ==
    at \in {"runq", "pick"} /\ waitq # << >> =>
        PERIOD_BEGIN(waitq[1]) # snow \/ NoSlice(waitq[1])

(* The second loop puts only vCPUs without a slice back to begin now.      *)
LEMMA MoveLater ==
    ASSUME QInv, HeadLater, NEW v \in Vcpus, SkipEmptySlice(v) \/ ForgiveMiss(v)
    PROVE  HeadLater'
<1>1. /\ at = "runq" /\ at' = "runq" /\ cur = v /\ CbsUpdate(v)
      /\ UNCHANGED <<snow, period, slice>>
      /\ cputime' = cputime \/ cputime' = [cputime EXCEPT ![v] = 0]
  BY QueueSteps
<1>2. /\ waitq \in Seq(Vcpus) /\ ~OnQ(waitq, v)
      /\ snow \in Nat /\ period[v] \in Nat /\ deadl_abs \in [Vcpus -> Int]
  BY <1>1, NextSaved DEF QInv, TypeOK
<1>3. PICK d \in Int :
         /\ deadl_abs' = [deadl_abs EXCEPT ![v] = d]
         /\ \/ waitq' = waitq
            \/ /\ d - period[v] # snow \/ NoSlice(v)
               /\ waitq' = ListInsertSort(waitq, v, PeriodBegin(deadl_abs', period))
  <2>1. CASE SkipEmptySlice(v)
    BY <2>1, QueueSteps, FreshDeadlines DEF SkipEmptySlice
  <2>2. CASE ForgiveMiss(v)
    <3>1. ForgivenDeadline(v) - period[v] > snow => ForgivenDeadline(v) - period[v] # snow
      BY <1>2, FreshDeadlines
    <3> QED
      BY <2>2, <3>1, QueueSteps, FreshDeadlines
  <2> QED
    BY <2>1, <2>2
<1> DEFINE Later(w) == deadl_abs'[w] - period'[w] # snow' \/ slice'[w] = 0
<1>4. waitq # << >> => Later(waitq[1])
  <2> SUFFICES ASSUME waitq # << >> PROVE Later(waitq[1])
    OBVIOUS
  <2>1. waitq[1] \in Vcpus /\ waitq[1] # v
    BY <1>2, HeadElement
  <2>2. deadl_abs'[waitq[1]] = deadl_abs[waitq[1]]
    BY <1>2, <1>3, <2>1
  <2> QED
    BY <1>1, <2>2 DEF HeadLater, PERIOD_BEGIN, NoSlice
<1>5. ASSUME waitq' # << >> PROVE Later(waitq'[1])
  <2>1. CASE waitq' = waitq
    <3> HIDE DEF Later
    <3> QED
      BY <1>4, <1>5, <2>1
  <2>2. CASE /\ d - period[v] # snow \/ NoSlice(v)
             /\ waitq' = ListInsertSort(waitq, v, PeriodBegin(deadl_abs', period))
    <3>1. waitq'[1] = v \/ (waitq # << >> /\ waitq'[1] = waitq[1])
      BY <1>2, <2>2, InsertHead
    <3>2. Later(v)
      BY <1>1, <1>2, <1>3, <2>2 DEF NoSlice
    <3> HIDE DEF Later
    <3> QED
      BY <1>4, <3>1, <3>2
  <2> QED
    BY <1>3, <2>1, <2>2
<1> QED
  BY <1>5 DEF HeadLater, PERIOD_BEGIN, NoSlice

(* The first loop stops at a head that begins later.                       *)
LEMMA WaitqDoneLater == QInv /\ WaitqDone => HeadLater'
<1> SUFFICES ASSUME QInv, WaitqDone, waitq # << >> PROVE PERIOD_BEGIN(waitq[1])' # snow'
  BY DEF HeadLater, WaitqDone, queues
<1> DEFINE v == waitq[1]
<1>1. v \in Vcpus
  BY HeadElement DEF QInv, TypeOK
<1>2. /\ deadl_abs' = [deadl_abs EXCEPT ![v] = UpdatedDeadline(v)]
      /\ UpdatedDeadline(v) - period[v] > snow
      /\ UNCHANGED <<snow, waitq, period>>
  BY DEF WaitqDone, queues, params
<1> HIDE DEF v
<1>3. deadl_abs'[v] = UpdatedDeadline(v)
  BY <1>1, <1>2 DEF QInv, TypeOK
<1>4. UpdatedDeadline(v) \in Int /\ period[v] \in Int /\ snow \in Int
  <2>1. UpdatedDeadline(v) \in Int
    BY <1>1, CbsUpdateType DEF QInv
  <2> QED
    BY <1>1, <2>1 DEF QInv, TypeOK
<1>5. deadl_abs'[v] - period'[v] # snow'
  BY <1>2, <1>3, <1>4
<1> QED
  BY <1>2, <1>5 DEF PERIOD_BEGIN, v

LEMMA StepLater == QInv /\ HeadLater /\ [Next]_vars => HeadLater'
<1> SUFFICES ASSUME QInv, HeadLater, [Next]_vars PROVE HeadLater'
  OBVIOUS
<1>1. CASE at' \notin {"runq", "pick"}
  BY <1>1 DEF HeadLater
<1>2. CASE Environment \/ Handlers
  <2>1. at' = at /\ at \in {"guest", "called"}
    BY <1>2 DEF Environment, Tick, TimerFires, Yield, RaiseSchedule, Block,
       Pause, Resume, Drop, Deliver, LockFree, Handlers, sedf_sleep,
       sedf_wake_queued, sedf_wake, control, cpu
  <2> QED
    BY <1>1, <2>1
<1>3. CASE ScheduleCalled \/ ChargeBudget \/ PromoteWaiting
           \/ \E v \in Vcpus : desched_edf_keeps(v) \/ desched_edf_dom(v)
                               \/ desched_extra_dom(v) \/ desched_extra_faults(v)
  <2>1. at' \in {"called", "waitq", "desched", "fault"}
    BY <1>3 DEF ScheduleCalled, ChargeBudget, AfterCharge, PromoteWaiting,
       desched_edf_keeps, desched_edf_dom, desched_extra_dom,
       desched_extra_faults, Deschedule, control
  <2> QED
    BY <1>1, <2>1
<1>4. ASSUME NEW v \in Vcpus, StopAtRunnable(v) PROVE HeadLater'
  <2>1. /\ at = "runq" /\ cur = v
        /\ UNCHANGED <<snow, waitq, slice, period>>
        /\ deadl_abs' = [deadl_abs EXCEPT ![v] = UpdatedDeadline(v)]
    BY <1>4 DEF StopAtRunnable, VisitRunq, params
  <2>2. ~OnQ(waitq, v) /\ waitq \in Seq(Vcpus) /\ deadl_abs \in [Vcpus -> Int]
    BY <2>1, NextSaved DEF QInv, TypeOK
  <2>3. waitq # << >> => deadl_abs'[waitq[1]] = deadl_abs[waitq[1]]
    BY <2>1, <2>2, HeadElement
  <2> QED
    BY <2>1, <2>3 DEF HeadLater, PERIOD_BEGIN, NoSlice
<1>5. CASE RunqDone \/ UNCHANGED vars
  <2>1. /\ at' \in {"runq", "pick"} => at \in {"runq", "pick"}
        /\ UNCHANGED <<snow, waitq, slice, period, deadl_abs>>
    BY <1>5 DEF RunqDone, vars, queues, account, params
  <2> QED
    BY <2>1 DEF HeadLater, PERIOD_BEGIN, NoSlice
<1>6. CASE PickTasklet \/ PickIdle \/ PickRunq \/ PickExtra \/ PickExtraIdle
  <2>1. \E v, st, t : Run(v, st, t)
    BY <1>6 DEF PickTasklet, PickIdle, PickRunq, PickExtra, PickExtraIdle
  <2>2. at' \in {"bug", "guest"}
    BY <2>1 DEF Run
  <2> QED
    BY <1>1, <2>2
<1> QED
  BY <1>2, <1>3, <1>4, <1>5, <1>6, MoveLater, WaitqDoneLater DEF Next, DoSchedule

(* The smaller of two numbers is one of them. *)
LEMMA MinOfPair ==
    ASSUME NEW a \in Int, NEW b \in Int
    PROVE  Min({a, b}) \in {a, b}
<1>1. \E x \in {a, b} : \A y \in {a, b} : x <= y
  <2>1. CASE a <= b
    BY <2>1
  <2>2. CASE ~(a <= b)
    BY <2>2
  <2> QED
    BY <2>1, <2>2
<1> QED
  BY <1>1 DEF Min

(* The choice.                                                             *)
LEMMA PickZero ==
    ASSUME QInv, HeadLater, [Next]_vars,
           at = "pick", at' = "guest", current_slice_expires' = snow
    PROVE  \/ /\ runq # << >>
              /\ cputime[runq[1]] = slice[runq[1]]
           \/ /\ waitq # << >>
              /\ NoSlice(waitq[1])
              /\ PERIOD_BEGIN(waitq[1]) = snow
<1>0. /\ snow \in Int /\ SECOND \in Nat \ {0} /\ EXTRA_QUANTUM \in Nat \ {0}
      /\ \A w \in Vcpus : /\ PERIOD_BEGIN(w) \in Int
                          /\ slice[w] \in Int /\ cputime[w] \in Int
  BY ConstantsAssumption DEF QInv, TypeOK, PERIOD_BEGIN
<1>1. ASSUME NEW v, NEW st, NEW t \in Int, Run(v, st, t) PROVE t = 0
  BY <1>0, <1>1 DEF Run
<1>2. PickTasklet \/ PickIdle \/ PickRunq \/ PickExtra \/ PickExtraIdle
  <2>1. ~(Environment \/ Handlers)
    BY DEF Environment, Tick, TimerFires, Yield, RaiseSchedule, Block,
       Pause, Resume, Drop, Deliver, LockFree, Handlers, sedf_sleep,
       sedf_wake_queued, sedf_wake
  <2>2. ~UNCHANGED vars
    BY DEF vars
  <2>3. ~(ScheduleCalled \/ ChargeBudget \/ PromoteWaiting \/ WaitqDone \/ RunqDone)
    BY DEF ScheduleCalled, ChargeBudget, PromoteWaiting, WaitqDone, RunqDone
  <2>4. ASSUME NEW v \in Vcpus
        PROVE  ~(desched_edf_keeps(v) \/ desched_edf_dom(v) \/ desched_extra_dom(v)
                 \/ desched_extra_faults(v) \/ SkipEmptySlice(v) \/ ForgiveMiss(v)
                 \/ StopAtRunnable(v))
    BY DEF desched_edf_keeps, desched_edf_dom, desched_extra_dom, Deschedule,
       desched_extra_faults, SkipEmptySlice, ForgiveMiss, StopAtRunnable, VisitRunq
  <2> QED
    BY <2>1, <2>2, <2>3, <2>4 DEF Next, DoSchedule
<1>3. ~(PickTasklet \/ PickIdle)
  <2>1. ~Run(IDLE, status, SECOND)
    <3>1. SECOND \in Int /\ SECOND # 0
      BY <1>0
    <3> QED
      BY <1>1, <3>1
  <2> QED
    BY <2>1 DEF PickTasklet, PickIdle
<1>4. ~PickExtra
  <2>1. PickExtra => \E v, st : Run(v, st, EXTRA_QUANTUM)
    BY DEF PickExtra
  <2> QED
    BY <1>0, <1>1, <2>1
<1>5. waitq # << >> => waitq[1] \in Vcpus /\ PERIOD_BEGIN(waitq[1]) \in Int
  BY <1>0, HeadElement DEF QInv, TypeOK
<1>6. waitq # << >> /\ PERIOD_BEGIN(waitq[1]) = snow => NoSlice(waitq[1])
  BY DEF HeadLater
<1>7. CASE PickExtraIdle
  <2>1. Run(IDLE, status, ExtraTime) /\ waitq # << >>
    BY <1>7 DEF PickExtraIdle
  <2>2. ExtraTime = PERIOD_BEGIN(waitq[1]) - snow /\ ExtraTime \in Int
    BY <1>0, <1>5, <2>1 DEF ExtraTime
  <2>3. ExtraTime = 0
    BY <1>1, <2>1, <2>2
  <2>4. PERIOD_BEGIN(waitq[1]) = snow
    BY <1>0, <1>5, <2>1, <2>2, <2>3
  <2> QED
    BY <1>6, <2>1, <2>4
<1>8. CASE PickRunq
  <2> DEFINE v    == runq[1]
             left == slice[v] - cputime[v]
             x    == PERIOD_BEGIN(waitq[1]) - snow
  <2>1. Run(v, status, SliceFor(v)) /\ runq # << >>
    BY <1>8 DEF PickRunq
  <2>2. v \in Vcpus
    BY <2>1, HeadElement DEF QInv, TypeOK
  <2> HIDE DEF v
  <2>3. left \in Int /\ (left = 0 => cputime[v] = slice[v])
    BY <1>0, <2>2
  <2>4. waitq # << >> => x \in Int /\ (x = 0 => PERIOD_BEGIN(waitq[1]) = snow)
    BY <1>0, <1>5
  <2>5. SliceFor(v) = left \/ (waitq # << >> /\ SliceFor(v) = x)
    <3>1. SliceFor(v) = IF waitq = << >> THEN left ELSE Min({left, x})
      BY DEF SliceFor
    <3> HIDE DEF left, x
    <3> QED
      BY <2>3, <2>4, <3>1, MinOfPair
  <2> HIDE DEF left, x
  <2>6. SliceFor(v) = 0
    BY <1>1, <2>1, <2>3, <2>4, <2>5
  <2> QED
    BY <1>6, <2>1, <2>3, <2>4, <2>5, <2>6 DEF v
<1> QED
  BY <1>2, <1>3, <1>4, <1>7, <1>8

(* CHECK(ret.time > 0) fails in two cases only, whatever the parameters:   *)
(* see ZeroTime.                                                           *)
THEOREM ZeroTimeCases == Spec => ZeroTime
<1>1. Init => HeadLater
  BY DEF Init, HeadLater
<1>2. QInv /\ HeadLater /\ [Next]_vars
        => [at = "pick" /\ at' = "guest" /\ current_slice_expires' = snow =>
              \/ /\ runq # << >>
                 /\ cputime[runq[1]] = slice[runq[1]]
              \/ /\ waitq # << >>
                 /\ NoSlice(waitq[1])
                 /\ PERIOD_BEGIN(waitq[1]) = snow]_vars
  BY PickZero
<1> QED
  BY <1>1, <1>2, StepLater, QueuesWellPlaced, PTL DEF Spec, ZeroTime

-----------------------------------------------------------------------------
(* The order of the wait queue.                                            *)

(* No period is shorter than that of the servers. *)
PeriodsLong ==
    \A v \in Vcpus : period[v] >= CBS_PERIOD /\ period_orig[v] >= CBS_PERIOD

(* The wait queue stays in order when at most one vCPU gets a new key, and *)
(* that one leaves the queue or is put in again by its new key.            *)
LEMMA Resorted ==
    ASSUME QInv, WaitqSorted, QInv', NEW v \in Vcpus,
           NEW q, q = waitq \/ q = DelFromQ(waitq, v), ~OnQ(q, v),
           \A w \in Vcpus \ {v} : deadl_abs'[w] = deadl_abs[w] /\ period'[w] = period[w],
           waitq' = q \/ waitq' = ListInsertSort(q, v, PeriodBegin(deadl_abs', period'))
    PROVE  WaitqSorted'
<1> DEFINE old == PeriodBegin(deadl_abs, period)
           key == PeriodBegin(deadl_abs', period')
<1>1. key \in [Vcpus -> Int]
  <2>1. deadl_abs' \in [Vcpus -> Int] /\ period' \in [Vcpus -> Nat \ {0}]
    BY DEF QInv, TypeOK
  <2> QED
    BY <2>1 DEF PeriodBegin
<1>2. waitq \in Seq(Vcpus) /\ IsSortedBy(waitq, old)
  BY DEF QInv, TypeOK, WaitqSorted
<1>3. \A w \in Vcpus \ {v} : key[w] = old[w]
  BY DEF PeriodBegin
<1>4. (PeriodBegin(deadl_abs, period))' = key
  OBVIOUS
<1> HIDE DEF old, key
<1>5. q \in Seq(Vcpus) /\ IsSortedBy(q, old)
  BY <1>2, DelFromQProperties, DelFromQSorted
<1>6. IsSortedBy(q, key)
  <2>1. \A w : OnQ(q, w) => w \in Vcpus \ {v}
    BY <1>5 DEF OnQ
  <2> QED
    BY <1>3, <1>5, <2>1, SortedByOther
<1>7. IsSortedBy(ListInsertSort(q, v, key), key)
  BY <1>1, <1>5, <1>6, InsertSorted
<1> QED
  BY <1>4, <1>6, <1>7 DEF WaitqSorted, key

(* Waiting vCPUs that keep their period and deadline stay in order.        *)
LEMMA OrderKept ==
    ASSUME WaitqSorted, UNCHANGED <<waitq, deadl_abs, period>>
    PROVE  WaitqSorted'
BY DEF WaitqSorted, PeriodBegin

(* Only the latency scaling of desched_edf_dom changes the parameters.     *)
LEMMA ParamsStep ==
    QInv /\ [Next]_vars =>
        /\ UNCHANGED <<period_orig, slice_orig, extraweight>>
        /\ \/ UNCHANGED <<period, slice>>
           \/ \E v \in Vcpus :
                 /\ period' = [period EXCEPT ![v] = NextParams(v).period]
                 /\ slice' = [slice EXCEPT ![v] = NextParams(v).slice]
<1> DEFINE Scaled(v) == /\ period' = [period EXCEPT ![v] = NextParams(v).period]
                        /\ slice' = [slice EXCEPT ![v] = NextParams(v).slice]
<1> SUFFICES ASSUME QInv, [Next]_vars
             PROVE  /\ UNCHANGED <<period_orig, slice_orig, extraweight>>
                    /\ UNCHANGED <<period, slice>> \/ \E v \in Vcpus : Scaled(v)
  OBVIOUS
<1>0. period \in [Vcpus -> Nat \ {0}] /\ slice \in [Vcpus -> Int]
  BY DEF QInv, TypeOK
<1>2. ASSUME NEW v \in Vcpus, desched_edf_dom(v)
      PROVE  /\ UNCHANGED <<period_orig, slice_orig, extraweight>>
             /\ UNCHANGED <<period, slice>> \/ Scaled(v)
  <2>1. CASE RanFor(v) >= slice[v]
    BY <1>2, <2>1 DEF desched_edf_dom, Deschedule
  <2>2. CASE ~(RanFor(v) >= slice[v])
    BY <1>0, <1>2, <2>2 DEF desched_edf_dom, Deschedule
  <2> QED
    BY <2>1, <2>2
<1>3. CASE Environment \/ Handlers
  BY <1>3 DEF Environment, Tick, TimerFires, Yield, RaiseSchedule, Block,
       Pause, Resume, Drop, Deliver, Handlers, sedf_sleep,
       sedf_wake_queued, sedf_wake, params
<1>4. CASE ScheduleCalled \/ ChargeBudget \/ PromoteWaiting \/ WaitqDone \/ RunqDone
           \/ \E v \in Vcpus : desched_edf_keeps(v) \/ desched_extra_dom(v)
                               \/ desched_extra_faults(v)
                               \/ SkipEmptySlice(v) \/ ForgiveMiss(v) \/ StopAtRunnable(v)
  BY <1>4 DEF ScheduleCalled, ChargeBudget, PromoteWaiting, WaitqDone, RunqDone,
       desched_edf_keeps, desched_extra_dom, desched_extra_faults, Deschedule,
       SkipEmptySlice, ForgiveMiss, StopAtRunnable, VisitRunq, params
<1>5. CASE PickTasklet \/ PickIdle \/ PickRunq \/ PickExtra \/ PickExtraIdle
  <2>1. \E v, st, t : Run(v, st, t)
    BY <1>5 DEF PickTasklet, PickIdle, PickRunq, PickExtra, PickExtraIdle
  <2> QED
    BY <2>1 DEF Run, params
<1>6. CASE UNCHANGED vars
  BY <1>6 DEF vars
<1> QED
  BY <1>2, <1>3, <1>4, <1>5, <1>6 DEF Next, DoSchedule

(* Periods only ever return to period_orig or are doubled.                 *)
LEMMA PeriodsStep ==
    QInv /\ PeriodsLong /\ [Next]_vars => PeriodsLong'
<1> SUFFICES ASSUME QInv, PeriodsLong, [Next]_vars PROVE PeriodsLong'
  OBVIOUS
<1>1. period \in [Vcpus -> Nat \ {0}] /\ period_orig \in [Vcpus -> Nat \ {0}] /\ CBS_PERIOD \in Nat
  BY ConstantsAssumption DEF QInv, TypeOK
<1>2. /\ period_orig' = period_orig
      /\ \/ period' = period
         \/ \E v \in Vcpus : period' = [period EXCEPT ![v] = NextParams(v).period]
  BY ParamsStep
<1>3. \A v \in Vcpus : NextParams(v).period >= CBS_PERIOD
  BY <1>1 DEF NextParams, PeriodsLong
<1> QED
  BY <1>1, <1>2, <1>3 DEF PeriodsLong

(* A woken vCPU is put in by the deadline that it has just been given.     *)
LEMMA WakeOrdered ==
    ASSUME QInv, WaitqSorted, QInv', NEW v \in Vcpus, sedf_wake(v)
    PROVE  WaitqSorted'
<1>1. /\ \E d : deadl_abs' = [deadl_abs EXCEPT ![v] = d]
      /\ period' = period /\ ~OnQ(waitq, v)
      /\ \/ waitq' = waitq
         \/ waitq' = ListInsertSort(waitq, v, PeriodBegin(deadl_abs', period))
  BY DEF sedf_wake, params, OnTaskQ
<1>2. \A w \in Vcpus \ {v} : deadl_abs'[w] = deadl_abs[w] /\ period'[w] = period[w]
  BY <1>1 DEF QInv, TypeOK
<1>3. \/ waitq' = waitq
      \/ waitq' = ListInsertSort(waitq, v, PeriodBegin(deadl_abs', period'))
  BY <1>1
<1> QED
  BY <1>1, <1>2, <1>3, Resorted

(* So is one that has finished its slice; a sleeper leaves.                *)
LEMMA DeschedOrdered ==
    ASSUME QInv, WaitqSorted, QInv', NEW v \in Vcpus,
           desched_edf_dom(v) \/ desched_extra_dom(v)
    PROVE  WaitqSorted'
<1> DEFINE q == DelFromQ(waitq, v)
<1>0. waitq \in Seq(Vcpus) /\ NoDuplicates(waitq)
  BY DEF QInv, TypeOK, Placement, QueuesDisjoint
<1>1. ~OnQ(q, v)
  BY <1>0, DelFromQProperties
<1>2. CASE desched_edf_dom(v)
  <2>1. \A w \in Vcpus \ {v} : deadl_abs'[w] = deadl_abs[w] /\ period'[w] = period[w]
    <3>1. deadl_abs \in [Vcpus -> Int] /\ period \in [Vcpus -> Nat \ {0}]
      BY DEF QInv, TypeOK
    <3>2. CASE RanFor(v) >= slice[v]
      BY <1>2, <3>1, <3>2 DEF desched_edf_dom
    <3>3. CASE ~(RanFor(v) >= slice[v])
      BY <1>2, <3>1, <3>3 DEF desched_edf_dom
    <3> QED
      BY <3>2, <3>3
  <2>2. waitq' = q \/ waitq' = ListInsertSort(q, v, PeriodBegin(deadl_abs', period'))
    BY <1>2 DEF desched_edf_dom
  <2> HIDE DEF q
  <2> QED
    BY <1>1, <2>1, <2>2, Resorted DEF q
<1>3. CASE desched_extra_dom(v)
  <2>1. UNCHANGED <<deadl_abs, period>> /\ (waitq' = waitq \/ waitq' = q)
    BY <1>3 DEF desched_extra_dom
  <2>2. CASE waitq' = waitq
    BY <2>1, <2>2, OrderKept
  <2>3. CASE waitq' = q
    <3> HIDE DEF q
    <3> QED
      BY <1>1, <2>1, <2>3, Resorted DEF q
  <2> QED
    BY <2>1, <2>2, <2>3
<1> QED
  BY <1>2, <1>3

(* In update_queues only the head of the wait queue is looked at in place. *)
(* It stays there without being put in again, so that a deadline that has  *)
(* been renewed can take the order away: a vCPU whose period is shorter    *)
(* than that of the servers has then not begun it and is not promoted.     *)
LEMMA LoopOrdered ==
    ASSUME QInv, ~RenewsInPlace, WaitqSorted, QInv',
           \/ PromoteWaiting
           \/ WaitqDone
           \/ \E v \in Vcpus : SkipEmptySlice(v) \/ ForgiveMiss(v) \/ StopAtRunnable(v)
    PROVE  WaitqSorted'
<1>0. /\ waitq \in Seq(Vcpus) /\ NoDuplicates(waitq)
      /\ deadl_abs \in [Vcpus -> Int] /\ period \in [Vcpus -> Nat \ {0}]
      /\ snow \in Nat /\ CBS_PERIOD \in Nat
  BY ConstantsAssumption DEF QInv, TypeOK, Placement, QueuesDisjoint
<1>1. CASE PromoteWaiting
  <2> DEFINE v == waitq[1]
             q == DelFromQ(waitq, v)
  <2>1. /\ v \in Vcpus /\ waitq' = q /\ period' = period
        /\ deadl_abs' = [deadl_abs EXCEPT ![v] = UpdatedDeadline(v)]
    BY <1>0, <1>1, HeadElement DEF PromoteWaiting, params
  <2> HIDE DEF v
  <2>2. ~OnQ(q, v)
    BY <1>0, DelFromQProperties
  <2>3. \A w \in Vcpus \ {v} : deadl_abs'[w] = deadl_abs[w] /\ period'[w] = period[w]
    BY <1>0, <2>1
  <2> HIDE DEF q
  <2> QED
    BY <2>1, <2>2, <2>3, Resorted DEF q
<1>2. CASE WaitqDone
  <2>1. waitq' = waitq /\ period' = period
    BY <1>2 DEF WaitqDone, queues, params
  <2>2. deadl_abs' = deadl_abs
    <3>1. CASE waitq = << >>
      BY <1>2, <3>1 DEF WaitqDone
    <3>2. CASE waitq # << >>
      <4> DEFINE v == waitq[1]
      <4>1. /\ v \in Vcpus
            /\ deadl_abs' = [deadl_abs EXCEPT ![v] = UpdatedDeadline(v)]
            /\ UpdatedDeadline(v) - period[v] > snow
        BY <1>0, <1>2, <3>2, HeadElement DEF WaitqDone
      <4> HIDE DEF v
      <4>2. UpdatedDeadline(v) = deadl_abs[v]
        <5>1. ~(Exhausted(v) /\ period[v] < CBS_PERIOD)
          BY <1>2, <3>2 DEF RenewsInPlace, WaitqDone, v
        <5>2. period[v] \in Nat
          BY <1>0, <4>1
        <5> QED
          BY <1>0, <4>1, <5>1, <5>2 DEF UpdatedDeadline
      <4> QED
        BY <1>0, <4>1, <4>2
    <3> QED
      BY <3>1, <3>2
  <2> QED
    BY <2>1, <2>2, OrderKept
<1>3. ASSUME NEW v \in Vcpus, SkipEmptySlice(v) \/ ForgiveMiss(v) \/ StopAtRunnable(v)
      PROVE  WaitqSorted'
  <2>1. /\ at = "runq" /\ cur = v /\ period' = period
        /\ \E d : deadl_abs' = [deadl_abs EXCEPT ![v] = d]
        /\ \/ waitq' = waitq
           \/ waitq' = ListInsertSort(waitq, v, PeriodBegin(deadl_abs', period))
    BY <1>3 DEF SkipEmptySlice, ForgiveMiss, StopAtRunnable, VisitRunq, params
  <2>2. ~OnQ(waitq, v)
    BY <2>1, NextSaved
  <2>3. \A w \in Vcpus \ {v} : deadl_abs'[w] = deadl_abs[w] /\ period'[w] = period[w]
    BY <1>0, <2>1
  <2>4. \/ waitq' = waitq
        \/ waitq' = ListInsertSort(waitq, v, PeriodBegin(deadl_abs', period'))
    BY <2>1
  <2> QED
    BY <2>2, <2>3, <2>4, Resorted
<1> QED
  BY <1>1, <1>2, <1>3

(* Every other step keeps the wait queue in order.                         *)
LEMMA StepOrdered ==
    QInv /\ ~RenewsInPlace /\ WaitqSorted /\ [Next]_vars => WaitqSorted'
<1> SUFFICES ASSUME QInv, ~RenewsInPlace, WaitqSorted, [Next]_vars PROVE WaitqSorted'
  OBVIOUS
<1>0. QInv'
  BY StepPlaced
<1>1. CASE Environment \/ UNCHANGED vars
  <2>1. UNCHANGED <<waitq, deadl_abs, period>>
    BY <1>1 DEF Environment, Tick, TimerFires, Yield, RaiseSchedule, Block,
       Pause, Resume, Drop, Deliver, queues, account, params, vars
  <2> QED
    BY <2>1, OrderKept
<1>2. ASSUME NEW v \in Vcpus, sedf_sleep(v) \/ sedf_wake_queued(v)
      PROVE  WaitqSorted'
  <2> DEFINE q == DelFromQ(waitq, v)
  <2>1. UNCHANGED <<deadl_abs, period>> /\ (waitq' = waitq \/ waitq' = q)
    BY <1>2 DEF sedf_sleep, sedf_wake_queued, queues, account, params
  <2>2. ~OnQ(q, v)
    BY DelFromQProperties DEF QInv, TypeOK, Placement, QueuesDisjoint
  <2>3. CASE waitq' = waitq
    BY <2>1, <2>3, OrderKept
  <2>4. CASE waitq' = q
    <3> HIDE DEF q
    <3> QED
      BY <1>0, <2>1, <2>2, <2>4, Resorted DEF q
  <2> QED
    BY <2>1, <2>3, <2>4
<1>3. CASE ScheduleCalled \/ ChargeBudget \/ RunqDone
           \/ \E v \in Vcpus : desched_edf_keeps(v) \/ desched_extra_faults(v)
  <2>1. UNCHANGED <<waitq, deadl_abs, period>>
    BY <1>3 DEF ScheduleCalled, ChargeBudget, RunqDone, desched_edf_keeps,
       desched_extra_faults, Deschedule, queues, account, params
  <2> QED
    BY <2>1, OrderKept
<1>4. CASE PickTasklet \/ PickIdle \/ PickRunq \/ PickExtra \/ PickExtraIdle
  <2>1. \E v, st, t : Run(v, st, t)
    BY <1>4 DEF PickTasklet, PickIdle, PickRunq, PickExtra, PickExtraIdle
  <2>2. UNCHANGED <<waitq, deadl_abs, period>>
    BY <2>1 DEF Run, queues, params
  <2> QED
    BY <2>2, OrderKept
<1> QED
  BY <1>0, <1>1, <1>2, <1>3, <1>4, WakeOrdered, DeschedOrdered, LoopOrdered
     DEF Next, Handlers, DoSchedule

(* Nothing but a renewal in place takes the order of the wait queue away,  *)
(* whatever the parameters: see OrderLostOnlyByRenewal.                    *)
THEOREM OrderLostByRenewal == Spec => OrderLostOnlyByRenewal
<1>1. QInv /\ [Next]_vars
        => [WaitqSorted /\ ~WaitqSorted' => RenewsInPlace]_vars
  BY StepOrdered
<1> QED
  BY <1>1, QueuesWellPlaced, PTL DEF Spec, OrderLostOnlyByRenewal

(* No vCPU starts with a period shorter than that of the servers. *)
LongParams ==
    \A p \in Params : p.period >= CBS_PERIOD /\ p.period_orig >= CBS_PERIOD

(* Then no renewal is in place.                                            *)
LEMMA WaitqOrdered ==
    ASSUME LongParams
    PROVE  Spec => []WaitqSorted
<1>1. Init => PeriodsLong /\ WaitqSorted
  <2> SUFFICES ASSUME Init PROVE PeriodsLong /\ WaitqSorted
    OBVIOUS
  <2>1. PICK p \in [Vcpus -> Params] : Init!(p)
    BY DEF Init
  <2>2. PeriodsLong
    BY <2>1 DEF PeriodsLong, LongParams
  <2>3. WaitqSorted
    BY <2>1 DEF WaitqSorted, IsSortedBy
  <2> QED
    BY <2>2, <2>3
<1>2. QInv /\ PeriodsLong => ~RenewsInPlace
  <2> SUFFICES ASSUME QInv, PeriodsLong, RenewsInPlace PROVE FALSE
    OBVIOUS
  <2>1. waitq[1] \in Vcpus /\ period[waitq[1]] < CBS_PERIOD
    BY HeadElement DEF RenewsInPlace, QInv, TypeOK
  <2>2. period[waitq[1]] \in Nat /\ CBS_PERIOD \in Nat
    BY <2>1, ConstantsAssumption DEF QInv, TypeOK
  <2>3. period[waitq[1]] >= CBS_PERIOD
    BY <2>1 DEF PeriodsLong
  <2> QED
    BY <2>1, <2>2, <2>3
<1> QED
  BY <1>1, <1>2, PeriodsStep, StepOrdered, QueuesWellPlaced, PTL DEF Spec

-----------------------------------------------------------------------------
(* What the slice timer is set for: nobody who waits begins his period     *)
(* before it expires.  (Tasklet work keeps the idle vCPU on for SECOND.)   *)
RunEnds ==
    at = "guest" /\ ~softirq /\ (curr = IDLE => TRUE \notin TaskletWork) =>
        \A v \in Vcpus : OnQ(waitq, v) => PERIOD_BEGIN(v) >= current_slice_expires

(* Nobody is ready while the CPU idles or gives extra time away.           *)
NobodyReady ==
    /\ at = "guest"
    /\ ~softirq
    /\ now < current_slice_expires
    /\ curr = IDLE \/ extra_runs(curr)
    => runq = << >>

(* In a wait queue that is in order nobody is before the head.             *)
LEMMA HeadBeginsFirst ==
    ASSUME QInv, WaitqSorted, NEW v \in Vcpus, OnQ(waitq, v)
    PROVE  waitq # << >> /\ PERIOD_BEGIN(waitq[1]) <= PERIOD_BEGIN(v)
<1>1. PICK i \in 1..Len(waitq) : waitq[i] = v
  BY DEF OnQ
<1>2. waitq \in Seq(Vcpus)
  BY DEF QInv, TypeOK
<1>3. waitq # << >> /\ 1 \in 1..Len(waitq) /\ waitq[1] \in Vcpus
  BY <1>1, <1>2
<1>4. /\ PeriodBegin(deadl_abs, period)[waitq[1]] = PERIOD_BEGIN(waitq[1])
      /\ PeriodBegin(deadl_abs, period)[waitq[i]] = PERIOD_BEGIN(v)
  BY <1>1, <1>3 DEF PeriodBegin, PERIOD_BEGIN
<1>5. PERIOD_BEGIN(v) \in Int
  BY DEF PERIOD_BEGIN, QInv, TypeOK
<1>6. CASE i = 1
  BY <1>1, <1>3, <1>5, <1>6
<1>7. CASE i # 1
  <2>1. 1 < i
    BY <1>1, <1>7
  <2> QED
    BY <1>1, <1>3, <1>4, <2>1 DEF WaitqSorted, IsSortedBy
<1> QED
  BY <1>3, <1>6, <1>7

(* What a wakeup does to the queues and to the softirq.                    *)
LEMMA WakeEffect ==
    ASSUME QInv, NEW v \in Vcpus, sedf_wake(v)
    PROVE  /\ LockFree /\ at' = at /\ curr' = curr /\ now' = now
           /\ current_slice_expires' = current_slice_expires
           /\ period' = period /\ cbs_current_budget' = cbs_current_budget
           /\ softirq => softirq'
           /\ curr = IDLE => softirq'
           /\ \A w \in Vcpus : extra_runs(w)' <=> extra_runs(w)
           /\ \E d \in Int :
                /\ deadl_abs' = [deadl_abs EXCEPT ![v] = d]
                /\ d - period[v] < current_slice_expires => softirq'
                /\ \/ /\ d - period[v] > now
                      /\ waitq' = ListInsertSort(waitq, v,
                                                 PeriodBegin(deadl_abs', period))
                      /\ runq' = runq
                   \/ /\ d - period[v] <= now
                      /\ runq' = ListInsertSort(runq, v, deadl_abs')
                      /\ waitq' = waitq
<1>0. /\ now \in Nat /\ deadl_abs \in [Vcpus -> Int] /\ period \in [Vcpus -> Nat \ {0}]
      /\ CBS_PERIOD \in Nat /\ status \in [Vcpus -> SUBSET StatusBits]
  BY ConstantsAssumption DEF QInv, TypeOK
<1>1. /\ LockFree /\ at' = at /\ curr' = curr /\ now' = now
      /\ current_slice_expires' = current_slice_expires
      /\ period' = period /\ cbs_current_budget' = cbs_current_budget
  BY DEF sedf_wake, Deliver, control, params
<1>2. \E d \in Int : \E st, sc :
         /\ deadl_abs' = [deadl_abs EXCEPT ![v] = d]
         /\ softirq' = (softirq \/ ShouldSwitch(d - period[v], st, sc))
         /\ IF d - period[v] > now
            THEN /\ waitq' = ListInsertSort(waitq, v, PeriodBegin(deadl_abs', period))
                 /\ runq' = runq
            ELSE /\ runq' = ListInsertSort(runq, v, deadl_abs')
                 /\ waitq' = waitq
  <2> DEFINE deadline == IF RenewsDeadline(v) THEN now + CBS_PERIOD ELSE deadl_abs[v]
             early    == now < deadline - period[v]
             short    == ~early /\ now < deadline
             d        == CASE early -> deadline
                           [] short -> deadline + period[v]
                           [] OTHER -> now + period[v]
  <2>1. deadline \in Int /\ now \in Int /\ period[v] \in Int
    BY <1>0
  <2>2. d \in Int
    <3> HIDE DEF deadline
    <3>1. CASE early
      BY <2>1, <3>1
    <3>2. CASE ~early /\ short
      BY <2>1, <3>2
    <3>3. CASE ~early /\ ~short
      BY <2>1, <3>3
    <3> QED
      BY <3>1, <3>2, <3>3
  <2>3. \E st, sc :
         /\ deadl_abs' = [deadl_abs EXCEPT ![v] = d]
         /\ softirq' = (softirq \/ ShouldSwitch(d - period[v], st, sc))
         /\ IF d - period[v] > now
            THEN /\ waitq' = ListInsertSort(waitq, v, PeriodBegin(deadl_abs', period))
                 /\ runq' = runq
            ELSE /\ runq' = ListInsertSort(runq, v, deadl_abs')
                 /\ waitq' = waitq
    BY DEF sedf_wake
  <2> HIDE DEF d
  <2> QED
    BY <2>2, <2>3
<1>3. PICK d \in Int : \E st, sc :
         /\ deadl_abs' = [deadl_abs EXCEPT ![v] = d]
         /\ softirq' = (softirq \/ ShouldSwitch(d - period[v], st, sc))
         /\ IF d - period[v] > now
            THEN /\ waitq' = ListInsertSort(waitq, v, PeriodBegin(deadl_abs', period))
                 /\ runq' = runq
            ELSE /\ runq' = ListInsertSort(runq, v, deadl_abs')
                 /\ waitq' = waitq
  BY <1>2
<1>4. /\ softirq => softirq'
      /\ curr = IDLE => softirq'
      /\ d - period[v] < current_slice_expires => softirq'
  <2>1. PICK st, sc : softirq' = (softirq \/ ShouldSwitch(d - period[v], st, sc))
    BY <1>3
  <2> QED
    BY <2>1 DEF ShouldSwitch
<1>5. \A w \in Vcpus : extra_runs(w)' <=> extra_runs(w)
  <2>1. \E repaid : status' = [status EXCEPT ![v] = WokenStatus(v, repaid)]
    BY DEF sedf_wake
  <2>2. PICK repaid : status' = [status EXCEPT ![v] = WokenStatus(v, repaid)]
    BY <2>1
  <2>3. /\ EXTRA_RUN_PEN \in WokenStatus(v, repaid) <=> EXTRA_RUN_PEN \in status[v]
        /\ EXTRA_RUN_UTIL \in WokenStatus(v, repaid) <=> EXTRA_RUN_UTIL \in status[v]
    BY DEF WokenStatus, SEDF_ASLEEP, EXTRA_RUN_PEN, EXTRA_RUN_UTIL, EXTRA_WANT_PEN_Q
  <2>4. \A w \in Vcpus : w # v => status'[w] = status[w]
    BY <1>0, <2>2
  <2>5. status'[v] = WokenStatus(v, repaid)
    BY <1>0, <2>2
  <2> QED
    BY <2>3, <2>4, <2>5 DEF extra_runs
<1>6. d - period[v] \in Int /\ now \in Int
  BY <1>0
<1>7. d - period[v] > now \/ d - period[v] <= now
  BY <1>6
<1> QED
  BY <1>1, <1>3, <1>4, <1>5, <1>6, <1>7

(* The choice sets the timer for the next period that begins, at the       *)
(* latest, and gives the CPU away only when nobody is ready.               *)
LEMMA PickHands ==
    ASSUME QInv, WaitqSorted,
           PickTasklet \/ PickIdle \/ PickRunq \/ PickExtra \/ PickExtraIdle
    PROVE  RunEnds' /\ (TRUE \notin TaskletWork => NobodyReady')
<1>a. at' # "guest" => RunEnds' /\ NobodyReady'
  BY DEF RunEnds, NobodyReady
<1>1. SUFFICES ASSUME at' = "guest"
               PROVE  RunEnds' /\ (TRUE \notin TaskletWork => NobodyReady')
  BY <1>a
<1>0. /\ snow \in Int /\ EXTRA_QUANTUM \in Int
      /\ \A w \in Vcpus : /\ PERIOD_BEGIN(w) \in Int
                          /\ slice[w] \in Int /\ cputime[w] \in Int
  BY ConstantsAssumption DEF QInv, TypeOK, PERIOD_BEGIN
<1>2. at = "pick" /\ UNCHANGED <<runq, waitq, deadl_abs, period>>
  BY DEF PickTasklet, PickIdle, PickRunq, PickExtra, PickExtraIdle, Run, queues, params
<1>3. ASSUME NEW v, NEW st, NEW t, Run(v, st, t)
      PROVE  /\ curr' = v /\ current_slice_expires' = snow + t /\ status' = st
             /\ softirq' = softirq
  <2>1. ~(t < 0)
    BY <1>1, <1>3 DEF Run
  <2> QED
    BY <1>3, <2>1 DEF Run
<1>4. waitq # << >> => waitq[1] \in Vcpus /\ ExtraTime \in Int
                       /\ ExtraTime = PERIOD_BEGIN(waitq[1]) - snow
  <2>1. waitq # << >> => waitq[1] \in Vcpus
    BY HeadElement DEF QInv, TypeOK
  <2> QED
    BY <1>0, <2>1 DEF ExtraTime
<1>5. ASSUME waitq # << >> => current_slice_expires' <= PERIOD_BEGIN(waitq[1]),
             current_slice_expires' \in Int
      PROVE  RunEnds'
  <2>1. ASSUME NEW w \in Vcpus, OnQ(waitq, w)
        PROVE  PERIOD_BEGIN(w) >= current_slice_expires'
    <3>1. waitq # << >> /\ PERIOD_BEGIN(waitq[1]) <= PERIOD_BEGIN(w)
      BY <2>1, HeadBeginsFirst
    <3>2. PERIOD_BEGIN(waitq[1]) \in Int /\ PERIOD_BEGIN(w) \in Int
      BY <1>0, <1>4, <2>1, <3>1
    <3> QED
      BY <1>5, <3>1, <3>2
  <2> QED
    BY <1>2, <2>1 DEF RunEnds, PERIOD_BEGIN
<1>6. CASE PickTasklet
  <2>1. curr' = IDLE /\ TRUE \in TaskletWork
    BY <1>3, <1>6 DEF PickTasklet
  <2> QED
    BY <2>1 DEF RunEnds
<1>7. CASE PickIdle
  <2>1. waitq = << >> /\ runq = << >>
    BY <1>7 DEF PickIdle
  <2>2. RunEnds'
    BY <1>2, <2>1 DEF RunEnds, OnQ
  <2> QED
    BY <1>2, <2>1, <2>2 DEF NobodyReady
<1>8. CASE PickRunq
  <2> DEFINE v == runq[1]
             left == slice[v] - cputime[v]
  <2>1. runq # << >> /\ curr' = v /\ current_slice_expires' = snow + SliceFor(v)
        /\ status' = status
    BY <1>3, <1>8 DEF PickRunq
  <2>2. v \in Vcpus
    BY <2>1, HeadElement DEF QInv, TypeOK
  <2>3. left \in Int
    BY <1>0, <2>2
  <2>4. SliceFor(v) \in Int /\ (waitq # << >> => SliceFor(v) <= ExtraTime)
    <3>1. SliceFor(v) = IF waitq = << >> THEN left ELSE Min({left, ExtraTime})
      BY DEF SliceFor, ExtraTime
    <3> HIDE DEF left, v
    <3>2. CASE waitq = << >>
      BY <2>3, <3>1, <3>2
    <3>3. CASE waitq # << >>
      <4>1. ExtraTime \in Int
        BY <1>4, <3>3
      <4>2. Min({left, ExtraTime}) \in Int /\ Min({left, ExtraTime}) <= ExtraTime
        BY <2>3, <4>1, MinOfTwo
      <4> QED
        BY <3>1, <3>3, <4>2
    <3> QED
      BY <3>2, <3>3
  <2> HIDE DEF v
  <2>5. RunEnds'
    BY <1>0, <1>4, <1>5, <2>1, <2>4
  <2>6. ~extra_runs(v) /\ v # IDLE
    BY <1>2, <2>2, ConstantsAssumption
       DEF QInv, Placement, ExtraRunWellPlaced, Descheduling
  <2>7. NobodyReady'
    BY <2>1, <2>6 DEF NobodyReady, extra_runs
  <2> QED
    BY <2>5, <2>7
<1>9. CASE PickExtra
  <2>1. runq = << >> /\ waitq # << >> /\ ExtraTime >= EXTRA_QUANTUM
        /\ \E v, st : Run(v, st, EXTRA_QUANTUM)
    BY <1>9 DEF PickExtra
  <2>2. current_slice_expires' = snow + EXTRA_QUANTUM
    BY <1>3, <2>1
  <2>3. RunEnds'
    BY <1>0, <1>4, <1>5, <2>1, <2>2
  <2> QED
    BY <1>2, <2>1, <2>3 DEF NobodyReady
<1>10. CASE PickExtraIdle
  <2>1. runq = << >> /\ waitq # << >> /\ Run(IDLE, status, ExtraTime)
    BY <1>10 DEF PickExtraIdle
  <2>2. current_slice_expires' = snow + ExtraTime
    BY <1>3, <2>1
  <2>3. RunEnds'
    BY <1>0, <1>4, <1>5, <2>1, <2>2
  <2> QED
    BY <1>2, <2>1, <2>3 DEF NobodyReady
<1> QED
  BY <1>6, <1>7, <1>8, <1>9, <1>10

(* At the guest nothing but a wakeup makes a period begin or a vCPU ready; *)
(* and one that would do so before the slice timer raises the softirq.     *)
LEMMA WakeHands ==
    ASSUME QInv, RunEnds, NEW v \in Vcpus, sedf_wake(v)
    PROVE  RunEnds' /\ (NobodyReady => NobodyReady')
<1>0. /\ now \in Nat /\ deadl_abs \in [Vcpus -> Int] /\ period \in [Vcpus -> Nat \ {0}]
      /\ current_slice_expires \in Int /\ waitq \in Seq(Vcpus)
      /\ curr \in Vcpus \cup {IDLE}
  BY DEF QInv, TypeOK
<1>1. /\ at' = at /\ curr' = curr /\ now' = now
      /\ current_slice_expires' = current_slice_expires
      /\ period' = period
      /\ softirq => softirq'
      /\ curr = IDLE => softirq'
      /\ \A w \in Vcpus : extra_runs(w)' <=> extra_runs(w)
  BY WakeEffect
<1>2. PICK d \in Int :
         /\ deadl_abs' = [deadl_abs EXCEPT ![v] = d]
         /\ d - period[v] < current_slice_expires => softirq'
         /\ \/ /\ d - period[v] > now
               /\ waitq' = ListInsertSort(waitq, v,
                                          PeriodBegin(deadl_abs', period))
               /\ runq' = runq
            \/ /\ d - period[v] <= now
               /\ runq' = ListInsertSort(runq, v, deadl_abs')
               /\ waitq' = waitq
  BY WakeEffect
<1>3. ASSUME NEW w \in Vcpus, OnQ(waitq', w) PROVE w = v \/ OnQ(waitq, w)
  BY <1>0, <1>2, <1>3, InsertProperties
<1>4. PERIOD_BEGIN(v)' = d - period[v]
      /\ \A w \in Vcpus : w # v => PERIOD_BEGIN(w)' = PERIOD_BEGIN(w)
  BY <1>0, <1>1, <1>2 DEF PERIOD_BEGIN
<1>5. RunEnds'
  <2> SUFFICES ASSUME at' = "guest", ~softirq', curr' = IDLE => TRUE \notin TaskletWork,
                      NEW w \in Vcpus, OnQ(waitq', w)
               PROVE  PERIOD_BEGIN(w)' >= current_slice_expires'
    BY DEF RunEnds
  <2>1. at = "guest" /\ ~softirq /\ curr # IDLE
    BY <1>1
  <2>2. CASE w = v
    <3>1. ~(d - period[v] < current_slice_expires)
      BY <1>2
    <3>2. d - period[v] \in Int
      BY <1>0
    <3> QED
      BY <1>0, <1>1, <1>4, <2>2, <3>1, <3>2
  <2>3. CASE w # v
    BY <1>1, <1>3, <1>4, <2>1, <2>3 DEF RunEnds
  <2> QED
    BY <2>2, <2>3
<1>6. ASSUME NobodyReady PROVE NobodyReady'
  <2> SUFFICES ASSUME at' = "guest", ~softirq', (now < current_slice_expires)',
                      (curr = IDLE \/ extra_runs(curr))'
               PROVE  runq' = << >>
    BY DEF NobodyReady
  <2>1. at = "guest" /\ ~softirq /\ curr # IDLE /\ now < current_slice_expires
    BY <1>1
  <2>2. extra_runs(curr)
    <3>1. extra_runs(curr)'
      BY <1>1, <2>1
    <3>2. curr \in Vcpus /\ curr' = curr
      BY <1>0, <1>1, <2>1
    <3> QED
      BY <1>1, <3>1, <3>2 DEF extra_runs
  <2>3. ~(d - period[v] < current_slice_expires) /\ d - period[v] \in Int
    BY <1>0, <1>2
  <2>4. runq' = runq
    BY <1>0, <1>2, <2>1, <2>3
  <2> QED
    BY <1>6, <2>1, <2>2, <2>4 DEF NobodyReady
<1> QED
  BY <1>5, <1>6

(* Every step keeps the promise of the slice timer.                        *)
LEMMA StepHands ==
    QInv /\ WaitqSorted /\ RunEnds /\ [Next]_vars
        => RunEnds' /\ (TRUE \notin TaskletWork /\ NobodyReady => NobodyReady')
<1> SUFFICES ASSUME QInv, WaitqSorted, RunEnds, [Next]_vars
             PROVE  RunEnds' /\ (TRUE \notin TaskletWork /\ NobodyReady => NobodyReady')
  OBVIOUS
<1>0. now \in Nat /\ current_slice_expires \in Int /\ waitq \in Seq(Vcpus) /\ runq \in Seq(Vcpus)
  BY DEF QInv, TypeOK
<1>a. at' # "guest" => RunEnds' /\ NobodyReady'
  BY DEF RunEnds, NobodyReady
<1>b. softirq' => RunEnds' /\ NobodyReady'
  BY DEF RunEnds, NobodyReady
<1>1. UNCHANGED <<at, softirq, curr, current_slice_expires, waitq, deadl_abs, period>>
         => RunEnds'
  <2> SUFFICES ASSUME UNCHANGED <<at, softirq, curr, current_slice_expires, waitq,
                                  deadl_abs, period>>,
                      at' = "guest", ~softirq', curr' = IDLE => TRUE \notin TaskletWork,
                      NEW w \in Vcpus, OnQ(waitq', w)
               PROVE  PERIOD_BEGIN(w)' >= current_slice_expires'
    BY DEF RunEnds
  <2>1. PERIOD_BEGIN(w)' = PERIOD_BEGIN(w)
    BY DEF PERIOD_BEGIN
  <2> QED
    BY <2>1 DEF RunEnds
<1>2. NobodyReady /\ UNCHANGED <<at, softirq, curr, current_slice_expires, runq, status>>
        /\ (now' = now \/ now' = now + 1)
         => NobodyReady'
  BY <1>0 DEF NobodyReady, extra_runs
<1>3. CASE Tick \/ UNCHANGED vars \/ \E v \in Vcpus : \/ Pause(v) \/ Resume(v)
                                              \/ Drop(v, "sleep") \/ Drop(v, "wake")
                                              \/ sedf_wake_queued(v)
  <2>1. /\ UNCHANGED <<at, softirq, curr, current_slice_expires, waitq, runq,
                       deadl_abs, period, status>>
        /\ now' = now \/ now' = now + 1
    BY <1>3 DEF Tick, Pause, Resume, Drop, Deliver, sedf_wake_queued, cpu, control,
       queues, account, params, vars
  <2> QED
    BY <1>1, <1>2, <2>1
<1>4. CASE TimerFires \/ Yield \/ \E v \in Vcpus : Block(v)
  <2>1. softirq'
    BY <1>4 DEF TimerFires, Yield, Block, RaiseSchedule
  <2> QED
    BY <1>b, <2>1
<1>5. ASSUME NEW v \in Vcpus, sedf_sleep(v)
      PROVE  RunEnds' /\ (TRUE \notin TaskletWork /\ NobodyReady => NobodyReady')
  <2>1. CASE IsCurrent(v)
    <3>1. softirq'
      BY <1>5, <2>1 DEF sedf_sleep
    <3> QED
      BY <1>b, <3>1
  <2>2. CASE ~IsCurrent(v)
    <3>1. /\ UNCHANGED <<at, softirq, curr, now, current_slice_expires, deadl_abs, period>>
          /\ runq' = DelFromQ(runq, v) /\ waitq' = DelFromQ(waitq, v)
          /\ status' = [status EXCEPT ![v] = @ \cup {SEDF_ASLEEP}]
      BY <1>5, <2>2 DEF sedf_sleep, Deliver, control, account, params
    <3>2. \A w : OnQ(waitq', w) => OnQ(waitq, w)
      BY <1>0, <3>1, DelFromQProperties DEF DelFromQ
    <3>3. RunEnds'
      BY <3>1, <3>2 DEF RunEnds, PERIOD_BEGIN
    <3>4. ASSUME NobodyReady PROVE NobodyReady'
      <4>1. runq = << >> => runq' = << >>
        BY <3>1 DEF DelFromQ, OnQ
      <4>2. v # curr
        BY <2>2 DEF IsCurrent
      <4>3. status'[curr] = status[curr]
        BY <3>1, <4>2 DEF QInv, TypeOK
      <4> QED
        BY <3>1, <3>4, <4>1, <4>3 DEF NobodyReady, extra_runs
    <3> QED
      BY <3>3, <3>4
  <2> QED
    BY <2>1, <2>2
<1>6. ASSUME NEW v \in Vcpus, sedf_wake(v)
      PROVE  RunEnds' /\ (TRUE \notin TaskletWork /\ NobodyReady => NobodyReady')
  BY <1>6, WakeHands
<1>7. CASE ScheduleCalled \/ ChargeBudget \/ PromoteWaiting \/ WaitqDone \/ RunqDone
           \/ \E v \in Vcpus : desched_edf_keeps(v) \/ desched_edf_dom(v)
                               \/ desched_extra_dom(v) \/ desched_extra_faults(v)
                               \/ SkipEmptySlice(v) \/ ForgiveMiss(v) \/ StopAtRunnable(v)
  <2>1. at' # "guest"
    BY <1>7 DEF ScheduleCalled, ChargeBudget, AfterCharge, PromoteWaiting, WaitqDone,
       RunqDone, desched_edf_keeps, desched_edf_dom, desched_extra_dom,
       desched_extra_faults, Deschedule, SkipEmptySlice, ForgiveMiss,
       StopAtRunnable, VisitRunq, control
  <2> QED
    BY <1>a, <2>1
<1>8. CASE PickTasklet \/ PickIdle \/ PickRunq \/ PickExtra \/ PickExtraIdle
  BY <1>8, PickHands
<1> QED
  BY <1>3, <1>4, <1>5, <1>6, <1>7, <1>8 DEF Next, Environment, Handlers, DoSchedule

(* At the start the CPU idles and nobody waits.                            *)
LEMMA InitHands == Init => RunEnds /\ NobodyReady
BY DEF Init, RunEnds, NobodyReady, OnQ

(* While a vCPU runs and no reschedule is pending, the slice timer ends    *)
(* its run before any waiting period begins: see NoOversleep.              *)
THEOREM SleepersWakeInTime ==
    ASSUME LongParams
    PROVE  Spec => []NoOversleep
<1>1. RunEnds => NoOversleep
  BY DEF RunEnds, NoOversleep
<1> QED
  BY <1>1, InitHands, StepHands, WaitqOrdered, QueuesWellPlaced, PTL DEF Spec

(* Without tasklet work, no vCPU runs in extra time and the CPU does not   *)
(* idle while there is a vCPU on the runqueue, nor into the period of one  *)
(* that waits: see ExtraGivesWay.                                          *)
THEOREM GuaranteesComeFirst ==
    ASSUME LongParams, TRUE \notin TaskletWork
    PROVE  Spec => []ExtraGivesWay
<1>1. RunEnds /\ NobodyReady => ExtraGivesWay
  BY DEF RunEnds, NobodyReady, ExtraGivesWay
<1> QED
  BY <1>1, InitHands, StepHands, WaitqOrdered, QueuesWellPlaced, PTL DEF Spec

-----------------------------------------------------------------------------
(* Who pays.  A vCPU whose server is not in debt gets a deadline ahead of  *)
(* it when it is woken, and is deferred to the period that begins there.   *)
LEMMA SolventWake ==
    ASSUME QInv, DeadlineNotBehindServer, NEW v \in Vcpus, sedf_wake(v),
           cbs_current_budget[v] >= 0
    PROVE  runq' = runq
<1>0. /\ now \in Int /\ deadl_abs[v] \in Int /\ period[v] \in Int /\ period[v] > 0
      /\ cbs_current_budget[v] \in Int /\ cbs_current_deadline[v] \in Int
      /\ CBS_PERIOD \in Nat \ {0} /\ CBS_MAX_BUDGET \in Nat \ {0}
  BY ConstantsAssumption DEF QInv, TypeOK
<1> DEFINE deadline == IF RenewsDeadline(v) THEN now + CBS_PERIOD ELSE deadl_abs[v]
           early    == now < deadline - period[v]
           short    == ~early /\ now < deadline
           d        == CASE early -> deadline
                         [] short -> deadline + period[v]
                         [] OTHER -> now + period[v]
<1>1. deadline \in Int /\ deadline > now
  <2>1. CASE RenewsDeadline(v)
    BY <1>0, <2>1
  <2>2. CASE ~RenewsDeadline(v)
    <3> DEFINE quot == CBS_MAX_BUDGET \div CBS_PERIOD
               left == cbs_current_deadline[v] - now
    <3>1. quot \in Nat /\ left \in Int
      BY <1>0
    <3>2. ~(cbs_current_budget[v] >= left * quot)
      BY <2>2 DEF RenewsDeadline
    <3> HIDE DEF quot, left
    <3>3. left > 0
      <4> SUFFICES ASSUME left <= 0 PROVE FALSE
        BY <3>1
      <4>1. left * quot <= 0 /\ left * quot \in Int
        BY <3>1
      <4> QED
        BY <1>0, <3>2, <4>1
    <3>4. cbs_current_deadline[v] > now
      BY <1>0, <3>3 DEF left
    <3> QED
      BY <1>0, <2>2, <3>4 DEF DeadlineNotBehindServer
  <2> QED
    BY <2>1, <2>2
<1>2. d - period[v] > now
  <2> HIDE DEF deadline
  <2>1. CASE early
    BY <1>0, <1>1, <2>1
  <2>2. CASE ~early
    BY <1>0, <1>1, <2>2
  <2> QED
    BY <2>1, <2>2
<1>3. IF d - period[v] > now THEN runq' = runq ELSE TRUE
  BY DEF sedf_wake
<1> QED
  BY <1>2, <1>3

(* What the steps under the lock put on the runqueue was on a queue.       *)
LEMMA LoopsRequeue ==
    ASSUME QInv, DoSchedule, NEW v \in Vcpus, ~OnTaskQ(v)
    PROVE  ~OnQ(runq', v)
<1>0. runq \in Seq(Vcpus) /\ waitq \in Seq(Vcpus) /\ NoDuplicates(runq)
  BY DEF QInv, TypeOK, Placement, QueuesDisjoint
<1>1. ~OnQ(runq, v) /\ ~OnQ(waitq, v)
  BY DEF OnTaskQ
<1>2. runq' = runq => ~OnQ(runq', v)
  BY <1>1
<1>3. ASSUME NEW u, runq' = DelFromQ(runq, u) PROVE ~OnQ(runq', v)
  <2>1. CASE OnQ(runq, u)
    <3>1. u # v
      BY <1>1, <2>1
    <3> QED
      BY <1>0, <1>1, <1>3, <3>1, DelFromQProperties
  <2>2. CASE ~OnQ(runq, u)
    BY <1>1, <1>3, <2>2 DEF DelFromQ
  <2> QED
    BY <2>1, <2>2
<1>4. CASE PromoteWaiting
  <2> DEFINE h == waitq[1]
  <2>1. waitq # << >> /\ runq' = ListInsertSort(runq, h, deadl_abs')
    BY <1>4 DEF PromoteWaiting
  <2>2. h \in Vcpus /\ OnQ(waitq, h)
    BY <1>0, <2>1, HeadElement
  <2> HIDE DEF h
  <2>3. h # v
    BY <1>1, <2>2
  <2> QED
    BY <1>0, <1>1, <2>1, <2>2, <2>3, InsertProperties
<1>5. ASSUME NEW u \in Vcpus, ForgiveMiss(u) PROVE ~OnQ(runq', v)
  <2>1. at = "runq" /\ cur = u
    BY <1>5 DEF ForgiveMiss, VisitRunq
  <2>2. OnQ(runq, u) /\ u # v
    BY <1>1, <2>1, NextSaved
  <2>3. runq' = DelFromQ(runq, u) \/ runq' = ListInsertSort(DelFromQ(runq, u), u, deadl_abs')
    BY <1>5, QueueSteps
  <2> DEFINE d == DelFromQ(runq, u)
  <2>4. d \in Seq(Vcpus) /\ ~OnQ(d, v)
    BY <1>0, <1>1, <2>2, DelFromQProperties
  <2> HIDE DEF d
  <2>5. ~OnQ(ListInsertSort(d, u, deadl_abs'), v)
    BY <2>2, <2>4, InsertProperties
  <2> QED
    BY <2>3, <2>4, <2>5 DEF d
<1>6. ASSUME NEW u \in Vcpus, desched_edf_dom(u) \/ desched_extra_dom(u) \/ SkipEmptySlice(u)
      PROVE  runq' = runq \/ runq' = DelFromQ(runq, u)
  BY <1>6 DEF desched_edf_dom, desched_extra_dom, SkipEmptySlice
<1>7. CASE ScheduleCalled \/ ChargeBudget \/ WaitqDone \/ RunqDone
           \/ \E u \in Vcpus : desched_edf_keeps(u) \/ desched_extra_faults(u)
                               \/ StopAtRunnable(u)
  <2>1. runq' = runq
    BY <1>7 DEF ScheduleCalled, ChargeBudget, WaitqDone, RunqDone,
       desched_edf_keeps, desched_extra_faults, StopAtRunnable, queues
  <2> QED
    BY <1>2, <2>1
<1>8. CASE PickTasklet \/ PickIdle \/ PickRunq \/ PickExtra \/ PickExtraIdle
  <2>1. runq' = runq
    BY <1>8 DEF PickTasklet, PickIdle, PickRunq, PickExtra, PickExtraIdle, Run, queues
  <2> QED
    BY <1>2, <2>1
<1> QED
  BY <1>2, <1>3, <1>4, <1>5, <1>6, <1>7, <1>8 DEF DoSchedule

(* Nothing but a wakeup and DoSchedule puts a vCPU on the runqueue.        *)
LEMMA StepSolvent ==
    QInv /\ DeadlineNotBehindServer /\ [Next]_vars
        => \A v \in Vcpus :
              ~OnTaskQ(v) /\ cbs_current_budget[v] >= 0 => ~OnQ(runq', v)
<1> SUFFICES ASSUME QInv, DeadlineNotBehindServer, [Next]_vars, NEW v \in Vcpus,
                    ~OnTaskQ(v), cbs_current_budget[v] >= 0
             PROVE  ~OnQ(runq', v)
  OBVIOUS
<1>0. ~OnQ(runq, v) /\ runq \in Seq(Vcpus)
  BY DEF OnTaskQ, QInv, TypeOK
<1>1. CASE Environment \/ UNCHANGED vars \/ \E u \in Vcpus : sedf_wake_queued(u)
  <2>1. runq' = runq
    BY <1>1 DEF Environment, Tick, TimerFires, Yield, RaiseSchedule, Block,
       Pause, Resume, Drop, Deliver, sedf_wake_queued, queues, vars
  <2> QED
    BY <1>0, <2>1
<1>2. ASSUME NEW u \in Vcpus, sedf_sleep(u) PROVE ~OnQ(runq', v)
  <2>1. runq' = runq \/ runq' = DelFromQ(runq, u)
    BY <1>2 DEF sedf_sleep, queues
  <2>2. OnQ(DelFromQ(runq, u), v) => OnQ(runq, v)
    <3>1. CASE OnQ(runq, u)
      BY <1>0, <3>1, DelFromQProperties DEF QInv, Placement, QueuesDisjoint
    <3>2. CASE ~OnQ(runq, u)
      BY <3>2 DEF DelFromQ
    <3> QED
      BY <3>1, <3>2
  <2> QED
    BY <1>0, <2>1, <2>2
<1>3. ASSUME NEW u \in Vcpus, sedf_wake(u) PROVE ~OnQ(runq', v)
  <2>1. CASE u = v
    <3>1. runq' = runq
      BY <1>3, <2>1, SolventWake
    <3> QED
      BY <1>0, <3>1
  <2>2. CASE u # v
    <3>1. runq' = runq \/ runq' = ListInsertSort(runq, u, deadl_abs')
      BY <1>3, WakeEffect
    <3>2. ~OnQ(ListInsertSort(runq, u, deadl_abs'), v)
      BY <1>0, <2>2, InsertProperties
    <3> QED
      BY <1>0, <3>1, <3>2
  <2> QED
    BY <2>1, <2>2
<1>4. CASE DoSchedule
  BY <1>4, LoopsRequeue
<1> QED
  BY <1>1, <1>2, <1>3, <1>4 DEF Next, Handlers

(* A wakeup gets round the replenishment of update_queues only with a      *)
(* server in debt: see SolventWakesWait.                                   *)
THEOREM WakeupsReplenished == Spec => SolventWakesWait
<1>1. QInv /\ DeadlineNotBehindServer /\ [Next]_vars
        => [\A v \in Vcpus :
              ~OnTaskQ(v) /\ cbs_current_budget[v] >= 0 => ~OnQ(runq', v)]_vars
  BY StepSolvent
<1> QED
  BY <1>1, QueuesWellPlaced, DeadlinesTogether, PTL DEF Spec, SolventWakesWait

(* Nobody is in front of c in the queue, or on it when c is not, but       *)
(* members of D.                                                           *)
OnlyInFront(q, c, D) ==
    \A k \in 1..Len(q) : (\A j \in 1..k : q[j] # c) => q[k] \in D

(* The vCPUs whose server is in debt. *)
Debtors == {v \in Vcpus : cbs_current_budget[v] < 0}

(* Only debtors are in front of the vCPU that runs, or on the runqueue of  *)
(* a CPU that idles or gives extra time away.                              *)
DebtorsInFront == LockFree => OnlyInFront(runq, curr, Debtors)

(* What is in front of an element after a deletion was so before, but for  *)
(* the element that has gone.                                              *)
LEMMA DelKeepsFront ==
    ASSUME NEW S, NEW q \in Seq(S), NEW v, NEW k \in 1..Len(DelFromQ(q, v))
    PROVE  \E m \in 1..Len(q) :
              /\ DelFromQ(q, v)[k] = q[m]
              /\ \A j \in 1..m : q[j] = v \/ \E i \in 1..k : DelFromQ(q, v)[i] = q[j]
<1> DEFINE d == DelFromQ(q, v)
           Found == \E m \in 1..Len(q) :
                       /\ d[k] = q[m]
                       /\ \A j \in 1..m : q[j] = v \/ \E i \in 1..k : d[i] = q[j]
<1>0. k \in 1..Len(d)
  OBVIOUS
<1>1. CASE ~OnQ(q, v)
  <2>1. d = q
    BY <1>1 DEF DelFromQ
  <2> QED
    BY <1>0, <2>1
<1>2. CASE OnQ(q, v)
  <2> DEFINE p == CHOOSE x \in 1..Len(q) : q[x] = v
  <2>1. p \in 1..Len(q) /\ q[p] = v
    BY <1>2 DEF OnQ
  <2>2. d = RemoveAt(q, p)
    BY <1>2 DEF DelFromQ
  <2> HIDE DEF p, d
  <2>3. /\ Len(d) = Len(q) - 1
        /\ \A j \in 1..(Len(q) - 1) : d[j] = IF j < p THEN q[j] ELSE q[j + 1]
    BY <2>1, <2>2, RemoveAtElements
  <2>4. CASE k < p
    <3>1. k \in 1..Len(q) /\ \A j \in 1..k : d[j] = q[j]
      BY <1>0, <2>1, <2>3, <2>4
    <3> QED
      BY <3>1 DEF d
  <2>5. CASE k >= p
    <3>1. k + 1 \in 1..Len(q) /\ d[k] = q[k + 1]
      BY <1>0, <2>1, <2>3, <2>5
    <3>2. ASSUME NEW j \in 1..(k + 1) PROVE q[j] = v \/ \E i \in 1..k : d[i] = q[j]
      <4>1. CASE j < p
        BY <1>0, <2>1, <2>3, <2>5, <4>1
      <4>2. CASE j = p
        BY <2>1, <4>2
      <4>3. CASE j > p
        <5>1. j - 1 \in 1..k /\ d[j - 1] = q[j]
          BY <1>0, <2>1, <2>3, <4>3
        <5> QED
          BY <5>1
      <4> QED
        BY <2>1, <4>1, <4>2, <4>3
    <3> QED
      BY <3>1, <3>2 DEF d
  <2> QED
    BY <1>0, <2>1, <2>4, <2>5
<1> QED
  BY <1>1, <1>2

(* Whoever leaves, other than c, brings nobody else in front of it.        *)
LEMMA DelInFrontOf ==
    ASSUME NEW S, NEW q \in Seq(S), NEW c, NEW D, OnlyInFront(q, c, D), NEW v, v # c
    PROVE  OnlyInFront(DelFromQ(q, v), c, D)
<1> DEFINE d == DelFromQ(q, v)
<1>1. ASSUME NEW k \in 1..Len(d), \A j \in 1..k : d[j] # c
      PROVE  d[k] \in D
  <2>1. PICK m \in 1..Len(q) :
            /\ d[k] = q[m]
            /\ \A j \in 1..m : q[j] = v \/ \E i \in 1..k : d[i] = q[j]
    BY DelKeepsFront
  <2> HIDE DEF d
  <2>2. \A j \in 1..m : q[j] # c
    BY <1>1, <2>1
  <2> QED
    BY <2>1, <2>2 DEF OnlyInFront
<1> HIDE DEF d
<1> QED
  BY <1>1 DEF OnlyInFront, d

(* Whoever is put in brings nobody else in front of c.                     *)
LEMMA InsertInFrontOf ==
    ASSUME NEW S, NEW q \in Seq(S), NEW c, NEW D, OnlyInFront(q, c, D),
           NEW v \in S, v \in D, NEW key
    PROVE  OnlyInFront(ListInsertSort(q, v, key), c, D)
<1> DEFINE l == ListInsertSort(q, v, key)
<1>1. ASSUME NEW k \in 1..Len(l), \A j \in 1..k : l[j] # c
      PROVE  l[k] \in D
  <2>1. \/ l[k] = v
        \/ \E m \in 1..Len(q) :
              /\ l[k] = q[m]
              /\ \A j \in 1..m : \E i \in 1..k : l[i] = q[j]
    BY InsertInFront
  <2> HIDE DEF l
  <2>2. ASSUME NEW m \in 1..Len(q), l[k] = q[m],
               \A j \in 1..m : \E i \in 1..k : l[i] = q[j]
        PROVE  l[k] \in D
    <3>1. \A j \in 1..m : q[j] # c
      BY <1>1, <2>2
    <3> QED
      BY <2>2, <3>1 DEF OnlyInFront
  <2> QED
    BY <2>1, <2>2
<1> HIDE DEF l
<1> QED
  BY <1>1 DEF OnlyInFront, l

(* A sleeper that leaves the runqueue makes nobody else its head.          *)
LEMMA SleepKeepsFront ==
    ASSUME QInv, DebtorsInFront, NEW v \in Vcpus, sedf_sleep(v)
    PROVE  DebtorsInFront'
<1>1. /\ OnlyInFront(runq, curr, Debtors) /\ runq \in Seq(Vcpus)
      /\ UNCHANGED <<curr, cbs_current_budget>>
  BY DEF sedf_sleep, Deliver, cbs, DebtorsInFront, QInv, TypeOK
<1>2. Debtors' = Debtors
  BY <1>1 DEF Debtors
<1>3. runq' = runq \/ (runq' = DelFromQ(runq, v) /\ v # curr)
  BY DEF sedf_sleep, IsCurrent, queues
<1>4. v # curr => OnlyInFront(DelFromQ(runq, v), curr, Debtors)
  BY <1>1, DelInFrontOf
<1> QED
  BY <1>1, <1>2, <1>3, <1>4 DEF DebtorsInFront

(* A wakeup puts nobody in front of the others but a vCPU in debt.         *)
LEMMA WakeKeepsFront ==
    ASSUME QInv, DeadlineNotBehindServer, DebtorsInFront,
           NEW v \in Vcpus, sedf_wake(v)
    PROVE  DebtorsInFront'
<1>1. /\ LockFree /\ UNCHANGED <<curr, cbs_current_budget>>
      /\ runq' = runq \/ runq' = ListInsertSort(runq, v, deadl_abs')
  BY WakeEffect
<1>2. OnlyInFront(runq, curr, Debtors) /\ runq \in Seq(Vcpus) /\ Debtors' = Debtors
  BY <1>1 DEF DebtorsInFront, Debtors, QInv, TypeOK
<1>3. CASE cbs_current_budget[v] >= 0
  <2>1. runq' = runq
    BY <1>3, SolventWake
  <2> QED
    BY <1>1, <1>2, <2>1 DEF DebtorsInFront
<1>4. CASE ~(cbs_current_budget[v] >= 0)
  <2>1. v \in Debtors
    BY <1>4 DEF Debtors, QInv, TypeOK
  <2>2. OnlyInFront(ListInsertSort(runq, v, deadl_abs'), curr, Debtors)
    BY <1>2, <2>1, InsertInFrontOf
  <2> QED
    BY <1>1, <1>2, <2>2 DEF DebtorsInFront
<1> QED
  BY <1>3, <1>4

(* The choice takes the head of the runqueue, unless that is empty.        *)
LEMMA PickTakesHead ==
    ASSUME QInv, TRUE \notin TaskletWork,
           PickTasklet \/ PickIdle \/ PickRunq \/ PickExtra \/ PickExtraIdle
    PROVE  DebtorsInFront'
<1>1. runq' = runq
  BY DEF PickTasklet, PickIdle, PickRunq, PickExtra, PickExtraIdle, Run, queues
<1>2. CASE PickRunq
  <2>1. runq # << >> /\ (at' = "guest" => curr' = runq[1]) /\ at' \in {"guest", "bug"}
    BY <1>2 DEF PickRunq, Run
  <2>2. ASSUME NEW k \in 1..Len(runq'), at' = "guest", \A j \in 1..k : runq'[j] # curr'
        PROVE  FALSE
    <3>1. 1 \in 1..k
      BY <1>1, <2>2 DEF QInv, TypeOK
    <3> QED
      BY <1>1, <2>1, <2>2, <3>1
  <2> QED
    BY <2>1, <2>2 DEF DebtorsInFront, OnlyInFront, LockFree
<1>3. CASE ~PickRunq
  <2>1. runq = << >>
    BY <1>3 DEF PickTasklet, PickIdle, PickExtra, PickExtraIdle
  <2> QED
    BY <1>1, <2>1 DEF DebtorsInFront, OnlyInFront
<1> QED
  BY <1>2, <1>3

(* Every step keeps it so.                                                 *)
LEMMA StepFront ==
    TRUE \notin TaskletWork /\ QInv /\ DeadlineNotBehindServer /\ DebtorsInFront /\ [Next]_vars
        => DebtorsInFront'
<1> SUFFICES ASSUME TRUE \notin TaskletWork, QInv, DeadlineNotBehindServer,
                    DebtorsInFront, [Next]_vars
             PROVE  DebtorsInFront'
  OBVIOUS
<1>1. ASSUME LockFree, UNCHANGED <<curr, cbs_current_budget, runq>>
      PROVE  DebtorsInFront'
  BY <1>1 DEF DebtorsInFront, Debtors
<1>2. ASSUME at' \notin {"guest", "called"} PROVE DebtorsInFront'
  BY <1>2 DEF DebtorsInFront, LockFree
<1>3. CASE Environment \/ \E v \in Vcpus : sedf_wake_queued(v)
  <2>1. LockFree /\ UNCHANGED <<curr, cbs_current_budget, runq>>
    BY <1>3 DEF Environment, Tick, TimerFires, Yield, RaiseSchedule, Block,
       Pause, Resume, Drop, Deliver, sedf_wake_queued, queues, cpu, cbs, LockFree
  <2> QED
    BY <1>1, <2>1
<1>4. CASE ScheduleCalled
  <2>1. LockFree /\ UNCHANGED <<curr, cbs_current_budget, runq>>
    BY <1>4 DEF ScheduleCalled, queues, cbs, LockFree
  <2> QED
    BY <1>1, <2>1
<1>5. CASE ChargeBudget \/ PromoteWaiting \/ WaitqDone \/ RunqDone
           \/ \E v \in Vcpus : desched_edf_keeps(v) \/ desched_edf_dom(v)
                               \/ desched_extra_dom(v) \/ desched_extra_faults(v)
                               \/ SkipEmptySlice(v) \/ ForgiveMiss(v) \/ StopAtRunnable(v)
  <2>1. at' \notin {"guest", "called"}
    BY <1>5 DEF ChargeBudget, AfterCharge, PromoteWaiting, WaitqDone,
       RunqDone, desched_edf_keeps, desched_edf_dom, desched_extra_dom,
       desched_extra_faults, Deschedule, SkipEmptySlice, ForgiveMiss,
       StopAtRunnable, VisitRunq, control
  <2> QED
    BY <1>2, <2>1
<1>6. CASE PickTasklet \/ PickIdle \/ PickRunq \/ PickExtra \/ PickExtraIdle
  BY <1>6, PickTakesHead
<1>7. CASE UNCHANGED vars
  BY <1>7 DEF vars, DebtorsInFront, Debtors, LockFree
<1> QED
  BY <1>3, <1>4, <1>5, <1>6, <1>7, SleepKeepsFront, WakeKeepsFront
     DEF Next, Handlers, DoSchedule

(* At that point only the head of the runqueue pays.                       *)
LEMMA StepPays ==
    QInv /\ DebtorsInFront /\ [Next]_vars
        => (at = "called" =>
              \A v \in Vcpus : cbs_current_budget'[v] # cbs_current_budget[v]
                                 => v = curr \/ cbs_current_budget[v] < 0)
<1> SUFFICES ASSUME QInv, DebtorsInFront, [Next]_vars, at = "called",
                    NEW v \in Vcpus, cbs_current_budget'[v] # cbs_current_budget[v]
             PROVE  v = curr \/ cbs_current_budget[v] < 0
  OBVIOUS
<1>1. CASE ChargeBudget
  <2>1. runq # << >> /\ v = runq[1]
    BY <1>1 DEF ChargeBudget, HeadPays, QInv, TypeOK
  <2>2. 1 \in 1..Len(runq) /\ \A j \in 1..1 : j = 1
    BY <2>1 DEF QInv, TypeOK
  <2> QED
    BY <2>1, <2>2 DEF DebtorsInFront, OnlyInFront, Debtors, LockFree
<1>2. CASE Environment \/ \E u \in Vcpus : sedf_sleep(u) \/ sedf_wake_queued(u)
  BY <1>2 DEF Environment, Tick, TimerFires, Yield, RaiseSchedule, Block,
     Pause, Resume, Drop, Deliver, sedf_sleep, sedf_wake_queued, cbs
<1>3. ASSUME NEW u \in Vcpus, sedf_wake(u) PROVE FALSE
  BY <1>3, WakeEffect
<1>4. CASE DoSchedule /\ ~ChargeBudget
  BY <1>4 DEF DoSchedule, ScheduleCalled, PromoteWaiting, WaitqDone,
     RunqDone, desched_edf_keeps, desched_edf_dom, desched_extra_dom,
     desched_extra_faults, Deschedule, SkipEmptySlice, ForgiveMiss,
     StopAtRunnable, VisitRunq, PickTasklet, PickIdle, PickRunq, PickExtra,
     PickExtraIdle, Run
<1>5. CASE UNCHANGED vars
  BY <1>5 DEF vars
<1> QED
  BY <1>1, <1>2, <1>3, <1>4, <1>5 DEF Next, Handlers

(* Without tasklet work, nobody but a vCPU that is in debt anyway pays for *)
(* the time of another: see OnlyDebtorsPayForOthers.                       *)
THEOREM RightPayer ==
    ASSUME TRUE \notin TaskletWork
    PROVE  Spec => OnlyDebtorsPayForOthers
<1>1. Init => DebtorsInFront
  BY DEF Init, DebtorsInFront, OnlyInFront
<1>2. QInv /\ DebtorsInFront /\ [Next]_vars
        => [at = "called" =>
              \A v \in Vcpus : cbs_current_budget'[v] # cbs_current_budget[v]
                                 => v = curr \/ cbs_current_budget[v] < 0]_vars
  BY StepPays
<1> QED
  BY <1>1, <1>2, StepFront, QueuesWellPlaced, DeadlinesTogether, PTL
     DEF Spec, OnlyDebtorsPayForOthers

-----------------------------------------------------------------------------
(* The two loops of update_queues come to an end.  How often a vCPU may    *)
(* still be looked at before the choice: on the runqueue once more than    *)
(* its deadline can be put off without passing now, and on the wait queue  *)
(* once more.                                                              *)
Visits(v) ==
    IF ~OnQ(runq, v) \/ ~(NoSlice(v) \/ Behindhand(v)) THEN 0
    ELSE IF UpdatedDeadline(v) < snow THEN 3
    ELSE IF UpdatedDeadline(v) = snow THEN 2 ELSE 1
Chances(v) ==
    CASE at \in {"called", "desched"} -> 4
      [] at = "waitq" -> IF OnQ(waitq, v) THEN 4 ELSE 3
      [] at = "runq" -> Visits(v)
      [] OTHER -> 0

(* The parts of do_schedule that are still to come. *)
StageLeft ==
    CASE at = "called" -> 5 [] at = "desched" -> 4 [] at = "waitq" -> 3
      [] at = "runq" -> 2 [] at = "pick" -> 1 [] OTHER -> 0
StepsLeft == StageLeft + SumFunctionOnSet([v \in Vcpus |-> Chances(v)], Vcpus)

(* At most three visits for a vCPU on the runqueue, and four chances.      *)
LEMMA ChancesType ==
    ASSUME NEW v \in Vcpus
    PROVE  /\ Visits(v) \in 0..3 /\ Chances(v) \in 0..4 /\ StageLeft \in 0..5
           /\ at # "called" /\ at # "desched" /\ ~OnQ(waitq, v) => Chances(v) <= 3
<1>1. Visits(v) \in 0..3
  BY DEF Visits
<1>2. Chances(v) \in 0..4
  BY <1>1 DEF Chances
<1>3. StageLeft \in 0..5
  BY DEF StageLeft
<1>4. ASSUME at # "called", at # "desched", ~OnQ(waitq, v) PROVE Chances(v) <= 3
  BY <1>1, <1>4 DEF Chances
<1> QED
  BY <1>1, <1>2, <1>3, <1>4

(* A sum of ones counts.                                                   *)
LEMMA SumCounts ==
    ASSUME NEW S, IsFiniteSet(S), NEW f, \A x \in S : f[x] = 1
    PROVE  SumFunctionOnSet(f, S) = Cardinality(S)
<1> DEFINE P == {s \in SUBSET S : SumFunctionOnSet(f, s) = Cardinality(s)}
<1>1. ASSUME NEW s \in SUBSET S, \A x \in s : s \ {x} \in P
      PROVE  s \in P
  <2>1. CASE s = {}
    BY <2>1, SumEmpty, FS_EmptySet
  <2>2. CASE s # {}
    <3>1. PICK x \in s : TRUE
      BY <2>2
    <3>2. IsFiniteSet(s) /\ \A y \in s : f[y] \in Int
      BY FS_Subset
    <3>3. SumFunctionOnSet(f, s) = f[x] + SumFunctionOnSet(f, s \ {x})
      BY <3>2, SumAny
    <3>4. /\ Cardinality(s) \in Nat
          /\ Cardinality(s \ {x}) = Cardinality(s) - 1
      BY <3>2, FS_CardinalityType, FS_RemoveElement
    <3>5. f[x] = 1 /\ SumFunctionOnSet(f, s \ {x}) = Cardinality(s \ {x})
      BY <1>1
    <3> QED BY <3>3, <3>4, <3>5
  <2> QED BY <2>1, <2>2
<1>2. P = SUBSET S
  <2>1. \A s \in SUBSET S : (\A x \in s : s \ {x} \in P) => s \in P
    BY <1>1
  <2>2. P \in SUBSET SUBSET S
    OBVIOUS
  <2> HIDE DEF P
  <2> QED BY <2>1, <2>2, SubsetInduction
<1> QED BY <1>2

(* Four chances for everybody at most. *)
LEMMA StepsBounded ==
    ASSUME IsFiniteSet(Vcpus)
    PROVE  StepsLeft \in 0..(5 + 4 * Cardinality(Vcpus))
<1>1. PICK f : f = [v \in Vcpus |-> Chances(v)]
  OBVIOUS
<1>2. PICK one : one = [v \in Vcpus |-> 1]
  OBVIOUS
<1>3. PICK four : four = [v \in Vcpus |-> 4]
  OBVIOUS
<1> DEFINE n == Cardinality(Vcpus)
           s == SumFunctionOnSet(f, Vcpus)
<1>5. \A v \in Vcpus : f[v] \in Int /\ 0 <= f[v] /\ f[v] <= 4
  BY <1>1, ChancesType
<1>6. SumFunctionOnSet(one, Vcpus) = n
  BY <1>2, SumCounts
<1>7. n \in Nat
  BY FS_CardinalityType
<1>8. SumFunctionOnSet(four, Vcpus) = 4 * n
  <2>1. \A v \in Vcpus : one[v] \in Int /\ four[v] = 4 * one[v]
    BY <1>2, <1>3
  <2>2. SumFunctionOnSet(four, Vcpus) = 4 * SumFunctionOnSet(one, Vcpus)
    BY <2>1, SumScaled
  <2> QED
    BY <1>6, <2>2
<1>11. s <= 4 * n
  <2>1. \A v \in Vcpus : f[v] \in Int /\ four[v] \in Int /\ f[v] <= four[v]
    BY <1>3, <1>5
  <2> QED
    BY <1>8, <2>1, SumMonotone
<1>12. s \in Nat
  <2>1. \A v \in Vcpus : f[v] \in Nat
    BY <1>5
  <2> QED
    BY <2>1, SumNonNegative
<1>13. StepsLeft = StageLeft + s /\ StageLeft \in 0..5
  <2>1. StageLeft \in 0..5
    BY DEF StageLeft
  <2> QED
    BY <1>1, <2>1 DEF StepsLeft
<1>14. /\ StepsLeft \in Nat
       /\ 5 + 4 * n \in Nat
       /\ StepsLeft <= 5 + 4 * n
  <2> HIDE DEF n, s
  <2> QED
    BY <1>7, <1>11, <1>12, <1>13
<1> QED
  BY <1>14

(* Nobody gets another chance, and the stage is over or one is taken.      *)
LEMMA FewerSteps ==
    ASSUME IsFiniteSet(Vcpus),
           \A v \in Vcpus : Chances(v)' <= Chances(v),
           \/ StageLeft' < StageLeft
           \/ StageLeft' = StageLeft /\ \E v \in Vcpus : Chances(v)' < Chances(v)
    PROVE  StepsLeft' < StepsLeft
<1>1. PICK f : f = [v \in Vcpus |-> Chances(v)]
  OBVIOUS
<1>2. PICK g : g = [v \in Vcpus |-> Chances(v)']
  OBVIOUS
<1>3. /\ StepsLeft = StageLeft + SumFunctionOnSet(f, Vcpus)
      /\ StepsLeft' = StageLeft' + SumFunctionOnSet(g, Vcpus)
  BY <1>1, <1>2 DEF StepsLeft
<1>4. StageLeft \in Nat /\ StageLeft' \in Nat
  BY DEF StageLeft
<1>5. ASSUME NEW v \in Vcpus
      PROVE  /\ f[v] = Chances(v) /\ g[v] = Chances(v)'
             /\ f[v] \in Int /\ g[v] \in Int /\ g[v] <= f[v]
  <2>1. Chances(v) \in 0..4
    BY ChancesType
  <2>2. Chances(v)' \in 0..4
    BY DEF Chances, Visits
  <2> QED
    BY <1>1, <1>2, <2>1, <2>2
<1>6. /\ SumFunctionOnSet(f, Vcpus) \in Int
      /\ SumFunctionOnSet(g, Vcpus) \in Int
      /\ SumFunctionOnSet(g, Vcpus) <= SumFunctionOnSet(f, Vcpus)
  BY <1>5, SumType, SumMonotone
<1>7. ASSUME NEW v \in Vcpus, Chances(v)' < Chances(v)
      PROVE  SumFunctionOnSet(g, Vcpus) < SumFunctionOnSet(f, Vcpus)
  <2> DEFINE T == Vcpus \ {v}
  <2>1. IsFiniteSet(T)
    BY FS_RemoveElement
  <2>2. /\ SumFunctionOnSet(f, Vcpus) = f[v] + SumFunctionOnSet(f, T)
        /\ SumFunctionOnSet(g, Vcpus) = g[v] + SumFunctionOnSet(g, T)
    BY <1>5, SumAny
  <2>3. \A x \in T : g[x] \in Int /\ f[x] \in Int /\ g[x] <= f[x]
    BY <1>5
  <2> HIDE DEF T
  <2>4. /\ SumFunctionOnSet(g, T) <= SumFunctionOnSet(f, T)
        /\ SumFunctionOnSet(g, T) \in Int /\ SumFunctionOnSet(f, T) \in Int
    BY <2>1, <2>3, SumMonotone, SumType
  <2>5. g[v] < f[v] /\ g[v] \in Int /\ f[v] \in Int
    BY <1>5, <1>7
  <2> QED
    BY <2>2, <2>4, <2>5
<1> QED
  BY <1>3, <1>4, <1>6, <1>7

(* The stages follow one another, and none of them gives a vCPU more       *)
(* chances than the one before.                                            *)
LEMMA StagePassed ==
    ASSUME IsFiniteSet(Vcpus),
           \/ at = "called" /\ at' \in {"desched", "waitq"}
           \/ at = "desched" /\ at' \in {"waitq", "fault"}
           \/ at = "waitq" /\ at' = "runq"
           \/ at = "runq" /\ at' = "pick"
           \/ at = "pick" /\ at' \in {"guest", "bug"}
    PROVE  StepsLeft' < StepsLeft
<1>1. StageLeft' < StageLeft
  BY DEF StageLeft
<1>2. ASSUME NEW v \in Vcpus PROVE Chances(v)' <= Chances(v)
  <2>1. Chances(v) \in 0..4
    BY ChancesType
  <2>2. Visits(v)' \in 0..3
    BY DEF Visits
  <2>3. Chances(v)' \in 0..4
    BY <2>2 DEF Chances
  <2>4. CASE at \in {"called", "desched"}
    BY <2>3, <2>4 DEF Chances
  <2>5. CASE at = "waitq" /\ at' = "runq"
    BY <2>2, <2>5 DEF Chances
  <2>6. CASE at' \in {"pick", "guest", "bug"}
    BY <2>1, <2>6 DEF Chances
  <2> QED
    BY <2>4, <2>5, <2>6
<1> QED
  BY <1>1, <1>2, FewerSteps

(* The head of the wait queue goes to the runqueue, the others stay.       *)
LEMMA PromotedOnce ==
    ASSUME IsFiniteSet(Vcpus), QInv, PromoteWaiting
    PROVE  StepsLeft' < StepsLeft
<1>1. PICK v : v = waitq[1]
  OBVIOUS
<1>2. /\ v \in Vcpus /\ OnQ(waitq, v)
      /\ waitq \in Seq(Vcpus) /\ NoDuplicates(waitq)
  <2>1. waitq \in Seq(Vcpus) /\ waitq # << >> /\ NoDuplicates(waitq)
    BY DEF PromoteWaiting, QInv, TypeOK, Placement, QueuesDisjoint
  <2> QED
    BY <1>1, <2>1, HeadElement
<1>3. /\ at = "waitq" /\ at' = "waitq"
      /\ waitq' = DelFromQ(waitq, v)
  BY <1>1 DEF PromoteWaiting, control
<1>4. /\ ~OnQ(waitq', v)
      /\ \A w : w # v => (OnQ(waitq', w) <=> OnQ(waitq, w))
  BY <1>2, <1>3, DelFromQProperties
<1>5. StageLeft' = StageLeft
  BY <1>3 DEF StageLeft
<1>6. Chances(v)' < Chances(v)
  BY <1>2, <1>3, <1>4 DEF Chances
<1>7. ASSUME NEW w \in Vcpus, w # v PROVE Chances(w)' <= Chances(w)
  BY <1>3, <1>4, <1>7 DEF Chances
<1>8. \A w \in Vcpus : Chances(w)' <= Chances(w)
  <2>1. Chances(v)' <= Chances(v)
    BY <1>2, <1>3, <1>4 DEF Chances
  <2> QED
    BY <1>7, <2>1
<1> QED
  BY <1>2, <1>5, <1>6, <1>8, FewerSteps

(* A visit to one vCPU of the runqueue says nothing about the others.      *)
LEMMA OthersVisits ==
    ASSUME QInv, NEW v \in Vcpus, NEW w \in Vcpus, w # v, CbsUpdate(v),
           NEW d, deadl_abs' = [deadl_abs EXCEPT ![v] = d],
           cputime' = cputime \/ cputime' = [cputime EXCEPT ![v] = 0],
           UNCHANGED <<snow, slice>>,
           OnQ(runq', w) <=> OnQ(runq, w)
    PROVE  Visits(w)' = Visits(w)
<1>1. cbs_current_budget'[w] = cbs_current_budget[w]
  BY CbsUpdateEffect
<1>2. deadl_abs'[w] = deadl_abs[w] /\ cputime'[w] = cputime[w]
  BY DEF QInv, TypeOK
<1>3. UpdatedDeadline(w)' = UpdatedDeadline(w)
  BY <1>1, <1>2 DEF UpdatedDeadline, Exhausted
<1>4. (NoSlice(w) \/ Behindhand(w))' <=> NoSlice(w) \/ Behindhand(w)
  BY <1>2, <1>3 DEF NoSlice, Behindhand
<1>5. OnQ(runq, w)' <=> OnQ(runq, w)
  BY DEF OnQ
<1> QED
  BY <1>3, <1>4, <1>5 DEF Visits

(* Its forgiven deadline is not behind now; what was at now, or ahead of   *)
(* it, gets a whole period more, and a vCPU whose deadline is more than a  *)
(* period ahead leaves the runqueue.                                       *)
LEMMA ForgivenFewer ==
    ASSUME QInv, NEW v \in Vcpus, ForgiveMiss(v)
    PROVE  Visits(v)' < Visits(v)
<1>1. /\ at = "runq" /\ at' = "runq" /\ cur = v /\ CbsUpdate(v)
      /\ UNCHANGED <<snow, period, slice, slice_orig>>
      /\ deadl_abs' = [deadl_abs EXCEPT ![v] = ForgivenDeadline(v)]
      /\ \/ ForgivenDeadline(v) - period[v] > snow /\ runq' = DelFromQ(runq, v)
         \/ runq' = ListInsertSort(DelFromQ(runq, v), v, deadl_abs')
  BY QueueSteps
<1>2. /\ OnQ(runq, v) /\ NoDuplicates(runq) /\ runq \in Seq(Vcpus)
      /\ snow \in Nat /\ period[v] \in Nat \ {0}
      /\ UpdatedDeadline(v) \in Int
  BY <1>1, NextSaved, CbsUpdateType DEF QInv, TypeOK, Placement, QueuesDisjoint
<1>3. Visits(v) = IF UpdatedDeadline(v) < snow THEN 3
                  ELSE IF UpdatedDeadline(v) = snow THEN 2 ELSE 1
  BY <1>2 DEF ForgiveMiss, Visits
<1>4. CASE runq' = DelFromQ(runq, v)
  <2>1. ~OnQ(runq', v)
    BY <1>2, <1>4, DelFromQProperties
  <2>2. Visits(v)' = 0
    BY <2>1 DEF Visits
  <2> QED
    BY <1>3, <2>2
<1>5. CASE runq' # DelFromQ(runq, v)
  <2>1. ForgivenDeadline(v) \in Int /\ ForgivenDeadline(v) >= snow
    BY FreshDeadlines
  <2>2. UpdatedDeadline(v)' = ForgivenDeadline(v)
    <3>1. cbs_current_budget'[v] > 0 /\ cbs_current_budget'[v] \in Int
      BY <1>1, CbsUpdateEffect, CbsUpdateType
    <3>2. deadl_abs'[v] = ForgivenDeadline(v)
      BY <1>1 DEF QInv, TypeOK
    <3> QED
      BY <3>1, <3>2 DEF UpdatedDeadline, Exhausted
  <2>3. ForgivenDeadline(v) - period[v] <= snow
    BY <1>2, <1>5, <2>1 DEF ForgiveMiss, ForgivenDeadline, MissedBy
  <2>4. UpdatedDeadline(v) >= snow
           => ForgivenDeadline(v) = UpdatedDeadline(v) + period[v]
    BY <1>2 DEF ForgivenDeadline, MissedBy
  <2>5. /\ Visits(v)' \in 0..2
        /\ ForgivenDeadline(v) > snow => Visits(v)' \in 0..1
    BY <1>1, <1>2, <2>1, <2>2 DEF Visits
  <2>6. CASE UpdatedDeadline(v) < snow
    BY <1>3, <2>5, <2>6
  <2>7. CASE UpdatedDeadline(v) >= snow
    <3>1. UpdatedDeadline(v) = snow /\ ForgivenDeadline(v) > snow
      BY <1>2, <2>3, <2>4, <2>7
    <3> QED
      BY <1>3, <2>5, <3>1
  <2> QED
    BY <1>2, <2>6, <2>7
<1> QED
  BY <1>4, <1>5

(* The second loop goes on, and has one visit less to make.                *)
LEMMA MovedFewer ==
    ASSUME IsFiniteSet(Vcpus), QInv, NEW v \in Vcpus,
           SkipEmptySlice(v) \/ ForgiveMiss(v)
    PROVE  StepsLeft' < StepsLeft
<1>1. /\ at = "runq" /\ at' = "runq" /\ cur = v /\ CbsUpdate(v)
      /\ UNCHANGED <<snow, period, slice, slice_orig>>
      /\ cputime' = cputime \/ cputime' = [cputime EXCEPT ![v] = 0]
  BY QueueSteps
<1>2. PICK d : deadl_abs' = [deadl_abs EXCEPT ![v] = d]
  BY QueueSteps
<1>3. /\ OnQ(runq, v) /\ NoDuplicates(runq) /\ runq \in Seq(Vcpus)
  BY <1>1, NextSaved DEF QInv, TypeOK, Placement, QueuesDisjoint
<1>4. PICK rest : rest = DelFromQ(runq, v)
  OBVIOUS
<1>5. /\ rest \in Seq(Vcpus) /\ ~OnQ(rest, v)
      /\ \A w : w # v => (OnQ(rest, w) <=> OnQ(runq, w))
  BY <1>3, <1>4, DelFromQProperties
<1>6. runq' = rest \/ runq' = ListInsertSort(rest, v, deadl_abs')
  BY <1>4, QueueSteps
<1>7. \A w : w # v => (OnQ(runq', w) <=> OnQ(runq, w))
  BY <1>5, <1>6, InsertProperties
<1>8. ASSUME NEW w \in Vcpus, w # v PROVE Visits(w)' = Visits(w)
  <2>1. OnQ(runq', w) <=> OnQ(runq, w)
    BY <1>7, <1>8
  <2> QED
    BY <1>1, <1>2, <1>8, <2>1, OthersVisits
<1>9. Visits(v)' < Visits(v)
  <2>1. CASE SkipEmptySlice(v)
    <3>1. ~OnQ(runq', v)
      BY <1>4, <1>5, <2>1, QueueSteps
    <3>2. Visits(v)' = 0
      BY <3>1 DEF Visits
    <3>3. Visits(v) > 0
      BY <1>3, <2>1 DEF SkipEmptySlice, Visits
    <3> QED
      BY <3>2, <3>3
  <2> QED
    BY <2>1, ForgivenFewer
<1>10. ASSUME NEW w \in Vcpus PROVE Visits(w)' \in Int /\ Visits(w) \in Int
  BY DEF Visits
<1>11. \A w \in Vcpus : Chances(w)' = Visits(w)' /\ Chances(w) = Visits(w)
  BY <1>1 DEF Chances
<1>12. \A w \in Vcpus : Chances(w)' <= Chances(w)
  BY <1>8, <1>9, <1>10, <1>11
<1>13. StageLeft' = StageLeft
  BY <1>1 DEF StageLeft
<1>14. Chances(v)' < Chances(v)
  BY <1>9, <1>11
<1> QED
  BY <1>12, <1>13, <1>14, FewerSteps

(* do_schedule makes progress with every step it takes under the lock, and *)
(* has at most 5 steps and 4 for every vCPU to take from its call to the   *)
(* choice: the two loops of update_queues, which edit the lists they walk  *)
(* and may visit a vCPU again, come to an end whatever the parameters, the *)
(* deadlines and the order of the queues.  See ScheduleServed.             *)
THEOREM ScheduleProgresses ==
    ASSUME IsFiniteSet(Vcpus)
    PROVE  Spec => /\ [](StepsLeft \in 0..(5 + 4 * Cardinality(Vcpus)))
                   /\ [][~LockFree \/ ChargeBudget => StepsLeft' < StepsLeft]_vars
<1>1. ASSUME QInv, [Next]_vars, ~LockFree \/ ChargeBudget, ~UNCHANGED vars
      PROVE  StepsLeft' < StepsLeft
  <2>1. CASE Environment \/ Handlers \/ ScheduleCalled
    <3>1. Environment => LockFree /\ at' = at
      BY DEF Environment, Tick, TimerFires, Yield, RaiseSchedule, Block,
         Pause, Resume, Drop, Deliver, control, LockFree
    <3>2. Handlers => LockFree /\ at' = at
      BY DEF Handlers, sedf_sleep, sedf_wake_queued, sedf_wake, Deliver,
         control, LockFree
    <3>3. LockFree /\ (at' = at \/ at = "guest")
      BY <2>1, <3>1, <3>2 DEF ScheduleCalled, LockFree
    <3>4. ~ChargeBudget
      BY <3>3 DEF ChargeBudget, AfterCharge
    <3> QED
      BY <1>1, <3>3, <3>4
  <2>2. CASE ChargeBudget
    BY <2>2, StagePassed DEF ChargeBudget, AfterCharge
  <2>3. ASSUME NEW v \in Vcpus,
               \/ desched_edf_keeps(v) \/ desched_edf_dom(v)
               \/ desched_extra_dom(v) \/ desched_extra_faults(v)
        PROVE  StepsLeft' < StepsLeft
    <3>1. at = "desched" /\ at' \in {"waitq", "fault"}
      BY <2>3 DEF desched_edf_keeps, desched_edf_dom, desched_extra_dom,
         desched_extra_faults, Deschedule
    <3> QED
      BY <3>1, StagePassed
  <2>4. CASE PromoteWaiting
    BY <1>1, <2>4, PromotedOnce
  <2>5. CASE WaitqDone \/ RunqDone
    BY <2>5, StagePassed DEF WaitqDone, RunqDone
  <2>6. ASSUME NEW v \in Vcpus,
               SkipEmptySlice(v) \/ ForgiveMiss(v) \/ StopAtRunnable(v)
        PROVE  StepsLeft' < StepsLeft
    <3>1. CASE StopAtRunnable(v)
      BY <3>1, StagePassed DEF StopAtRunnable, VisitRunq
    <3> QED
      BY <1>1, <2>6, <3>1, MovedFewer
  <2>7. CASE PickTasklet \/ PickIdle \/ PickRunq \/ PickExtra \/ PickExtraIdle
    <3>1. at = "pick" /\ at' \in {"guest", "bug"}
      BY <2>7 DEF PickTasklet, PickIdle, PickRunq, PickExtra, PickExtraIdle, Run
    <3> QED
      BY <3>1, StagePassed
  <2> QED
    BY <1>1, <2>1, <2>2, <2>3, <2>4, <2>5, <2>6, <2>7 DEF Next, DoSchedule
<1>2. QInv /\ [Next]_vars
        => [~LockFree \/ ChargeBudget => StepsLeft' < StepsLeft]_vars
  BY <1>1
<1>3. StepsLeft \in 0..(5 + 4 * Cardinality(Vcpus))
  BY StepsBounded
<1> QED
  BY <1>2, <1>3, QueuesWellPlaced, PTL DEF Spec
=============================================================================
