------------------------ MODULE SedfLifecycleProofs ------------------------
(***************************************************************************)
(* Nothing takes a vCPU off the queues when it is freed or leaves the CPU. *)
(* That it is on none of them rests on three layers: the queue discipline  *)
(* (who is asleep and not to be descheduled is on no queue), the sleep     *)
(* calls (who must not run, and for whom no call is on its way, is         *)
(* asleep), and the hypervisor (who is moved or freed is quiet).           *)
(***************************************************************************)
EXTENDS SedfCallProofs, SedfLifecycle

USE DEF Levels, EXTRA_PEN_Q, EXTRA_UTIL_Q

(* The scheduler of this CPU has nothing to do with v. *)
Off(v) ==
    /\ ~sedf_runnable(status, v)
    /\ ~runnable[v]
    /\ pend[v] = {}
    /\ curr # v

AwayIsOff == \A v \in Vcpus : ~Resident(v) => Off(v)

(* Between two runs of update_queues no cursor is kept. *)
CursorHome == at # "runq" => cur = HEAD

Pools ==
    /\ online \subseteq pdata
    /\ online \subseteq Cpus
    /\ vdata \subseteq Vcpus
    /\ processor \in [Vcpus -> Cpus]
    /\ PlacedWithData

LifeInv == QInv /\ CallInv /\ CursorHome /\ AwayIsOff /\ Pools

(* Who is off is on no queue. *)
LEMMA OffEverywhere ==
    ASSUME QInv, NEW v \in Vcpus, Off(v)
    PROVE  /\ ~Descheduling(v) /\ ~OnTaskQ(v) /\ ~extra_runs(v)
           /\ \A i \in Levels : ~OnQ(extraq[i], v)
           /\ CursorHome => v # cur
<1>1. ~Descheduling(v) /\ ~sedf_runnable(status, v)
  BY DEF Off, Descheduling
<1>2. ~OnTaskQ(v)
  BY <1>1 DEF QInv, Placement, AwakeIffQueued
<1>3. ~extra_runs(v)
  BY <1>1 DEF QInv, Placement, ExtraRunWellPlaced
<1>4. \A i \in Levels : ~OnQ(extraq[i], v)
  BY <1>2 DEF QInv, Placement, ExtraOnlyIfQueued
<1>5. CursorHome => v # cur
  BY <1>2, ConstantsAssumption DEF CursorHome, QInv, Placement, CursorOnRunq, OnTaskQ
<1> QED
  BY <1>1, <1>2, <1>3, <1>4, <1>5

(* sedf_pick_cpu chooses among the CPUs of its mask. *)
LEMMA PickCpuOnline ==
    ASSUME Pools, NEW v, NEW affinity, affinity \cap online # {}
    PROVE  sedf_pick_cpu(v, affinity) \in online
<1> DEFINE mask == affinity \cap online
<1>1. mask \in SUBSET Nat /\ mask # {}
  BY LifecycleAssumption DEF Pools
<1> HIDE DEF mask
<1>2. ASSUME NEW n PROVE cpumask_cycle(n, mask) \in mask
  <2> DEFINE behind == {c \in mask : c > n}
  <2>1. CASE behind # {}
    <3>1. behind \in SUBSET Nat
      BY <1>1
    <3> HIDE DEF behind
    <3>2. Min(behind) \in behind
      BY <2>1, <3>1, MinIsLeast
    <3>3. cpumask_cycle(n, mask) = Min(behind)
      BY <2>1 DEF cpumask_cycle, behind
    <3> QED
      BY <3>2, <3>3 DEF behind
  <2>2. CASE behind = {}
    <3>1. cpumask_cycle(n, mask) = Min(mask)
      BY <2>2 DEF cpumask_cycle
    <3> QED
      BY <1>1, <3>1, MinIsLeast
  <2> QED
    BY <2>1, <2>2
<1>3. sedf_pick_cpu(v, affinity)
         = cpumask_cycle((VcpuId[v] % Cardinality(mask)) - 1, mask)
  BY DEF sedf_pick_cpu, online_affinity, mask
<1>4. sedf_pick_cpu(v, affinity) \in mask
  <2> DEFINE n == (VcpuId[v] % Cardinality(mask)) - 1
  <2>1. sedf_pick_cpu(v, affinity) = cpumask_cycle(n, mask)
    BY <1>3
  <2> HIDE DEF n
  <2> QED
    BY <1>2, <2>1
<1> QED
  BY <1>4 DEF mask

-----------------------------------------------------------------------------
(* The scheduler leaves a vCPU alone that it has nothing to do with, as    *)
(* long as the hypervisor does not resume it here.                         *)
LEMMA OffStays ==
    ASSUME QInv, NEW v \in Vcpus, Off(v), Next, runnable'[v] = runnable[v]
    PROVE  Off(v)'
<1>0. /\ runnable \in [Vcpus -> BOOLEAN]
      /\ pend \in [Vcpus -> SUBSET {"sleep", "wake"}]
  BY DEF QInv, TypeOK
<1>1. CASE Environment
  <2>1. UNCHANGED <<curr, status>>
    BY <1>1 DEF Environment, Tick, TimerFires, Yield, RaiseSchedule, Block, Pause,
       Resume, Drop, Deliver, cpu
  <2>2. pend'[v] = {}
    <3>1. CASE Tick \/ TimerFires \/ Yield
      BY <3>1 DEF Tick, TimerFires, Yield, Off
    <3>2. ASSUME NEW w \in Vcpus, Block(w) \/ Pause(w) PROVE pend'[v] = {}
      BY <1>0, <3>2 DEF Block, Pause, Off
    <3>3. ASSUME NEW w \in Vcpus, Resume(w) PROVE pend'[v] = {}
      <4>1. w # v
        BY <1>0, <3>3 DEF Resume, Off
      <4> QED
        BY <1>0, <3>3, <4>1 DEF Resume, Off
    <3>4. ASSUME NEW w \in Vcpus, Drop(w, "sleep") \/ Drop(w, "wake") PROVE pend'[v] = {}
      BY <1>0, <3>4 DEF Drop, Deliver, Off
    <3> QED
      BY <1>1, <3>1, <3>2, <3>3, <3>4 DEF Environment
  <2> QED
    BY <2>1, <2>2 DEF Off
<1>2. ASSUME NEW w \in Vcpus, sedf_sleep(w) \/ sedf_wake_queued(w) \/ sedf_wake(w)
      PROVE  Off(v)'
  <2>1. w # v
    BY <1>2 DEF sedf_sleep, sedf_wake_queued, sedf_wake, Deliver, Off
  <2>2. /\ UNCHANGED <<runnable, curr>>
        /\ status'[v] = status[v] /\ pend'[v] = pend[v]
    BY <1>2, <2>1, HandlerMarks
  <2> QED
    BY <2>2 DEF Off, sedf_runnable
<1>3. ASSUME UNCHANGED <<pend, curr, status>> PROVE Off(v)'
  BY <1>3 DEF Off
<1>4. CASE ScheduleCalled \/ ChargeBudget \/ \E w \in Vcpus : desched_extra_faults(w)
  BY <1>3, <1>4 DEF ScheduleCalled, ChargeBudget, desched_extra_faults, external, cpu
<1>5. ASSUME NEW w \in Vcpus,
             desched_edf_keeps(w) \/ desched_edf_dom(w) \/ desched_extra_dom(w)
      PROVE  Off(v)'
  <2>1. curr = w /\ UNCHANGED <<curr, pend>> /\ w # v
    BY <1>5, DeschedMarks DEF Off
  <2>2. status'[v] = status[v]
    BY <1>5, <2>1, DeschedMarks
  <2> QED
    BY <2>1, <2>2 DEF Off, sedf_runnable
<1>6. ASSUME NEW w,
             \/ PromoteWaiting \/ WaitqDone \/ RunqDone
             \/ SkipEmptySlice(w) \/ ForgiveMiss(w) \/ StopAtRunnable(w)
      PROVE  Off(v)'
  BY <1>3, <1>6, LoopsMark
<1>7. CASE PickTasklet \/ PickIdle \/ PickRunq \/ PickExtra \/ PickExtraIdle
  <2>1. /\ UNCHANGED pend
        /\ sedf_runnable(status', v) <=> sedf_runnable(status, v)
        /\ curr' = curr \/ curr' = IDLE \/ OnTaskQ(curr')
    BY <1>7, PickEffect
       DEF external, sedf_runnable, StatusBits, SEDF_ASLEEP, EXTRA_RUN_PEN, EXTRA_RUN_UTIL
  <2>2. curr' # v
    BY <2>1, OffEverywhere, ConstantsAssumption DEF Off
  <2> QED
    BY <2>1, <2>2 DEF Off
<1> QED
  BY <1>1, <1>2, <1>4, <1>5, <1>6, <1>7 DEF Next, Handlers, DoSchedule

(* The scheduler leaves the cursor behind when it has chosen.              *)
LEMMA CursorGoesHome == CursorHome /\ Next => CursorHome'
<1> SUFFICES ASSUME CursorHome, Next PROVE CursorHome'
  OBVIOUS
<1>1. CASE Environment \/ Handlers
  BY <1>1 DEF CursorHome, Environment, Tick, TimerFires, Yield, RaiseSchedule,
     Block, Pause, Resume, Drop, Deliver, Handlers, sedf_sleep,
     sedf_wake_queued, sedf_wake, control, cpu
<1>2. CASE ScheduleCalled \/ ChargeBudget \/ PromoteWaiting \/ WaitqDone \/ RunqDone
           \/ \E v \in Vcpus : desched_edf_keeps(v) \/ desched_extra_dom(v)
                               \/ desched_extra_faults(v) \/ desched_edf_dom(v)
  BY <1>2 DEF CursorHome, ScheduleCalled, ChargeBudget, PromoteWaiting, WaitqDone,
     RunqDone, desched_edf_keeps, desched_extra_dom, desched_extra_faults,
     desched_edf_dom, Deschedule, control
<1>3. ASSUME NEW v \in Vcpus,
             SkipEmptySlice(v) \/ ForgiveMiss(v) \/ StopAtRunnable(v)
      PROVE  CursorHome'
  BY <1>3 DEF CursorHome, SkipEmptySlice, ForgiveMiss, StopAtRunnable, VisitRunq
<1>4. CASE PickTasklet \/ PickIdle \/ PickRunq \/ PickExtra \/ PickExtraIdle
  BY <1>4 DEF CursorHome, PickTasklet, PickIdle, PickRunq, PickExtra,
     PickExtraIdle, Run
<1> QED
  BY <1>1, <1>2, <1>3, <1>4 DEF Next, DoSchedule

(* So does a CPU that has left the pool: it goes idle.                     *)
LEMMA OffPoolKeeps ==
    ASSUME LifeInv, PickOffPool
    PROVE  /\ QInv' /\ CallInv' /\ CursorHome'
           /\ runnable' = runnable
           /\ \A v \in Vcpus : Off(v) => Off(v)'
<1>1. Run(IDLE, status, SECOND) /\ SECOND \in Nat
  BY ConstantsAssumption DEF PickOffPool
<1>2. QInv'
  <2>1. status \in [Vcpus -> SUBSET StatusBits] /\ IDLE \notin Vcpus /\ SECOND \in Int
    BY <1>1, ConstantsAssumption DEF LifeInv, QInv, TypeOK
  <2> QED
    BY <1>1, <2>1, RunPlaced DEF LifeInv
<1>3. /\ at = "pick" /\ at' = "guest" /\ curr' = IDLE
      /\ UNCHANGED <<runnable, pend, cur, status>>
  BY <1>1 DEF Run, external
<1>4. CallInv'
  <2>1. \A w : ~WillLook(w)
    BY <1>3 DEF WillLook
  <2> QED
    BY <1>3, <2>1 DEF LifeInv, CallInv, SleepOnItsWay, CurrentAwake
<1>5. CursorHome'
  BY <1>3 DEF LifeInv, CursorHome
<1>6. ASSUME NEW v \in Vcpus, Off(v) PROVE Off(v)'
  BY <1>3, <1>6, ConstantsAssumption DEF Off, sedf_runnable
<1> QED
  BY <1>2, <1>3, <1>4, <1>5, <1>6

(* Scheduling, sleeping and waking concern vCPUs that are here.            *)
LEMMA ScheduleHereKeeps == LifeInv /\ ScheduleHere => LifeInv'
<1> SUFFICES ASSUME LifeInv, ScheduleHere PROVE LifeInv'
  OBVIOUS
<1>1. PickOffPool \/ Next
  BY DEF ScheduleHere
<1>2. UNCHANGED life
  BY DEF ScheduleHere
<1>3. QInv' /\ CallInv' /\ CursorHome'
  BY <1>1, OffPoolKeeps, StepPlaced, StepCalls, CursorGoesHome DEF LifeInv
<1>4. AwayIsOff'
  <2> SUFFICES ASSUME NEW v \in Vcpus, ~Resident(v)' PROVE Off(v)'
    BY DEF AwayIsOff
  <2>1. ~Resident(v)
    BY <1>2 DEF Resident, life
  <2>2. runnable'[v] = runnable[v] /\ Off(v)
    BY <2>1 DEF ScheduleHere, LifeInv, AwayIsOff
  <2> QED
    BY <1>1, <2>2, OffPoolKeeps, OffStays DEF LifeInv
<1>5. Pools'
  BY <1>2 DEF LifeInv, Pools, PlacedWithData, life
<1> QED
  BY <1>3, <1>4, <1>5 DEF LifeInv

-----------------------------------------------------------------------------
(* A vCPU that is off gets a new status and stays asleep.                  *)
LEMMA SleeperPlaced ==
    ASSUME LifeInv, NEW v \in Vcpus, Off(v),
           NEW st \in SUBSET {EXTRA_AWARE, EXTRA_WANT_PEN_Q, SEDF_ASLEEP},
           SEDF_ASLEEP \in st,
           status' = [status EXCEPT ![v] = st],
           UNCHANGED <<runnable, pend, cpu, control, queues>>
    PROVE  Placement' /\ CallInv' /\ CursorHome' /\ Off(v)'
           /\ \A w \in Vcpus : Off(w) => Off(w)'
<1>0. status \in [Vcpus -> SUBSET StatusBits]
  BY DEF LifeInv, QInv, TypeOK
<1>1. /\ ~Descheduling(v) /\ ~OnTaskQ(v)
      /\ \A i \in Levels : ~OnQ(extraq[i], v)
      /\ curr # v
  BY OffEverywhere DEF LifeInv, Off
<1>2. status'[v] = st /\ \A w \in Vcpus \ {v} : status'[w] = status[w]
  BY <1>0
<1>3. ~sedf_runnable(status', v) /\ ~extra_runs(v)'
  BY <1>2 DEF sedf_runnable, extra_runs, SEDF_ASLEEP, EXTRA_AWARE,
     EXTRA_WANT_PEN_Q, EXTRA_RUN_PEN, EXTRA_RUN_UTIL
<1>4. \A w \in Vcpus \ {v} :
         /\ sedf_runnable(status', w) = sedf_runnable(status, w)
         /\ extra_runs(w)' = extra_runs(w)
         /\ extra_get_cur_q(w)' = extra_get_cur_q(w)
  BY <1>2 DEF sedf_runnable, extra_runs, extra_get_cur_q
<1>5. UNCHANGED <<curr, softirq, at, cur, runq, waitq, extraq>>
  BY DEF cpu, control, queues
<1>6. \A w \in Vcpus : /\ Descheduling(w)' = Descheduling(w)
                       /\ OnTaskQ(w)' = OnTaskQ(w)
                       /\ WillLook(w)' = WillLook(w)
  BY <1>5 DEF Descheduling, OnTaskQ, WillLook
<1>7. Placement
  BY DEF LifeInv, QInv
<1>8. QueuesDisjoint' /\ CursorOnRunq' /\ CursorHome'
  BY <1>5, <1>7 DEF LifeInv, Placement, QueuesDisjoint, CursorOnRunq, CursorHome
<1>9. AwakeIffQueued' /\ ExtraOnlyIfQueued'
  BY <1>1, <1>3, <1>4, <1>5, <1>6, <1>7
     DEF Placement, AwakeIffQueued, ExtraOnlyIfQueued
<1>10. ExtraRunWellPlaced'
  <2> SUFFICES ASSUME NEW w \in Vcpus, extra_runs(w)'
               PROVE  /\ Descheduling(w)'
                      /\ OnQ(waitq', w)
                      /\ OnQ(extraq'[extra_get_cur_q(w)'], w)
                      /\ ~({EXTRA_RUN_PEN, EXTRA_RUN_UTIL} \subseteq status'[w])
    BY DEF ExtraRunWellPlaced
  <2>1. w # v /\ extra_runs(w)
    BY <1>3, <1>4
  <2> QED
    BY <1>2, <1>4, <1>5, <1>6, <1>7, <2>1 DEF Placement, ExtraRunWellPlaced
<1>11. EdfRunOnRunq'
  <2> SUFFICES ASSUME NEW w \in Vcpus, Descheduling(w)', ~extra_runs(w)'
               PROVE  OnQ(runq', w)
    BY DEF EdfRunOnRunq
  <2>1. Descheduling(w) /\ w # v
    BY <1>1, <1>6
  <2> QED
    BY <1>4, <1>5, <1>7, <2>1 DEF Placement, EdfRunOnRunq
<1>12. CallInv'
  <2>1. SleepOnItsWay'
    BY <1>3, <1>4, <1>6 DEF LifeInv, CallInv, SleepOnItsWay
  <2>2. CurrentAwake'
    <3>1. curr \in Vcpus \cup {IDLE}
      BY DEF LifeInv, QInv, TypeOK
    <3> QED
      BY <1>1, <1>4, <1>5, <3>1 DEF LifeInv, CallInv, CurrentAwake
  <2> QED
    BY <2>1, <2>2 DEF CallInv
<1>13. \A w \in Vcpus : Off(w) => Off(w)'
  BY <1>3, <1>4, <1>5 DEF Off
<1> QED
  BY <1>8, <1>9, <1>10, <1>11, <1>12, <1>13 DEF Placement

(* A vCPU is allocated, and inserted asleep: extraq_check has nothing to   *)
(* take off, and puts nobody on a queue who is asleep.                     *)
LEMMA AllocKeeps ==
    ASSUME LifeInv, NEW v \in Vcpus, NEW c \in Cpus, sedf_alloc_vdata(v, c)
    PROVE  LifeInv'
<1>1. TypeOK /\ AwayIsOff /\ Pools
  BY DEF LifeInv, QInv
<1>2. Off(v)
  BY <1>1 DEF AwayIsOff, Resident, sedf_alloc_vdata
<1>3. \A i \in Levels : ~OnQ(extraq[i], v)
  BY <1>2, OffEverywhere DEF LifeInv
<1> DEFINE st == {EXTRA_AWARE, SEDF_ASLEEP}
<1>4. extraq' = extraq
  <2>1. extraq_check(v, st) = extraq[EXTRA_UTIL_Q]
    BY <1>3 DEF extraq_check, SEDF_ASLEEP, EXTRA_AWARE
  <2>2. extraq \in [Levels -> Seq(Vcpus)]
    BY <1>1 DEF TypeOK
  <2> QED
    BY <2>1, <2>2 DEF sedf_alloc_vdata
<1>5. /\ status' = [status EXCEPT ![v] = st]
      /\ UNCHANGED <<runnable, pend, cpu, control, queues>>
  BY <1>4 DEF sedf_alloc_vdata, external, queues
<1>6. Placement' /\ CallInv' /\ CursorHome' /\ \A w \in Vcpus : Off(w) => Off(w)'
  <2>1. st \in SUBSET {EXTRA_AWARE, EXTRA_WANT_PEN_Q, SEDF_ASLEEP} /\ SEDF_ASLEEP \in st
    OBVIOUS
  <2> HIDE DEF st
  <2> QED
    BY <1>2, <1>5, <2>1, SleeperPlaced
<1>7. TypeOK'
  <2>1. /\ UNCHANGED <<now, runnable, stops, pend, curr, softirq,
                       current_slice_expires, at, snow, cur, runq, waitq, extraq>>
        /\ status' \in [Vcpus -> SUBSET StatusBits]
    BY <1>1, <1>4, <1>5
       DEF TypeOK, sedf_alloc_vdata, external, cpu, control, StatusBits
  <2>2. /\ deadl_abs' \in [Vcpus -> Int]
        /\ sched_start_abs' \in [Vcpus -> Nat]
        /\ cputime' \in [Vcpus -> Int]
        /\ cbs_current_budget' \in [Vcpus -> Int]
        /\ cbs_current_deadline' \in [Vcpus -> Int]
    <3>1. /\ deadl_abs' = [deadl_abs EXCEPT ![v] = 0]
          /\ sched_start_abs' = [sched_start_abs EXCEPT ![v] = 0]
          /\ cputime' = [cputime EXCEPT ![v] = 0]
          /\ cbs_current_budget' = [cbs_current_budget EXCEPT ![v] = 0]
          /\ cbs_current_deadline' = [cbs_current_deadline EXCEPT ![v] = 0]
      BY DEF sedf_alloc_vdata
    <3>2. /\ deadl_abs \in [Vcpus -> Int]
          /\ sched_start_abs \in [Vcpus -> Nat]
          /\ cputime \in [Vcpus -> Int]
          /\ cbs_current_budget \in [Vcpus -> Int]
          /\ cbs_current_deadline \in [Vcpus -> Int]
      BY <1>1 DEF TypeOK
    <3> QED
      BY <3>1, <3>2
  <2>3. blocked' \in [Vcpus -> BOOLEAN]
    <3>1. blocked' = [blocked EXCEPT ![v] = FALSE]
      BY DEF sedf_alloc_vdata
    <3> QED
      BY <1>1, <3>1, Zenon DEF TypeOK
  <2>4. score' \in [Levels -> [Vcpus -> -(INT_MAX + 1)..INT_MAX]]
    <3>1. score' = [i \in Levels |-> [score[i] EXCEPT ![v] = 0]]
      BY DEF sedf_alloc_vdata
    <3>2. score \in [Levels -> [Vcpus -> -(INT_MAX + 1)..INT_MAX]]
      BY <1>1 DEF TypeOK
    <3> QED
      BY <3>1, <3>2, IntAssumption
  <2>5. /\ period' \in [Vcpus -> Nat \ {0}]
        /\ slice' \in [Vcpus -> Int]
        /\ period_orig' \in [Vcpus -> Nat \ {0}]
        /\ slice_orig' \in [Vcpus -> Int]
        /\ extraweight' \in [Vcpus -> Nat]
    <3>1. /\ period' = [period EXCEPT ![v] = CBS_PERIOD]
          /\ slice' = [slice EXCEPT ![v] = CBS_MAX_BUDGET]
          /\ period_orig' = [period_orig EXCEPT ![v] = CBS_PERIOD]
          /\ slice_orig' = [slice_orig EXCEPT ![v] = CBS_MAX_BUDGET]
          /\ extraweight' = [extraweight EXCEPT ![v] = 1]
      BY DEF sedf_alloc_vdata, NewVcpu
    <3>2. /\ period \in [Vcpus -> Nat \ {0}]
          /\ slice \in [Vcpus -> Int]
          /\ period_orig \in [Vcpus -> Nat \ {0}]
          /\ slice_orig \in [Vcpus -> Int]
          /\ extraweight \in [Vcpus -> Nat]
      BY <1>1 DEF TypeOK
    <3> QED
      BY <3>1, <3>2, ConstantsAssumption
  <2> QED
    BY <1>1, <2>1, <2>2, <2>3, <2>4, <2>5 DEF TypeOK
<1>8. AwayIsOff'
  <2> SUFFICES ASSUME NEW w \in Vcpus, ~Resident(w)' PROVE Off(w)'
    BY DEF AwayIsOff
  <2>1. w # v => ~Resident(w)
    BY <1>1 DEF Pools, Resident, sedf_alloc_vdata
  <2> QED
    BY <1>1, <1>2, <1>6, <2>1 DEF AwayIsOff
<1>9. Pools'
  BY <1>1 DEF Pools, PlacedWithData, sedf_alloc_vdata
<1> QED
  BY <1>6, <1>7, <1>8, <1>9 DEF LifeInv, QInv

(* A vCPU comes from another CPU, asleep. *)
LEMMA ArrivalKeeps ==
    ASSUME LifeInv, NEW v \in Vcpus, NEW affinity, NEW r \in Away,
           vcpu_arrives(v, affinity, r)
    PROVE  LifeInv'
<1>1. TypeOK /\ AwayIsOff /\ Pools
  BY DEF LifeInv, QInv
<1>2. Off(v)
  BY <1>1 DEF AwayIsOff, vcpu_arrives
<1>r. /\ r.status \in SUBSET {EXTRA_AWARE, EXTRA_WANT_PEN_Q}
      /\ r.deadl_abs \in Int /\ r.cputime \in Int /\ r.budget \in Int
      /\ r.deadline \in Int
  BY LifecycleAssumption
<1>b. r.blocked \in BOOLEAN
  BY LifecycleAssumption
<1> DEFINE st == r.status \cup {SEDF_ASLEEP}
<1>3. /\ st \in SUBSET {EXTRA_AWARE, EXTRA_WANT_PEN_Q, SEDF_ASLEEP}
      /\ SEDF_ASLEEP \in st
  BY <1>r
<1>4. /\ status' = [status EXCEPT ![v] = st]
      /\ UNCHANGED <<runnable, pend, cpu, control, queues>>
  BY DEF vcpu_arrives, external
<1> HIDE DEF st
<1>5. Placement' /\ CallInv' /\ CursorHome' /\ \A w \in Vcpus : Off(w) => Off(w)'
  BY <1>2, <1>3, <1>4, SleeperPlaced
<1>6. TypeOK'
  <2>1. /\ UNCHANGED <<now, runnable, stops, pend, curr, softirq,
                       current_slice_expires, at, snow, cur, runq, waitq, extraq,
                       sched_start_abs, score, period, slice, period_orig,
                       slice_orig, extraweight>>
    BY DEF vcpu_arrives, external, cpu, control, queues, params
  <2>2. status' \in [Vcpus -> SUBSET StatusBits]
    BY <1>1, <1>3, <1>4 DEF TypeOK, StatusBits
  <2>3. /\ deadl_abs' \in [Vcpus -> Int]
        /\ cputime' \in [Vcpus -> Int]
        /\ cbs_current_budget' \in [Vcpus -> Int]
        /\ cbs_current_deadline' \in [Vcpus -> Int]
    <3>1. /\ deadl_abs' = [deadl_abs EXCEPT ![v] = now + r.deadl_abs]
          /\ cputime' = [cputime EXCEPT ![v] = r.cputime]
          /\ cbs_current_budget' = [cbs_current_budget EXCEPT ![v] = r.budget]
          /\ cbs_current_deadline' =
                 [cbs_current_deadline EXCEPT ![v] = now + r.deadline]
      BY DEF vcpu_arrives
    <3>2. /\ deadl_abs \in [Vcpus -> Int]
          /\ cputime \in [Vcpus -> Int]
          /\ cbs_current_budget \in [Vcpus -> Int]
          /\ cbs_current_deadline \in [Vcpus -> Int]
          /\ now \in Nat
      BY <1>1 DEF TypeOK
    <3> QED
      BY <1>r, <3>1, <3>2
  <2>4. blocked' \in [Vcpus -> BOOLEAN]
    <3>1. blocked' = [blocked EXCEPT ![v] = r.blocked]
      BY DEF vcpu_arrives
    <3> QED
      BY <1>1, <1>b, <3>1, Zenon DEF TypeOK
  <2> QED
    BY <1>1, <2>1, <2>2, <2>3, <2>4 DEF TypeOK
<1>7. AwayIsOff'
  <2> SUFFICES ASSUME NEW w \in Vcpus, ~Resident(w)' PROVE Off(w)'
    BY DEF AwayIsOff
  <2>1. w # v => ~Resident(w)
    BY <1>1 DEF Pools, Resident, vcpu_arrives
  <2> QED
    BY <1>1, <1>2, <1>5, <2>1 DEF AwayIsOff
<1>8. Pools'
  <2>1. processor'[v] \in online
    BY <1>1, PickCpuOnline DEF Pools, vcpu_arrives
  <2> QED
    BY <1>1, <2>1 DEF Pools, PlacedWithData, vcpu_arrives
<1> QED
  BY <1>5, <1>6, <1>7, <1>8 DEF LifeInv, QInv

(* What leaves the scheduler of this CPU untouched keeps its invariants.   *)
LEMMA SameScheduler ==
    LifeInv /\ UNCHANGED vars
        => QInv' /\ CallInv' /\ CursorHome' /\ \A w \in Vcpus : Off(w) => Off(w)'
<1> SUFFICES ASSUME LifeInv, UNCHANGED vars
             PROVE  QInv' /\ CallInv' /\ CursorHome' /\ \A w \in Vcpus : Off(w) => Off(w)'
  OBVIOUS
<1>1. QInv' /\ CallInv'
  BY StepPlaced, StepCalls DEF LifeInv
<1>2. CursorHome'
  BY DEF LifeInv, CursorHome, vars
<1>3. \A w \in Vcpus : Off(w) => Off(w)'
  BY DEF Off, vars
<1> QED
  BY <1>1, <1>2, <1>3

(* Whoever is freed or moved is quiet, and so asleep.                      *)
LEMMA QuietIsOff ==
    ASSUME LifeInv, NEW v \in Vcpus, Quiet(v)
    PROVE  Off(v)
BY DEF LifeInv, CallInv, SleepOnItsWay, WillLook, Quiet, Off

(* A vCPU leaves this CPU when it is freed or moves away.                  *)
LEMMA LeaveKeeps ==
    ASSUME LifeInv, NEW v \in Vcpus, NEW affinity,
           sedf_free_vdata(v) \/ vcpu_migrate(v, affinity)
    PROVE  LifeInv'
<1>1. AwayIsOff /\ Pools
  BY DEF LifeInv
<1>2. Off(v)
  BY QuietIsOff DEF sedf_free_vdata, vcpu_migrate
<1>3. QInv' /\ CallInv' /\ CursorHome' /\ \A w \in Vcpus : Off(w) => Off(w)'
  BY SameScheduler DEF sedf_free_vdata, vcpu_migrate
<1>4. AwayIsOff'
  <2> SUFFICES ASSUME NEW w \in Vcpus, ~Resident(w)' PROVE Off(w)'
    BY DEF AwayIsOff
  <2>1. w # v => ~Resident(w)
    BY <1>1 DEF Pools, Resident, sedf_free_vdata, vcpu_migrate
  <2> QED
    BY <1>1, <1>2, <1>3, <2>1 DEF AwayIsOff
<1>5. CASE sedf_free_vdata(v)
  <2>1. Pools'
    BY <1>1, <1>5 DEF Pools, PlacedWithData, sedf_free_vdata
  <2> QED
    BY <1>3, <1>4, <2>1 DEF LifeInv
<1>6. CASE vcpu_migrate(v, affinity)
  <2> DEFINE c == sedf_pick_cpu(v, affinity)
  <2>1. c \in online
    BY <1>1, <1>6, PickCpuOnline DEF vcpu_migrate
  <2>2. /\ processor' = [processor EXCEPT ![v] = c]
        /\ UNCHANGED <<vdata, online, pdata>>
    BY <1>6 DEF vcpu_migrate
  <2> HIDE DEF c
  <2>3. Pools'
    BY <1>1, <2>1, <2>2 DEF Pools, PlacedWithData
  <2> QED
    BY <1>3, <1>4, <2>3 DEF LifeInv
<1> QED
  BY <1>5, <1>6

(* A CPU leaves the pool, and its data is freed when nobody is left.       *)
LEMMA CpuLeavesKeeps ==
    ASSUME LifeInv, NEW c \in Cpus, cpu_leaves(c) \/ sedf_free_pdata(c)
    PROVE  LifeInv'
<1>1. AwayIsOff /\ Pools
  BY DEF LifeInv
<1>2. /\ QInv' /\ CallInv' /\ CursorHome' /\ \A w \in Vcpus : Off(w) => Off(w)'
      /\ UNCHANGED <<vdata, processor>>
  BY SameScheduler DEF cpu_leaves, sedf_free_pdata
<1>3. AwayIsOff'
  BY <1>1, <1>2 DEF AwayIsOff, Resident
<1>4. Pools'
  BY <1>1 DEF Pools, PlacedWithData, cpu_leaves, sedf_free_pdata
<1> QED
  BY <1>2, <1>3, <1>4 DEF LifeInv

(* A CPU comes back with empty queues, which forget nobody.                *)
LEMMA AllocPdataKeeps ==
    ASSUME LifeInv, NEW c \in Cpus, sedf_alloc_pdata(c)
    PROVE  LifeInv'
<1>1. QInv /\ CallInv /\ CursorHome /\ AwayIsOff /\ Pools
  BY DEF LifeInv
<1>2. Pools' /\ UNCHANGED <<vdata, processor>>
  BY <1>1 DEF Pools, PlacedWithData, sedf_alloc_pdata
<1>3. CASE c # ThisCpu
  <2>1. QInv' /\ CallInv' /\ CursorHome' /\ \A w \in Vcpus : Off(w) => Off(w)'
    BY <1>3, SameScheduler DEF sedf_alloc_pdata
  <2>2. AwayIsOff'
    BY <1>1, <1>2, <2>1 DEF AwayIsOff, Resident
  <2> QED
    BY <1>2, <2>1, <2>2 DEF LifeInv
<1>4. CASE c = ThisCpu
  <2>1. \A v \in Vcpus : Off(v)
    BY <1>1, <1>4 DEF Pools, PlacedWithData, AwayIsOff, Resident, sedf_alloc_pdata
  <2>2. /\ runq' = << >> /\ waitq' = << >> /\ extraq' = [i \in Levels |-> << >>]
        /\ current_slice_expires' = 0 /\ softirq' = FALSE
        /\ UNCHANGED <<external, curr, control, status, account, score,
                       blocked, cbs, params>>
    BY <1>4 DEF sedf_alloc_pdata
  <2>3. \A v \in Vcpus : /\ ~sedf_runnable(status, v) /\ ~Descheduling(v)
                         /\ ~extra_runs(v) /\ curr # v /\ cur # v
    BY <1>1, <2>1, OffEverywhere DEF Off
  <2>4. curr = IDLE /\ cur = HEAD
    BY <1>1, <2>3 DEF QInv, TypeOK
  <2>5. TypeOK'
    <3>1. /\ runq' \in Seq(Vcpus) /\ waitq' \in Seq(Vcpus)
          /\ extraq' \in [Levels -> Seq(Vcpus)]
          /\ current_slice_expires' \in Int /\ softirq' \in BOOLEAN
      BY <2>2
    <3>2. TypeOK
      BY <1>1 DEF QInv
    <3> QED
      BY <2>2, <3>1, <3>2
         DEF TypeOK, external, control, account, cbs, params
  <2>6. \A v : ~OnQ(runq', v) /\ ~OnQ(waitq', v) /\ \A i \in Levels : ~OnQ(extraq'[i], v)
    BY <2>2 DEF OnQ
  <2>7. UNCHANGED <<curr, at, cur, status, pend, runnable>>
    BY <2>2 DEF external, control
  <2>8. Placement'
    <3>1. QueuesDisjoint'
      BY <2>2, <2>6 DEF QueuesDisjoint, NoDuplicates
    <3>2. CursorOnRunq' /\ AwakeIffQueued' /\ ExtraOnlyIfQueued'
      BY <2>3, <2>4, <2>6, <2>7
         DEF CursorOnRunq, AwakeIffQueued, ExtraOnlyIfQueued, OnTaskQ, sedf_runnable
    <3>3. ExtraRunWellPlaced' /\ EdfRunOnRunq'
      BY <2>3, <2>7 DEF ExtraRunWellPlaced, EdfRunOnRunq, Descheduling, extra_runs
    <3> QED
      BY <3>1, <3>2, <3>3 DEF Placement
  <2>9. CallInv' /\ CursorHome'
    BY <2>3, <2>4, <2>7
       DEF CallInv, SleepOnItsWay, CurrentAwake, CursorHome, sedf_runnable
  <2>10. AwayIsOff'
    BY <2>1, <2>7 DEF AwayIsOff, Off, sedf_runnable
  <2> QED
    BY <1>2, <2>5, <2>8, <2>9, <2>10 DEF LifeInv, QInv
<1> QED
  BY <1>3, <1>4

-----------------------------------------------------------------------------
(* At the start every vCPU is off, wherever it is.                         *)
LEMMA LifeStarts == LifeInit => LifeInv
<1> SUFFICES ASSUME LifeInit PROVE LifeInv
  OBVIOUS
<1>1. QInv /\ CallInv
  BY InitPlaced, InitCalls DEF LifeInit
<1>2. CursorHome
  BY DEF LifeInit, Init, CursorHome
<1>3. AwayIsOff
  BY DEF LifeInit, AwayIsOff, Resident
<1>4. Pools
  BY LifecycleAssumption DEF LifeInit, Pools, PlacedWithData
<1> QED
  BY <1>1, <1>2, <1>3, <1>4 DEF LifeInv

(* Every step of the scheduler and of the hypervisor keeps the invariant.  *)
LEMMA LifeSteps == LifeInv /\ [LifeNext]_lvars => LifeInv'
<1> SUFFICES ASSUME LifeInv, [LifeNext]_lvars PROVE LifeInv'
  OBVIOUS
<1>1. CASE ScheduleHere
  BY <1>1, ScheduleHereKeeps
<1>2. ASSUME NEW v \in Vcpus, NEW c \in Cpus, sedf_alloc_vdata(v, c) PROVE LifeInv'
  BY <1>2, AllocKeeps
<1>3. ASSUME NEW v \in Vcpus, sedf_free_vdata(v) PROVE LifeInv'
  BY <1>3, LeaveKeeps
<1>4. ASSUME NEW v \in Vcpus, NEW a \in Affinities, vcpu_migrate(v, a) PROVE LifeInv'
  BY <1>4, LeaveKeeps
<1>5. ASSUME NEW v \in Vcpus, NEW a \in Affinities, NEW r \in Away,
             vcpu_arrives(v, a, r)
      PROVE  LifeInv'
  BY <1>5, ArrivalKeeps
<1>6. ASSUME NEW c \in Cpus, cpu_leaves(c) \/ sedf_free_pdata(c) PROVE LifeInv'
  BY <1>6, CpuLeavesKeeps
<1>7. ASSUME NEW c \in Cpus, sedf_alloc_pdata(c) PROVE LifeInv'
  BY <1>7, AllocPdataKeeps
<1>8. CASE UNCHANGED lvars
  <2>1. UNCHANGED vars /\ UNCHANGED life
    BY <1>8 DEF lvars
  <2>2. QInv' /\ CallInv' /\ CursorHome' /\ \A w \in Vcpus : Off(w) => Off(w)'
    BY <2>1, SameScheduler
  <2>3. AwayIsOff' /\ Pools'
    BY <2>1, <2>2 DEF LifeInv, AwayIsOff, Pools, PlacedWithData, Resident, life
  <2> QED
    BY <2>2, <2>3 DEF LifeInv
<1> QED
  BY <1>1, <1>2, <1>3, <1>4, <1>5, <1>6, <1>7, <1>8 DEF LifeNext

(* Nobody is left behind: for any number of vCPUs and CPUs, whenever vCPUs *)
(* are freed or moved and CPUs leave the pool and come back, the queues,   *)
(* the current vCPU and the cursor of this CPU name only vCPUs that exist  *)
(* and belong to it.                                                       *)
THEOREM NobodyLeftBehind == LifeSpec => []OnlyResidentsQueued
<1>1. LifeInv => OnlyResidentsQueued
  <2> SUFFICES ASSUME LifeInv, NEW v \in Vcpus, ~(Resident(v) /\ ThisCpu \in pdata)
               PROVE  /\ ~OnTaskQ(v)
                      /\ \A i \in Levels : ~OnQ(extraq[i], v)
                      /\ v # curr
                      /\ v # cur
    BY DEF OnlyResidentsQueued
  <2>1. ~Resident(v)
    BY DEF LifeInv, Pools, PlacedWithData, Resident
  <2>2. Off(v)
    BY <2>1 DEF LifeInv, AwayIsOff
  <2> QED
    BY <2>2, OffEverywhere DEF LifeInv, Off
<1> QED
  BY LifeStarts, LifeSteps, <1>1, PTL DEF LifeSpec

(* RUNQ(v->processor) always exists: sedf_pick_cpu takes no CPU outside    *)
(* the pool, and the data of a CPU is freed after its last vCPU has left.  *)
THEOREM AlwaysPlaced == LifeSpec => []PlacedWithData
<1>1. LifeInv => PlacedWithData
  BY DEF LifeInv, Pools
<1> QED
  BY LifeStarts, LifeSteps, <1>1, PTL DEF LifeSpec
=============================================================================
