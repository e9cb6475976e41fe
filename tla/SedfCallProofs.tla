--------------------------- MODULE SedfCallProofs ---------------------------
(***************************************************************************)
(* The pause flags and the status bits of the scheduler are kept apart, and*)
(* brought together by sleep and wake calls that are delayed and by the    *)
(* snapshot of vcpu_runnable that do_schedule takes.  Here: however these  *)
(* interleave, a vCPU that must not run is not left running, and one that  *)
(* may run is left asleep by one race only.  The second part is about who  *)
(* is on the extra-time queues, which the same bits decide.                *)
(***************************************************************************)
EXTENDS SedfProofs

(* do_schedule is going to look at vcpu_runnable(v). *)
WillLook(v) ==
    /\ curr = v
    /\ at \in {"called", "desched", "fault"} \/ (at = "guest" /\ softirq)

(* A vCPU that is awake and not runnable is still to be put to sleep.      *)
SleepOnItsWay ==
    \A v \in Vcpus :
        sedf_runnable(status, v) /\ ~runnable[v]
            => "sleep" \in pend[v] \/ WillLook(v)

(* Unless it is to be rescheduled, the vCPU on the CPU is awake.           *)
CurrentAwake ==
    at = "guest" /\ ~softirq /\ curr # IDLE => sedf_runnable(status, curr)

CallInv == SleepOnItsWay /\ CurrentAwake

USE DEF Levels, EXTRA_PEN_Q, EXTRA_UTIL_Q

(* At the start nobody runs and no call is on its way.                     *)
LEMMA InitCalls == Init => CallInv
<1> SUFFICES ASSUME Init PROVE CallInv
  OBVIOUS
<1>0. PICK p \in [Vcpus -> Params] : Init!(p)
  BY DEF Init
<1>1. \A v \in Vcpus : ~sedf_runnable(status, v) /\ ~runnable[v]
  BY <1>0 DEF sedf_runnable, EXTRA_AWARE, SEDF_ASLEEP
<1>2. curr = IDLE
  BY <1>0
<1> QED
  BY <1>1, <1>2
     DEF CallInv, SleepOnItsWay, CurrentAwake

(* What every outcome of the choice does: it leaves the books alone but    *)
(* for the running flags, and a vCPU that it picks is queued.              *)
LEMMA PickEffect ==
    ASSUME QInv,
           PickTasklet \/ PickIdle \/ PickRunq \/ PickExtra \/ PickExtraIdle
    PROVE  /\ at = "pick"
           /\ UNCHANGED <<external, softirq, cur, queues, deadl_abs, cputime,
                          score, blocked, cbs, params>>
           /\ \A w \in Vcpus, b \in StatusBits \ {EXTRA_RUN_PEN, EXTRA_RUN_UTIL} :
                 b \in status'[w] <=> b \in status[w]
           /\ \A w \in Vcpus : EXTRA_RUN_UTIL \in status[w] => EXTRA_RUN_UTIL \in status'[w]
           /\ \/ at' = "bug" /\ curr' = curr
              \/ at' = "guest" /\ curr' = IDLE
              \/ at' = "guest" /\ curr' \in Vcpus /\ OnTaskQ(curr')
<1>1. /\ status \in [Vcpus -> SUBSET StatusBits]
      /\ runq \in Seq(Vcpus)
      /\ extraq \in [Levels -> Seq(Vcpus)]
  BY DEF QInv, TypeOK
<1> DEFINE Effect(v) ==
       /\ at = "pick"
       /\ UNCHANGED <<external, softirq, cur, queues, deadl_abs, cputime,
                      score, blocked, cbs, params>>
       /\ \/ at' = "bug" /\ curr' = curr
          \/ at' = "guest" /\ curr' = v
<1>2. ASSUME NEW v, NEW st, NEW t, Run(v, st, t)
      PROVE  Effect(v) /\ status' = st
  BY <1>2 DEF Run
<1>3. CASE PickTasklet \/ PickIdle \/ PickExtraIdle
  <2>1. Effect(IDLE) /\ status' = status
    BY <1>2, <1>3 DEF PickTasklet, PickIdle, PickExtraIdle
  <2> QED
    BY <2>1
<1>4. CASE PickRunq
  <2>1. Effect(runq[1]) /\ status' = status
    BY <1>2, <1>4 DEF PickRunq
  <2>2. runq[1] \in Vcpus /\ OnTaskQ(runq[1])
    BY <1>1, <1>4, HeadElement DEF PickRunq, OnTaskQ
  <2> QED
    BY <2>1, <2>2
<1>5. CASE PickExtra
  <2>1. ASSUME NEW i \in Levels, extraq[i] # << >>,
               NEW f \in {EXTRA_RUN_PEN, EXTRA_RUN_UTIL},
               Run(extraq[i][1], [status EXCEPT ![extraq[i][1]] = @ \cup {f}], EXTRA_QUANTUM)
        PROVE  /\ Effect(extraq[i][1])
               /\ extraq[i][1] \in Vcpus /\ OnTaskQ(extraq[i][1])
               /\ \A w \in Vcpus : /\ status[w] \subseteq status'[w]
                                   /\ status'[w] \subseteq status[w] \cup {f}
    <3> DEFINE v == extraq[i][1]
    <3>1. Effect(v) /\ status' = [status EXCEPT ![v] = @ \cup {f}]
      BY <1>2, <2>1
    <3>2. v \in Vcpus /\ OnQ(extraq[i], v)
      BY <1>1, <2>1, HeadElement
    <3>3. OnTaskQ(v)
      BY <3>2 DEF QInv, Placement, ExtraOnlyIfQueued
    <3> HIDE DEF v
    <3>4. \A w \in Vcpus : /\ status[w] \subseteq status'[w]
                           /\ status'[w] \subseteq status[w] \cup {f}
      BY <1>1, <3>1
    <3> QED
      BY <3>1, <3>2, <3>3, <3>4 DEF v
  <2>2. \/ /\ extraq[EXTRA_PEN_Q] # << >>
           /\ LET v == extraq[EXTRA_PEN_Q][1]
              IN  Run(v, [status EXCEPT ![v] = @ \cup {EXTRA_RUN_PEN}], EXTRA_QUANTUM)
        \/ /\ extraq[EXTRA_UTIL_Q] # << >>
           /\ LET v == extraq[EXTRA_UTIL_Q][1]
              IN  Run(v, [status EXCEPT ![v] = @ \cup {EXTRA_RUN_UTIL}], EXTRA_QUANTUM)
    BY <1>5 DEF PickExtra
  <2>3. \E v \in Vcpus, f \in {EXTRA_RUN_PEN, EXTRA_RUN_UTIL} :
           /\ Effect(v) /\ OnTaskQ(v)
           /\ \A w \in Vcpus : /\ status[w] \subseteq status'[w]
                               /\ status'[w] \subseteq status[w] \cup {f}
    BY <2>1, <2>2
  <2> QED
    BY <2>3
<1> QED
  BY <1>3, <1>4, <1>5

(* What the three ways of descheduling do: the vCPU on the CPU is marked   *)
(* asleep exactly when it was before, or is not runnable.                  *)
LEMMA DeschedMarks ==
    ASSUME QInv, NEW v \in Vcpus,
           desched_edf_keeps(v) \/ desched_edf_dom(v) \/ desched_extra_dom(v)
    PROVE  /\ curr = v /\ curr' = v /\ at = "desched" /\ at' = "waitq"
           /\ UNCHANGED <<runnable, pend, softirq>>
           /\ sedf_runnable(status', v) <=> sedf_runnable(status, v) /\ runnable[v]
           /\ \A w \in Vcpus \ {v} : status'[w] = status[w]
<1>1. \E st : Deschedule(v, st) /\ (SEDF_ASLEEP \in st <=> SEDF_ASLEEP \in DescheduledStatus(v))
  <2>1. CASE desched_edf_keeps(v)
    BY <2>1 DEF desched_edf_keeps
  <2>2. CASE desched_edf_dom(v)
    BY <2>2 DEF desched_edf_dom
  <2>3. CASE desched_extra_dom(v)
    <3>1. \A i : SEDF_ASLEEP \notin FlagsGone(i)
      BY DEF FlagsGone, SEDF_ASLEEP, EXTRA_RUN_PEN, EXTRA_RUN_UTIL, EXTRA_WANT_PEN_Q
    <3>2. Deschedule(v, DescheduledStatus(v) \ FlagsGone(extra_get_cur_q(v)))
      BY <2>3 DEF desched_extra_dom
    <3> QED
      BY <3>1, <3>2
  <2> QED
    BY <2>1, <2>2, <2>3
<1>2. PICK st : Deschedule(v, st) /\ (SEDF_ASLEEP \in st <=> SEDF_ASLEEP \in DescheduledStatus(v))
  BY <1>1
<1>3. /\ curr = v /\ at = "desched" /\ at' = "waitq"
      /\ status' = [status EXCEPT ![v] = st]
      /\ UNCHANGED <<external, cpu>>
  BY <1>2 DEF Deschedule
<1>4. status \in [Vcpus -> SUBSET StatusBits] /\ runnable \in [Vcpus -> BOOLEAN]
  BY DEF QInv, TypeOK
<1>5. status'[v] = st /\ \A w \in Vcpus \ {v} : status'[w] = status[w]
  BY <1>3, <1>4
<1>6. SEDF_ASLEEP \in st <=> SEDF_ASLEEP \in status[v] \/ ~runnable[v]
  BY <1>2, <1>4 DEF DescheduledStatus
<1> QED
  BY <1>3, <1>5, <1>6 DEF sedf_runnable, external, cpu

-----------------------------------------------------------------------------
(* The rest of the hypervisor keeps the sleep calls on their way.          *)
LEMMA EnvironmentCalls == QInv /\ CallInv /\ Environment => CallInv'
<1> SUFFICES ASSUME QInv, CallInv, Environment PROVE CallInv'
  OBVIOUS
<1>0. /\ runnable \in [Vcpus -> BOOLEAN]
      /\ pend \in [Vcpus -> SUBSET {"sleep", "wake"}]
  BY DEF QInv, TypeOK
<1>1. UNCHANGED <<curr, at, status>>
  BY DEF Environment, Tick, TimerFires, Yield, RaiseSchedule, Block, Pause,
         Resume, Drop, Deliver, cpu, control
<1>2. softirq => softirq'
  BY DEF Environment, Tick, TimerFires, Yield, RaiseSchedule, Block, Pause,
         Resume, Drop, Deliver, cpu, control
<1>3. CurrentAwake'
  BY <1>1, <1>2 DEF CallInv, CurrentAwake
<1>4. \A v : WillLook(v) => WillLook(v)'
  BY <1>1, <1>2 DEF WillLook
<1>5. CASE Tick \/ TimerFires \/ Yield
  <2>1. UNCHANGED <<runnable, pend>>
    BY <1>5 DEF Tick, TimerFires, Yield
  <2> QED
    BY <1>1, <1>3, <1>4, <2>1 DEF CallInv, SleepOnItsWay
<1>6. ASSUME NEW v \in Vcpus, Block(v) PROVE SleepOnItsWay'
  <2>1. WillLook(v)'
    BY <1>1, <1>6 DEF Block, RaiseSchedule, WillLook
  <2>2. /\ \A w \in Vcpus \ {v} : runnable'[w] = runnable[w]
        /\ pend' = pend
    BY <1>0, <1>6 DEF Block
  <2> QED
    BY <1>1, <1>4, <2>1, <2>2 DEF CallInv, SleepOnItsWay
<1>7. ASSUME NEW v \in Vcpus, Pause(v) PROVE SleepOnItsWay'
  <2>1. /\ \A w \in Vcpus \ {v} : runnable'[w] = runnable[w] /\ pend'[w] = pend[w]
        /\ "sleep" \in pend'[v]
    BY <1>0, <1>7 DEF Pause
  <2> QED
    BY <1>1, <1>4, <2>1 DEF CallInv, SleepOnItsWay
<1>8. ASSUME NEW v \in Vcpus, Resume(v) PROVE SleepOnItsWay'
  <2>1. /\ \A w \in Vcpus \ {v} : runnable'[w] = runnable[w] /\ pend'[w] = pend[w]
        /\ runnable'[v]
    BY <1>0, <1>8 DEF Resume
  <2> QED
    BY <1>1, <1>4, <2>1 DEF CallInv, SleepOnItsWay
<1>9. ASSUME NEW v \in Vcpus, Drop(v, "sleep") \/ Drop(v, "wake") PROVE SleepOnItsWay'
  <2>1. /\ runnable' = runnable
        /\ \A w \in Vcpus \ {v} : pend'[w] = pend[w]
        /\ ~runnable[v] /\ "sleep" \in pend[v] => "sleep" \in pend'[v]
    BY <1>0, <1>9 DEF Drop, Deliver
  <2> QED
    BY <1>1, <1>4, <2>1 DEF CallInv, SleepOnItsWay
<1>10. SleepOnItsWay'
  BY <1>5, <1>6, <1>7, <1>8, <1>9 DEF Environment, CallInv
<1> QED
  BY <1>3, <1>10 DEF CallInv

(* What the handlers do to the books of a vCPU. *)
LEMMA HandlerMarks ==
    ASSUME QInv, NEW v \in Vcpus
    PROVE  /\ sedf_sleep(v) \/ sedf_wake_queued(v) \/ sedf_wake(v)
                 => /\ UNCHANGED <<runnable, curr, at>>
                    /\ softirq => softirq'
                    /\ at \in {"guest", "called"}
                    /\ \A w \in Vcpus \ {v} : status'[w] = status[w] /\ pend'[w] = pend[w]
           /\ sedf_sleep(v) => /\ ~runnable[v]
                               /\ ~sedf_runnable(status', v)
                               /\ curr = v => softirq'
           /\ sedf_wake_queued(v) => /\ runnable[v] /\ OnTaskQ(v)
                                     /\ status'[v] = status[v]
           /\ sedf_wake(v) => /\ runnable[v] /\ ~OnTaskQ(v)
                              /\ sedf_runnable(status', v)
<1>0. /\ status \in [Vcpus -> SUBSET StatusBits]
      /\ pend \in [Vcpus -> SUBSET {"sleep", "wake"}]
      /\ softirq \in BOOLEAN
  BY DEF QInv, TypeOK
<1>1. CASE sedf_sleep(v)
  <2>1. /\ UNCHANGED <<runnable, curr, at>>
        /\ ~runnable[v]
        /\ at \in {"guest", "called"}
        /\ pend' = [pend EXCEPT ![v] = @ \ {"sleep"}]
        /\ status' = [status EXCEPT ![v] = @ \cup {SEDF_ASLEEP}]
        /\ curr = v => softirq' = TRUE
        /\ curr # v => softirq' = softirq
    BY <1>1 DEF sedf_sleep, Deliver, LockFree, IsCurrent, control
  <2>2. SEDF_ASLEEP \in status'[v]
    BY <1>0, <2>1
  <2>3. ~sedf_wake_queued(v) /\ ~sedf_wake(v)
    BY <2>1 DEF sedf_wake_queued, sedf_wake
  <2> QED
    BY <1>0, <1>1, <2>1, <2>2, <2>3 DEF sedf_runnable
<1>2. CASE sedf_wake_queued(v)
  <2>1. /\ UNCHANGED <<runnable, curr, at, softirq, status>>
        /\ runnable[v] /\ OnTaskQ(v)
        /\ at \in {"guest", "called"}
        /\ pend' = [pend EXCEPT ![v] = @ \ {"wake"}]
    BY <1>2 DEF sedf_wake_queued, Deliver, LockFree, control, cpu
  <2>2. ~sedf_sleep(v) /\ ~sedf_wake(v)
    BY <2>1 DEF sedf_sleep, sedf_wake
  <2> QED
    BY <1>0, <1>2, <2>1, <2>2
<1>3. CASE sedf_wake(v)
  <2>1. /\ UNCHANGED <<runnable, curr, at>>
        /\ runnable[v] /\ ~OnTaskQ(v)
        /\ at \in {"guest", "called"}
        /\ pend' = [pend EXCEPT ![v] = @ \ {"wake"}]
    BY <1>3 DEF sedf_wake, Deliver, LockFree, control
  <2>2. \E repaid : status' = [status EXCEPT ![v] = WokenStatus(v, repaid)]
    BY <1>3 DEF sedf_wake
  <2>3. \E x : softirq' = (softirq \/ x)
    BY <1>3 DEF sedf_wake
  <2>4. softirq => softirq'
    BY <2>3, Zenon
  <2>5. \A repaid : SEDF_ASLEEP \notin WokenStatus(v, repaid)
    BY DEF WokenStatus, SEDF_ASLEEP, EXTRA_WANT_PEN_Q
  <2>6. SEDF_ASLEEP \notin status'[v] /\ \A w \in Vcpus \ {v} : status'[w] = status[w]
    BY <1>0, <2>2, <2>5
  <2>7. ~sedf_sleep(v) /\ ~sedf_wake_queued(v)
    BY <2>1 DEF sedf_sleep, sedf_wake_queued
  <2> QED
    BY <1>0, <1>3, <2>1, <2>4, <2>6, <2>7 DEF sedf_runnable
<1> QED
  BY <1>1, <1>2, <1>3

(* So do the handlers. *)
LEMMA HandlersCalls == QInv /\ CallInv /\ Handlers => CallInv'
<1> SUFFICES ASSUME QInv, CallInv, NEW v \in Vcpus,
                    sedf_sleep(v) \/ sedf_wake_queued(v) \/ sedf_wake(v)
             PROVE  CallInv'
  BY DEF Handlers
<1>1. /\ UNCHANGED <<runnable, curr, at>>
      /\ softirq => softirq'
      /\ \A w \in Vcpus \ {v} : status'[w] = status[w] /\ pend'[w] = pend[w]
      /\ runnable[v] \/ (~sedf_runnable(status', v) /\ (curr = v => softirq'))
      /\ runnable[v] => (sedf_runnable(status, v) => sedf_runnable(status', v))
  BY HandlerMarks DEF sedf_runnable
<1>2. CurrentAwake'
  <2> SUFFICES ASSUME at' = "guest", ~softirq', curr' # IDLE
               PROVE  sedf_runnable(status', curr')
    BY DEF CurrentAwake
  <2>1. curr \in Vcpus /\ sedf_runnable(status, curr)
    BY <1>1 DEF CallInv, CurrentAwake, QInv, TypeOK
  <2> QED
    BY <1>1, <2>1 DEF sedf_runnable
<1>3. \A w : WillLook(w) => WillLook(w)'
  BY <1>1 DEF WillLook
<1>4. SleepOnItsWay'
  <2>1. ASSUME NEW w \in Vcpus, sedf_runnable(status, w)', ~runnable'[w]
        PROVE  "sleep" \in pend'[w] \/ WillLook(w)'
    <3>1. w # v /\ sedf_runnable(status, w) /\ ~runnable[w]
      BY <1>1, <2>1 DEF sedf_runnable
    <3> QED
      BY <1>1, <1>3, <3>1 DEF CallInv, SleepOnItsWay
  <2> QED
    BY <2>1 DEF SleepOnItsWay
<1> QED
  BY <1>2, <1>4 DEF CallInv

(* The loops of update_queues touch none of this. *)
LEMMA LoopsMark ==
    ASSUME NEW v,
           \/ PromoteWaiting \/ WaitqDone \/ RunqDone
           \/ SkipEmptySlice(v) \/ ForgiveMiss(v) \/ StopAtRunnable(v)
    PROVE  /\ UNCHANGED <<runnable, pend, curr, softirq, status>>
           /\ at \in {"waitq", "runq"}
           /\ at' \in {"waitq", "runq", "pick"}
  BY DEF PromoteWaiting, WaitqDone, RunqDone, SkipEmptySlice, ForgiveMiss,
         StopAtRunnable, VisitRunq, external, cpu, control

(* do_schedule looks at vcpu_runnable before it lets anybody run again.    *)
LEMMA ScheduleCalls == QInv /\ CallInv /\ DoSchedule => CallInv'
<1> SUFFICES ASSUME QInv, CallInv, DoSchedule PROVE CallInv'
  OBVIOUS
<1>0. IDLE \notin Vcpus
  BY ConstantsAssumption
<1>1. CASE ScheduleCalled
  <2>1. UNCHANGED <<runnable, pend, curr, status>> /\ at = "guest" /\ at' = "called"
    BY <1>1 DEF ScheduleCalled, external
  <2>2. \A v : WillLook(v) => WillLook(v)'
    BY <2>1 DEF WillLook
  <2> QED
    BY <2>1, <2>2 DEF CallInv, CurrentAwake, SleepOnItsWay
<1>2. CASE ChargeBudget
  <2>1. /\ UNCHANGED <<runnable, pend, curr, status>>
        /\ at = "called" /\ at' = AfterCharge
    BY <1>2 DEF ChargeBudget, external, cpu
  <2>2. \A v \in Vcpus : WillLook(v) => WillLook(v)'
    BY <1>0, <2>1 DEF WillLook, AfterCharge
  <2>3. at' # "guest"
    BY <2>1 DEF AfterCharge
  <2> QED
    BY <2>1, <2>2, <2>3 DEF CallInv, CurrentAwake, SleepOnItsWay
<1>3. ASSUME NEW v \in Vcpus,
             desched_edf_keeps(v) \/ desched_edf_dom(v) \/ desched_extra_dom(v)
      PROVE  CallInv'
  <2>1. /\ curr = v /\ at = "desched" /\ at' = "waitq"
        /\ UNCHANGED <<runnable, pend, curr>>
        /\ sedf_runnable(status', v) => runnable[v]
        /\ \A w \in Vcpus \ {v} : status'[w] = status[w]
    BY <1>3, DeschedMarks
  <2>2. \A w \in Vcpus \ {v} : ~WillLook(w)
    BY <2>1 DEF WillLook
  <2> QED
    BY <2>1, <2>2 DEF CallInv, CurrentAwake, SleepOnItsWay, sedf_runnable
<1>4. ASSUME NEW v \in Vcpus, desched_extra_faults(v) PROVE CallInv'
  <2>1. UNCHANGED <<runnable, pend, curr, status>> /\ at = "desched" /\ at' = "fault"
    BY <1>4 DEF desched_extra_faults, external, cpu
  <2>2. \A w : WillLook(w) => WillLook(w)'
    BY <2>1 DEF WillLook
  <2> QED
    BY <2>1, <2>2 DEF CallInv, CurrentAwake, SleepOnItsWay
<1>5. ASSUME UNCHANGED <<runnable, pend, curr, status>>,
             at \in {"waitq", "runq"}, at' \in {"waitq", "runq", "pick"}
      PROVE  CallInv'
  <2>1. \A w : ~WillLook(w)
    BY <1>5 DEF WillLook
  <2> QED
    BY <1>5, <2>1 DEF CallInv, CurrentAwake, SleepOnItsWay
<1>6. CASE PickTasklet \/ PickIdle \/ PickRunq \/ PickExtra \/ PickExtraIdle
  <2>1. /\ at = "pick" /\ UNCHANGED <<runnable, pend>>
        /\ \A w \in Vcpus : sedf_runnable(status', w) <=> sedf_runnable(status, w)
        /\ \/ at' = "bug" /\ curr' = curr
           \/ at' = "guest" /\ curr' = IDLE
           \/ at' = "guest" /\ curr' \in Vcpus /\ OnTaskQ(curr')
    BY <1>6, PickEffect
       DEF external, sedf_runnable, StatusBits, SEDF_ASLEEP, EXTRA_RUN_PEN, EXTRA_RUN_UTIL
  <2>2. \A w : ~WillLook(w)
    BY <2>1 DEF WillLook
  <2>3. \A w \in Vcpus : OnTaskQ(w) => sedf_runnable(status, w)
    BY <2>1 DEF QInv, Placement, AwakeIffQueued, Descheduling
  <2>4. CurrentAwake'
    BY <2>1, <2>3 DEF CurrentAwake
  <2>5. SleepOnItsWay'
    BY <2>1, <2>2 DEF CallInv, SleepOnItsWay
  <2> QED
    BY <2>4, <2>5 DEF CallInv
<1>7. ASSUME NEW v,
             \/ PromoteWaiting \/ WaitqDone \/ RunqDone
             \/ SkipEmptySlice(v) \/ ForgiveMiss(v) \/ StopAtRunnable(v)
      PROVE  CallInv'
  BY <1>5, <1>7, LoopsMark
<1> QED
  BY <1>1, <1>2, <1>3, <1>4, <1>6, <1>7 DEF DoSchedule

(* Every step keeps the sleep calls on their way.                          *)
LEMMA StepCalls == QInv /\ CallInv /\ [Next]_vars => CallInv'
<1>1. QInv /\ CallInv /\ UNCHANGED vars => CallInv'
  BY DEF CallInv, SleepOnItsWay, CurrentAwake, WillLook, vars
<1> QED
  BY <1>1, EnvironmentCalls, HandlersCalls, ScheduleCalls DEF Next

(* Nobody runs on, whatever the number of vCPUs and however late the calls *)
(* and the timer are: see StopsRunning.                                    *)
THEOREM NobodyRunsOn == Spec => []StopsRunning
<1>1. Init => CallInv
  BY InitCalls
<1>2. QInv /\ CallInv /\ [Next]_vars => CallInv'
  BY StepCalls
<1>3. QInv /\ CallInv => StopsRunning
  <2> SUFFICES ASSUME QInv, CallInv, at = "guest", ~softirq, curr # IDLE
               PROVE  runnable[curr] \/ pend[curr] # {}
    BY DEF StopsRunning
  <2>1. curr \in Vcpus /\ sedf_runnable(status, curr)
    BY DEF QInv, TypeOK, CallInv, CurrentAwake
  <2>2. ~WillLook(curr)
    BY DEF WillLook
  <2> QED
    BY <2>1, <2>2 DEF CallInv, SleepOnItsWay
<1> QED
  BY <1>1, <1>2, <1>3, QueuesWellPlaced, PTL DEF Spec

-----------------------------------------------------------------------------
(* Wakeups.  Of all steps only sedf_wake on a vCPU that is still queued    *)
(* drops a wake call that is not out of date, and what is queued is awake  *)
(* or on its way off the CPU.                                              *)
LEMMA StepLosesWakeup ==
    ASSUME QInv, [Next]_vars, NEW v \in Vcpus,
           ~WakeupLost(v), WakeupLost(v)'
    PROVE  Descheduling(v) /\ ~sedf_runnable(status, v)
<1>0. /\ runnable \in [Vcpus -> BOOLEAN]
      /\ pend \in [Vcpus -> SUBSET {"sleep", "wake"}]
  BY DEF QInv, TypeOK
(* What leaves the books of v alone loses nothing. *)
<1>1. ASSUME runnable'[v] => runnable[v],
             "wake" \in pend[v] => "wake" \in pend'[v],
             sedf_runnable(status, v) /\ runnable[v] => sedf_runnable(status', v)
      PROVE  FALSE
  BY <1>1 DEF WakeupLost, sedf_runnable
<1>2. CASE Environment
  <2>1. UNCHANGED status
    BY <1>2 DEF Environment, Tick, TimerFires, Yield, RaiseSchedule, Block, Pause,
           Resume, Drop, Deliver
  <2>2. CASE Tick \/ TimerFires \/ Yield
    BY <1>1, <2>1, <2>2 DEF Tick, TimerFires, Yield
  <2>3. ASSUME NEW w \in Vcpus, Block(w) \/ Pause(w) PROVE FALSE
    <3>1. (runnable'[v] => runnable[v]) /\ ("wake" \in pend[v] => "wake" \in pend'[v])
      BY <1>0, <2>3 DEF Block, Pause
    <3> QED
      BY <1>1, <2>1, <3>1
  <2>4. ASSUME NEW w \in Vcpus, Resume(w) PROVE FALSE
    <3>1. CASE w = v
      <4>1. "wake" \in pend'[v]
        BY <1>0, <2>4, <3>1 DEF Resume
      <4> QED
        BY <4>1 DEF WakeupLost
    <3>2. CASE w # v
      <4>1. runnable'[v] = runnable[v] /\ pend'[v] = pend[v]
        BY <1>0, <2>4, <3>2 DEF Resume
      <4> QED
        BY <1>1, <2>1, <4>1
    <3> QED
      BY <3>1, <3>2
  <2>5. ASSUME NEW w \in Vcpus, Drop(w, "sleep") \/ Drop(w, "wake") PROVE FALSE
    <3>1. runnable' = runnable
          /\ (runnable[v] /\ "wake" \in pend[v] => "wake" \in pend'[v])
      BY <1>0, <2>5 DEF Drop, Deliver
    <3> QED
      BY <2>1, <3>1 DEF WakeupLost, sedf_runnable
  <2> QED
    BY <1>2, <2>2, <2>3, <2>4, <2>5 DEF Environment
<1>3. ASSUME NEW w \in Vcpus,
             sedf_sleep(w) \/ sedf_wake_queued(w) \/ sedf_wake(w)
      PROVE  Descheduling(v) /\ ~sedf_runnable(status, v)
  <2>1. CASE w # v
    <3>1. runnable' = runnable /\ status'[v] = status[v] /\ pend'[v] = pend[v]
      BY <1>3, <2>1, HandlerMarks
    <3> QED
      BY <1>1, <3>1 DEF sedf_runnable
  <2>2. CASE w = v
    <3>1. runnable'[v] = runnable[v] /\ runnable'[v] /\ ~sedf_runnable(status', v)
      BY <1>3, HandlerMarks DEF WakeupLost, sedf_runnable
    <3>2. sedf_wake_queued(v)
      BY <1>3, <2>2, <3>1, HandlerMarks
    <3>3. OnTaskQ(v) /\ status'[v] = status[v]
      BY <3>2, HandlerMarks
    <3>4. sedf_runnable(status, v) \/ Descheduling(v)
      BY <3>3 DEF QInv, Placement, AwakeIffQueued
    <3> QED
      BY <3>1, <3>3, <3>4 DEF sedf_runnable
  <2> QED
    BY <2>1, <2>2
<1>4. ASSUME UNCHANGED <<runnable, pend, status>> PROVE FALSE
  BY <1>1, <1>4
<1>5. ASSUME NEW w \in Vcpus,
             desched_edf_keeps(w) \/ desched_edf_dom(w) \/ desched_extra_dom(w)
      PROVE  FALSE
  <2>1. /\ UNCHANGED <<runnable, pend>>
        /\ sedf_runnable(status', w) <=> sedf_runnable(status, w) /\ runnable[w]
        /\ w # v => status'[v] = status[v]
    BY <1>5, DeschedMarks
  <2> QED
    BY <1>1, <2>1 DEF sedf_runnable
<1>6. CASE ScheduleCalled \/ ChargeBudget \/ \E w \in Vcpus : desched_extra_faults(w)
  BY <1>4, <1>6 DEF ScheduleCalled, ChargeBudget, desched_extra_faults, external
<1>7. ASSUME NEW w,
             \/ PromoteWaiting \/ WaitqDone \/ RunqDone
             \/ SkipEmptySlice(w) \/ ForgiveMiss(w) \/ StopAtRunnable(w)
      PROVE  FALSE
  BY <1>4, <1>7, LoopsMark
<1>8. CASE PickTasklet \/ PickIdle \/ PickRunq \/ PickExtra \/ PickExtraIdle
  <2>1. /\ UNCHANGED <<runnable, pend>>
        /\ sedf_runnable(status', v) <=> sedf_runnable(status, v)
    BY <1>8, PickEffect
       DEF external, sedf_runnable, StatusBits, SEDF_ASLEEP, EXTRA_RUN_PEN, EXTRA_RUN_UTIL
  <2> QED
    BY <1>1, <2>1
<1>9. CASE UNCHANGED vars
  BY <1>4, <1>9 DEF vars
<1> QED
  BY <1>2, <1>3, <1>5, <1>6, <1>7, <1>8, <1>9 DEF Next, Handlers, DoSchedule

(* A wakeup is lost by one race only, whatever the parameters: see         *)
(* WakeLostOnlyInRace.                                                     *)
THEOREM WakeupsLostInRace == Spec => WakeLostOnlyInRace
<1>1. QInv /\ [Next]_vars
        => [\A v \in Vcpus :
               ~WakeupLost(v) /\ WakeupLost(v)'
                 => Descheduling(v) /\ ~sedf_runnable(status, v)]_vars
  BY StepLosesWakeup
<1> QED
  BY <1>1, QueuesWellPlaced, PTL DEF Spec, WakeLostOnlyInRace

-----------------------------------------------------------------------------
(* Who is on the extra-time queues: an awake vCPU that is aware of extra   *)
(* time is never missing from the utilisation queue, and the penalty queue *)
(* holds nobody who has not asked for it, whatever sequence of sleeping,   *)
(* waking, running in extra time and descheduling has come before.         *)
ExtraInv == AwareIffOnUtilQ /\ PenQWanted

(* A step that leaves the extra-time queues alone, and of the bits they    *)
(* depend on at most puts a vCPU to sleep or lets it run.                  *)
LEMMA QueuesKept ==
    ASSUME ExtraInv, extraq' = extraq,
           \A w \in Vcpus :
              /\ EXTRA_AWARE \in status'[w] <=> EXTRA_AWARE \in status[w]
              /\ EXTRA_WANT_PEN_Q \in status'[w] <=> EXTRA_WANT_PEN_Q \in status[w]
              /\ EXTRA_RUN_UTIL \in status[w] => EXTRA_RUN_UTIL \in status'[w]
              /\ sedf_runnable(status', w) => sedf_runnable(status, w)
    PROVE  ExtraInv'
<1>1. AwareIffOnUtilQ'
  BY DEF ExtraInv, AwareIffOnUtilQ, sedf_runnable
<1>2. PenQWanted'
  BY DEF ExtraInv, PenQWanted
<1> QED
  BY <1>1, <1>2 DEF ExtraInv

(* A step that takes a sleeping vCPU off both queues. *)
LEMMA QueuesLeft ==
    ASSUME QInv, ExtraInv, NEW v \in Vcpus, extraq' = OffExtraQueues(v),
           ~sedf_runnable(status', v),
           \A w \in Vcpus \ {v} : status'[w] = status[w]
    PROVE  ExtraInv'
<1>1. \A i \in Levels : /\ ~OnQ(extraq'[i], v)
                        /\ \A w : w # v => (OnQ(extraq'[i], w) <=> OnQ(extraq[i], w))
  BY OffExtraQueuesProperties
<1>2. AwareIffOnUtilQ'
  <2> SUFFICES ASSUME NEW w \in Vcpus
               PROVE  /\ EXTRA_AWARE \in status'[w] /\ sedf_runnable(status', w)
                            => OnQ(extraq'[EXTRA_UTIL_Q], w)
                      /\ OnQ(extraq'[EXTRA_UTIL_Q], w)
                            => EXTRA_AWARE \in status'[w] \/ EXTRA_RUN_UTIL \in status'[w]
    BY DEF AwareIffOnUtilQ, sedf_runnable
  <2>1. CASE w = v
    BY <1>1, <2>1
  <2>2. CASE w # v
    BY <1>1, <2>2 DEF ExtraInv, AwareIffOnUtilQ, sedf_runnable
  <2> QED
    BY <2>1, <2>2
<1>3. PenQWanted'
  <2>1. ASSUME NEW w \in Vcpus, OnQ(extraq'[EXTRA_PEN_Q], w)
        PROVE  EXTRA_WANT_PEN_Q \in status'[w]
    <3>1. w # v
      BY <1>1, <2>1
    <3> QED
      BY <1>1, <2>1, <3>1 DEF ExtraInv, PenQWanted
  <2> QED
    BY <2>1 DEF PenQWanted
<1> QED
  BY <1>2, <1>3 DEF ExtraInv

(* A step that puts v where it belongs and leaves the others. *)
LEMMA QueuesFor ==
    ASSUME ExtraInv, NEW v \in Vcpus,
           \A w \in Vcpus \ {v} :
              /\ status'[w] = status[w]
              /\ \A i \in Levels : OnQ(extraq'[i], w) <=> OnQ(extraq[i], w),
           EXTRA_AWARE \in status'[v] /\ sedf_runnable(status', v)
              => OnQ(extraq'[EXTRA_UTIL_Q], v),
           OnQ(extraq'[EXTRA_UTIL_Q], v)
              => EXTRA_AWARE \in status'[v] \/ EXTRA_RUN_UTIL \in status'[v],
           OnQ(extraq'[EXTRA_PEN_Q], v) => EXTRA_WANT_PEN_Q \in status'[v]
    PROVE  ExtraInv'
<1>1. ASSUME NEW w \in Vcpus
      PROVE  /\ EXTRA_AWARE \in status'[w] /\ sedf_runnable(status', w)
                   => OnQ(extraq'[EXTRA_UTIL_Q], w)
             /\ OnQ(extraq'[EXTRA_UTIL_Q], w)
                   => EXTRA_AWARE \in status'[w] \/ EXTRA_RUN_UTIL \in status'[w]
             /\ OnQ(extraq'[EXTRA_PEN_Q], w) => EXTRA_WANT_PEN_Q \in status'[w]
  <2>1. CASE w = v
    BY <2>1
  <2>2. CASE w # v
    BY <2>2 DEF ExtraInv, AwareIffOnUtilQ, PenQWanted, sedf_runnable
  <2> QED
    BY <2>1, <2>2
<1> QED
  BY <1>1 DEF ExtraInv, AwareIffOnUtilQ, PenQWanted, sedf_runnable

-----------------------------------------------------------------------------
(* sedf_wake: onto the utilisation queue by the aware bit, onto the        *)
(* penalty queue with the bit that asks for it.                            *)
LEMMA WakeExtra ==
    ASSUME QInv, ExtraInv, NEW v \in Vcpus, sedf_wake(v)
    PROVE  ExtraInv'
<1> DEFINE deadline == IF RenewsDeadline(v) THEN now + CBS_PERIOD ELSE deadl_abs[v]
           early    == now < deadline - period[v]
           short    == ~early /\ now < deadline
           lost     == IF slice[v] > cputime[v] THEN slice[v] - cputime[v] ELSE 0
           repaid   == short /\ blocked[v] /\ lost # 0
           penq     == DelFromQ(extraq[EXTRA_PEN_Q], v)
           pensc    == IF repaid
                       THEN [score[EXTRA_PEN_Q] EXCEPT ![v] = PenaltyScore(v, lost)]
                       ELSE score[EXTRA_PEN_Q]
           wantsPen == repaid \/ (early /\ EXTRA_WANT_PEN_Q \in status[v])
           aware    == EXTRA_AWARE \in status[v]
           pen1     == IF wantsPen THEN ListInsertSort(penq, v, pensc)
                       ELSE extraq[EXTRA_PEN_Q]
           util1    == IF aware
                       THEN ListInsertSort(extraq[EXTRA_UTIL_Q], v, score[EXTRA_UTIL_Q])
                       ELSE extraq[EXTRA_UTIL_Q]
<1>1. /\ LockFree /\ ~OnTaskQ(v)
      /\ status' = [status EXCEPT ![v] = WokenStatus(v, repaid)]
      /\ extraq' = [extraq EXCEPT ![EXTRA_PEN_Q] = pen1, ![EXTRA_UTIL_Q] = util1]
  BY DEF sedf_wake, Deliver, extraq_check_add_unblocked
<1> HIDE DEF early, repaid, pensc
<1>2. /\ extraq \in [Levels -> Seq(Vcpus)] /\ status \in [Vcpus -> SUBSET StatusBits]
      /\ \A i \in Levels : ~OnQ(extraq[i], v)
  BY <1>1, OffQueues DEF QInv, TypeOK
<1>3. extraq'[EXTRA_PEN_Q] = pen1 /\ extraq'[EXTRA_UTIL_Q] = util1
  BY <1>1, <1>2
<1>4. penq \in Seq(Vcpus) /\ \A w : w # v => (OnQ(penq, w) <=> OnQ(extraq[EXTRA_PEN_Q], w))
  BY <1>2, DelFromQProperties
<1> HIDE DEF penq
<1>5. \A w : OnQ(pen1, w) <=> IF w = v THEN wantsPen ELSE OnQ(extraq[EXTRA_PEN_Q], w)
  <2>1. CASE wantsPen
    <3>1. \A w : OnQ(ListInsertSort(penq, v, pensc), w) <=> w = v \/ OnQ(penq, w)
      BY <1>4, InsertProperties
    <3> QED
      BY <1>4, <2>1, <3>1
  <2>2. CASE ~wantsPen
    BY <1>2, <2>2
  <2> QED
    BY <2>1, <2>2
<1>6. \A w : OnQ(util1, w) <=> IF w = v THEN aware ELSE OnQ(extraq[EXTRA_UTIL_Q], w)
  <2> DEFINE q == extraq[EXTRA_UTIL_Q]
             sc == score[EXTRA_UTIL_Q]
  <2>1. q \in Seq(Vcpus) /\ ~OnQ(q, v)
    BY <1>2
  <2> HIDE DEF q, sc
  <2>2. \A w : OnQ(ListInsertSort(q, v, sc), w) <=> w = v \/ OnQ(q, w)
    BY <2>1, InsertProperties
  <2> QED
    BY <2>1, <2>2 DEF q, sc
<1>7. /\ \A w \in Vcpus \ {v} : status'[w] = status[w]
      /\ EXTRA_AWARE \in status'[v] <=> aware
      /\ wantsPen => EXTRA_WANT_PEN_Q \in status'[v]
  <2>1. /\ status'[v] = WokenStatus(v, repaid)
        /\ \A w \in Vcpus \ {v} : status'[w] = status[w]
    BY <1>1, <1>2
  <2>2. /\ EXTRA_AWARE \in WokenStatus(v, repaid) <=> aware
        /\ repaid \/ EXTRA_WANT_PEN_Q \in status[v]
              => EXTRA_WANT_PEN_Q \in WokenStatus(v, repaid)
    BY <1>2 DEF WokenStatus, EXTRA_AWARE, EXTRA_WANT_PEN_Q, SEDF_ASLEEP
  <2> QED
    BY <2>1, <2>2
<1> HIDE DEF wantsPen, aware, pen1, util1
<1> QED
  BY <1>3, <1>5, <1>6, <1>7, QueuesFor

(* desched_extra_dom: off its queue, and by the aware bit on it again.     *)
LEMMA DeschedExtra ==
    ASSUME QInv, ExtraInv, NEW v \in Vcpus, desched_extra_dom(v)
    PROVE  ExtraInv'
<1> DEFINE i    == extra_get_cur_q(v)
           rest == DelFromQ(extraq[i], v)
           sc   == IF i = EXTRA_UTIL_Q
                   THEN [score[i] EXCEPT ![v] = UtilScore(v)] ELSE score[i]
           again == i = EXTRA_UTIL_Q /\ EXTRA_AWARE \in status[v]
           new  == IF again THEN ExtraqAddSort(rest, v, sc, score[i][v]) ELSE rest
           st   == DescheduledStatus(v) \ FlagsGone(i)
<1>1. /\ extra_runs(v)
      /\ Deschedule(v, st)
      /\ SEDF_ASLEEP \in DescheduledStatus(v) => extraq' = OffExtraQueues(v)
      /\ SEDF_ASLEEP \notin DescheduledStatus(v) => extraq' = [extraq EXCEPT ![i] = new]
  BY DEF desched_extra_dom
<1>2. /\ DescheduledStatus(v) \in SUBSET StatusBits
      /\ \A b : b # SEDF_ASLEEP => (b \in DescheduledStatus(v) <=> b \in status[v])
  BY DescheduledStatusType
<1>3. st \in SUBSET StatusBits
  BY <1>2
<1>4. /\ status'[v] = st
      /\ \A w \in Vcpus \ {v} : status'[w] = status[w]
  <2> HIDE DEF st
  <2> QED
    BY <1>1, <1>3, DescheduleEffect
<1>5. /\ SEDF_ASLEEP \in st <=> SEDF_ASLEEP \in DescheduledStatus(v)
      /\ EXTRA_AWARE \in st <=> EXTRA_AWARE \in status[v]
      /\ i = EXTRA_UTIL_Q => (EXTRA_WANT_PEN_Q \in st <=> EXTRA_WANT_PEN_Q \in status[v])
  BY <1>2 DEF FlagsGone, EXTRA_AWARE, EXTRA_WANT_PEN_Q, SEDF_ASLEEP,
              EXTRA_RUN_PEN, EXTRA_RUN_UTIL
<1>6. /\ i \in Levels
      /\ i = EXTRA_PEN_Q => EXTRA_RUN_UTIL \notin status[v]
      /\ extraq \in [Levels -> Seq(Vcpus)] /\ NoDuplicates(extraq[i])
  BY <1>1 DEF extra_get_cur_q, QInv, TypeOK, Placement, QueuesDisjoint, ExtraRunWellPlaced
<1> HIDE DEF i, st
<1>7. CASE SEDF_ASLEEP \in DescheduledStatus(v)
  <2>1. ~sedf_runnable(status', v)
    BY <1>4, <1>5, <1>7 DEF sedf_runnable
  <2> QED
    BY <1>1, <1>4, <1>7, <2>1, QueuesLeft
<1>8. CASE SEDF_ASLEEP \notin DescheduledStatus(v)
  <2>1. /\ rest \in Seq(Vcpus) /\ ~OnQ(rest, v)
        /\ \A w : w # v => (OnQ(rest, w) <=> OnQ(extraq[i], w))
    BY <1>6, DelFromQProperties
  <2> HIDE DEF rest, sc
  <2>2. \A w : OnQ(new, w) <=> IF w = v THEN again ELSE OnQ(extraq[i], w)
    <3> DEFINE key == ChargeScores(rest, sc, score[i][v])
    <3>1. ExtraqAddSort(rest, v, sc, score[i][v]) = ListInsertSort(rest, v, key)
      BY DEF ExtraqAddSort
    <3> HIDE DEF key
    <3>2. \A w : OnQ(ListInsertSort(rest, v, key), w) <=> w = v \/ OnQ(rest, w)
      BY <2>1, InsertProperties
    <3> QED
      BY <2>1, <3>1, <3>2
  <2> HIDE DEF new
  <2>3. extraq'[i] = new /\ \A j \in Levels : j # i => extraq'[j] = extraq[j]
    BY <1>1, <1>6, <1>8
  <2>4. \A w \in Vcpus \ {v}, j \in Levels : OnQ(extraq'[j], w) <=> OnQ(extraq[j], w)
    BY <2>2, <2>3
  <2>5. CASE i = EXTRA_UTIL_Q
    <3>1. OnQ(extraq'[EXTRA_UTIL_Q], v) <=> EXTRA_AWARE \in status'[v]
      BY <1>4, <1>5, <2>2, <2>3, <2>5
    <3>2. OnQ(extraq'[EXTRA_PEN_Q], v) => EXTRA_WANT_PEN_Q \in status'[v]
      BY <1>4, <1>5, <2>3, <2>5 DEF ExtraInv, PenQWanted
    <3> QED
      BY <1>4, <2>4, <3>1, <3>2, QueuesFor
  <2>6. CASE i = EXTRA_PEN_Q
    <3>1. ~OnQ(extraq'[EXTRA_PEN_Q], v)
      BY <2>2, <2>3, <2>6
    <3>2. extraq'[EXTRA_UTIL_Q] = extraq[EXTRA_UTIL_Q]
      BY <2>3, <2>6
    <3>3. SEDF_ASLEEP \notin status[v]
      BY <1>8 DEF DescheduledStatus
    <3>4. EXTRA_AWARE \in status'[v] <=> OnQ(extraq'[EXTRA_UTIL_Q], v)
      BY <1>4, <1>5, <1>6, <2>6, <3>2, <3>3 DEF ExtraInv, AwareIffOnUtilQ, sedf_runnable
    <3> QED
      BY <1>4, <2>4, <3>1, <3>4, QueuesFor
  <2> QED
    BY <1>6, <2>5, <2>6
<1> QED
  BY <1>7, <1>8

-----------------------------------------------------------------------------
(* Every step keeps the extra-time queues right.                           *)
LEMMA StepExtra == QInv /\ ExtraInv /\ [Next]_vars => ExtraInv'
<1> SUFFICES ASSUME QInv, ExtraInv, [Next]_vars PROVE ExtraInv'
  OBVIOUS
<1>1. ASSUME UNCHANGED <<extraq, status>> PROVE ExtraInv'
  BY <1>1, QueuesKept
<1>2. CASE Environment
  BY <1>1, <1>2 DEF Environment, Tick, TimerFires, Yield, RaiseSchedule, Block,
     Pause, Resume, Drop, Deliver, queues
<1>3. ASSUME NEW v \in Vcpus, sedf_sleep(v) PROVE ExtraInv'
  <2>1. /\ ~sedf_runnable(status', v)
        /\ \A w \in Vcpus \ {v} : status'[w] = status[w]
    BY <1>3, HandlerMarks
  <2>2. CASE curr = v
    <3>1. extraq' = extraq /\ status' = [status EXCEPT ![v] = @ \cup {SEDF_ASLEEP}]
      BY <1>3, <2>2 DEF sedf_sleep, IsCurrent, queues
    <3>2. status'[v] = status[v] \cup {SEDF_ASLEEP}
      BY <3>1 DEF QInv, TypeOK
    <3> QED
      BY <2>1, <3>1, <3>2, QueuesKept
         DEF sedf_runnable, EXTRA_AWARE, EXTRA_WANT_PEN_Q, EXTRA_RUN_UTIL, SEDF_ASLEEP
  <2>3. CASE curr # v
    <3>1. extraq' = OffExtraQueues(v)
      BY <1>3, <2>3 DEF sedf_sleep, IsCurrent
    <3> QED
      BY <2>1, <3>1, QueuesLeft
  <2> QED
    BY <2>2, <2>3
<1>4. ASSUME NEW v \in Vcpus, sedf_wake_queued(v) PROVE ExtraInv'
  BY <1>1, <1>4 DEF sedf_wake_queued, queues
<1>5. ASSUME NEW v \in Vcpus, desched_edf_keeps(v) \/ desched_edf_dom(v)
      PROVE  ExtraInv'
  <2> DEFINE st == DescheduledStatus(v)
  <2>1. /\ Deschedule(v, st)
        /\ SEDF_ASLEEP \in st => extraq' = OffExtraQueues(v)
        /\ SEDF_ASLEEP \notin st => extraq' = extraq
    BY <1>5 DEF desched_edf_keeps, desched_edf_dom, queues
  <2>2. st \in SUBSET StatusBits /\ (SEDF_ASLEEP \notin st => st = status[v])
    BY DescheduledStatusType
  <2> HIDE DEF st
  <2>3. status'[v] = st /\ \A w \in Vcpus \ {v} : status'[w] = status[w]
    BY <2>1, <2>2, DescheduleEffect
  <2>4. CASE SEDF_ASLEEP \in st
    BY <2>1, <2>3, <2>4, QueuesLeft DEF sedf_runnable
  <2>5. CASE SEDF_ASLEEP \notin st
    BY <2>1, <2>2, <2>3, <2>5, QueuesKept DEF sedf_runnable
  <2> QED
    BY <2>4, <2>5
<1>6. CASE ScheduleCalled \/ ChargeBudget \/ WaitqDone \/ RunqDone \/ PromoteWaiting
           \/ \E v \in Vcpus : \/ desched_extra_faults(v) \/ SkipEmptySlice(v)
                               \/ ForgiveMiss(v) \/ StopAtRunnable(v)
  BY <1>1, <1>6 DEF ScheduleCalled, ChargeBudget, WaitqDone, RunqDone,
     PromoteWaiting, desched_extra_faults, SkipEmptySlice, ForgiveMiss,
     StopAtRunnable, VisitRunq, queues
<1>7. CASE PickTasklet \/ PickIdle \/ PickRunq \/ PickExtra \/ PickExtraIdle
  <2>1. /\ extraq' = extraq
        /\ \A w \in Vcpus :
              /\ EXTRA_AWARE \in status'[w] <=> EXTRA_AWARE \in status[w]
              /\ EXTRA_WANT_PEN_Q \in status'[w] <=> EXTRA_WANT_PEN_Q \in status[w]
              /\ EXTRA_RUN_UTIL \in status[w] => EXTRA_RUN_UTIL \in status'[w]
              /\ sedf_runnable(status', w) => sedf_runnable(status, w)
    BY <1>7, PickEffect DEF queues, StatusBits, sedf_runnable, EXTRA_AWARE,
       EXTRA_WANT_PEN_Q, EXTRA_RUN_UTIL, EXTRA_RUN_PEN, SEDF_ASLEEP
  <2> QED
    BY <2>1, QueuesKept
<1>8. CASE UNCHANGED vars
  BY <1>1, <1>8 DEF vars
<1> QED
  BY <1>2, <1>3, <1>4, <1>5, <1>6, <1>7, <1>8, WakeExtra, DeschedExtra
     DEF Next, Handlers, DoSchedule

(* Both parts together hold at all times.                                  *)
THEOREM ExtraQueuesCorrect == Spec => []ExtraInv
<1>1. Init => ExtraInv
  <2> SUFFICES ASSUME Init PROVE ExtraInv
    OBVIOUS
  <2>1. PICK p \in [Vcpus -> Params] : Init!(p)
    BY DEF Init
  <2>2. /\ \A i \in Levels : \A w : ~OnQ(extraq[i], w)
        /\ \A w \in Vcpus : ~sedf_runnable(status, w)
    BY <2>1 DEF OnQ, sedf_runnable, EXTRA_AWARE, SEDF_ASLEEP
  <2> QED
    BY <2>2 DEF ExtraInv, AwareIffOnUtilQ, PenQWanted
<1> QED
  BY <1>1, StepExtra, QueuesWellPlaced, PTL DEF Spec

(* The sanity check of sedf_wake holds at all times: see AwareIffOnUtilQ.  *)
THEOREM AwareNeverMissing == Spec => []AwareIffOnUtilQ
<1>1. ExtraInv => AwareIffOnUtilQ
  BY DEF ExtraInv
<1> QED
  BY <1>1, ExtraQueuesCorrect, PTL

(* Nobody is repaid who has lost nothing: see PenQWanted. *)
THEOREM PenaltyOnlyWanted == Spec => []PenQWanted
<1>1. ExtraInv => PenQWanted
  BY DEF ExtraInv
<1> QED
  BY <1>1, ExtraQueuesCorrect, PTL

-----------------------------------------------------------------------------
(* The order of the extra-time queues.  The vCPU that has run from the     *)
(* utilisation queue has its old score taken off the others, in ints: the  *)
(* order survives when none of the differences wraps around.               *)
ScoresFit ==
    \A v, w \in Vcpus :
        EXTRA_RUN_UTIL \in status[v] /\ OnQ(extraq[EXTRA_UTIL_Q], w) =>
            score[EXTRA_UTIL_Q][w] - score[EXTRA_UTIL_Q][v]
                \in -(INT_MAX + 1)..INT_MAX

(* Scores are integers.                                                    *)
LEMMA ScoresInt ==
    ASSUME NEW sc \in [Vcpus -> ScoreRange]
    PROVE  sc \in [Vcpus -> Int]
BY IntAssumption DEF ScoreRange

(* What fits into an int is not changed by the assignment to one.          *)
LEMMA CIntFits ==
    ASSUME NEW x \in -(INT_MAX + 1)..INT_MAX
    PROVE  CInt(x) = x
<1> DEFINE n == 2 * (INT_MAX + 1)
           y == x + INT_MAX + 1
<1>1. n \in Nat \ {0} /\ y \in 0..(n - 1) /\ x = y - INT_MAX - 1
  BY IntAssumption
<1>2. CInt(x) = (y % n) - INT_MAX - 1
  BY DEF CInt
<1> HIDE DEF n, y
<1>3. y % n = y
  BY <1>1
<1> QED
  BY <1>1, <1>2, <1>3

(* Charging everybody on a queue the same keeps its order.                 *)
LEMMA ChargedSorted ==
    ASSUME NEW q \in Seq(Vcpus), NEW sc \in [Vcpus -> ScoreRange],
           NEW sub \in ScoreRange, IsSortedBy(q, sc),
           \A w \in Vcpus : OnQ(q, w) => sc[w] - sub \in -(INT_MAX + 1)..INT_MAX
    PROVE  IsSortedBy(q, ChargeScores(q, sc, sub))
<1> DEFINE new == ChargeScores(q, sc, sub)
<1>1. ASSUME NEW k \in 1..Len(q) PROVE new[q[k]] = sc[q[k]] - sub
  <2>1. q[k] \in Vcpus /\ OnQ(q, q[k])
    BY <1>1 DEF OnQ
  <2>2. new[q[k]] = CInt(sc[q[k]] - sub)
    BY <2>1 DEF ChargeScores
  <2>3. CInt(sc[q[k]] - sub) = sc[q[k]] - sub
    BY <2>1, CIntFits
  <2> QED
    BY <2>2, <2>3
<1>2. ASSUME NEW k \in 1..Len(q), NEW m \in 1..Len(q), k < m
      PROVE  new[q[k]] <= new[q[m]]
  <2>1. sc[q[k]] <= sc[q[m]]
    BY <1>2 DEF IsSortedBy
  <2>2. sc[q[k]] \in Int /\ sc[q[m]] \in Int /\ sub \in Int
    BY IntAssumption, <1>2 DEF ScoreRange
  <2>3. sc[q[k]] - sub <= sc[q[m]] - sub
    BY <2>1, <2>2
  <2> QED
    BY <1>1, <1>2, <2>3
<1> HIDE DEF new
<1> QED
  BY <1>2 DEF IsSortedBy, new

(* Queues that stay, or lose somebody, stay in order.                      *)
LEMMA OrderStays ==
    ASSUME QInv, ExtraqSorted, score' = score,
           extraq' = extraq \/ \E v \in Vcpus : extraq' = OffExtraQueues(v)
    PROVE  ExtraqSorted'
<1>1. CASE extraq' = extraq
  BY <1>1 DEF ExtraqSorted
<1>2. ASSUME NEW v \in Vcpus, extraq' = OffExtraQueues(v)
      PROVE  ExtraqSorted'
  <2>1. ASSUME NEW i \in Levels PROVE IsSortedBy(extraq'[i], score[i])
    <3>1. extraq[i] \in Seq(Vcpus) /\ IsSortedBy(extraq[i], score[i])
      BY DEF QInv, TypeOK, ExtraqSorted
    <3>2. extraq'[i] = DelFromQ(extraq[i], v)
      BY <1>2 DEF OffExtraQueues
    <3> QED
      BY <3>1, <3>2, DelFromQSorted
  <2> QED
    BY <2>1 DEF ExtraqSorted
<1> QED
  BY <1>1, <1>2

(* sedf_wake puts a vCPU in by the score that it has, or has just got.     *)
LEMMA WakeSorted ==
    ASSUME QInv, QInv', ExtraqSorted, NEW v \in Vcpus, sedf_wake(v)
    PROVE  ExtraqSorted'
<1> DEFINE pen  == extraq[EXTRA_PEN_Q]
           util == extraq[EXTRA_UTIL_Q]
           old  == score[EXTRA_PEN_Q]
           new  == score'[EXTRA_PEN_Q]
           sc   == score[EXTRA_UTIL_Q]
<1>1. /\ LockFree /\ ~OnTaskQ(v)
      /\ \E pensc :
           /\ score' = [score EXCEPT ![EXTRA_PEN_Q] = pensc]
           /\ pensc = old \/ \E s : pensc = [old EXCEPT ![v] = s]
           /\ \E a, b \in BOOLEAN :
                extraq' = [extraq EXCEPT
                   ![EXTRA_PEN_Q]  = IF a THEN ListInsertSort(DelFromQ(pen, v), v, pensc)
                                     ELSE @,
                   ![EXTRA_UTIL_Q] = IF b THEN ListInsertSort(@, v, sc) ELSE @]
  BY DEF sedf_wake, Deliver, extraq_check_add_unblocked
<1>2. /\ score \in [Levels -> [Vcpus -> ScoreRange]]
      /\ score' \in [Levels -> [Vcpus -> ScoreRange]]
      /\ extraq \in [Levels -> Seq(Vcpus)]
      /\ \A i \in Levels : ~OnQ(extraq[i], v)
  BY <1>1, OffQueues DEF QInv, TypeOK, ScoreRange
<1>3. /\ score'[EXTRA_UTIL_Q] = sc
      /\ extraq'[EXTRA_UTIL_Q] = util \/ extraq'[EXTRA_UTIL_Q] = ListInsertSort(util, v, sc)
      /\ \A w \in Vcpus \ {v} : new[w] = old[w]
      /\ extraq'[EXTRA_PEN_Q] = pen
           \/ extraq'[EXTRA_PEN_Q] = ListInsertSort(DelFromQ(pen, v), v, new)
  <2>1. PICK pensc :
           /\ score' = [score EXCEPT ![EXTRA_PEN_Q] = pensc]
           /\ pensc = old \/ \E s : pensc = [old EXCEPT ![v] = s]
           /\ \E a, b \in BOOLEAN :
                extraq' = [extraq EXCEPT
                   ![EXTRA_PEN_Q]  = IF a THEN ListInsertSort(DelFromQ(pen, v), v, pensc)
                                     ELSE @,
                   ![EXTRA_UTIL_Q] = IF b THEN ListInsertSort(@, v, sc) ELSE @]
    BY <1>1
  <2>2. new = pensc /\ score'[EXTRA_UTIL_Q] = sc
    BY <1>2, <2>1
  <2>3. \A w \in Vcpus \ {v} : pensc[w] = old[w]
    <3>1. old \in [Vcpus -> ScoreRange]
      BY <1>2
    <3> HIDE DEF old
    <3> QED
      BY <2>1, <3>1
  <2>4. PICK a, b \in BOOLEAN :
           extraq' = [extraq EXCEPT
              ![EXTRA_PEN_Q]  = IF a THEN ListInsertSort(DelFromQ(pen, v), v, pensc)
                                ELSE @,
              ![EXTRA_UTIL_Q] = IF b THEN ListInsertSort(@, v, sc) ELSE @]
    BY <2>1
  <2>5. /\ extraq'[EXTRA_PEN_Q] = IF a THEN ListInsertSort(DelFromQ(pen, v), v, pensc)
                                  ELSE pen
        /\ extraq'[EXTRA_UTIL_Q] = IF b THEN ListInsertSort(util, v, sc) ELSE util
    BY <1>2, <2>4
  <2> QED
    BY <2>2, <2>3, <2>5
<1>4. /\ pen \in Seq(Vcpus) /\ IsSortedBy(pen, old) /\ ~OnQ(pen, v)
      /\ util \in Seq(Vcpus) /\ IsSortedBy(util, sc)
      /\ new \in [Vcpus -> Int] /\ sc \in [Vcpus -> Int]
  <2>1. new \in [Vcpus -> Int] /\ sc \in [Vcpus -> Int]
    <3>1. new \in [Vcpus -> ScoreRange] /\ sc \in [Vcpus -> ScoreRange]
      BY <1>2
    <3> HIDE DEF new, sc
    <3> QED
      BY <3>1, ScoresInt
  <2> QED
    BY <1>2, <2>1 DEF ExtraqSorted
<1> HIDE DEF pen, util, old, new, sc
<1>5. IsSortedBy(extraq'[EXTRA_UTIL_Q], sc)
  BY <1>3, <1>4, InsertSorted
<1>6. IsSortedBy(extraq'[EXTRA_PEN_Q], new)
  <2>1. DelFromQ(pen, v) = pen
    BY <1>4 DEF DelFromQ
  <2>2. \A w : OnQ(pen, w) => new[w] = old[w]
    <3>1. \A w : OnQ(pen, w) => w \in Vcpus \ {v}
      BY <1>4 DEF OnQ
    <3> QED
      BY <1>3, <3>1
  <2>3. IsSortedBy(pen, new)
    BY <1>4, <2>2, SortedByOther
  <2>4. IsSortedBy(ListInsertSort(pen, v, new), new)
    BY <1>4, <2>3, InsertSorted
  <2> QED
    BY <1>3, <2>1, <2>3, <2>4
<1> QED
  <2>1. \A i \in Levels : i = EXTRA_PEN_Q \/ i = EXTRA_UTIL_Q
    OBVIOUS
  <2>2. \A i \in Levels : IsSortedBy(extraq'[i], score'[i])
    BY <1>3, <1>5, <1>6, <2>1 DEF new
  <2> QED
    BY <2>2 DEF ExtraqSorted

(* desched_extra_dom charges those that stay and puts the vCPU in again by *)
(* the charged scores.                                                     *)
LEMMA DeschedSorted ==
    ASSUME QInv, QInv', ScoresFit, ExtraqSorted, NEW v \in Vcpus, desched_extra_dom(v)
    PROVE  ExtraqSorted'
<1> DEFINE i     == extra_get_cur_q(v)
           rest  == DelFromQ(extraq[i], v)
           awake == SEDF_ASLEEP \notin DescheduledStatus(v)
           old   == score[i]
           sub   == old[v]
           sc    == IF i = EXTRA_UTIL_Q THEN [old EXCEPT ![v] = UtilScore(v)] ELSE old
           again == awake /\ i = EXTRA_UTIL_Q /\ EXTRA_AWARE \in status[v]
           new   == IF again THEN ChargeScores(rest, sc, sub) ELSE sc
<1>1. /\ extra_runs(v)
      /\ score' = [score EXCEPT ![i] = new]
      /\ awake => extraq' = [extraq EXCEPT
                     ![i] = IF again THEN ListInsertSort(rest, v, new) ELSE rest]
      /\ ~awake => extraq' = OffExtraQueues(v)
  BY DEF desched_extra_dom, ExtraqAddSort
<1>2. /\ i \in Levels
      /\ score \in [Levels -> [Vcpus -> ScoreRange]]
      /\ score' \in [Levels -> [Vcpus -> ScoreRange]]
      /\ extraq \in [Levels -> Seq(Vcpus)]
      /\ \A l \in Levels : NoDuplicates(extraq[l]) /\ IsSortedBy(extraq[l], score[l])
      /\ i = EXTRA_UTIL_Q => EXTRA_RUN_UTIL \in status[v]
  <2>1. i \in Levels /\ (i = EXTRA_UTIL_Q => EXTRA_RUN_UTIL \in status[v])
    BY <1>1 DEF extra_get_cur_q, extra_runs
  <2>2. \A l \in Levels : NoDuplicates(extraq[l]) /\ IsSortedBy(extraq[l], score[l])
    BY DEF QInv, Placement, QueuesDisjoint, ExtraqSorted
  <2> QED
    BY <2>1, <2>2 DEF QInv, TypeOK, ScoreRange
<1> HIDE DEF i
<1>3. /\ rest \in Seq(Vcpus) /\ IsSortedBy(rest, old) /\ ~OnQ(rest, v)
      /\ \A w : OnQ(rest, w) => OnQ(extraq[i], w)
  <2>1. extraq[i] \in Seq(Vcpus) /\ NoDuplicates(extraq[i]) /\ IsSortedBy(extraq[i], old)
    BY <1>2
  <2>2. \A w : OnQ(rest, w) => OnQ(extraq[i], w)
    <3>1. CASE OnQ(extraq[i], v)
      BY <2>1, <3>1, DelFromQProperties
    <3>2. CASE ~OnQ(extraq[i], v)
      BY <3>2 DEF DelFromQ
    <3> QED
      BY <3>1, <3>2
  <2>3. rest \in Seq(Vcpus) /\ ~OnQ(rest, v)
    BY <2>1, DelFromQProperties
  <2>4. IsSortedBy(rest, old)
    BY <2>1, DelFromQSorted
  <2> QED
    BY <2>2, <2>3, <2>4
<1>4. \A l \in Levels \ {i} : score'[l] = score[l] /\ (awake => extraq'[l] = extraq[l])
  BY <1>1, <1>2
<1>5. score'[i] = new /\ new \in [Vcpus -> ScoreRange] /\ new \in [Vcpus -> Int]
  <2>1. score'[i] = new
    BY <1>1, <1>2
  <2> HIDE DEF new
  <2>2. new \in [Vcpus -> ScoreRange]
    BY <1>2, <2>1
  <2> QED
    BY <2>1, <2>2, ScoresInt
<1>6. IsSortedBy(rest, sc) /\ (i = EXTRA_UTIL_Q => \A w \in Vcpus : OnQ(rest, w) => sc[w] = old[w])
  <2>1. \A w : OnQ(rest, w) => sc[w] = old[w]
    <3>1. \A w : OnQ(rest, w) => w \in Vcpus \ {v}
      BY <1>3 DEF OnQ
    <3>2. old \in [Vcpus -> ScoreRange]
      BY <1>2
    <3> HIDE DEF rest, old
    <3> QED
      BY <3>1, <3>2
  <2> HIDE DEF rest, old, sc
  <2> QED
    BY <1>3, <2>1, SortedByOther
<1>7. IsSortedBy(rest, new)
  <2>1. CASE again
    <3>1. old \in [Vcpus -> ScoreRange] /\ sub \in ScoreRange
      BY <1>2
    <3>2. sc \in [Vcpus -> ScoreRange]
      <4>1. extraweight[v] # 0 \/ slice[v] # 0
        BY <1>1, <2>1 DEF desched_extra_dom, DividesByZero, i
      <4>2. UtilScore(v) \in ScoreRange
        BY <4>1, UtilScoreType
      <4> HIDE DEF old
      <4> QED
        BY <3>1, <4>2
    <3>3. \A w \in Vcpus : OnQ(rest, w) => sc[w] - sub \in -(INT_MAX + 1)..INT_MAX
      <4>1. ASSUME NEW w \in Vcpus, OnQ(rest, w)
            PROVE  sc[w] - sub \in -(INT_MAX + 1)..INT_MAX
        <5>1. OnQ(extraq[EXTRA_UTIL_Q], w) /\ EXTRA_RUN_UTIL \in status[v] /\ i = EXTRA_UTIL_Q
          BY <1>2, <1>3, <2>1, <4>1
        <5>2. score[EXTRA_UTIL_Q][w] - score[EXTRA_UTIL_Q][v] \in -(INT_MAX + 1)..INT_MAX
          BY <5>1 DEF ScoresFit
        <5>3. sc[w] = old[w]
          BY <1>6, <4>1, <5>1
        <5> HIDE DEF sc
        <5> QED
          BY <5>1, <5>2, <5>3
      <4> HIDE DEF rest, sc, sub
      <4> QED
        BY <4>1
    <3> HIDE DEF rest, sc, sub
    <3>4. IsSortedBy(rest, ChargeScores(rest, sc, sub))
      BY <1>3, <1>6, <3>1, <3>2, <3>3, ChargedSorted
    <3> QED
      BY <2>1, <3>4
  <2>2. CASE ~again
    BY <1>6, <2>2
  <2> QED
    BY <2>1, <2>2
<1> HIDE DEF again, new, rest, sc
<1>8. CASE awake
  <2>1. extraq'[i] = IF again THEN ListInsertSort(rest, v, new) ELSE rest
    BY <1>1, <1>2, <1>8
  <2>2. IsSortedBy(ListInsertSort(rest, v, new), new)
    BY <1>3, <1>5, <1>7, InsertSorted
  <2>3. IsSortedBy(extraq'[i], score'[i])
    BY <1>5, <1>7, <2>1, <2>2
  <2>4. \A l \in Levels \ {i} : IsSortedBy(extraq'[l], score'[l])
    BY <1>2, <1>4, <1>8
  <2> QED
    BY <2>3, <2>4 DEF ExtraqSorted
<1>9. CASE ~awake
  <2>1. \A l \in Levels : extraq'[l] = DelFromQ(extraq[l], v)
    BY <1>1, <1>9 DEF OffExtraQueues
  <2>2. IsSortedBy(extraq'[i], score'[i])
    BY <1>2, <1>5, <1>7, <2>1 DEF rest
  <2>3. ASSUME NEW l \in Levels \ {i} PROVE IsSortedBy(extraq'[l], score'[l])
    <3>1. extraq[l] \in Seq(Vcpus) /\ IsSortedBy(extraq[l], score[l])
      BY <1>2
    <3>2. IsSortedBy(DelFromQ(extraq[l], v), score[l])
      BY <3>1, DelFromQSorted
    <3> QED
      BY <1>4, <2>1, <3>2
  <2> QED
    BY <2>2, <2>3 DEF ExtraqSorted
<1> QED
  BY <1>8, <1>9

(* Every step keeps both levels in order.                                  *)
LEMMA StepSorted ==
    QInv /\ ScoresFit /\ ExtraqSorted /\ [Next]_vars => ExtraqSorted'
<1> SUFFICES ASSUME QInv, ScoresFit, ExtraqSorted, [Next]_vars PROVE ExtraqSorted'
  OBVIOUS
<1>0. QInv'
  BY StepPlaced
<1>1. CASE Environment \/ UNCHANGED vars \/ ScheduleCalled \/ ChargeBudget
           \/ PromoteWaiting \/ WaitqDone \/ RunqDone
           \/ \E v \in Vcpus : sedf_wake_queued(v) \/ desched_edf_keeps(v)
                               \/ desched_extra_faults(v) \/ SkipEmptySlice(v)
                               \/ ForgiveMiss(v) \/ StopAtRunnable(v)
  <2>1. extraq' = extraq /\ score' = score
    BY <1>1 DEF Environment, Tick, TimerFires, Yield, RaiseSchedule, Block,
       Pause, Resume, Drop, Deliver, vars, ScheduleCalled, ChargeBudget,
       PromoteWaiting, WaitqDone, RunqDone, sedf_wake_queued, desched_edf_keeps,
       desched_extra_faults, SkipEmptySlice, ForgiveMiss, StopAtRunnable,
       VisitRunq, queues
  <2> QED
    BY <2>1, OrderStays
<1>2. ASSUME NEW v \in Vcpus, sedf_sleep(v) \/ desched_edf_dom(v)
      PROVE  ExtraqSorted'
  <2>1. score' = score /\ (extraq' = extraq \/ extraq' = OffExtraQueues(v))
    BY <1>2 DEF sedf_sleep, desched_edf_dom, queues
  <2> QED
    BY <2>1, OrderStays
<1>3. CASE PickTasklet \/ PickIdle \/ PickRunq \/ PickExtra \/ PickExtraIdle
  <2>1. extraq' = extraq /\ score' = score
    BY <1>3 DEF PickTasklet, PickIdle, PickRunq, PickExtra, PickExtraIdle, Run, queues
  <2> QED
    BY <2>1, OrderStays
<1> QED
  BY <1>0, <1>1, <1>2, <1>3, WakeSorted, DeschedSorted
     DEF Next, Handlers, DoSchedule

(* Both levels of extra time are in the order of their scores, as long as  *)
(* the differences of scores fit into an int: see ExtraqSorted.            *)
THEOREM ExtraInOrder == Spec /\ []ScoresFit => []ExtraqSorted
<1>1. Init => ExtraqSorted
  BY DEF Init, ExtraqSorted, IsSortedBy
<1> QED
  BY <1>1, StepSorted, QueuesWellPlaced, PTL DEF Spec
=============================================================================
