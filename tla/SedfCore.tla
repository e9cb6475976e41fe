------------------------------ MODULE SedfCore ------------------------------
(***************************************************************************)
(* The sEDF scheduler with the CBS extension (SEDFCode/sched_sedf.c) on    *)
(* one physical CPU: the per-CPU queues of struct sedf_cpu_info, the       *)
(* per-vCPU state of struct sedf_vcpu_info, and the handlers do_schedule,  *)
(* wake and sleep that the hypervisor calls under the runqueue lock.       *)
(*                                                                         *)
(* do_schedule is split at the points where it loops.  While `at' is one   *)
(* of the Locked points the runqueue lock is held and no other handler     *)
(* runs.  The pause flags behind vcpu_runnable() are not protected by that *)
(* lock; do_schedule reads them once, first thing under the lock, so a     *)
(* change under the lock is a change just before it or just after it, and  *)
(* the flags are left to change at the LockFree points.                    *)
(***************************************************************************)
EXTENDS SedfQueues

CONSTANTS
    Vcpus,           \* the vCPUs placed on this CPU
    IDLE,            \* IDLETASK(cpu)
    HEAD,            \* a list head, as the end of a traversal
    CBS_PERIOD,      \* default cbs_period
    CBS_MAX_BUDGET,  \* default cbs_max_budget
    EXTRA_QUANTUM,
    SECOND,          \* SECONDS(1), the slice of the idle task
    Params,          \* the scheduling parameters vCPUs start with
    FIXPOINT,        \* 1 << 10
    EXTRA_UNIT,      \* 1 << 17
    MaxTime,         \* bound: the clock stops here
    MaxStops,        \* bound: how often a vCPU is blocked or paused
    MaxLatency,      \* bound: how late the slice timer may be served
    TaskletWork      \* the values tasklet_work_scheduled may take

ASSUME ConstantsAssumption ==
    /\ IDLE \notin Vcpus
    /\ HEAD \notin Vcpus
    /\ IDLE # HEAD
    /\ CBS_PERIOD \in Nat \ {0}
    /\ CBS_MAX_BUDGET \in Nat \ {0}
    /\ EXTRA_QUANTUM \in Nat \ {0}
    /\ SECOND \in Nat \ {0}
    /\ Params \subseteq [period : Nat \ {0}, slice : Int, extraweight : Nat,
                        period_orig : Nat \ {0}, slice_orig : Int,
                        aware : BOOLEAN]
    /\ FIXPOINT \in Nat \ {0}
    /\ EXTRA_UNIT \in Nat \ {0}
    /\ MaxTime \in Nat
    /\ MaxStops \in Nat
    /\ MaxLatency \in Nat
    /\ TaskletWork \subseteq BOOLEAN

(* The bits of sedf_vcpu_info.status. *)
EXTRA_AWARE      == "EXTRA_AWARE"
EXTRA_RUN_PEN    == "EXTRA_RUN_PEN"
EXTRA_RUN_UTIL   == "EXTRA_RUN_UTIL"
EXTRA_WANT_PEN_Q == "EXTRA_WANT_PEN_Q"
SEDF_ASLEEP      == "SEDF_ASLEEP"
StatusBits == {EXTRA_AWARE, EXTRA_RUN_PEN, EXTRA_RUN_UTIL,
               EXTRA_WANT_PEN_Q, SEDF_ASLEEP}

(* The two levels of the extra-time queue. *)
EXTRA_PEN_Q  == 0
EXTRA_UTIL_Q == 1
Levels == {EXTRA_PEN_Q, EXTRA_UTIL_Q}

VARIABLES
    (* the rest of the hypervisor *)
    now,       \* NOW()
    runnable,  \* vcpu_runnable(v): no pause flag is set
    stops,     \* how often a vCPU has been blocked or paused
    pend,      \* the sleep and wake calls on their way to the scheduler
    curr,      \* per_cpu(schedule_data).curr
    softirq,   \* SCHEDULE_SOFTIRQ is pending
    (* the progress of do_schedule *)
    at,        \* "guest" when it is not running
    snow,      \* its argument now, read before the lock is taken (else 0)
    cur,       \* the cursor of the second loop of update_queues (else HEAD)
    (* struct sedf_cpu_info *)
    runq, waitq, extraq, current_slice_expires,
    (* struct sedf_vcpu_info *)
    status, deadl_abs, sched_start_abs, cputime, score,
    blocked,   \* block_abs # 0
    cbs_current_budget, cbs_current_deadline,
    period, slice, period_orig, slice_orig, extraweight

external == <<now, runnable, stops, pend>>
cpu      == <<curr, softirq, current_slice_expires>>
control  == <<at, snow, cur>>
queues   == <<runq, waitq, extraq>>
extra    == <<extraq, score>>
account  == <<deadl_abs, sched_start_abs, cputime>>
cbs      == <<cbs_current_budget, cbs_current_deadline>>
params   == <<period, slice, period_orig, slice_orig, extraweight>>
vars     == <<now, runnable, stops, pend, curr, softirq, current_slice_expires,
              at, snow, cur, runq, waitq, extraq, status, deadl_abs,
              sched_start_abs, cputime, score, blocked, cbs_current_budget,
              cbs_current_deadline, period, slice, period_orig, slice_orig,
              extraweight>>

Locked   == {"desched", "waitq", "runq", "pick"}
Points   == {"guest", "called", "fault", "bug"} \cup Locked
LockFree == at \in {"guest", "called"}

-----------------------------------------------------------------------------
(* Helpers of the source. *)

Abs(x) == IF x < 0 THEN -x ELSE x

PeriodBegin(dl, per) == [v \in Vcpus |-> dl[v] - per[v]]
PERIOD_BEGIN(v) == deadl_abs[v] - period[v]
sedf_runnable(st, v) == SEDF_ASLEEP \notin st[v]
extra_runs(v) == status[v] \cap {EXTRA_RUN_PEN, EXTRA_RUN_UTIL} # {}
OnTaskQ(v) == OnQ(runq, v) \/ OnQ(waitq, v)

(* extra_get_cur_q; the flags exclude each other (ExtraRunWellPlaced). *)
extra_get_cur_q(v) ==
    IF EXTRA_RUN_PEN \in status[v] THEN EXTRA_PEN_Q ELSE EXTRA_UTIL_Q

(* The priority of the penalty queue: the inverse of the lost share. *)
PenaltyScore(v, pen) == CInt((period[v] * FIXPOINT) \div pen)

(* The division of C, which truncates towards zero. *)
CDiv(x, y) == IF (x < 0) = (y < 0) THEN Abs(x) \div Abs(y)
              ELSE -(Abs(x) \div Abs(y))

(* The charge of one run on the utilisation queue. *)
UtilScore(v) ==
    IF extraweight[v] = 0
    THEN CInt(CDiv(period[v] * FIXPOINT, slice[v]))
    ELSE CInt(EXTRA_UNIT \div extraweight[v])

(* Mutant: the EDF deadline is not moved with that of the server. *)
StaleDeadline(v) == deadl_abs[v]

(* cbs_update: an exhausted server gets a full budget and a new deadline. *)
Exhausted(v) == cbs_current_budget[v] <= 0
UpdatedDeadline(v) ==
    IF Exhausted(v) THEN snow + CBS_PERIOD ELSE deadl_abs[v]
CbsUpdate(v) ==
    IF Exhausted(v)
    THEN /\ cbs_current_budget' =
                [cbs_current_budget EXCEPT ![v] = CBS_MAX_BUDGET]
         /\ cbs_current_deadline' =
                [cbs_current_deadline EXCEPT ![v] = snow + CBS_PERIOD]
    ELSE UNCHANGED cbs

-----------------------------------------------------------------------------
(* The parameters that sedf_alloc_vdata gives: the best-effort ones are    *)
(* replaced by the CBS defaults.                                           *)
NewVcpu ==
    [period |-> CBS_PERIOD, slice |-> CBS_MAX_BUDGET, extraweight |-> 1,
     period_orig |-> CBS_PERIOD, slice_orig |-> CBS_MAX_BUDGET,
     aware |-> TRUE]

(* Every vCPU has been allocated and inserted: asleep and on no queue.     *)
(* Its parameters are those of NewVcpu, or what sedf_adjust has made of    *)
(* them before the domain is started.  The CPU idles.                      *)
Init ==
    \E p \in [Vcpus -> Params] :
        /\ now = 1
        /\ runnable = [v \in Vcpus |-> FALSE]
        /\ stops = 0
        /\ pend = [v \in Vcpus |-> {}]
        /\ curr = IDLE
        /\ softirq = FALSE
        /\ current_slice_expires = 0
        /\ at = "guest"
        /\ snow = 0
        /\ cur = HEAD
        /\ runq = << >>
        /\ waitq = << >>
        /\ extraq = [i \in Levels |-> << >>]
        /\ status = [v \in Vcpus |-> IF p[v].aware THEN {EXTRA_AWARE, SEDF_ASLEEP}
                                                  ELSE {SEDF_ASLEEP}]
        /\ deadl_abs = [v \in Vcpus |-> 0]
        /\ sched_start_abs = [v \in Vcpus |-> 0]
        /\ cputime = [v \in Vcpus |-> 0]
        /\ score = [i \in Levels |-> [v \in Vcpus |-> 0]]
        /\ blocked = [v \in Vcpus |-> FALSE]
        /\ cbs_current_budget = [v \in Vcpus |-> 0]
        /\ cbs_current_deadline = [v \in Vcpus |-> 0]
        /\ period = [v \in Vcpus |-> p[v].period]
        /\ slice = [v \in Vcpus |-> p[v].slice]
        /\ period_orig = [v \in Vcpus |-> p[v].period_orig]
        /\ slice_orig = [v \in Vcpus |-> p[v].slice_orig]
        /\ extraweight = [v \in Vcpus |-> p[v].extraweight]

-----------------------------------------------------------------------------
(* The hypervisor around the scheduler (external). *)

TimerDue == current_slice_expires # 0 /\ now >= current_slice_expires

(* Time passes outside the locked part of do_schedule, which reads no      *)
(* clock; the slice timer is served at most MaxLatency late.               *)
Tick ==
    /\ LockFree
    /\ now < MaxTime
    /\ TimerDue => now < current_slice_expires + MaxLatency
    /\ now' = now + 1
    /\ UNCHANGED <<runnable, stops, pend, cpu, control, queues, status, account,
                   score, blocked, cbs, params>>

RaiseSchedule ==
    /\ softirq' = TRUE
    /\ UNCHANGED <<now, curr, current_slice_expires, control, queues, status,
                   account, score, blocked, cbs, params>>

(* The slice timer expires. *)
TimerFires ==
    /\ at = "guest"
    /\ TimerDue
    /\ ~softirq
    /\ RaiseSchedule
    /\ UNCHANGED <<runnable, stops, pend>>

(* The guest yields, or tasklet work arrives or ends. *)
Yield ==
    /\ at = "guest"
    /\ ~softirq
    /\ RaiseSchedule
    /\ UNCHANGED <<runnable, stops, pend>>

(* The running guest blocks: the flag is set, the scheduler is not told.   *)
Block(v) ==
    /\ at = "guest"
    /\ curr = v
    /\ runnable[v]
    /\ stops < MaxStops
    /\ stops' = stops + 1
    /\ runnable' = [runnable EXCEPT ![v] = FALSE]
    /\ UNCHANGED pend
    /\ RaiseSchedule

(* A vCPU is paused: the flag is set first, sedf_sleep follows.            *)
Pause(v) ==
    /\ LockFree
    /\ runnable[v]
    /\ stops < MaxStops
    /\ stops' = stops + 1
    /\ runnable' = [runnable EXCEPT ![v] = FALSE]
    /\ pend' = [pend EXCEPT ![v] = @ \cup {"sleep"}]
    /\ UNCHANGED <<now, cpu, control, queues, status, account, score, blocked,
                   cbs, params>>

(* A vCPU is unpaused or unblocked: the flag first, sedf_wake follows.     *)
(* Neither waits for a sleep that is still on its way, nor for the         *)
(* descheduling (only vcpu_sleep_sync does, for pausers that ask for it).  *)
Resume(v) ==
    /\ LockFree
    /\ ~runnable[v]
    /\ runnable' = [runnable EXCEPT ![v] = TRUE]
    /\ pend' = [pend EXCEPT ![v] = @ \cup {"wake"}]
    /\ UNCHANGED <<now, stops, cpu, control, queues, status, account, score, blocked,
                   cbs, params>>

Deliver(v, call) ==
    /\ LockFree
    /\ call \in pend[v]
    /\ pend' = [pend EXCEPT ![v] = @ \ {call}]
    /\ UNCHANGED <<now, runnable, stops>>

(* A call whose reason has gone by the time the lock is taken is dropped.  *)
Drop(v, call) ==
    /\ Deliver(v, call)
    /\ runnable[v] <=> (call = "sleep")
    /\ UNCHANGED <<cpu, control, queues, status, account, score, blocked,
                   cbs, params>>

-----------------------------------------------------------------------------
(* per_cpu(schedule_data, d->processor).curr == d *)
IsCurrent(v) == curr = v

(* Mutant: only the utilisation queue is left. *)
OffUtilQueue(v) ==
    [i \in Levels |-> IF i = EXTRA_UTIL_Q THEN DelFromQ(extraq[i], v)
                                          ELSE extraq[i]]

(* A sleeping vCPU leaves both levels of the extra-time queue. *)
OffExtraQueues(v) == [i \in Levels |-> DelFromQ(extraq[i], v)]

(* sedf_sleep: the current vCPU stays queued until do_schedule sees it. *)
sedf_sleep(v) ==
    /\ Deliver(v, "sleep")
    /\ ~runnable[v]
    /\ status' = [status EXCEPT ![v] = @ \cup {SEDF_ASLEEP}]
    /\ IF IsCurrent(v)
       THEN /\ softirq' = TRUE
            /\ UNCHANGED queues
       ELSE /\ runq' = DelFromQ(runq, v)
            /\ waitq' = DelFromQ(waitq, v)
            /\ extraq' = OffExtraQueues(v)
            /\ UNCHANGED softirq
    /\ UNCHANGED <<curr, current_slice_expires, control, account, score,
                   blocked, cbs, params>>

(* sedf_wake on a vCPU that is still queued returns at once. *)
sedf_wake_queued(v) ==
    /\ Deliver(v, "wake")
    /\ runnable[v]
    /\ OnTaskQ(v)
    /\ UNCHANGED <<cpu, control, queues, status, account, score, blocked,
                   cbs, params>>

(* Mutant: a woken server never gets a new deadline. *)
KeepsDeadline(v) == FALSE

(* cbs_wake: does the server get a new deadline?  The bandwidth is an      *)
(* integer quotient.                                                       *)
RenewsDeadline(v) ==
    cbs_current_budget[v] >= (cbs_current_deadline[v] - now)
                                * (CBS_MAX_BUDGET \div CBS_PERIOD)

(* Mutant: only the classes of extra time are compared. *)
SwitchForPenalty(pb, st, sc) == curr # IDLE /\ EXTRA_WANT_PEN_Q \in st

(* get_run_type and should_switch, for a vCPU v that has just been woken:  *)
(* its period begins at pb, its status is st and its penalty score sc.     *)
ShouldSwitch(pb, st, sc) ==
    \/ pb < current_slice_expires
    \/ curr = IDLE
    \/ /\ curr # IDLE
       /\ EXTRA_WANT_PEN_Q \in st
       /\ \/ /\ EXTRA_RUN_PEN \in status[curr]
             /\ sc < score[EXTRA_PEN_Q][curr]
          \/ /\ EXTRA_RUN_PEN \notin status[curr]
             /\ EXTRA_RUN_UTIL \in status[curr]

(* Mutant: the place on the penalty queue is not remembered. *)
WokenForgetful(v, repaid) == status[v] \ {SEDF_ASLEEP}

(* Mutant: the vCPU is queued and still marked asleep. *)
WokenAsleep(v, repaid) == status[v]

(* The status of a woken vCPU; repaid when it enters the penalty queue.    *)
WokenStatus(v, repaid) ==
    IF repaid /\ ~OnQ(extraq[EXTRA_PEN_Q], v)
    THEN (status[v] \ {SEDF_ASLEEP}) \cup {EXTRA_WANT_PEN_Q}
    ELSE status[v] \ {SEDF_ASLEEP}

(* Mutant: a vCPU that wants the penalty queue gets no other place. *)
UtilUnlessPen(v) ==
    EXTRA_AWARE \in status[v] /\ EXTRA_WANT_PEN_Q \notin status[v]

(* extraq_check_add_unblocked: who is put on the utilisation queue. *)
extraq_check_add_unblocked(v) == EXTRA_AWARE \in status[v]

(* Mutant: a vCPU that runs in extra time is taken off the queue as well.  *)
CheckedAlways(v, st) ==
    IF OnQ(extraq[EXTRA_UTIL_Q], v) /\ EXTRA_AWARE \notin st
    THEN DelFromQ(extraq[EXTRA_UTIL_Q], v)
    ELSE extraq[EXTRA_UTIL_Q]

(* Mutant: a vCPU that is asleep is put on the queue as well. *)
CheckedAsleep(v, st) ==
    IF EXTRA_AWARE \in st /\ ~OnQ(extraq[EXTRA_UTIL_Q], v)
    THEN ListInsertSort(extraq[EXTRA_UTIL_Q], v, score[EXTRA_UTIL_Q])
    ELSE extraq[EXTRA_UTIL_Q]

(* extraq_check, for the status st that v gets. *)
extraq_check(v, st) ==
    LET q == extraq[EXTRA_UTIL_Q]
    IN  IF OnQ(q, v)
        THEN IF EXTRA_AWARE \notin st /\ ~extra_runs(v)
             THEN DelFromQ(q, v) ELSE q
        ELSE IF EXTRA_AWARE \in st /\ SEDF_ASLEEP \notin st
             THEN ListInsertSort(q, v, score[EXTRA_UTIL_Q]) ELSE q

(* sedf_wake on a sleeping vCPU: cbs_wake, then one of three cases:        *)
(*   early   its period has not begun: it keeps its deadline;              *)
(*   short   it was blocked within its period: unblock_short_extra_support *)
(*           defers it by a period and repays the lost slice in extra time;*)
(*   long    its deadline has passed: unblock_long_cons_b.                 *)
sedf_wake(v) ==
    LET deadline == IF RenewsDeadline(v) THEN now + CBS_PERIOD
                                         ELSE deadl_abs[v]
        early    == now < deadline - period[v]
        short    == ~early /\ now < deadline
        lost     == IF slice[v] > cputime[v] THEN slice[v] - cputime[v] ELSE 0
        repaid   == short /\ blocked[v] /\ lost # 0
        dl       == CASE early -> deadline
                      [] short -> deadline + period[v]
                      [] OTHER -> now + period[v]
        st       == WokenStatus(v, repaid)
        penq     == DelFromQ(extraq[EXTRA_PEN_Q], v)
        pensc    == IF repaid
                    THEN [score[EXTRA_PEN_Q] EXCEPT ![v] = PenaltyScore(v, lost)]
                    ELSE score[EXTRA_PEN_Q]
        wantsPen == repaid \/ (early /\ EXTRA_WANT_PEN_Q \in status[v])
    IN  /\ Deliver(v, "wake")
        /\ runnable[v]
        /\ ~OnTaskQ(v)
        /\ cbs_current_deadline' =
              IF RenewsDeadline(v)
              THEN [cbs_current_deadline EXCEPT ![v] = now + CBS_PERIOD]
              ELSE cbs_current_deadline
        /\ status' = [status EXCEPT ![v] = st]
        /\ deadl_abs' = [deadl_abs EXCEPT ![v] = dl]
        /\ cputime' = IF early THEN cputime ELSE [cputime EXCEPT ![v] = 0]
        /\ score' = [score EXCEPT ![EXTRA_PEN_Q] = pensc]
        /\ extraq' =
              [extraq EXCEPT
                 ![EXTRA_PEN_Q]  = IF wantsPen
                                   THEN ListInsertSort(penq, v, pensc) ELSE @,
                 ![EXTRA_UTIL_Q] = IF extraq_check_add_unblocked(v)
                                   THEN ListInsertSort(@, v, score[EXTRA_UTIL_Q])
                                   ELSE @]
        /\ IF dl - period[v] > now
           THEN /\ waitq' = ListInsertSort(waitq, v,
                                           PeriodBegin(deadl_abs', period))
                /\ UNCHANGED runq
           ELSE /\ runq' = ListInsertSort(runq, v, deadl_abs')
                /\ UNCHANGED waitq
        /\ softirq' = (softirq \/ ShouldSwitch(dl - period[v], st, pensc[v]))
        /\ UNCHANGED <<curr, current_slice_expires, control, sched_start_abs,
                       blocked, cbs_current_budget, params>>

-----------------------------------------------------------------------------
(* sedf_do_schedule. *)

(* The softirq handler reads the clock, then competes for the lock. *)
ScheduleCalled ==
    /\ at = "guest"
    /\ softirq
    /\ softirq' = FALSE
    /\ at' = "called"
    /\ snow' = now
    /\ UNCHANGED <<external, curr, current_slice_expires, cur, queues, status,
                   account, score, blocked, cbs, params>>

(* Mutant: the idle vCPU starts over, at the wrong label. *)
IdleStartsOver == IF curr = IDLE THEN "called" ELSE "desched"

(* Mutant: the idle vCPU skips the wait queue too. *)
IdleSkipsWaitq == IF curr = IDLE THEN "runq" ELSE "desched"

(* "Idle tasks don't need any of the following stuff". *)
AfterCharge == IF curr = IDLE THEN "waitq" ELSE "desched"

(* Mutant: every vCPU on the runqueue pays. *)
AllPay ==
    [v \in Vcpus |-> IF OnQ(runq, v)
                     THEN cbs_current_budget[v] - (snow - sched_start_abs[v])
                     ELSE cbs_current_budget[v]]

(* The head of the runqueue pays for the time since it was last picked.    *)
(* With an empty runqueue the source takes the queue head for a vCPU and   *)
(* writes behind its sedf_cpu_info, outside the state modelled here.       *)
HeadPays ==
    IF runq = << >> THEN cbs_current_budget
    ELSE [cbs_current_budget EXCEPT
            ![runq[1]] = @ - (snow - sched_start_abs[runq[1]])]

ChargeBudget ==
    /\ at = "called"
    /\ at' = AfterCharge
    /\ cbs_current_budget' = HeadPays
    /\ UNCHANGED <<external, cpu, snow, cur, queues, status, account, score,
                   blocked, cbs_current_deadline, params>>

(* Mutant: the snapshot of vcpu_runnable is not taken. *)
StatusAsMarked(v) == status[v]

(* vcpu_runnable is read once, so that the rest sees a stable status. *)
DescheduledStatus(v) ==
    IF runnable[v] THEN status[v] ELSE status[v] \cup {SEDF_ASLEEP}

(* desched_edf_dom, latency scaling: the next period of a vCPU that runs   *)
(* with a shortened one.                                                   *)
NextParams(v) ==
    IF period[v] >= period_orig[v]
    THEN [period |-> period[v], slice |-> slice[v]]
    ELSE IF 2 * period[v] > period_orig[v] \/ 2 * slice[v] > slice_orig[v]
    THEN [period |-> period_orig[v], slice |-> slice_orig[v]]
    ELSE [period |-> 2 * period[v], slice |-> 2 * slice[v]]

(* The part that both paths share: the status snapshot and block_abs. *)
Deschedule(v, st) ==
    /\ at = "desched"
    /\ at' = "waitq"
    /\ curr = v
    /\ status' = [status EXCEPT ![v] = st]
    /\ blocked' = IF SEDF_ASLEEP \in DescheduledStatus(v)
                  THEN [blocked EXCEPT ![v] = TRUE] ELSE blocked
    /\ UNCHANGED <<external, cpu, snow, cur, sched_start_abs, cbs,
                   period_orig, slice_orig, extraweight>>

RanFor(v) == cputime[v] + snow - sched_start_abs[v]

(* desched_edf_dom: the slice is not used up and the vCPU is awake.        *)
desched_edf_keeps(v) ==
    /\ ~extra_runs(v)
    /\ RanFor(v) < slice[v]
    /\ SEDF_ASLEEP \notin DescheduledStatus(v)
    /\ Deschedule(v, DescheduledStatus(v))
    /\ cputime' = [cputime EXCEPT ![v] = RanFor(v)]
    /\ UNCHANGED <<queues, deadl_abs, score, period, slice>>

(* desched_edf_dom: the vCPU leaves the runqueue, for the wait queue or    *)
(* for sleep; a finished slice opens the next period.                      *)
desched_edf_dom(v) ==
    LET st       == DescheduledStatus(v)
        awake    == SEDF_ASLEEP \notin st
        finished == RanFor(v) >= slice[v]
        params1  == IF finished THEN NextParams(v)
                    ELSE [period |-> period[v], slice |-> slice[v]]
    IN  /\ ~extra_runs(v)
        /\ finished \/ ~awake
        /\ Deschedule(v, st)
        /\ cputime' = [cputime EXCEPT
              ![v] = IF finished THEN RanFor(v) - slice[v] ELSE RanFor(v)]
        /\ period' = [period EXCEPT ![v] = params1.period]
        /\ slice' = [slice EXCEPT ![v] = params1.slice]
        /\ deadl_abs' = IF finished
              THEN [deadl_abs EXCEPT ![v] = @ + params1.period] ELSE deadl_abs
        /\ runq' = DelFromQ(runq, v)
        /\ IF awake
           THEN /\ waitq' = ListInsertSort(DelFromQ(waitq, v), v,
                                           PeriodBegin(deadl_abs', period'))
                /\ UNCHANGED extraq
           ELSE /\ waitq' = DelFromQ(waitq, v)
                /\ extraq' = OffExtraQueues(v)
        /\ UNCHANGED score

(* The utilisation score of a vCPU with neither weight nor slice.          *)
DividesByZero(v) ==
    /\ extra_runs(v)
    /\ extra_get_cur_q(v) = EXTRA_UTIL_Q
    /\ extraweight[v] = 0
    /\ slice[v] = 0

desched_extra_faults(v) ==
    /\ at = "desched"
    /\ curr = v
    /\ DividesByZero(v)
    /\ at' = "fault"
    /\ UNCHANGED <<external, cpu, snow, cur, queues, status, account, score,
                   blocked, cbs, params>>

(* Mutant: the flag of the utilisation queue stays. *)
PenFlagsGone(i) == {EXTRA_RUN_PEN, EXTRA_WANT_PEN_Q}

(* The flags a vCPU loses after a run on level i: one run on the penalty   *)
(* queue counts as full compensation.                                      *)
FlagsGone(i) == {EXTRA_RUN_PEN, EXTRA_RUN_UTIL}
                   \cup (IF i = EXTRA_PEN_Q THEN {EXTRA_WANT_PEN_Q} ELSE {})

(* desched_extra_dom: the vCPU leaves its extra-time queue.  From the      *)
(* penalty queue it is dropped for good; on the utilisation queue it is    *)
(* requeued by its weight and the others are charged its old score.        *)
desched_extra_dom(v) ==
    LET i     == extra_get_cur_q(v)
        awake == SEDF_ASLEEP \notin DescheduledStatus(v)
        rest  == DelFromQ(extraq[i], v)
        sc    == IF i = EXTRA_UTIL_Q
                 THEN [score[i] EXCEPT ![v] = UtilScore(v)] ELSE score[i]
        again == awake /\ i = EXTRA_UTIL_Q /\ EXTRA_AWARE \in status[v]
    IN  /\ extra_runs(v)
        /\ ~DividesByZero(v)
        /\ Deschedule(v, DescheduledStatus(v) \ FlagsGone(i))
        /\ cputime' = [cputime EXCEPT ![v] = 0]
        /\ score' = [score EXCEPT
              ![i] = IF again THEN ChargeScores(rest, sc, score[i][v]) ELSE sc]
        /\ IF awake
           THEN /\ extraq' = [extraq EXCEPT
                      ![i] = IF again
                             THEN ExtraqAddSort(rest, v, sc, score[i][v])
                             ELSE rest]
                /\ UNCHANGED <<runq, waitq>>
           ELSE /\ extraq' = OffExtraQueues(v)
                /\ runq' = DelFromQ(runq, v)
                /\ waitq' = DelFromQ(waitq, v)
        /\ UNCHANGED <<deadl_abs, period, slice>>

-----------------------------------------------------------------------------
(* update_queues: first the wait queue, from its head. *)

(* The head is charged up and its period has begun: to the runqueue. *)
PromoteWaiting ==
    /\ at = "waitq"
    /\ waitq # << >>
    /\ LET v == waitq[1]
       IN  /\ CbsUpdate(v)
           /\ deadl_abs' = [deadl_abs EXCEPT ![v] = UpdatedDeadline(v)]
           /\ UpdatedDeadline(v) - period[v] <= snow
           /\ waitq' = DelFromQ(waitq, v)
           /\ runq' = ListInsertSort(runq, v, deadl_abs')
    /\ UNCHANGED <<external, cpu, control, extraq, status, sched_start_abs,
                   cputime, score, blocked, params>>

(* The first loop ends, at a head whose period is still to come or at the  *)
(* end of the list.                                                        *)
WaitqDone ==
    /\ at = "waitq"
    /\ at' = "runq"
    /\ cur' = FirstOf(runq, HEAD)
    /\ IF waitq = << >>
       THEN UNCHANGED <<cbs, deadl_abs>>
       ELSE LET v == waitq[1]
            IN  /\ CbsUpdate(v)
                /\ deadl_abs' = [deadl_abs EXCEPT ![v] = UpdatedDeadline(v)]
                /\ UpdatedDeadline(v) - period[v] > snow
    /\ UNCHANGED <<external, cpu, snow, queues, status, sched_start_abs,
                   cputime, score, blocked, params>>

(* Then the runqueue, up to the first vCPU that belongs there. *)
VisitRunq(v) ==
    /\ at = "runq"
    /\ cur = v
    /\ CbsUpdate(v)
    /\ UNCHANGED <<external, cpu, snow, extraq, status, sched_start_abs,
                   score, blocked, params>>

(* Mutant: only the slice is looked at. *)
OverranSlice(v) == cputime[v] > slice[v]

(* Why a vCPU does not belong on the runqueue as it is. *)
NoSlice(v) == slice[v] = 0
Behindhand(v) == UpdatedDeadline(v) < snow \/ cputime[v] > slice[v]

(* A vCPU without a slice waits for a period that has not begun. *)
SkipEmptySlice(v) ==
    LET dl    == UpdatedDeadline(v)
        begin == dl - period[v]
    IN  /\ VisitRunq(v)
        /\ NoSlice(v)
        /\ deadl_abs' = [deadl_abs EXCEPT
              ![v] = IF begin < snow
                     THEN dl + DivUp(snow - begin, period[v]) * period[v]
                     ELSE dl]
        /\ runq' = DelFromQ(runq, v)
        /\ waitq' = ListInsertSort(waitq, v, PeriodBegin(deadl_abs', period))
        /\ cur' = NextOf(runq, v, HEAD)
        /\ UNCHANGED <<at, cputime>>

(* A vCPU that missed its deadline or overran its slice gets a fresh       *)
(* slice in the first period that ends in the future.                      *)
ForgiveMiss(v) ==
    LET missed == UpdatedDeadline(v) + period[v]
        dl     == IF missed < snow
                  THEN missed + DivUp(snow - missed, period[v]) * period[v]
                  ELSE missed
    IN  /\ VisitRunq(v)
        /\ ~NoSlice(v)
        /\ Behindhand(v)
        /\ deadl_abs' = [deadl_abs EXCEPT ![v] = dl]
        /\ cputime' = [cputime EXCEPT ![v] = 0]
        /\ IF dl - period[v] > snow
           THEN /\ runq' = DelFromQ(runq, v)
                /\ waitq' = ListInsertSort(waitq, v,
                                           PeriodBegin(deadl_abs', period))
           ELSE /\ runq' = ListInsertSort(DelFromQ(runq, v), v, deadl_abs')
                /\ UNCHANGED waitq
        /\ cur' = NextOf(runq, v, HEAD)
        /\ UNCHANGED at

(* The first vCPU in order ends the loop; its new deadline, if it got one, *)
(* does not move it.                                                       *)
StopAtRunnable(v) ==
    /\ VisitRunq(v)
    /\ ~NoSlice(v)
    /\ ~Behindhand(v)
    /\ deadl_abs' = [deadl_abs EXCEPT ![v] = UpdatedDeadline(v)]
    /\ at' = "pick"
    /\ cur' = HEAD
    /\ UNCHANGED <<runq, waitq, cputime>>

RunqDone ==
    /\ at = "runq"
    /\ cur = HEAD
    /\ at' = "pick"
    /\ UNCHANGED <<external, cpu, snow, cur, queues, status, account, score,
                   blocked, cbs, params>>

-----------------------------------------------------------------------------
(* The choice of the next vCPU, for the time t. *)
Run(v, st, t) ==
    /\ at = "pick"
    /\ IF t < 0
       THEN /\ at' = "bug"                 \* BUG_ON(1)
            /\ UNCHANGED <<curr, current_slice_expires, sched_start_abs>>
       ELSE /\ at' = "guest"
            /\ curr' = v
            /\ current_slice_expires' = snow + t
            /\ sched_start_abs' = IF v = IDLE THEN sched_start_abs
                                  ELSE [sched_start_abs EXCEPT ![v] = snow]
    /\ status' = st
    /\ snow' = 0
    /\ UNCHANGED <<external, softirq, cur, queues, deadl_abs, cputime,
                   score, blocked, cbs, params>>

(* Tasklet work overrides all else. *)
PickTasklet ==
    /\ TRUE \in TaskletWork
    /\ Run(IDLE, status, SECOND)

PickIdle ==
    /\ FALSE \in TaskletWork
    /\ runq = << >>
    /\ waitq = << >>
    /\ Run(IDLE, status, SECOND)

(* The head of the runqueue runs until its slice ends or the first waiting *)
(* vCPU gets ready.                                                        *)
SliceFor(v) ==
    LET left == slice[v] - cputime[v]
    IN  IF waitq = << >> THEN left
        ELSE Min({left, PERIOD_BEGIN(waitq[1]) - snow})

PickRunq ==
    /\ FALSE \in TaskletWork
    /\ runq # << >>
    /\ Run(runq[1], status, SliceFor(runq[1]))

ExtraTime == PERIOD_BEGIN(waitq[1]) - snow

(* Mutant: neither queue is checked for being empty. *)
PickExtraUnchecked ==
    /\ FALSE \in TaskletWork
    /\ runq = << >>
    /\ waitq # << >>
    /\ ExtraTime >= EXTRA_QUANTUM
    /\ Run(FirstOf(extraq[EXTRA_UTIL_Q], HEAD), status, EXTRA_QUANTUM)

(* sedf_do_extra_schedule: the time up to the next period is given away,   *)
(* one quantum at a time, to the penalty queue before the utilisation one. *)
PickExtra ==
    /\ FALSE \in TaskletWork
    /\ runq = << >>
    /\ waitq # << >>
    /\ ExtraTime >= EXTRA_QUANTUM
    /\ \/ /\ extraq[EXTRA_PEN_Q] # << >>
          /\ LET v == extraq[EXTRA_PEN_Q][1]
             IN  Run(v, [status EXCEPT ![v] = @ \cup {EXTRA_RUN_PEN}],
                     EXTRA_QUANTUM)
       \/ /\ extraq[EXTRA_PEN_Q] = << >>
          /\ extraq[EXTRA_UTIL_Q] # << >>
          /\ LET v == extraq[EXTRA_UTIL_Q][1]
             IN  Run(v, [status EXCEPT ![v] = @ \cup {EXTRA_RUN_UTIL}],
                     EXTRA_QUANTUM)

PickExtraIdle ==
    /\ FALSE \in TaskletWork
    /\ runq = << >>
    /\ waitq # << >>
    /\ \/ ExtraTime < EXTRA_QUANTUM
       \/ \A i \in Levels : extraq[i] = << >>
    /\ Run(IDLE, status, ExtraTime)

-----------------------------------------------------------------------------
Environment ==
    \/ Tick
    \/ TimerFires
    \/ Yield
    \/ \E v \in Vcpus : \/ Block(v)
                        \/ Pause(v)
                        \/ Resume(v)
                        \/ Drop(v, "sleep")
                        \/ Drop(v, "wake")

Handlers ==
    \E v \in Vcpus : sedf_sleep(v) \/ sedf_wake_queued(v) \/ sedf_wake(v)

DoSchedule ==
    \/ ScheduleCalled
    \/ ChargeBudget
    \/ \E v \in Vcpus : \/ desched_edf_keeps(v)
                        \/ desched_edf_dom(v)
                        \/ desched_extra_dom(v)
                        \/ desched_extra_faults(v)
    \/ PromoteWaiting
    \/ WaitqDone
    \/ \E v \in Vcpus : \/ SkipEmptySlice(v)
                        \/ ForgiveMiss(v)
                        \/ StopAtRunnable(v)
    \/ RunqDone
    \/ PickTasklet
    \/ PickIdle
    \/ PickRunq
    \/ PickExtra
    \/ PickExtraIdle

Next == Environment \/ Handlers \/ DoSchedule

Spec == Init /\ [][Next]_vars
=============================================================================
