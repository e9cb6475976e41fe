------------------------------ MODULE SedfProps ------------------------------
(***************************************************************************)
(* What the sEDF scheduler on one CPU promises: its type invariant, the    *)
(* queue discipline its assertions state, and what its comments and the    *)
(* CBS algorithm say about who runs, for how long, and on whose budget.    *)
(***************************************************************************)
EXTENDS SedfCore

(* The type invariant: the domains of the fields and queues. *)
TypeOK ==
    /\ now \in Nat
    /\ runnable \in [Vcpus -> BOOLEAN]
    /\ stops \in Nat
    /\ pend \in [Vcpus -> SUBSET {"sleep", "wake"}]
    /\ curr \in Vcpus \cup {IDLE}
    /\ softirq \in BOOLEAN
    /\ current_slice_expires \in Int
    /\ at \in Points
    /\ snow \in Nat
    /\ cur \in Vcpus \cup {HEAD}
    /\ runq \in Seq(Vcpus)
    /\ waitq \in Seq(Vcpus)
    /\ extraq \in [Levels -> Seq(Vcpus)]
    /\ status \in [Vcpus -> SUBSET StatusBits]
    /\ deadl_abs \in [Vcpus -> Int]
    /\ sched_start_abs \in [Vcpus -> Nat]
    /\ cputime \in [Vcpus -> Int]
    /\ score \in [Levels -> [Vcpus -> -(INT_MAX + 1)..INT_MAX]]
    /\ blocked \in [Vcpus -> BOOLEAN]
    /\ cbs_current_budget \in [Vcpus -> Int]
    /\ cbs_current_deadline \in [Vcpus -> Int]
    /\ period \in [Vcpus -> Nat \ {0}]
    /\ slice \in [Vcpus -> Int]
    /\ period_orig \in [Vcpus -> Nat \ {0}]
    /\ slice_orig \in [Vcpus -> Int]
    /\ extraweight \in [Vcpus -> Nat]

-----------------------------------------------------------------------------
(* The queue discipline. *)

(* The vCPU that the next part of do_schedule still has to deschedule: it  *)
(* may be marked asleep and yet be queued.                                 *)
Descheduling(v) == curr = v /\ at \in {"guest", "called", "desched", "fault"}

(* No vCPU is linked twice, in one queue or in both. *)
QueuesDisjoint ==
    /\ NoDuplicates(runq)
    /\ NoDuplicates(waitq)
    /\ \A v \in Vcpus : ~(OnQ(runq, v) /\ OnQ(waitq, v))
    /\ \A i \in Levels : NoDuplicates(extraq[i])

(* The traversals are list_for_each_safe: while update_queues moves the    *)
(* vCPUs it visits, the saved next element stays on the runqueue.          *)
CursorOnRunq == at = "runq" /\ cur # HEAD => OnQ(runq, cur)

(* ASSERT(EQ(sedf_runnable(d), __task_on_queue(d))): a vCPU that is awake  *)
(* is always queued, so it cannot be forgotten; a vCPU that is asleep is   *)
(* queued only while it waits to be descheduled.                           *)
AwakeIffQueued ==
    \A v \in Vcpus :
        /\ sedf_runnable(status, v) => OnTaskQ(v)
        /\ OnTaskQ(v) => sedf_runnable(status, v) \/ Descheduling(v)

(* ASSERT(IMPLY(extraq_on(..), sedf_runnable(d))): whoever can be handed   *)
(* extra time is on a task queue, hence awake.                             *)
ExtraOnlyIfQueued ==
    \A v \in Vcpus, i \in Levels : OnQ(extraq[i], v) => OnTaskQ(v)

(* The "sanity check" of sedf_wake, at all times: an awake vCPU that is    *)
(* aware of extra time is on the utilisation queue, and nobody else is     *)
(* except the vCPU that is just running from it.                           *)
AwareIffOnUtilQ ==
    \A v \in Vcpus :
        /\ EXTRA_AWARE \in status[v] /\ sedf_runnable(status, v)
              => OnQ(extraq[EXTRA_UTIL_Q], v)
        /\ OnQ(extraq[EXTRA_UTIL_Q], v)
              => \/ EXTRA_AWARE \in status[v]
                 \/ EXTRA_RUN_UTIL \in status[v]

(* ASSERT(extraq_on(d, i)) of desched_extra_dom and its "remove this       *)
(* blocked domain from the waitq": the running flags exclude each other,   *)
(* only the current vCPU has one, and until it is descheduled it stays on  *)
(* the wait queue and on the extra queue that it was taken from.           *)
ExtraRunWellPlaced ==
    \A v \in Vcpus :
        extra_runs(v) =>
            /\ Descheduling(v)
            /\ OnQ(waitq, v)
            /\ OnQ(extraq[extra_get_cur_q(v)], v)
            /\ ~({EXTRA_RUN_PEN, EXTRA_RUN_UTIL} \subseteq status[v])

(* A vCPU that runs in its guaranteed slice stays on the runqueue until it *)
(* is descheduled (ASSERT(__task_on_queue(d)) of desched_edf_dom).         *)
EdfRunOnRunq ==
    \A v \in Vcpus :
        Descheduling(v) /\ ~extra_runs(v) => OnQ(runq, v)

(* Penalty-queue places are only held by vCPUs that want one. *)
PenQWanted ==
    \A v \in Vcpus :
        OnQ(extraq[EXTRA_PEN_Q], v) => EXTRA_WANT_PEN_Q \in status[v]

(* "List is sorted by score, where a lower score means higher priority":   *)
(* the incremental charging of extraq_add_sort_update keeps both levels    *)
(* of extra time in order.                                                 *)
ExtraqSorted ==
    \A i \in Levels : IsSortedBy(extraq[i], score[i])

(* "simply subtracting a fixed value from each entry": charging and        *)
(* inserting in one walk leaves the distances between the others on the    *)
(* queue as they are, in front of the hole and behind it, and no score     *)
(* wraps on its own.                                                       *)
ChargedAlike ==
    [][\A i \in Levels, v, w \in Vcpus :
          /\ OnQ(extraq[i], v)
          /\ OnQ(extraq[i], w)
          /\ ~(at = "desched" /\ curr \in {v, w})
          => score'[i][v] - score'[i][w] = score[i][v] - score[i][w]]_vars

(* "this list is therefore sortet by this time": the wait queue is in the  *)
(* order in which the periods begin.                                       *)
WaitqSorted == IsSortedBy(waitq, PeriodBegin(deadl_abs, period))

(* Renewing the head of the wait queue in place moves its key, and with a  *)
(* period shorter than cbs_period it then stays where it is.               *)
RenewsInPlace ==
    /\ at = "waitq"
    /\ at' = "runq"
    /\ waitq # << >>
    /\ Exhausted(waitq[1])
    /\ period[waitq[1]] < CBS_PERIOD

(* The wait queue loses its order in one way only: update_queues ends its  *)
(* first loop at a head that cbs_update has put behind others.  No wakeup, *)
(* no sleep, no descheduling and no move between the queues disturbs it.   *)
OrderLostOnlyByRenewal ==
    [][WaitqSorted /\ ~WaitqSorted' => RenewsInPlace]_vars

-----------------------------------------------------------------------------
(* Who runs, and for how long. *)

(* The CBS promise at the point of choice: the vCPU at the head of the     *)
(* runqueue has budget, a deadline that has not passed and a slice that it *)
(* has not overrun, and nobody who is queued behind has got round the      *)
(* replenishment.  (The slice may be used up to the unit, see ZeroTime.)   *)
HeadCanRun ==
    at = "pick" /\ runq # << >> =>
        /\ cbs_current_budget[runq[1]] > 0
        /\ deadl_abs[runq[1]] >= snow
        /\ cputime[runq[1]] <= slice[runq[1]]
        /\ slice[runq[1]] # 0

(* "Ouch! We are seriously BEHIND schedule!": the BUG_ON(1) on a negative *)
(* time slice is never reached, whatever mixture of late timers, wakeups   *)
(* and replenishments leads to the choice.                                 *)
NeverBehind == at # "bug"

(* CHECK(ret.time > 0), and the assertions that extra time ends later than *)
(* now, fail in two cases only: the head of the runqueue has used up its   *)
(* slice to the unit, or a vCPU without a slice begins to wait for a       *)
(* period that begins right now.                                           *)
ZeroTime ==
    [][at = "pick" /\ at' = "guest" /\ current_slice_expires' = snow =>
         \/ /\ runq # << >>
            /\ cputime[runq[1]] = slice[runq[1]]
         \/ /\ waitq # << >>
            /\ NoSlice(waitq[1])
            /\ PERIOD_BEGIN(waitq[1]) = snow]_vars

(* No oversleeping: while a vCPU runs and no reschedule is pending, the    *)
(* slice timer ends its run before the period of any waiting vCPU begins.  *)
NoOversleep ==
    at = "guest" /\ curr # IDLE /\ ~softirq =>
        \A v \in Vcpus :
            OnQ(waitq, v) => PERIOD_BEGIN(v) >= current_slice_expires

(* Guaranteed time comes first: while nobody has to be told to reschedule, *)
(* no vCPU runs in extra time and the CPU does not idle when there is a    *)
(* vCPU on the runqueue, nor into the period of one on the wait queue, be  *)
(* it one that has just been woken.  (Tasklet work overrides this.)        *)
ExtraGivesWay ==
    /\ at = "guest"
    /\ ~softirq
    /\ now < current_slice_expires
    /\ curr = IDLE \/ extra_runs(curr)
    => /\ runq = << >>
       /\ \A v \in Vcpus :
             OnQ(waitq, v) => PERIOD_BEGIN(v) >= current_slice_expires

(* The EDF deadline never runs behind that of the CBS server.              *)
DeadlineNotBehindServer ==
    \A v \in Vcpus : deadl_abs[v] >= cbs_current_deadline[v]

(* "Decrement CBS budget based on time vCPU has run": do_schedule takes    *)
(* budget only from the vCPU that has been running.                        *)
BudgetPaysForTime ==
    [][at = "called" =>
         \A v \in Vcpus : cbs_current_budget'[v] # cbs_current_budget[v]
                            => v = curr]_vars

(* The accounting that the shared budget leaves: somebody else than the    *)
(* vCPU that has been running pays only when his server is already in      *)
(* debt, because only such a vCPU gets in front of the running one.        *)
(* (Tasklet work overrides this as well.)                                  *)
OnlyDebtorsPayForOthers ==
    [][at = "called" =>
         \A v \in Vcpus : cbs_current_budget'[v] # cbs_current_budget[v]
                            => v = curr \/ cbs_current_budget[v] < 0]_vars

(* "This function wakes up a domain, i.e. moves them into the waitqueue":  *)
(* unless its server is in debt, a vCPU comes to the runqueue through the  *)
(* wait queue only, so that no wakeup gets round the replenishment of      *)
(* update_queues.                                                          *)
SolventWakesWait ==
    [][\A v \in Vcpus :
          ~OnTaskQ(v) /\ cbs_current_budget[v] >= 0 => ~OnQ(runq', v)]_vars

(* Nobody runs on: while no call is on its way and no reschedule is        *)
(* pending, the vCPU on the CPU is one that the hypervisor lets run.       *)
(* (sedf_sleep tells the CPU, and do_schedule looks at vcpu_runnable.)     *)
StopsRunning ==
    at = "guest" /\ ~softirq /\ curr # IDLE =>
        runnable[curr] \/ pend[curr] # {}

(* A wakeup that has come to nothing: the hypervisor lets the vCPU run, no *)
(* wake call is on its way, and the scheduler's books say it is asleep.    *)
WakeupLost(v) ==
    runnable[v] /\ "wake" \notin pend[v] /\ ~sedf_runnable(status, v)

(* A wakeup is lost in one way only: sedf_wake meets a vCPU that has been  *)
(* put to sleep and that do_schedule has yet to take off its queue, and    *)
(* returns because it is still queued.  No reordering of sleep and wake    *)
(* calls, no snapshot of vcpu_runnable and no blocking does it.            *)
WakeLostOnlyInRace ==
    [][\A v \in Vcpus :
          ~WakeupLost(v) /\ WakeupLost(v)'
            => Descheduling(v) /\ ~sedf_runnable(status, v)]_vars

-----------------------------------------------------------------------------
(* Progress.  The softirq handler runs on the CPU it schedules, with       *)
(* interrupts off under the lock: once raised it is entered, and once it   *)
(* runs it goes on.  Nothing else is fair: the guest, the timer and the    *)
(* clock may stand still.                                                  *)
FairSpec == Spec /\ WF_vars(DoSchedule)

(* A reschedule request is served: the softirq leads to a choice, so the   *)
(* two loops of update_queues, which edit the lists they walk, come to an  *)
(* end.                                                                    *)
ScheduleServed == softirq ~> at = "pick"

-----------------------------------------------------------------------------
(* What the comments say and the code does not do. *)

(* "pick the first domain from the runqueue, which has the earliest        *)
(* deadline, because the list is sorted".                                  *)
PickIsEarliestDeadline ==
    at = "pick" /\ runq # << >> =>
        \A v \in Vcpus : OnQ(runq, v) => deadl_abs[runq[1]] <= deadl_abs[v]

(* "This function wakes up a domain, i.e. moves them into the waitqueue":  *)
(* when no call is on its way, a vCPU that the hypervisor lets run is      *)
(* awake in the scheduler's books, hence queued.                           *)
NoLostWakeup ==
    \A v \in Vcpus :
        runnable[v] /\ pend[v] = {} => sedf_runnable(status, v)
=============================================================================
