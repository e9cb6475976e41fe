# Verification of the sEDF/CBS scheduler

This directory holds TLA+ models of the repository's two programs, the TLC
configurations that check them and the TLAPS proofs about them:

- `SEDFCode/sched_sedf.c`, Xen's Simple EDF scheduler extended by constant
  bandwidth servers (CBS). It is the core of the repository and of the models.
- `Simulator/src`, a user-space simulation of CBS servers under EDF.

`Test/main.c` is an interactive menu that burns CPU time inside a guest; it has
no scheduling state and is not modelled.

## 1. Inventory

| Component | State | Operations | Interaction |
|---|---|---|---|
| scheduler queues (`sched_sedf.c` 136-308) | per CPU: run queue, wait queue, two extra-time queues; per vCPU: its list nodes and scores | `list_insert_sort`, `__del_from_queue`, `extraq_*` | called by all handlers under the runqueue lock |
| schedule decision (438-941) | status bits, deadlines, `cputime`, CBS budget and deadline, `current_slice_expires` | `sedf_do_schedule`: charge, deschedule, `update_queues`, choose | entered from the schedule softirq; its `now` is read before the lock |
| sleep and wake (944-1284) | `SEDF_ASLEEP`, `block_abs`, penalty score | `sedf_sleep`, `sedf_wake` | called after the pause flags change, which the lock does not protect; raise the softirq |
| domain adjustment (1396-1615) | `period`, `slice`, their `_orig`, weights, `EXTRA_AWARE` | `sedf_adjust`, `sedf_adjust_weights` | takes and drops the runqueue lock once per vCPU, so that the scheduler runs in between |
| lifecycle (311-417, 781-803) | allocation of the above | alloc, insert, free, init | called by the hypervisor at any time for vCPUs, at bring-up and teardown of CPUs; no hook for removal or migration |
| placement (423-432) | none | `sedf_pick_cpu` | called when a vCPU is placed |
| debug output (1288-1393) | none | dumps | reads only |
| simulator servers (`cbs.c`, `edf.c`) | per server: budget, deadline, current job, waiting jobs | `AddJob`, `DoWork`, `RegisterVCPU`, `GetServerWithED` | called by the loop |
| simulator loop (`main.c`) | time, next event, recorded run events | `main`, `StartSimulation`, `PrintResult` | sequential |
| parser, vector, lists (`parser.c`, `vector.c`, `list.h`) | memory | read the file; grow, add, remove; link, unlink | used by the simulator; the hypervisor has its own `list.h` |

What is hard here:

- *Interleaving.* The pause flags change without the scheduler's lock, and the
  calls that announce the change (`sedf_sleep`, `sedf_wake`) come later and in
  any order with `do_schedule`.
- *Stale time.* `do_schedule` gets a `now` that was read before the lock; a
  wakeup under the lock may have used a later one.
- *Sort keys that change in place.* `cbs_update`, `sedf_adjust` and the
  charging of scores change the key of a linked node.
- *Lists edited while they are walked* in `update_queues`.
- *Arithmetic.* Integer bandwidth, scores in a C `int`, slices that become zero
  or negative.
- *Two bookkeepings of one thing.* The CBS deadline and budget next to the EDF
  deadline and slice.

What makes each component correct: a vCPU that is awake is linked exactly once
and a sleeping one not at all; the running vCPU is where its descheduling will
look for it; the head of the run queue has budget, slice and a deadline that
has not passed; the slice timer ends each run before a waiting period begins;
guaranteed time comes before extra time; a wakeup is not lost; a reschedule is
served. For the simulator: an active server gets its budget before its
deadline, jobs of a vCPU are served in order, and the run ends with all work
done and all memory freed. For the lists and vectors: the pointers are those of
the sequences they stand for, and no access is out of bounds. `PROJECT.json` lists the hazards at their lines with the properties that
cover them.

## 2. Modules

| Module | Content |
|---|---|
| `SedfQueues` | list operations as operators on sequences |
| `SedfCore` | the scheduler on one CPU: `Init`, the hypervisor around it, `sedf_sleep`, `sedf_wake`, `sedf_do_schedule` |
| `SedfProps` | type invariant, safety and action properties, fairness and liveness of `SedfCore` |
| `SedfAdjust` | `sedf_adjust`, composed with `SedfCore` |
| `SedfLifecycle` | vCPUs that are allocated, freed and migrated and CPUs that leave and join, around `SedfCore`; `sedf_pick_cpu` |
| `LinkedList` | the pointers of `list.h` |
| `DataProofs` | what the list operations do to sequences, and that the pointers implement them; sums, products and quotients |
| `SedfProofs` | `SedfCore`: types and placement |
| `SedfCallProofs`, `SedfServerProofs` | `SedfCore`: sleep and wake calls and the extra-time queues; the choice, its deadlines, who pays, and that `do_schedule` ends |
| `SedfAdjustProofs` | `SedfAdjust` |
| `SedfLifecycleProofs` | `SedfLifecycle` |
| `CbsServer`, `Simulator` | servers as records; the simulator's `main` loop |
| `Vector`, `SimMemory` | `vector.c`; the memory of the simulator: allocation, growth, lists, drawing, cleanup; composed with `Simulator` |
| `FifoCpu` | abstract: one CPU that serves several FIFO clients and rests only when none has work |
| `SimulatorProps`, `SimulatorProofs` | properties of the simulator, which implements `FifoCpu`, and their proofs |
| `SimMemoryProofs` | `SimMemory` |
| `MCSedf`, `MCAdjust`, `MCLifecycle`, `MCSimulator` | instances for TLC |

`SedfCore` is the common part: `SedfAdjust` and `SedfLifecycle` each EXTEND it
and put their actions next to its own. `SimMemory` refines every action of
`Simulator` by what it does to the memory.

### How SedfCore corresponds to the code

A field of `struct sedf_vcpu_info` is a function on `Vcpus`, a field of
`struct sedf_cpu_info` a variable, and both keep their names. A queue is the
sequence of vCPUs from `head->next` to `head->prev`. The status word is a set
of flags. `block_abs` is only ever compared with 0 and is the boolean
`blocked`. `short_block_lost_tot` is set and used within one call and is the
local `lost`; in `desched_extra_dom` the code sets it to 0 in the same call and
reads it nowhere else. Statistics and `printk` are left out. The CPU is one of
the pool, so that `cpumask_test_cpu` holds; the other case takes the same
branch as tasklet work.

`sedf_do_schedule` is cut into steps at its loops (variable `at`):

    guest -ScheduleCalled-> called -ChargeBudget-> desched -desched_*-> waitq
          -PromoteWaiting*, WaitqDone-> runq
          -SkipEmptySlice*, ForgiveMiss*, StopAtRunnable | RunqDone-> pick
          -Pick*-> guest

From `ChargeBudget` to the choice the runqueue lock is held, and no other
handler runs. The pause flags are not protected by it; the code reads them once,
in `desched`, so that a change under the lock is equivalent to one just before
or after it, and the environment steps are left to the `LockFree` points. The
environment is external: `Block`, `Pause` and `Resume` set the pause flag and
put a call on its way (`pend`), `Drop` is a call whose condition is gone when
the lock is taken, `Yield` stands for all other reasons to reschedule, `Tick`
for time. A vCPU may be let run again before it is off the CPU: the hypervisor
has pausers that wait for that and pausers that do not, and nothing in the
scheduler asks for the one or the other.

A run lasts until `current_slice_expires`, and its last action gives a time of
`current_slice_expires - now`. The three checks that this is positive, the
`ASSERT(end_xt > now)` (731, 775) and `CHECK(ret.time > 0)` (937), do not change
the course of the code, and `ZeroTime` says when they fail. The `BUG_ON(1)` on a
negative time (928) stops it, at `"bug"`.

`Params` is what the vCPUs start with: `NewVcpu`, as `sedf_alloc_vdata` sets it,
or what `sedf_adjust` has made of it before the domain is started. `cbs_period`
and `cbs_max_budget` have no other values than the defaults.

The write of `budgetinf->cbs_current_budget` with an empty run queue goes
behind `struct sedf_cpu_info` and is outside the modelled state.

### How SedfAdjust corresponds to the code

One step per lock hold (`set_extratime_only`, `set_weight`, `set_times`,
`spread_weight`, `set_flags`), and steps between the loops. `sumw` and `sumt`
are computed without the runqueue lock from fields that only `sedf_adjust`
writes under the scheduler lock, except `slice_orig` and `period_orig`, which
nobody else writes either: they do not change between the loops, and are
operators. `call` is the progress of the call. Requests
that the code rejects change nothing and are not in `Requests`.

### How SedfLifecycle corresponds to the code

The scheduler has neither `remove_vcpu` nor a migrate hook: it never takes a
vCPU off its queues because that is freed or moves. It relies on the hypervisor
to let the vCPU sleep first. `Quiet` states this external condition: the
vCPU is paused, no call for it is on its way, and it is off the CPU
(`vcpu_sleep_sync`, or `vcpu_migrate` after its reschedule). `vcpu_migrate`
itself is external, `sedf_pick_cpu` in it is not. There are several CPUs, and
the queues of one of them, `ThisCpu`; a vCPU elsewhere is followed by its
`processor` only, and brings back one of the states in `Away` when it returns,
asleep. `cpu_leaves` takes a CPU out of the pool, `sedf_free_pdata` frees its
data when every vCPU has been moved away, and `sedf_alloc_pdata` gives it empty
queues again; in between, nothing schedules there. A CPU that has left the pool and
still has its data chooses the idle vCPU (869-870, `PickOffPool`). A vCPU may be allocated and
freed at any time between two steps of the scheduler.

### How LinkedList corresponds to the code

`l.next` and `l.prev` are the fields of all `struct list_head`, each operator
the assignments of one function in their order. `Represents` says that a walk
from the head meets a sequence, forwards and backwards. `DataProofs` adds
`list_insert_sort` of `sched_sedf.c` on pointers.

### How Simulator corresponds to the code

`main` is sequential. What varies is the file, an element of `Inputs`, and the
order in which `qsort`, which is not stable, leaves events of one time. An
iteration of the `for` at `main.c` 75 is `Arrive` or `DropEvent`, one of the
`while` is `Work`, `Idle` or `IdleAtEnd`; the last reads `events[count]`, and as no
event and no job will come, the program is in that branch for ever (`at =
"overrun"`). The list of events may be empty. The bandwidth is a `double` in the
source; `OutOfDate` compares the exact quotients. Work, budgets and periods are
positive and the file is well-formed, as `parser.h` demands.

`SimMemory` names a block of memory by what it was allocated for, so that no
address is used twice and a use after free cannot be hidden by a reallocation.
A step that uses a block that is not allocated, writes behind the end of the
data of a vector or frees twice sets `invalid`. The cursors of `list_for_each_safe` are
variables, one step per node. The runs create vectors with room for 2 elements
instead of 10, so that five jobs make them grow twice. `vector.c` allocates its
`sizes` array in units of `int` (7) and uses it in units of `size_t`. `SIZEOF_INT`
and `SIZEOF_SIZE_T` are 4 and 8 in the runs, as on an LP64 build, and there the array
is overrun as soon as more than half of the slots are in use (with room for 10: by
the sixth element). What such a write destroys is not known, so that the model
follows the program as if it had destroyed nothing, and records the vector in
`overrun`. `SizesOverrun` says exactly which vectors are in it, on any build.
`AccessesValid` is about all other accesses.
`vector_set`, `vector_insert`, `vector_swap`, `vector_index` and `subvector`
have no caller and are left out. Of `PrintResult` the charts are modelled, as
sequences of signs; the time scale and the wording are not.

## 3. Runs

### Runs that pass

| Run | Instance | What it shows |
|---|---|---|
| `default` | two vCPUs, `CBS_PERIOD = CBS_MAX_BUDGET` as `sedf_alloc_vdata` sets them, time up to 5, two blocks or pauses | queue discipline and status; wakeups are lost in one race only; who pays for time |
| `adjusted` | three vCPUs, every mixture of the default, a time-driven vCPU (half of the period, no extra time), one with extra time only, and one with neither slice nor extra weight; no stop, timer up to two units late | what the scheduler promises for parameters that `sedf_adjust` leaves: who is chosen may run, a time of zero has two causes, guaranteed time goes first, extra time is charged alike; a run overruns two slices and an empty slice is skipped, so that `update_queues` moves the vCPU it visits; the division by zero is reached |
| `tasklet` | tasklet work at any choice; default parameters or a period and slice of half of `CBS_PERIOD`; time up to 6, no stop, `FairSpec` | no negative slice when the CPU is taken away for a second; the wait queue is out of order only after a renewal in place; `ScheduleServed` |
| `lifecycle` | two vCPUs, two CPUs, every affinity mask, two states to come back in; time up to 2, one stop | no pointer is left to a vCPU that has gone; every vCPU is on a CPU with data |
| `adjust` | two calls in a row, of any two kinds (extra time only, weighted, timed with and without extra time), each for one domain, the other or both; time up to 2, `WEIGHT_PERIOD = 6` | queue discipline under concurrent adjustment, with the keys of linked vCPUs changing; the shares still fit after the second call |
| `sim_jobs` | two servers that use the CPU fully, all lists of none to three events over two sizes and four times; one server next to a refused and an unknown name, and two servers of one name next to a third, none to two events each; one server and five jobs at once; `int` of 4 and `size_t` of 8 bytes | admission, budget before deadline, jobs in order, all work done; refused jobs leave the others' work untouched; vectors and lists hold what they should while they grow and shrink, the charts show the run, and all memory is freed once and never used after; which arrays of sizes are overrun; the only way not to end |

`adjusted` has three vCPUs because two others must be on an extra queue when the
one that has run is put back: only then is there somebody behind the place of
insertion to be charged (204). `adjusted` and `tasklet` leave the stops to `default`:
what they add are the parameters and the tasklet work, and the theorems of
section 4 cover the combination.
`MaxTime`, `MaxStops`, `MaxAdjusts` are guards on the environment, not on the
scheduler: a behaviour stops having new events, and the scheduler finishes what
is under way. The bounds are enough for the cases to occur: with a period of 2 and time up to
5 a vCPU uses up a slice, waits, is replenished, misses a deadline and is
forgiven; with two stops it blocks, wakes early, short and long, and enters
and leaves the penalty queue; with two vCPUs one runs while the other wakes,
sleeps, waits or is queued in front. `MaxLatency` lets the slice timer be one
unit late, and two in `adjusted`. The wait for the lock (`at = "called"`) is not bounded by it.
`INT_MAX = 31` is wide enough for the scores in all passing runs, so that none of
them wraps; scores that wrap are in no run (section 4, `ScoresFit`).

`OnlyDebtorsPayForOthers` is a property of a CPU without tasklet work.
`do_schedule` charges the vCPU at the head of the run queue, whoever has been
running. That is the running one, or one that was woken while its server was in
debt: `cbs_wake` moves the deadline and leaves the budget, so that a vCPU that
overran, blocked, woke, was paused on the wait queue and resumed after the new
deadline comes straight to the run queue, in front of the running one.
`SolventWakesWait` says that this is the only way round the wait queue. The
exception is beyond the bounds of `default`, where nobody else ever pays; TLC finds
it with `CBS_PERIOD = CBS_MAX_BUDGET = 1` and `MaxTime = 6`, and the theorems hold
with and without it.

### Runs that are violated

Each states what a comment or check of the code says, and finds that the code
does otherwise; `PROJECT.json` quotes the lines.

| Run | Statement | What happens |
|---|---|---|
| `overload` | no negative time "with CBS" (923) | a weight meets a vCPU that still has its whole period as slice: the weighted slice is negative, and `BUG_ON(1)` (928) is reached |
| `wrong_payer` | budget is for time the vCPU has run (828) | after tasklet work the head of the run queue pays for the idle vCPU |
| `not_earliest` | the head has the earliest deadline (860) | `cbs_update` moves the head's deadline and leaves it at the head |
| `adjust_no_divisor` | no extra weight means a slice (1549) | a weighted slice of 0, and a division by it |
| `lost_wakeup` | `sedf_wake` "wakes up a domain" (968) | it returns at once for a vCPU that is marked asleep and still queued (1189); `do_schedule` then takes that off its queue, and it sleeps on |
| `sim_overrun` | `count` events (`main.c` 16) | `events[count]` is read, when there is no event or the last one is dropped, and the loop does not end |

Met while modelling, and not kept as runs:

- The wait queue loses its order in two ways, and in no others: a new period changes
  the key of a vCPU that stays linked (1569, `OrderLostOnlyByPeriods`), and, with a
  period shorter than `cbs_period`, which `sedf_adjust` allows (`PERIOD_MIN` is 10us),
  `update_queues` renews the deadline of the wait queue's head, finds that its
  period, which now begins later, has not begun, and leaves it at the head (533,
  `OrderLostOnlyByRenewal`). The vCPUs behind it then wait for it: the slice timer is
  set by the head alone, so that the CPU idles or runs somebody else into
  their periods. `NoOversleep` is therefore checked with periods of `CBS_PERIOD`.
- A time of 0 is handed out, although `CHECK(ret.time > 0)` (937): a vCPU
  whose `cputime` is exactly its slice passes `update_queues`, which tests
  `cputime > slice` (570); and a vCPU without a slice that is put on the wait queue with
  its period beginning now is left there, so that extra time, or idling, ends as it
  begins, against `ASSERT(end_xt > now)` (731, 775). The timer is due
  at once, and a choice at a later time goes on. `ZeroTime` says that these are the
  two cases.
- On an LP64 build the array of the sizes of a vector is overrun (`SizesOverrun`).
- `AwareIffOnUtilQ` fails under `SedfAdjust`: a vCPU that loses `EXTRA_AWARE`
  while it runs from the penalty queue stays on the utilisation queue until it is
  picked from there, because `extraq_check` spares any vCPU that runs in extra
  time (220).
- With the default CBS parameters each vCPU without a weight takes a whole
  `WEIGHT_PERIOD` of `sumt`, so that any weight given first makes a slice
  negative (run `overload`). The proofs about the choice therefore assume that no
  start slice is negative, and those about `sedf_adjust` that the times leave room
  (`RoomLeft`).
- An extra-time-only request for a vCPU whose period was longer than
  `WEIGHT_PERIOD` does not last: `desched_edf_dom` takes a period different from
  `period_orig` for one that was scaled, and brings back `slice_orig`, which
  the request has left alone (1529, 463). No property is about this: that a
  slice taken away stays away is not true, and with periods up to `WEIGHT_PERIOD` there
  is nothing that could bring it back.
- `sedf_pick_cpu` places vCPU 0 of every domain on the first CPU of its mask, and
  does not spread vCPUs over a mask such as {2, 3}, whose members are all larger
  than the numbers it starts from (430).
- The EDF deadline is never behind that of the server (`DeadlineNotBehindServer`), but
  there is no bound on how far it gets ahead of it, of which this is one cause:
  the deadline that `cbs_wake` computes is moved out by a period by the
  short-unblock path that follows it (1172, 1050).
- Two hopes of the comments: a deadline does pass with budget left (568), and
  extra time is used although every vCPU has a CBS (906).
- A vCPU that is woken while another runs in extra time, repaid from the penalty
  queue and blocked again is charged for each run of the other and never gets
  its turn: its score falls without a bound (195). With a C `int` and a weight
  of 1 it takes about 2^14 rounds until it wraps.

### Fairness

`FairSpec` is weak fairness of `DoSchedule` only: the softirq handler runs on
the CPU it schedules and, once in, runs with interrupts off to its end. The
guest, the timer, the clock and the toolstack owe nothing. Time is bounded, so
that `ScheduleServed` says that the traversals end for a fixed `now`; it does
not depend on later ticks. `SimSpec` is weakly fair because the program is
sequential and does not wait; `Exits` has one exception, the loop of run
`sim_overrun`, which goes on but does not get anywhere. `FifoSpec` is fair to `Serve`, which the
simulator has to implement.

Deadlock is checked in `default`, `tasklet` and `lifecycle`: a handler that holds
the lock can always go on. It is off where the modelled program stops: at the end
of the simulation, and at a BUG_ON or a division by zero that the parameters
of `adjusted` and of the runs of `SedfAdjust` can reach.

## 4. Proofs

Assumed are the properties of the constants (`ConstantsAssumption`,
`IntAssumption`, `LifecycleAssumption`, `InputAssumption`, ...): distinct
sentinels, positive period, budget and quanta, start parameters of the right
types (a slice may be zero or negative), well-formed input files. The number of
vCPUs, CPUs and events, the times and all bounds are arbitrary. Where a theorem
needs more, its statement says so, and TLC has a counterexample without it
(section 3):

| Hypothesis | Theorems | Why |
|---|---|---|
| start slices not negative | `ServerCorrect`, `HeadAlwaysFit`, `NeverSeriouslyBehind`, `AdjustedHeadFit`, `AdjustedNeverBehind` | `update_queues` cannot forgive a negative slice |
| `LongParams`: start periods of at least `CBS_PERIOD` | `SleepersWakeInTime`, `GuaranteesComeFirst` | the renewed head of the wait queue |
| no tasklet work | `GuaranteesComeFirst`, `RightPayer` | the idle vCPU runs tasklets before everybody else |
| `[]ScoresFit`: differences of scores fit into an `int` | `ExtraInOrder` | the scores wrap |
| finitely many vCPUs | `ScheduleProgresses` | its measure is a sum over them |
| `[]RoomLeft`: while weights are spread, the times leave room | `AdjustedHeadFit`, `AdjustedNeverBehind` | run `overload` |

`ScoresFit` and `RoomLeft` are conditions on a behaviour and not on the constants:
no bound on the parameters keeps a score from wrapping, or an administrator from
asking for too much. What `sedf_alloc_vdata` sets satisfies the conditions on
start parameters.

**Lists.** `DataProofs` states what the list operations do: deletion removes exactly
its element and keeps the order and the sorting of the rest, sorted insertion
adds exactly its element, keeps the order of the others, and keeps a sorted
queue sorted (`InsertSorted`). They are lemmas with `ASSUME ... PROVE`, proved
from the element-wise descriptions of `RemoveAt` and `InsertAt`.

**Sums.** The induction theorems of the library cannot be instantiated with an
operator, but induction over a *set* can be had from well-foundedness: the set of
numbers, or of subsets of a finite set, for which a fact holds is closed under one
more element, and so it is everything (`SetInduction`, `SubsetInduction`). With
this `DataProofs` shows that the fold of the community modules is computed by a
function on subsets (`FoldExists`), by one only (`FoldUnique`), taking the elements
in any order (`FoldAny`). `SumAny`, `SumChanged`, `SumMonotone`, `SumScaled`,
`SumPart` and `SharesOfWhole` (shares rounded down add up to no more than the
whole) are what the proofs below cite.

The second half of `DataProofs` is the data refinement below that. `Linked` relates the two
pointer fields to several sequences over the same nodes: each list is circular
in both directions, no node is on two, and a node on none has a `next` of NULL.
`InsertSortImplemented` and `DelImplemented` show that the pointer operations
keep `Linked` for the sequences that `ListInsertSort` and `DelFromQ` yield, and
`OnQueueImplemented` that `__task_on_queue`, which looks at one pointer, is `OnQ`.
`__task_on_queue` and `extraq_on` use different nodes of a vCPU; the theorems are
for one kind of node.

**Placement.** `SedfProofs` proves the inductive invariant `QInv == TypeOK /\ Placement`, where
`Placement` is the conjunction of

- `QueuesDisjoint`: nobody is linked twice;
- `CursorOnRunq`: the saved cursor of `update_queues` stays on the run queue;
- `AwakeIffQueued`: awake vCPUs are queued, sleeping ones only while they are
  about to be descheduled;
- `ExtraOnlyIfQueued`: whoever is on an extra queue is on a task queue;
- `ExtraRunWellPlaced`, `EdfRunOnRunq`: the running vCPU is where
  `desched_extra_dom` or `desched_edf_dom` expects it.

None of them is inductive alone. That a vCPU is not linked twice when
`sedf_wake` inserts it needs its guard; when `desched_edf_dom` inserts it, that
it was on the run queue (`EdfRunOnRunq`); when `update_queues` does, that the
cursor is on the run queue; that `desched_extra_dom` leaves nobody asleep and
queued needs `ExtraRunWellPlaced`; and the types need all of these, since the
traversals index the queues. One lemma per action shows that the step preserves
`QInv` (`EnvironmentPlaced`, `SleepPlaced`, `WakePlaced`, `EdfPlaced`,
`ExtraPlaced`, `PromotePlaced`, `ForgivePlaced`, ...), `StepPlaced` puts them
together, and `QueuesWellPlaced` is `Spec => []QInv`. The other theorems of the
module are its consequences, one for each of its conjuncts; the invariants
below are inductive relative to it.

**Calls** (`SedfCallProofs`). Pause flag and status bit agree up to what is on
its way: a vCPU that is awake and must not run has a sleep call coming or will
be looked at by `do_schedule` (`SleepOnItsWay`); unless the softirq is raised,
the current vCPU is awake (`CurrentAwake`). Together they give `StopsRunning`.
`WakeupsLostInRace` is the opposite direction: by `AwakeIffQueued` a vCPU that is
asleep and queued is about to be descheduled, so that this is the only one for
which a wake call returns without waking it.

**Extra time** (`SedfCallProofs`). `AwareIffOnUtilQ` and `PenQWanted` are
inductive relative to `QInv`: what `desched_extra_dom` takes off and puts back
depends on the running flags, and `ExtraRunWellPlaced` says that they tell the
truth. `ExtraInOrder`: `extraq_add_sort_update` charges every vCPU that it passes
and, behind the place of insertion, all the rest, so that the differences of the
others stay; `desched_extra_dom` gives a new score only to a vCPU that it has taken
off.

**The choice** (`SedfServerProofs`). `ServerInv` follows the second loop of
`update_queues`: all vCPUs in front of the cursor are fit to run (`PassedFit`). A
reinserted vCPU that comes to stand in front of the cursor is fit because it
has a fresh slice and budget; the loop stops at the first fit one. `HeadWaits`
carries the result of the first loop, that the periods on the wait queue begin
later than now, through the second, which may add to it. At the choice, these
give `HeadCanRun`, and with it the time slice is never negative (`NeverBehind`).
`ZeroTimeCases` needs nothing about the start parameters: the head of the wait queue that the first loop has left
there, or the second has put there, has a period that does not begin now, or no slice.

**The wait queue and the timer** (`SedfServerProofs`). The keys of waiting vCPUs
change only for the one that is put in
again, and for the head that `update_queues` renews: `OrderLostByRenewal`, for all
parameters. The new deadline is one `CBS_PERIOD` ahead, so that a period at least as long
has begun and the vCPU leaves the queue (`WaitqSorted` is inductive with `PeriodsLong`). `RunEnds` says that
the slice timer is set no later than the first waiting period; a wakeup may put a
vCPU in front of that, but raises the softirq. `NobodyReady` is the same for vCPUs
on the run queue while the CPU idles or gives extra time away. Together they give
`NoOversleep` and `ExtraGivesWay`.

**Who pays** (`SedfServerProofs`). `DebtorsInFront`: in front of the running vCPU, or on
the run queue of a CPU that idles or gives extra time away, there are only vCPUs
whose server is in debt. It is kept by wakeups because `cbs_wake` gives everybody
else a deadline ahead of now, and `SolventWake` shows that the later branches
of `sedf_wake` cannot take that back. `RightPayer` and `WakeupsReplenished` follow.

**Adjustment** (`SedfAdjustProofs`). `AInv == QInv /\ CallTypeOK` adds the progress of
the call: `PlacedWhileAdjusted` shows that the placement invariant holds between any
two lock holds. `set_flags` is the step that could break it: it reinserts
on the extra queues, and must spare a vCPU that runs from them. `OrderLostByPeriods` adds
to `OrderLostByRenewal` that a call disturbs the wait queue only where it gives another
period to a vCPU on it (`PeriodsKeepOrder`). `SharesGiven` says that,
except in the first loop of a call, whoever has a weight has the share that the weights
and times of *now* give him, or is still to be visited; since shares are rounded down,
`WeightsShareTheRest` follows from `SharesOfWhole`. The invariant `ServerInv` of the
choice survives as long as no slice becomes negative, which `RoomLeft` rules out.

**Lifecycle** (`SedfLifecycleProofs`). `LifeInv` combines three layers: by `QInv`
a vCPU that is asleep and not about to be descheduled is on no queue; by
`CallInv` one that must not run, without a call on its way, is asleep; and the
hypervisor moves or frees only quiet ones, so that a vCPU that is not here is
`Off` and stays so (`AwayIsOff`). `Pools` says that the CPUs that take vCPUs have data;
that `sedf_pick_cpu` chooses among them is `PickCpuOnline`.

**Simulator** (`SimulatorProofs`). `SimInv` adds to the three properties that
only the first server of a name is ever active, and that names and work come
from the input. `ImplementsFifo` shows that every step maps to a step of
`FifoCpu` or leaves its state alone, under the refinement mapping `Backlog`: an
arrival appends to one client's backlog, `DoWork` takes one unit from the head
of one, the idle branch moves the clock only while all are empty.

`BudgetsInTime` is the processor-demand criterion of EDF as an invariant. `DemandMet`
says that for every D the work that active servers must get before D, and that their
shares will bring, fits between now and D. An arrival keeps it because `AddJob` renews
the deadline of a server that would otherwise take more than its share; a unit of work
because `GetServerWithED` takes the earliest deadline, so that the demand before any
D at or after that shrinks by the unit, and before it is zero. `OnTime` (events arrive in
order and none lies in the past) and `DeadlineAhead` complete it. `AdmissionCorrect` rests on
`CapacitySpent`: what the servers have and what is left is the capacity. For `ArrivalsRecorded`
and `WorkDone` the invariant `BooksKept` balances, per vCPU, the entries of its record
against the events handled: arrivals by time, ends plus jobs in the backlog, units of work
plus work in the backlog.

**Memory** (`SimMemoryProofs`). `MemoryRefinesSimulator`: `MemSpec` takes the steps of
`Simulator`, so that everything above about its loop holds for it too. The inductive
invariant is `MemInv`, with the parts

- `LedgerInv`, what is known of the loop;
- `Stage`: how far `main` and its cleanup are;
- `ServersKept`, `JobsKept`: the vectors hold the copies of the servers, and for every
  server one copy of each waiting job, in order, no copy twice or in two vectors;
- `ListsKept`: the nodes are those of the run events, and the lists that are not being
  cleaned up are circular, in both directions, and disjoint;
- `HeapKept`: for each stage, exactly the blocks that are allocated.

A step uses only blocks that `HeapKept` lists (`MemorySafe`), on any build, and at the exit it lists none (`EverythingFreed`);
`MemoryHoldsSimulation` reads `MemoryMatches` off the vectors and lists. That the walks of the
cleanup reach each node once needs `ListsKept` for the rest of the list, with the first nodes
gone; that a removed job is freed once needs the copies apart. For the charts, `RunsInOrder`
says that the entries of a record are in the order of their times and that only an arrival
is followed by an entry of the same time; the fold over them is then described
entry by entry, as in `FoldExists`.

`SizesAsCounted` is about the arrays of sizes: a vector grows when it is full, which on
a build with a wide `size_t` is after the overrun, and by an array that is as narrow again, so that
`overrun` depends only on whether there have been more than `SizesRoom` elements.
The servers are never removed; that a vector of jobs has held no more elements than its
vCPU had events is read off `BooksKept`.

**Progress.** Liveness rests on fairness and on a measure, and the measure can be had.
`ScheduleProgresses`: every step of `do_schedule`, from `ChargeBudget` on, makes `StepsLeft`
smaller, which is at most 5 and 4 for each vCPU. A vCPU on the wait queue can be promoted once
and visited three times. `update_queues` visits no vCPU more often, though it puts it
back on the queue that it walks: its new deadline is no longer behind `now`, and the
one after that is ahead of it. So the loops under the lock end for all
parameters and every order of the queues. `LoopProgresses` is the same for
`StartSimulation`: at most two iterations, two for each event (one to move the
clock to it) and one for each unit of work, until the loop is left or in the branch
that reads `events[count]`. The theorem says of that branch that the loop stays in it for
ever, and that it is reached only without an event or after a last event for no registered
vCPU. Neither says that a step is possible where
the measure is not used up: for that TLC checks for deadlock and liveness.

Only model-checked are `ScheduleServed`, `Exits` and the fairness that `SchedulesFifo`
contains: liveness and ENABLED are out of the prover's reach.

## 5. Not modelled

- `struct sedf_dom_info`: it is allocated and freed, and nothing reads it.
- Allocation failures. Those that are returned change nothing, and
  `BUG_ON(spc == NULL)` and an unchecked `malloc` of the simulator end the run.
- What a vCPU does on other CPUs, and two CPUs that schedule at the same time:
  they share no queue and no lock; `sedf_adjust`, which visits vCPUs of several
  CPUs, is modelled for one.
- The reading of the input file, the time scale that `PrintResult` prints, the
  debug dumps and the workload menu: they have no state of their own.
- What a write behind the array of the sizes of a vector destroys: only that it
  happens is recorded.
- The functions of `vector.c` and `list.h` that nobody calls.
- The write of `budgetinf->cbs_current_budget` behind `struct sedf_cpu_info`
  (830): what it hits is outside the state.
- `latency` and `unblock_abs`, which the code writes or declares and never uses.
- Statistics (`SEDF_STATS`).

## 6. Plan

1. Done: `SedfQueues`, `SedfCore`, `SedfProps`, `SedfAdjust`, `CbsServer`,
   `Simulator`, `FifoCpu`; `DataProofs`, `SedfProofs`.
2. Done: `SedfLifecycle`, `LinkedList`, `Vector`, `SimMemory`; the proofs of the
   calls, the extra queues, the choice, the lifecycle, the lists and the
   simulator with the safety part of its refinement.
3. Done: the proofs of the order of the queues, of the slice timer and of who
   pays; of `SedfAdjust`; of the budgets, the admission and the books of the
   simulator.
4. Done: the proofs of the memory of the simulator and of its charts; the measures of
   `do_schedule` and of the simulator's loop.
5. Done: the cases in which a wakeup, the order of the wait queue or the time
   of a run is lost, and those in which the simulator overruns its sizes or never ends, as
   properties that say so exactly, with their proofs for all parameters; short periods,
   three vCPUs in extra time and empty event lists in the runs.
6. Left: `CbsContract`, what a constant bandwidth server promises in every interval,
   with the CBS part of `SedfCore` measured against it (for `CbsServer`,
   `DemandMet` comes close).
