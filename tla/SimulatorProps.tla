--------------------------- MODULE SimulatorProps ---------------------------
(***************************************************************************)
(* What the simulator promises: servers that keep their budget and their   *)
(* deadline, a schedule that is one of FifoCpu, and a run that ends with   *)
(* all work done.                                                          *)
(***************************************************************************)
EXTENDS Simulator, Functions

(* The names and the job sizes that occur in the inputs. *)
AllNames == UNION {Names(input) : input \in Inputs}
AllWorks == UNION {{input.events[k].requiredProcessingTime :
                       k \in DOMAIN input.events} : input \in Inputs}

(* The type invariant, with the bounds of the budgets. *)
SimTypeOK ==
    /\ at \in {"register", "arrivals", "done", "overrun"}
    /\ vcpus \in Seq(VCpus)
    /\ availableCapacity \in 0..Capacity
    /\ servers \in Seq(Servers)
    /\ \A j \in DOMAIN servers :
          servers[j].currentBudget \in 1..servers[j].requestedBudget
    /\ events \in Seq(SimulationEvents)
    /\ i \in 0..count
    /\ currentTime \in Nat
    /\ runTimes \in [DOMAIN runTimes -> Seq(RunData)]

(* ASSERT(server->currentJob.workTime == 0) of AssignJob, and what makes   *)
(* GetServerWithED find all work: a server is idle exactly when it has     *)
(* nothing to do.                                                          *)
IdleIffNoWork ==
    \A j \in DOMAIN servers :
        /\ servers[j].state = IDLE <=> servers[j].workTime = 0
        /\ servers[j].state = IDLE => servers[j].jobs = << >>

(* A job is worked on by the deadline of its server. *)
JobDeadlineCurrent ==
    \A j \in DOMAIN servers :
        servers[j].state = ACTIVE => servers[j].jobDeadline = servers[j].deadline

(* The servers fit on one CPU: their bandwidths add up to at most one.     *)
(* They are compared over a common multiple of the periods.                *)
Periods ==
    FoldFunctionOnSet(LAMBDA a, b : a * b, 1,
                      [j \in DOMAIN servers |-> servers[j].period], DOMAIN servers)
Shares ==
    [j \in DOMAIN servers |->
        (Periods \div servers[j].period) * servers[j].requestedBudget]
Schedulable == SumFunctionOnSet(Shares, DOMAIN servers) <= Periods

(* The guarantee of CBS over EDF: when the servers fit on the CPU, an      *)
(* active one gets the rest of its budget before its deadline, however its *)
(* jobs and those of the others arrive and overrun.  It rests on the rule  *)
(* of AddJob for waking servers and on that of DoWork for used-up budgets. *)
BudgetBeforeDeadline ==
    at = "arrivals" /\ Schedulable =>
        \A j \in DOMAIN servers :
            servers[j].state = ACTIVE =>
                currentTime + servers[j].currentBudget <= servers[j].deadline

(* The admission test adds up budgets whatever their periods.  Where the   *)
(* capacity is no more than any period, what it admits fits on the CPU.    *)
AdmissionSafe ==
    (\A j \in DOMAIN servers : Capacity <= servers[j].period) => Schedulable

(* What the run of a vCPU records. *)
Entries(name, actions) ==
    {k \in DOMAIN runTimes[name] : runTimes[name][k].action \in actions}

(* When the simulation ends, every job of a registered vCPU has been given *)
(* all its work and has been reported as ended once.                       *)
AllWorkDone ==
    at = "done" =>
        \A j \in DOMAIN servers :
            LET name == servers[j].cpu
                mine == {k \in DOMAIN events : events[k].vCpuName = name}
            IN  /\ Cardinality(Entries(name, {"JobEnd"})) = Cardinality(mine)
                /\ Cardinality(Entries(name, {"Work", "JobEnd"})) =
                     SumFunctionOnSet([k \in mine |-> events[k].requiredProcessingTime],
                                      mine)

(* A job arrives at the time of its event, neither early nor late, however *)
(* the events are ordered in the file and however far the idle CPU jumps:  *)
(* the arrivals recorded for a vCPU at a time are the events handled with  *)
(* that arrival time.                                                      *)
ArrivalsOnTime ==
    \A j \in DOMAIN servers :
        LET name    == servers[j].cpu
            handled == {k \in 1..i : events[k].vCpuName = name}
        IN  \A t \in 0..currentTime :
               Cardinality({k \in Entries(name, {"NewJob"}) :
                               runTimes[name][k].time = t})
                 = Cardinality({k \in handled : events[k].arrivalTime = t})

(* The schedule is one of FifoCpu. *)
Backlog ==
    [name \in AllNames |->
        LET mine == {j \in DOMAIN servers : servers[j].cpu = name}
            s    == servers[Min(mine)]
        IN  IF mine = {} THEN << >>
            ELSE (IF s.state = ACTIVE THEN <<s.workTime>> ELSE << >>) \o s.jobs]

Fifo == INSTANCE FifoCpu WITH
            Clients <- AllNames, Works <- AllWorks,
            clock <- currentTime, backlog <- Backlog

SchedulesFifo == Fifo!FifoSpec

(* "@param count Number of elements in the events array": the simulation   *)
(* looks at no element behind the last one.                                *)
EventsInBounds == at # "overrun"
=============================================================================
