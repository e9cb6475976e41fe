----------------------------- MODULE Simulator -----------------------------
(***************************************************************************)
(* The simulator's main (Simulator/src/main.c): registration of the vCPUs  *)
(* and the loop of StartSimulation, with the run times it records.  The    *)
(* program is sequential; what varies is its input, and the order in which *)
(* qsort leaves events of one arrival time.                                *)
(***************************************************************************)
EXTENDS CbsServer

CONSTANTS
    Inputs,     \* input.conf: its vCPUs, in order, and its events
    Capacity    \* input.conf: the capacity of the CPU

ASSUME InputAssumption ==
    /\ Capacity \in Nat
    /\ Inputs \subseteq [vcpus : Seq(VCpus), events : Seq(SimulationEvents)]

VARIABLES
    at,                 \* where main is
    vcpus,              \* the vCPUs still to be registered
    availableCapacity,
    servers,            \* queue->servers
    events,
    i,                  \* how many events have been handled
    currentTime,
    runTimes            \* the recorded run events, by the name of the vCPU

simvars == <<at, vcpus, availableCapacity, servers, events, i, currentTime,
             runTimes>>

count == Len(events)
Names(input) == {input.vcpus[j].name : j \in DOMAIN input.vcpus}

SimInit ==
    \E input \in Inputs :
        /\ at = "register"
        /\ vcpus = input.vcpus
        /\ availableCapacity = Capacity
        /\ servers = << >>
        /\ events = input.events
        /\ i = 0
        /\ currentTime = 0
        /\ runTimes = [name \in Names(input) |-> << >>]

(* Mutant: the admission of a vCPU takes nothing. *)
AdmittedFree(vcpu) == availableCapacity

LeftAfter(vcpu) == availableCapacity - vcpu.requestedBudget

(* RegisterVCPU; main ignores that a vCPU has been refused. *)
RegisterVCPU ==
    /\ at = "register"
    /\ vcpus # << >>
    /\ vcpus' = Tail(vcpus)
    /\ LET vcpu == Head(vcpus)
       IN  IF vcpu.requestedBudget > availableCapacity
           THEN UNCHANGED <<servers, availableCapacity>>
           ELSE /\ servers' = Append(servers, NewServer(vcpu))
                /\ availableCapacity' = LeftAfter(vcpu)
    /\ UNCHANGED <<at, events, i, currentTime, runTimes>>

(* Mutant: the events are left as they are. *)
Unsorted(evs) == {evs}

(* What qsort by AscendingArrivalTime may return: it is not stable. *)
Sorted(evs) ==
    LET n == Len(evs)
    IN  {s \in {[k \in 1..n |-> evs[p[k]]] :
                   p \in {f \in [1..n -> 1..n] : \A a, b \in 1..n :
                             f[a] = f[b] => a = b}} :
            \A a, b \in 1..n : a < b => s[a].arrivalTime <= s[b].arrivalTime}

Sort ==
    /\ at = "register"
    /\ vcpus = << >>
    /\ at' = "arrivals"
    /\ events' \in Sorted(events)
    /\ UNCHANGED <<vcpus, availableCapacity, servers, i, currentTime, runTimes>>

InsertRunEvent(name, action) ==
    runTimes' = [runTimes EXCEPT
                   ![name] = Append(@, [time |-> currentTime, action |-> action])]

Due == i < count /\ events[i + 1].arrivalTime <= currentTime
Served(event) == {j \in DOMAIN servers : servers[j].cpu = event.vCpuName}

(* A job arrives at the first server of its name. *)
Arrive ==
    /\ at = "arrivals"
    /\ Due
    /\ LET event == events[i + 1]
           j     == Min(Served(event))
       IN  /\ Served(event) # {}
           /\ servers' = [servers EXCEPT
                 ![j] = AddJob(@, event.requiredProcessingTime, event.arrivalTime)]
           /\ InsertRunEvent(event.vCpuName, "NewJob")
    /\ i' = i + 1
    /\ UNCHANGED <<at, vcpus, availableCapacity, events, currentTime>>

(* A job for a vCPU that is not registered is dropped. *)
DropEvent ==
    /\ at = "arrivals"
    /\ Due
    /\ Served(events[i + 1]) = {}
    /\ i' = i + 1
    /\ UNCHANGED <<at, vcpus, availableCapacity, servers, events, currentTime,
                   runTimes>>

Active == GetServerWithED(servers)

(* Nothing to do until the next event. *)
Idle ==
    /\ at = "arrivals"
    /\ ~Due
    /\ Active = 0
    /\ i < count
    /\ currentTime' = events[i + 1].arrivalTime
    /\ UNCHANGED <<at, vcpus, availableCapacity, servers, events, i, runTimes>>

(* Nothing to do and no next event: events[count] is read all the same.    *)
(* What is found there becomes the time (it is not modelled), but whatever *)
(* it is, there is no job and no event left: the loop comes back here for  *)
(* ever.                                                                   *)
IdleAtEnd ==
    /\ at \in {"arrivals", "overrun"}
    /\ Active = 0
    /\ i >= count
    /\ at' = "overrun"
    /\ UNCHANGED <<vcpus, availableCapacity, servers, events, i, currentTime,
                   runTimes>>

(* Mutant: the simulation ends with the last event. *)
FinishedEarly(svs) == i >= count

(* Mutant: one event too many is waited for. *)
FinishedLate(svs) == i > count /\ \A j \in DOMAIN svs : svs[j].state # ACTIVE

Finished(svs) == i >= count /\ \A j \in DOMAIN svs : svs[j].state # ACTIVE

(* One unit of work for the server with the earliest deadline. *)
Work ==
    /\ at = "arrivals"
    /\ ~Due
    /\ Active # 0
    /\ servers' = [servers EXCEPT ![Active] = DoWork(@)]
    /\ InsertRunEvent(servers[Active].cpu,
                      IF JobFinished(servers[Active]) THEN "JobEnd" ELSE "Work")
    /\ currentTime' = currentTime + 1
    /\ at' = IF Finished(servers') THEN "done" ELSE "arrivals"
    /\ UNCHANGED <<vcpus, availableCapacity, events, i>>

SimNext ==
    \/ RegisterVCPU
    \/ Sort
    \/ Arrive
    \/ DropEvent
    \/ Idle
    \/ IdleAtEnd
    \/ Work

(* The program is sequential: it goes on while it can. *)
SimSpec == SimInit /\ [][SimNext]_simvars /\ WF_simvars(SimNext)
=============================================================================
