----------------------------- MODULE CbsServer -----------------------------
(***************************************************************************)
(* The constant-bandwidth server and the EDF queue of the user-space       *)
(* simulator (Simulator/src/cbs.c, edf.c), as operators on server records. *)
(* The bandwidth is a double in the source; it is compared here as the     *)
(* quotient of two integers that it stands for.                            *)
(***************************************************************************)
EXTENDS Integers, Sequences, FiniteSets, FiniteSetsExt

CONSTANTS IDLE, ACTIVE  \* enum CBSState

ASSUME StateAssumption == IDLE # ACTIVE

(* struct vCPU, struct SimulationEvent with its struct Job, struct CBS with *)
(* its struct EDFJob, and struct RunData.                                  *)
VCpus == [name : STRING, requestedBudget : Nat \ {0}, period : Nat \ {0}]
SimulationEvents ==
    [vCpuName : STRING, requiredProcessingTime : Nat \ {0}, arrivalTime : Nat]
Servers ==
    [cpu : STRING, requestedBudget : Nat \ {0}, period : Nat \ {0},
     deadline : Nat, currentBudget : Nat, state : {IDLE, ACTIVE},
     workTime : Nat, jobDeadline : Nat, jobs : Seq(Nat \ {0})]
RunData == [time : Nat, action : {"NewJob", "Work", "JobEnd"}]

(* RegisterVCPU: the server of a vCPU that has been admitted. *)
NewServer(vcpu) ==
    [cpu |-> vcpu.name, requestedBudget |-> vcpu.requestedBudget,
     period |-> vcpu.period, deadline |-> 0,
     currentBudget |-> vcpu.requestedBudget, state |-> IDLE,
     workTime |-> 0, jobDeadline |-> 0, jobs |-> << >>]

AssignJob(server, work) ==
    [server EXCEPT !.workTime = work, !.jobDeadline = server.deadline,
                   !.state = ACTIVE]

(* Mutant: an idle server always keeps its deadline. *)
KeepsDeadline(server, arrivalTime) == FALSE

(* The budget left is too much for the time to the deadline. *)
OutOfDate(server, arrivalTime) ==
    server.currentBudget * server.period
       >= (server.deadline - arrivalTime) * server.requestedBudget

(* Mutant: a job that finds the server busy goes to the front. *)
QueuedFirst(server, work) == [server EXCEPT !.jobs = <<work>> \o @]

Queued(server, work) == [server EXCEPT !.jobs = Append(@, work)]

AddJob(server, work, arrivalTime) ==
    IF server.state # IDLE THEN Queued(server, work)
    ELSE IF OutOfDate(server, arrivalTime)
    THEN AssignJob([server EXCEPT !.deadline = arrivalTime + server.period,
                                  !.currentBudget = server.requestedBudget],
                   work)
    ELSE AssignJob(server, work)

(* Mutant: the budget is renewed one unit too late. *)
RenewedLate(server) ==
    IF server.currentBudget >= 0 THEN server
    ELSE [server EXCEPT !.currentBudget = server.requestedBudget,
                        !.deadline = @ + server.period,
                        !.jobDeadline = server.deadline + server.period]

(* A used-up budget is renewed at the price of a later deadline. *)
Replenish(server) ==
    IF server.currentBudget # 0 THEN server
    ELSE [server EXCEPT !.currentBudget = server.requestedBudget,
                        !.deadline = @ + server.period,
                        !.jobDeadline = server.deadline + server.period]

(* Mutant: the next job of the list is not started. *)
NeverNext(server) == [server EXCEPT !.state = IDLE]

(* The current job is finished: the next one starts, or the server idles.  *)
NextJob(server) ==
    IF server.jobs # << >>
    THEN [AssignJob(server, Head(server.jobs)) EXCEPT !.jobs = Tail(@)]
    ELSE [server EXCEPT !.state = IDLE]

Worked(server) ==
    [server EXCEPT !.workTime = @ - 1, !.currentBudget = @ - 1]
JobFinished(server) == server.workTime = 1
DoWork(server) ==
    Replenish(IF JobFinished(server) THEN NextJob(Worked(server))
                                     ELSE Worked(server))

(* The first server with the earliest deadline of those that are active,   *)
(* 0 for NULL.                                                             *)
GetServerWithED(servers) ==
    LET active == {j \in DOMAIN servers : servers[j].state # IDLE}
        first  == {j \in active : \A k \in active :
                      servers[j].deadline <= servers[k].deadline}
    IN  IF active = {} THEN 0 ELSE Min(first)
=============================================================================
