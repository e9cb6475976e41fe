------------------------------ MODULE FifoCpu ------------------------------
(***************************************************************************)
(* What the simulated schedule promises, whatever the deadlines and        *)
(* budgets: one CPU works off the jobs of several clients, one unit of one *)
(* job at a time, in the order of submission for each client, and rests    *)
(* only while no client has a job.                                         *)
(***************************************************************************)
EXTENDS Naturals, Sequences

CONSTANTS Clients, Works  \* Works: the sizes a job may have

VARIABLES
    clock,
    backlog   \* the work that each job of a client still needs

FifoInit ==
    /\ clock = 0
    /\ backlog = [c \in Clients |-> << >>]

Submit(c) ==
    /\ \E w \in Works : backlog' = [backlog EXCEPT ![c] = Append(@, w)]
    /\ UNCHANGED clock

(* The first job gets a unit of work, and leaves if it was its last one.   *)
Advanced(jobs) ==
    IF jobs[1] = 1 THEN Tail(jobs) ELSE [jobs EXCEPT ![1] = @ - 1]

Serve(c) ==
    /\ backlog[c] # << >>
    /\ clock' = clock + 1
    /\ backlog' = [backlog EXCEPT ![c] = Advanced(@)]

Rest ==
    /\ \A c \in Clients : backlog[c] = << >>
    /\ clock' > clock
    /\ UNCHANGED backlog

FifoNext == Rest \/ \E c \in Clients : Submit(c) \/ Serve(c)

fifovars == <<clock, backlog>>

FifoSpec ==
    /\ FifoInit
    /\ [][FifoNext]_fifovars
    /\ WF_fifovars(\E c \in Clients : Serve(c))
=============================================================================
