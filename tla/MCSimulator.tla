----------------------------- MODULE MCSimulator -----------------------------
(* Model-checking instances of the simulator. *)
EXTENDS SimMemory, TLC

CPU(name, budget, per) ==
    [name |-> name, requestedBudget |-> budget, period |-> per]
EVENT(name, work, arrival) ==
    [vCpuName |-> name, requiredProcessingTime |-> work, arrivalTime |-> arrival]

(* Pairs of vCPUs that fill the CPU, and one that does not fit. *)
Pairs == {<<CPU("one", 1, 3), CPU("two", 2, 3)>>,
          <<CPU("one", 1, 2), CPU("two", 2, 4)>>}
Greedy == {<<CPU("one", 3, 4), CPU("two", 2, 4)>>}

Jobs(names, works, arrivals) ==
    {EVENT(n, w, a) : n \in names, w \in works, a \in arrivals}
Events(names, n) ==
    UNION {[1..k -> Jobs(names, {1, 3}, {0, 1, 2, 4})] : k \in 0..n}

(* More jobs at once than the vector of a server is created for. *)
Crowd == [vcpus : {<<CPU("one", 2, 3)>>},
          events : {[k \in 1..5 |-> EVENT("one", (k % 3) + 1, 0)]}]

(* Two servers of one name. *)
Twins == [vcpus : {<<CPU("one", 1, 3), CPU("one", 1, 2), CPU("two", 2, 4)>>},
          events : Events({"one", "two"}, 2)]

Fitting  == [vcpus : Pairs, events : Events({"one", "two"}, 3)]
Refusing == [vcpus : Greedy, events : Events({"one", "two", "three"}, 2)]
Accepted == Fitting \cup Refusing \cup Crowd \cup Twins
=============================================================================
