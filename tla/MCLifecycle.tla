---------------------------- MODULE MCLifecycle ----------------------------
(* Model-checking instances of the lifecycle around one CPU. *)
EXTENDS SedfLifecycle, TLC

CONSTANTS v1, v2, idle, head

Defaults == {NewVcpu}

FirstIds   == [v \in Vcpus |-> 0]
AllMasks   == SUBSET Cpus
(* A vCPU that has slept through its slice, and one that still wants its   *)
(* place on the penalty queue.                                             *)
Brought(st, dl) ==
    [status |-> st, deadl_abs |-> dl, cputime |-> 0, blocked |-> TRUE,
     budget |-> CBS_MAX_BUDGET, deadline |-> dl]
Elsewhere == {Brought({EXTRA_AWARE}, 0),
              Brought({EXTRA_AWARE, EXTRA_WANT_PEN_Q}, CBS_PERIOD)}

Symmetric == Permutations(Vcpus)
=============================================================================
