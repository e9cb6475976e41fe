------------------------------- MODULE MCSedf -------------------------------
(* Model-checking instances of the scheduler on one CPU. *)
EXTENDS SedfProps, TLC

CONSTANTS v1, v2, v3, idle, head

Set(per, sl, perOrig, slOrig, w, aware) ==
    [period |-> per, slice |-> sl, extraweight |-> w, period_orig |-> perOrig,
     slice_orig |-> slOrig, aware |-> aware]

Defaults == {NewVcpu}

(* What sedf_adjust leaves: a time-driven vCPU, one with extra time only,  *)
(* and a weight-driven one whose extra weight had been disabled before.    *)
Adjusted == {Set(2, 1, 2, 1, 0, FALSE),
             Set(2, 0, CBS_PERIOD, CBS_MAX_BUDGET, 2, TRUE),
             Set(2, 0, 2, 0, 0, TRUE)}

AllParams == Defaults \cup Adjusted

(* A time-driven vCPU whose period is shorter than that of the servers. *)
Short == {Set(1, 1, 1, 1, 0, FALSE)}

DefaultOrShort == Defaults \cup Short

Symmetric == Permutations(Vcpus)
=============================================================================
