------------------------------ MODULE MCAdjust ------------------------------
(* Model-checking instances of the scheduler under sedf_adjust. *)
EXTENDS SedfAdjust, TLC

CONSTANTS v1, v2, idle, head

Defaults == {NewVcpu}

Request(w, per, sl, aware) ==
    [weight |-> w, period |-> per, slice |-> sl, aware |-> aware]

OneDomain     == {{v1}}
BothDomain    == {{v1, v2}}
EachAndBoth   == {{v1}, {v2}, {v1, v2}}
ExtratimeOnly == {Request(1, 0, 0, TRUE)}
Weighted      == {Request(1, 0, 0, FALSE)}
Timed         == {Request(0, 3, 2, TRUE)}
TimedUnaware  == {Request(0, 1, 1, FALSE)}
AllRequests   == ExtratimeOnly \cup Weighted \cup Timed \cup TimedUnaware
TimedWeighted == Weighted \cup Timed

Symmetric == Permutations(Vcpus)
=============================================================================
