----------------------------- MODULE SedfAdjust -----------------------------
(***************************************************************************)
(* sedf_adjust and sedf_adjust_weights: the toolstack changes the          *)
(* parameters of a domain while its vCPUs are being scheduled.  The        *)
(* scheduler-wide lock serialises the calls; the runqueue lock is taken    *)
(* and dropped for each vCPU, so that the scheduler of SedfCore runs       *)
(* between any two of the steps below.                                     *)
(***************************************************************************)
EXTENDS SedfProps, Functions

CONSTANTS
    Domains,        \* the domains, as sets of vCPUs
    WEIGHT_PERIOD,
    WEIGHT_SAFETY,
    Requests,       \* the accepted XEN_DOMCTL_SCHEDOP_putinfo requests
    MaxAdjusts      \* bound: how many calls are made

ASSUME AdjustAssumption ==
    /\ IsFiniteSet(Vcpus)
    /\ Domains \subseteq SUBSET Vcpus
    /\ WEIGHT_PERIOD \in Nat \ {0}
    /\ WEIGHT_SAFETY \in Nat
    /\ MaxAdjusts \in Nat
    /\ Requests \subseteq [weight : Nat, period : Nat, slice : Nat, aware : BOOLEAN]
    /\ \A r \in Requests : r.weight # 0 \/ (r.period > 0 /\ r.slice \in 1..r.period)

VARIABLES
    weight,   \* the weight of weight-driven vCPUs
    adjusts,  \* how many calls have been made
    call      \* the call in progress

adjust == <<weight, adjusts, call>>
avars  == <<vars, adjust>>

NoRequest == [weight |-> 0, period |-> 0, slice |-> 0, aware |-> FALSE]
NoCall == [step |-> "none", dom |-> {}, todo |-> {}, request |-> NoRequest]

AdjustInit ==
    /\ Init
    /\ weight = [v \in Vcpus |-> 0]
    /\ adjusts = 0
    /\ call = NoCall

-----------------------------------------------------------------------------
adjust_call(dom, request) ==
    /\ call.step = "none"
    /\ adjusts < MaxAdjusts
    /\ adjusts' = adjusts + 1
    /\ call' = [step |-> "params", dom |-> dom, todo |-> dom,
                request |-> request]
    /\ UNCHANGED <<vars, weight>>

(* One vCPU of a for_each_vcpu loop, under its runqueue lock; the source   *)
(* walks them in the order of their numbers.                               *)
Visit(step, v) ==
    /\ LockFree
    /\ call.step = step
    /\ v \in call.todo
    /\ call' = [call EXCEPT !.todo = @ \ {v}]
    /\ UNCHANGED <<external, cpu, control, runq, waitq, account, blocked, cbs,
                   adjusts>>

(* The loop has reached its end; the next one is over the set todo. *)
NextLoop(from, to, todo) ==
    /\ call.step = from
    /\ call.todo = {}
    /\ call' = [call EXCEPT !.step = to, !.todo = todo]
    /\ UNCHANGED <<vars, weight, adjusts>>

(* "Weight-driven domains with extratime only": period_orig and slice_orig *)
(* keep what they were.                                                    *)
set_extratime_only(v) ==
    LET r == call.request
    IN  /\ r.weight # 0 /\ r.aware /\ r.period = 0
        /\ Visit("params", v)
        /\ extraweight' = [extraweight EXCEPT ![v] = r.weight]
        /\ weight' = [weight EXCEPT ![v] = 0]
        /\ slice' = [slice EXCEPT ![v] = 0]
        /\ period' = [period EXCEPT ![v] = WEIGHT_PERIOD]
        /\ UNCHANGED <<period_orig, slice_orig, status, extra>>

(* "Weight-driven domains with real-time execution". *)
set_weight(v) ==
    LET r == call.request
    IN  /\ r.weight # 0 /\ ~(r.aware /\ r.period = 0)
        /\ Visit("params", v)
        /\ weight' = [weight EXCEPT ![v] = r.weight]
        /\ UNCHANGED <<params, status, extra>>

(* "Time-driven domains". *)
set_times(v) ==
    LET r == call.request
    IN  /\ r.weight = 0
        /\ Visit("params", v)
        /\ weight' = [weight EXCEPT ![v] = 0]
        /\ extraweight' = [extraweight EXCEPT ![v] = 0]
        /\ period' = [period EXCEPT ![v] = r.period]
        /\ period_orig' = [period_orig EXCEPT ![v] = r.period]
        /\ slice' = [slice EXCEPT ![v] = r.slice]
        /\ slice_orig' = [slice_orig EXCEPT ![v] = r.slice]
        /\ UNCHANGED <<status, extra>>

(* sedf_adjust_weights: what the vCPUs with a weight share, and what those *)
(* without one take, projected to a WEIGHT_PERIOD.                         *)
sumw == SumFunctionOnSet(weight, Vcpus)
sumt ==
    LET need == [v \in Vcpus |->
                    IF weight[v] # 0 THEN 0
                    ELSE (WEIGHT_PERIOD * slice_orig[v]) \div period_orig[v]]
    IN  SumFunctionOnSet(need, Vcpus)

WeightedSlice(v) ==
    CDiv(weight[v] * (WEIGHT_PERIOD - WEIGHT_SAFETY - sumt), sumw)

(* Mutant: only the shares of the adjusted domain are computed again. *)
SumOwnWeights == NextLoop("params", "weights", {v \in call.dom : weight[v] # 0})

sum_weights == NextLoop("params", "weights", {v \in Vcpus : weight[v] # 0})

spread_weight(v) ==
    /\ Visit("weights", v)
    /\ period' = [period EXCEPT ![v] = WEIGHT_PERIOD]
    /\ period_orig' = [period_orig EXCEPT ![v] = WEIGHT_PERIOD]
    /\ slice' = [slice EXCEPT ![v] = WeightedSlice(v)]
    /\ slice_orig' = [slice_orig EXCEPT ![v] = WeightedSlice(v)]
    /\ UNCHANGED <<extraweight, weight, status, extra>>

weights_spread == NextLoop("weights", "flags", call.dom)

set_flags(v) ==
    LET st == IF call.request.aware THEN status[v] \cup {EXTRA_AWARE}
                                    ELSE status[v] \ {EXTRA_AWARE}
    IN  /\ Visit("flags", v)
        /\ status' = [status EXCEPT ![v] = st]
        /\ extraq' = [extraq EXCEPT ![EXTRA_UTIL_Q] = extraq_check(v, st)]
        /\ UNCHANGED <<score, params, weight>>

adjust_return ==
    /\ call.step = "flags"
    /\ call.todo = {}
    /\ call' = NoCall
    /\ UNCHANGED <<vars, weight, adjusts>>

-----------------------------------------------------------------------------
sedf_adjust ==
    \/ \E dom \in Domains, r \in Requests : adjust_call(dom, r)
    \/ \E v \in Vcpus : \/ set_extratime_only(v)
                        \/ set_weight(v)
                        \/ set_times(v)
                        \/ spread_weight(v)
                        \/ set_flags(v)
    \/ sum_weights
    \/ weights_spread
    \/ adjust_return

Schedule == Next /\ UNCHANGED adjust

AdjustNext == Schedule \/ sedf_adjust

(* "note that disabling extra weight requires that we set a non-zero       *)
(* slice": the score of the utilisation queue divides by one or the other. *)
WeightOrSlice == \A v \in Vcpus : extraweight[v] = 0 => slice[v] # 0

(* "so that this time is not given to the weight-driven domains": between  *)
(* two calls, the slices of the weight-driven vCPUs and the time that all  *)
(* others need fit into a WEIGHT_PERIOD less WEIGHT_SAFETY, provided that  *)
(* the latter does, whichever of them has been changed last.               *)
SharesFit ==
    LET limit    == WEIGHT_PERIOD - WEIGHT_SAFETY
        weighted == {v \in Vcpus : weight[v] # 0}
    IN  call.step = "none" /\ sumt <= limit
          => SumFunctionOnSet(slice_orig, weighted) + sumt <= limit

(* The wait queue is ordered by what sedf_adjust changes: besides the      *)
(* renewal in place only a step of a call that gives a waiting vCPU        *)
(* another period can disturb it, and neither the flags nor any other step *)
(* of the scheduler does.                                                  *)
OrderLostOnlyByPeriods ==
    [][WaitqSorted /\ ~WaitqSorted'
         => \/ RenewsInPlace
            \/ /\ call.step \in {"params", "weights"}
               /\ UNCHANGED queues
               /\ \E v \in Vcpus : OnQ(waitq, v) /\ period'[v] # period[v]]_avars

AdjustSpec == AdjustInit /\ [][AdjustNext]_avars
=============================================================================
