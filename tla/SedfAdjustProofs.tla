-------------------------- MODULE SedfAdjustProofs --------------------------
(***************************************************************************)
(* The scheduler while sedf_adjust changes the parameters of its vCPUs:    *)
(* what of its queue discipline survives a call that is half done, that    *)
(* what disturbs the order of the wait queue, that the weights share what  *)
(* the times leave, and on what the choice of a vCPU that may still run    *)
(* depends.                                                                *)
(***************************************************************************)
EXTENDS SedfAdjust, SedfServerProofs

USE DEF Levels, EXTRA_PEN_Q, EXTRA_UTIL_Q

-----------------------------------------------------------------------------
(* The type of the call in progress.  The loop over the weights visits     *)
(* only vCPUs with a weight, so that it never divides by a sum of zero.    *)
Steps == {"none", "params", "weights", "flags"}

CallTypeOK ==
    /\ weight \in [Vcpus -> Nat]
    /\ call \in [step : Steps, dom : SUBSET Vcpus, todo : SUBSET Vcpus,
                 request : [weight : Nat, period : Nat, slice : Nat, aware : BOOLEAN]]
    /\ call.step = "params" => call.request \in Requests
    /\ call.step = "weights" => \A v \in call.todo : weight[v] # 0

AInv == QInv /\ CallTypeOK

(* Summed up over all vCPUs, the weights are positive when one of them is. *)
LEMMA SumwProperties ==
    ASSUME weight \in [Vcpus -> Nat]
    PROVE  /\ sumw \in Nat
           /\ \A v \in Vcpus : weight[v] <= sumw
<1>1. IsFiniteSet(Vcpus) /\ \A v \in Vcpus : weight[v] \in Nat
  BY AdjustAssumption
<1> QED
  BY <1>1, SumNonNegative DEF sumw

(* The time that the others need is a number.                              *)
Need == [v \in Vcpus |->
            IF weight[v] # 0 THEN 0
            ELSE (WEIGHT_PERIOD * slice_orig[v]) \div period_orig[v]]

(* The times that sedf_adjust_weights adds up are a sum over all vCPUs.    *)
LEMMA SumtType ==
    ASSUME QInv, weight \in [Vcpus -> Nat]
    PROVE  sumt = SumFunctionOnSet(Need, Vcpus) /\ sumt \in Int
<1>1. /\ slice_orig \in [Vcpus -> Int]
      /\ period_orig \in [Vcpus -> Nat \ {0}]
  BY DEF QInv, TypeOK
<1>2. ASSUME NEW v \in Vcpus PROVE Need[v] \in Int
  <2>1. slice_orig[v] \in Int /\ period_orig[v] \in Nat \ {0} /\ WEIGHT_PERIOD \in Int
    BY <1>1, AdjustAssumption
  <2>2. WEIGHT_PERIOD * slice_orig[v] \in Int
    BY <2>1
  <2>3. (WEIGHT_PERIOD * slice_orig[v]) \div period_orig[v] \in Int
    BY <2>1, <2>2
  <2> QED
    BY <2>3 DEF Need
<1>3. sumt = SumFunctionOnSet(Need, Vcpus)
  BY Zenon DEF sumt, Need
<1>4. IsFiniteSet(Vcpus)
  BY AdjustAssumption
<1>5. SumFunctionOnSet(Need, Vcpus) \in Int
  <2> HIDE DEF Need
  <2> QED
    BY <1>2, <1>4, SumType
<1> QED
  BY <1>3, <1>5

(* The share of a vCPU with a weight is an integer.                        *)
LEMMA ShareType ==
    ASSUME QInv, weight \in [Vcpus -> Nat], NEW v \in Vcpus, weight[v] # 0
    PROVE  WeightedSlice(v) \in Int
<1>1. sumw \in Nat /\ weight[v] <= sumw /\ weight[v] \in Nat
  BY SumwProperties
<1>2. sumw # 0
  BY <1>1
<1>3. sumt \in Int
  BY SumtType
<1>4. WEIGHT_PERIOD \in Int /\ WEIGHT_SAFETY \in Int
  BY AdjustAssumption
<1> DEFINE rem == WEIGHT_PERIOD - WEIGHT_SAFETY - sumt
<1>5. rem \in Int
  BY <1>3, <1>4
<1> HIDE DEF rem
<1>6. weight[v] * rem \in Int
  BY <1>1, <1>5
<1>7. CDiv(weight[v] * rem, sumw) \in Int
  BY <1>1, <1>2, <1>6, CDivType
<1> QED
  BY <1>7 DEF WeightedSlice, rem

-----------------------------------------------------------------------------
(* A visit to a vCPU happens between two decisions.                        *)
LEMMA VisitEffect ==
    ASSUME NEW step, NEW v, Visit(step, v)
    PROVE  /\ at \in {"guest", "called"}
           /\ UNCHANGED <<now, runnable, stops, pend, curr, softirq,
                          current_slice_expires, at, snow, cur, runq, waitq,
                          deadl_abs, sched_start_abs, cputime, blocked,
                          cbs_current_budget, cbs_current_deadline>>
           /\ call' = [call EXCEPT !.todo = @ \ {v}]
           /\ call.step = step /\ v \in call.todo
           /\ adjusts' = adjusts
BY DEF Visit, LockFree, external, cpu, control, account, cbs

(* New parameters move no vCPU.                                            *)
LEMMA TimesPlaced ==
    ASSUME QInv, NEW step, NEW v, Visit(step, v),
           UNCHANGED <<status, extraq, score>>,
           period' \in [Vcpus -> Nat \ {0}],
           slice' \in [Vcpus -> Int],
           period_orig' \in [Vcpus -> Nat \ {0}],
           slice_orig' \in [Vcpus -> Int],
           extraweight' \in [Vcpus -> Nat]
    PROVE  QInv'
<1>1. /\ at \in {"guest", "called"}
      /\ UNCHANGED <<now, runnable, stops, pend, curr, softirq,
                     current_slice_expires, at, snow, cur, runq, waitq,
                     deadl_abs, sched_start_abs, cputime, blocked,
                     cbs_current_budget, cbs_current_deadline>>
  BY VisitEffect
<1>2. TypeOK'
  BY <1>1 DEF QInv, TypeOK
<1>3. /\ \A w \in Vcpus : Descheduling(w)' <=> Descheduling(w)
      /\ CursorOnRunq'
  BY <1>1 DEF Descheduling, CursorOnRunq
<1>4. Placement'
  BY <1>1, <1>3, SamePlaces
<1> QED
  BY <1>2, <1>4 DEF QInv

(* extraq_check takes a vCPU off the utilisation queue only when it does   *)
(* not run from there, and puts it on only when it is awake.               *)
LEMMA CheckProperties ==
    ASSUME QInv, NEW v \in Vcpus, NEW st
    PROVE  /\ extraq_check(v, st) \in Seq(Vcpus)
           /\ NoDuplicates(extraq_check(v, st))
           /\ \A w : w # v => (OnQ(extraq_check(v, st), w) <=> OnQ(extraq[EXTRA_UTIL_Q], w))
           /\ OnQ(extraq[EXTRA_UTIL_Q], v) /\ extra_runs(v)
                 => OnQ(extraq_check(v, st), v)
           /\ OnQ(extraq_check(v, st), v)
                 => OnQ(extraq[EXTRA_UTIL_Q], v) \/ SEDF_ASLEEP \notin st
<1> DEFINE q == extraq[EXTRA_UTIL_Q]
           del == DelFromQ(q, v)
           ins == ListInsertSort(q, v, score[EXTRA_UTIL_Q])
<1>1. q \in Seq(Vcpus) /\ NoDuplicates(q)
  BY DEF QInv, TypeOK, Placement, QueuesDisjoint
<1>2. extraq_check(v, st) =
         IF OnQ(q, v)
         THEN IF EXTRA_AWARE \notin st /\ ~extra_runs(v) THEN del ELSE q
         ELSE IF EXTRA_AWARE \in st /\ SEDF_ASLEEP \notin st THEN ins ELSE q
  BY DEF extraq_check
<1> HIDE DEF q
<1>3. /\ del \in Seq(Vcpus)
      /\ \A w : w # v => (OnQ(del, w) <=> OnQ(q, w))
      /\ NoDuplicates(del)
      /\ ~OnQ(del, v)
  BY <1>1, DelFromQProperties
<1>4. /\ ins \in Seq(Vcpus)
      /\ \A w : OnQ(ins, w) <=> w = v \/ OnQ(q, w)
      /\ ~OnQ(q, v) => NoDuplicates(ins)
  BY <1>1, InsertProperties
<1> HIDE DEF del, ins
<1>5. CASE OnQ(q, v)
  BY <1>1, <1>2, <1>3, <1>5 DEF q
<1>6. CASE ~OnQ(q, v)
  BY <1>1, <1>2, <1>4, <1>6 DEF q
<1> QED
  BY <1>5, <1>6

(* The last loop, on a vCPU that may be running in extra time.             *)
LEMMA FlagsPlaced ==
    ASSUME QInv, NEW v \in Vcpus, set_flags(v)
    PROVE  QInv'
<1> DEFINE st == IF call.request.aware THEN status[v] \cup {EXTRA_AWARE}
                                       ELSE status[v] \ {EXTRA_AWARE}
           u  == extraq_check(v, st)
<1>1. /\ Visit("flags", v)
      /\ status' = [status EXCEPT ![v] = st]
      /\ extraq' = [extraq EXCEPT ![EXTRA_UTIL_Q] = u]
      /\ UNCHANGED <<score, params>>
  BY DEF set_flags
<1>2. /\ at \in {"guest", "called"}
      /\ UNCHANGED <<now, runnable, stops, pend, curr, softirq,
                     current_slice_expires, at, snow, cur, runq, waitq,
                     deadl_abs, sched_start_abs, cputime, blocked,
                     cbs_current_budget, cbs_current_deadline>>
  BY <1>1, VisitEffect
<1>3. /\ status \in [Vcpus -> SUBSET StatusBits]
      /\ extraq \in [Levels -> Seq(Vcpus)]
  BY DEF QInv, TypeOK
<1>4. st \subseteq StatusBits /\ \A b \in StatusBits \ {EXTRA_AWARE} : b \in st <=> b \in status[v]
  BY <1>3 DEF StatusBits
<1>5. /\ u \in Seq(Vcpus)
      /\ NoDuplicates(u)
      /\ \A w : w # v => (OnQ(u, w) <=> OnQ(extraq[EXTRA_UTIL_Q], w))
      /\ OnQ(extraq[EXTRA_UTIL_Q], v) /\ extra_runs(v) => OnQ(u, v)
      /\ OnQ(u, v) => OnQ(extraq[EXTRA_UTIL_Q], v) \/ SEDF_ASLEEP \notin st
  <2> HIDE DEF st
  <2> QED
    BY CheckProperties
<1> HIDE DEF st, u
<1>6. /\ status' \in [Vcpus -> SUBSET StatusBits]
      /\ extraq' \in [Levels -> Seq(Vcpus)]
  BY <1>1, <1>3, <1>4, <1>5
<1>7. TypeOK'
  BY <1>1, <1>2, <1>6 DEF QInv, TypeOK, params
<1>8. \A w \in Vcpus : \A b \in StatusBits \ {EXTRA_AWARE} : b \in status'[w] <=> b \in status[w]
  BY <1>1, <1>3, <1>4
<1>9. {EXTRA_RUN_PEN, EXTRA_RUN_UTIL, SEDF_ASLEEP} \subseteq StatusBits \ {EXTRA_AWARE}
  BY DEF StatusBits, EXTRA_AWARE, EXTRA_RUN_PEN, EXTRA_RUN_UTIL, SEDF_ASLEEP
<1>10. \A w \in Vcpus : /\ EXTRA_RUN_PEN \in status'[w] <=> EXTRA_RUN_PEN \in status[w]
                        /\ EXTRA_RUN_UTIL \in status'[w] <=> EXTRA_RUN_UTIL \in status[w]
                        /\ SEDF_ASLEEP \in status'[w] <=> SEDF_ASLEEP \in status[w]
  BY <1>8, <1>9
<1>11. \A w \in Vcpus : /\ extra_runs(w)' <=> extra_runs(w)
                        /\ extra_get_cur_q(w)' = extra_get_cur_q(w)
                        /\ sedf_runnable(status, w)' <=> sedf_runnable(status, w)
                        /\ Descheduling(w)' <=> Descheduling(w)
                        /\ OnTaskQ(w)' <=> OnTaskQ(w)
  BY <1>2, <1>10 DEF extra_runs, extra_get_cur_q, sedf_runnable, Descheduling, OnTaskQ
<1>12. /\ extraq'[EXTRA_UTIL_Q] = u
       /\ extraq'[EXTRA_PEN_Q] = extraq[EXTRA_PEN_Q]
  BY <1>1, <1>3
<1>13. QueuesDisjoint'
  BY <1>2, <1>5, <1>12 DEF QInv, Placement, QueuesDisjoint
<1>14. CursorOnRunq'
  BY <1>2 DEF CursorOnRunq
<1>15. AwakeIffQueued'
  BY <1>11 DEF QInv, Placement, AwakeIffQueued
<1>16. ExtraOnlyIfQueued'
  <2> SUFFICES ASSUME NEW w \in Vcpus, NEW i \in Levels, OnQ(extraq'[i], w)
               PROVE  OnTaskQ(w)
    BY <1>11 DEF ExtraOnlyIfQueued
  <2>1. CASE OnQ(extraq[i], w)
    BY <2>1 DEF QInv, Placement, ExtraOnlyIfQueued
  <2>2. CASE ~OnQ(extraq[i], w)
    <3>1. i = EXTRA_UTIL_Q /\ w = v /\ OnQ(u, v)
      BY <1>5, <1>12, <2>2
    <3>2. SEDF_ASLEEP \notin status'[v]
      BY <1>1, <1>3, <1>5, <2>2, <3>1
    <3>3. sedf_runnable(status, v)
      BY <1>10, <3>2 DEF sedf_runnable
    <3> QED
      BY <3>1, <3>3 DEF QInv, Placement, AwakeIffQueued
  <2> QED
    BY <2>1, <2>2
<1>17. ExtraRunWellPlaced'
  <2> SUFFICES ASSUME NEW w \in Vcpus, extra_runs(w)
               PROVE  /\ Descheduling(w)
                      /\ OnQ(waitq, w)
                      /\ OnQ(extraq'[extra_get_cur_q(w)], w)
                      /\ ~({EXTRA_RUN_PEN, EXTRA_RUN_UTIL} \subseteq status'[w])
    BY <1>2, <1>11 DEF ExtraRunWellPlaced
  <2>1. /\ Descheduling(w)
        /\ OnQ(waitq, w)
        /\ OnQ(extraq[extra_get_cur_q(w)], w)
        /\ ~({EXTRA_RUN_PEN, EXTRA_RUN_UTIL} \subseteq status[w])
    BY DEF QInv, Placement, ExtraRunWellPlaced
  <2>2. extra_get_cur_q(w) \in Levels
    BY DEF extra_get_cur_q
  <2>3. OnQ(extraq'[extra_get_cur_q(w)], w)
    BY <1>5, <1>12, <2>1, <2>2
  <2>4. ~({EXTRA_RUN_PEN, EXTRA_RUN_UTIL} \subseteq status'[w])
    BY <1>10, <2>1
  <2> QED
    BY <2>1, <2>3, <2>4
<1>18. EdfRunOnRunq'
  BY <1>2, <1>11 DEF QInv, Placement, EdfRunOnRunq
<1> QED
  BY <1>7, <1>13, <1>14, <1>15, <1>16, <1>17, <1>18 DEF QInv, Placement

-----------------------------------------------------------------------------
(* The loops over the times and over the weights.                          *)
LEMMA TimesStep ==
    ASSUME AInv, NEW v \in Vcpus,
           set_extratime_only(v) \/ set_weight(v) \/ set_times(v)
    PROVE  AInv'
<1>1. /\ call.step = "params" /\ v \in call.todo
      /\ call' = [call EXCEPT !.todo = @ \ {v}]
      /\ Visit("params", v)
      /\ UNCHANGED <<status, extraq, score>>
  BY VisitEffect DEF set_extratime_only, set_weight, set_times, extra
<1>2. /\ period \in [Vcpus -> Nat \ {0}] /\ period_orig \in [Vcpus -> Nat \ {0}]
      /\ slice \in [Vcpus -> Int] /\ slice_orig \in [Vcpus -> Int]
      /\ extraweight \in [Vcpus -> Nat]
      /\ weight \in [Vcpus -> Nat]
  BY DEF AInv, CallTypeOK, QInv, TypeOK
<1>3. /\ call.request \in Requests
      /\ call.request.weight \in Nat /\ call.request.period \in Nat
      /\ call.request.slice \in Nat
      /\ call.request.weight = 0 => call.request.period > 0
      /\ WEIGHT_PERIOD \in Nat \ {0}
  BY <1>1, AdjustAssumption DEF AInv, CallTypeOK
<1>4. /\ period' \in [Vcpus -> Nat \ {0}] /\ period_orig' \in [Vcpus -> Nat \ {0}]
      /\ slice' \in [Vcpus -> Int] /\ slice_orig' \in [Vcpus -> Int]
      /\ extraweight' \in [Vcpus -> Nat]
      /\ weight' \in [Vcpus -> Nat]
  <2>1. CASE set_extratime_only(v)
    BY <1>2, <1>3, <2>1 DEF set_extratime_only
  <2>2. CASE set_weight(v)
    BY <1>2, <1>3, <2>2 DEF set_weight, params
  <2>3. CASE set_times(v)
    BY <1>2, <1>3, <2>3 DEF set_times
  <2> QED
    BY <2>1, <2>2, <2>3
<1>5. QInv'
  BY <1>1, <1>4, TimesPlaced DEF AInv
<1>6. CallTypeOK'
  BY <1>1, <1>4 DEF AInv, CallTypeOK
<1> QED
  BY <1>5, <1>6 DEF AInv

(* The loop over the weights.                                              *)
LEMMA SpreadStep ==
    ASSUME AInv, NEW v \in Vcpus, spread_weight(v)
    PROVE  AInv'
<1>1. /\ call.step = "weights" /\ v \in call.todo
      /\ call' = [call EXCEPT !.todo = @ \ {v}]
      /\ Visit("weights", v)
      /\ UNCHANGED <<extraweight, weight, status, extraq, score>>
  BY VisitEffect DEF spread_weight, extra
<1>2. /\ period \in [Vcpus -> Nat \ {0}] /\ period_orig \in [Vcpus -> Nat \ {0}]
      /\ slice \in [Vcpus -> Int] /\ slice_orig \in [Vcpus -> Int]
      /\ extraweight \in [Vcpus -> Nat]
      /\ weight \in [Vcpus -> Nat]
      /\ WEIGHT_PERIOD \in Nat \ {0}
  BY AdjustAssumption DEF AInv, CallTypeOK, QInv, TypeOK
<1>3. WeightedSlice(v) \in Int
  BY <1>1, <1>2, ShareType DEF AInv, CallTypeOK
<1>4. /\ period' \in [Vcpus -> Nat \ {0}] /\ period_orig' \in [Vcpus -> Nat \ {0}]
      /\ slice' \in [Vcpus -> Int] /\ slice_orig' \in [Vcpus -> Int]
      /\ extraweight' \in [Vcpus -> Nat]
  <2> DEFINE share == WeightedSlice(v)
  <2>1. /\ period' = [period EXCEPT ![v] = WEIGHT_PERIOD]
        /\ period_orig' = [period_orig EXCEPT ![v] = WEIGHT_PERIOD]
        /\ slice' = [slice EXCEPT ![v] = share]
        /\ slice_orig' = [slice_orig EXCEPT ![v] = share]
    BY DEF spread_weight
  <2>2. share \in Int
    BY <1>3
  <2> HIDE DEF share
  <2> QED
    BY <1>1, <1>2, <2>1, <2>2
<1>5. QInv'
  BY <1>1, <1>4, TimesPlaced DEF AInv
<1>6. CallTypeOK'
  BY <1>1 DEF AInv, CallTypeOK, Steps
<1> QED
  BY <1>5, <1>6 DEF AInv

(* The loop over the flags, and the steps that only move the call on.      *)
LEMMA CallStep ==
    ASSUME AInv,
           \/ \E dom \in Domains, r \in Requests : adjust_call(dom, r)
           \/ sum_weights \/ weights_spread \/ adjust_return
    PROVE  AInv'
<1>1. UNCHANGED vars
  BY DEF adjust_call, sum_weights, weights_spread, adjust_return, NextLoop
<1>2. QInv'
  <2>1. QInv /\ [Next]_vars
    BY <1>1 DEF AInv
  <2> QED
    BY <2>1, StepPlaced
<1>3. CallTypeOK'
  <2>1. ASSUME NEW dom \in Domains, NEW r \in Requests, adjust_call(dom, r)
        PROVE  CallTypeOK'
    <3>1. dom \in SUBSET Vcpus
      BY AdjustAssumption
    <3>2. r \in [weight : Nat, period : Nat, slice : Nat, aware : BOOLEAN]
      BY AdjustAssumption
    <3> QED
      BY <2>1, <3>1, <3>2 DEF adjust_call, AInv, CallTypeOK, Steps
  <2>2. CASE sum_weights
    BY <2>2 DEF sum_weights, NextLoop, AInv, CallTypeOK, Steps
  <2>3. CASE weights_spread
    BY <2>3 DEF weights_spread, NextLoop, AInv, CallTypeOK, Steps
  <2>4. CASE adjust_return
    BY <2>4 DEF adjust_return, NoCall, NoRequest, AInv, CallTypeOK, Steps
  <2> QED
    BY <2>1, <2>2, <2>3, <2>4
<1> QED
  BY <1>2, <1>3 DEF AInv

(* Every step keeps the places and the types.                              *)
LEMMA StepAdjust == AInv /\ [AdjustNext]_avars => AInv'
<1> SUFFICES ASSUME AInv, [AdjustNext]_avars PROVE AInv'
  OBVIOUS
<1>1. CASE Schedule \/ UNCHANGED avars
  <2>1. [Next]_vars /\ UNCHANGED <<weight, call>>
    BY <1>1 DEF Schedule, adjust, avars
  <2>2. QInv'
    BY <2>1, StepPlaced DEF AInv
  <2> QED
    BY <2>1, <2>2 DEF AInv, CallTypeOK
<1>2. ASSUME NEW v \in Vcpus, set_flags(v) PROVE AInv'
  <2>1. QInv'
    BY <1>2, FlagsPlaced DEF AInv
  <2>2. Visit("flags", v) /\ weight' = weight
    BY <1>2 DEF set_flags
  <2>3. /\ call' = [call EXCEPT !.todo = @ \ {v}]
        /\ call.step = "flags"
    BY <2>2, VisitEffect
  <2> QED
    BY <2>1, <2>2, <2>3 DEF AInv, CallTypeOK
<1> QED
  BY <1>1, <1>2, TimesStep, SpreadStep, CallStep DEF AdjustNext, sedf_adjust

(* No call is in progress at the start.                                    *)
LEMMA InitAdjust == AdjustInit => AInv
<1> SUFFICES ASSUME AdjustInit PROVE AInv
  OBVIOUS
<1>1. QInv
  BY InitPlaced DEF AdjustInit
<1>2. CallTypeOK
  BY DEF AdjustInit, NoCall, NoRequest, CallTypeOK, Steps
<1> QED
  BY <1>1, <1>2 DEF AInv

(* Between any two steps of a call the queues are in place, and the call   *)
(* is one that its loops can finish.                                       *)
THEOREM PlacedWhileAdjusted == AdjustSpec => []AInv
BY InitAdjust, StepAdjust, PTL DEF AdjustSpec

(* A half-done call links no vCPU twice: see QueuesDisjoint.               *)
THEOREM AdjustedNeverTwice == AdjustSpec => []QueuesDisjoint
<1>1. AInv => QueuesDisjoint
  BY DEF AInv, QInv, Placement
<1> QED
  BY <1>1, PlacedWhileAdjusted, PTL

(* sedf_adjust hands extra time to no vCPU that is asleep: see             *)
(* ExtraOnlyIfQueued.                                                      *)
THEOREM AdjustedExtraQueued == AdjustSpec => []ExtraOnlyIfQueued
<1>1. AInv => ExtraOnlyIfQueued
  BY DEF AInv, QInv, Placement
<1> QED
  BY <1>1, PlacedWhileAdjusted, PTL

(* A vCPU that runs in extra time while its flags are rewritten stays      *)
(* where desched_extra_dom looks for it: see ExtraRunWellPlaced.           *)
THEOREM AdjustedRunningPlaced == AdjustSpec => []ExtraRunWellPlaced
<1>1. AInv => ExtraRunWellPlaced
  BY DEF AInv, QInv, Placement
<1> QED
  BY <1>1, PlacedWhileAdjusted, PTL

-----------------------------------------------------------------------------
(* The order of the wait queue while periods change.                       *)

(* The order survives where the waiting vCPUs keep their periods.          *)
LEMMA PeriodsKeepOrder ==
    ASSUME WaitqSorted, UNCHANGED <<waitq, deadl_abs>>,
           \A v \in Vcpus : OnQ(waitq, v) => period'[v] = period[v],
           waitq \in Seq(Vcpus)
    PROVE  WaitqSorted'
<1>1. \A i \in 1..Len(waitq) : waitq[i] \in Vcpus /\ OnQ(waitq, waitq[i])
  BY DEF OnQ
<1>2. \A i \in 1..Len(waitq) :
         PeriodBegin(deadl_abs, period)'[waitq[i]] = PeriodBegin(deadl_abs, period)[waitq[i]]
  BY <1>1 DEF PeriodBegin
<1> QED
  BY <1>2 DEF WaitqSorted, IsSortedBy

(* A step of a call keeps the order or gives a waiting vCPU another        *)
(* period, in the loop over the parameters or in the one over the weights. *)
LEMMA CallOrder ==
    ASSUME AInv, WaitqSorted, sedf_adjust, ~WaitqSorted'
    PROVE  /\ call.step \in {"params", "weights"}
           /\ UNCHANGED queues
           /\ \E v \in Vcpus : OnQ(waitq, v) /\ period'[v] # period[v]
<1>1. waitq \in Seq(Vcpus)
  BY DEF AInv, QInv, TypeOK
<1>2. ASSUME UNCHANGED <<waitq, deadl_abs, period>> PROVE FALSE
  BY <1>2, OrderKept
<1>3. UNCHANGED <<waitq, deadl_abs>>
      => \E v \in Vcpus : OnQ(waitq, v) /\ period'[v] # period[v]
  BY <1>1, PeriodsKeepOrder
<1>4. ASSUME NEW v \in Vcpus,
             set_extratime_only(v) \/ set_times(v) \/ spread_weight(v)
      PROVE  /\ call.step \in {"params", "weights"}
             /\ UNCHANGED <<queues, deadl_abs>>
  <2>1. PICK step \in {"params", "weights"} : Visit(step, v) /\ UNCHANGED extra
    BY <1>4 DEF set_extratime_only, set_times, spread_weight
  <2> QED
    BY <2>1, VisitEffect DEF extra, queues
<1>5. ASSUME NEW v \in Vcpus, set_weight(v) \/ set_flags(v) PROVE FALSE
  <2>1. PICK step : Visit(step, v) /\ UNCHANGED params
    BY <1>5 DEF set_weight, set_flags
  <2> QED
    BY <1>2, <2>1, VisitEffect DEF params
<1>6. ASSUME \/ \E dom \in Domains, r \in Requests : adjust_call(dom, r)
             \/ sum_weights \/ weights_spread \/ adjust_return
      PROVE  FALSE
  <2>1. UNCHANGED vars
    BY <1>6 DEF adjust_call, sum_weights, weights_spread, adjust_return, NextLoop
  <2> QED
    BY <1>2, <2>1 DEF vars
<1>7. PICK v \in Vcpus : set_extratime_only(v) \/ set_times(v) \/ spread_weight(v)
  BY <1>5, <1>6 DEF sedf_adjust
<1>8. /\ call.step \in {"params", "weights"}
      /\ UNCHANGED <<queues, deadl_abs>>
  BY <1>4, <1>7
<1> QED
  BY <1>3, <1>8 DEF queues

(* Besides the renewal in place only another period of a waiting vCPU      *)
(* disturbs the order of the wait queue: see OrderLostOnlyByPeriods.       *)
THEOREM OrderLostByPeriods == AdjustSpec => OrderLostOnlyByPeriods
<1>1. AInv /\ [AdjustNext]_avars
        => [WaitqSorted /\ ~WaitqSorted'
              => \/ RenewsInPlace
                 \/ /\ call.step \in {"params", "weights"}
                    /\ UNCHANGED queues
                    /\ \E v \in Vcpus : OnQ(waitq, v) /\ period'[v] # period[v]]_avars
  <2> SUFFICES ASSUME AInv, AdjustNext, WaitqSorted, ~WaitqSorted', ~RenewsInPlace
               PROVE  /\ call.step \in {"params", "weights"}
                      /\ UNCHANGED queues
                      /\ \E v \in Vcpus : OnQ(waitq, v) /\ period'[v] # period[v]
    OBVIOUS
  <2>1. ~Schedule
    BY StepOrdered DEF Schedule, AInv
  <2> QED
    BY <2>1, CallOrder DEF AdjustNext
<1> QED
  BY <1>1, PlacedWhileAdjusted, PTL DEF AdjustSpec, OrderLostOnlyByPeriods

-----------------------------------------------------------------------------
(* The weights share what the times leave.                                 *)

(* After a call, and before the next one begins to change the parameters,  *)
(* every vCPU with a weight has the share that is its own now; during the  *)
(* loop over the weights, those that it has visited.                       *)
SharesGiven ==
    call.step # "params" =>
        \A v \in Vcpus :
            weight[v] # 0 /\ ~(call.step = "weights" /\ v \in call.todo)
              => slice_orig[v] = WeightedSlice(v)

(* The shares depend on the weights and on the times of those without one. *)
LEMMA SameShares ==
    ASSUME AInv, weight' = weight,
           \A v \in Vcpus : weight[v] = 0 => /\ slice_orig'[v] = slice_orig[v]
                                             /\ period_orig'[v] = period_orig[v]
    PROVE  \A v \in Vcpus : WeightedSlice(v)' = WeightedSlice(v)
<1> DEFINE Need1 == Need'
<1>1. IsFiniteSet(Vcpus) /\ weight \in [Vcpus -> Nat]
  BY AdjustAssumption DEF AInv, CallTypeOK
<1>2. sumt' = SumFunctionOnSet(Need1, Vcpus)
  BY Zenon DEF sumt, Need
<1>3. \A v \in Vcpus : Need1[v] = Need[v]
  BY DEF Need
<1>4. ASSUME NEW v \in Vcpus PROVE Need[v] \in Int
  <2>1. slice_orig[v] \in Int /\ period_orig[v] \in Nat \ {0} /\ WEIGHT_PERIOD \in Int
    BY AdjustAssumption DEF AInv, QInv, TypeOK
  <2>2. WEIGHT_PERIOD * slice_orig[v] \in Int
    BY <2>1
  <2>3. (WEIGHT_PERIOD * slice_orig[v]) \div period_orig[v] \in Int
    BY <2>1, <2>2
  <2> QED
    BY <2>3 DEF Need
<1>5. SumFunctionOnSet(Need1, Vcpus) = SumFunctionOnSet(Need, Vcpus)
  <2> HIDE DEF Need1, Need
  <2> QED
    BY <1>1, <1>3, <1>4, SumSame
<1>6. sumt' = sumt
  BY <1>1, <1>2, <1>5, SumtType DEF AInv
<1>7. sumw' = sumw
  BY Zenon DEF sumw
<1> QED
  BY <1>6, <1>7, Zenon DEF WeightedSlice

(* Every step keeps the shares that have been given.                       *)
LEMMA StepShares == AInv /\ SharesGiven /\ [AdjustNext]_avars => SharesGiven'
<1> SUFFICES ASSUME AInv, SharesGiven, [AdjustNext]_avars PROVE SharesGiven'
  OBVIOUS
<1>1. /\ weight \in [Vcpus -> Nat] /\ slice_orig \in [Vcpus -> Int]
      /\ period_orig \in [Vcpus -> Nat \ {0}]
  BY DEF AInv, CallTypeOK, QInv, TypeOK
<1>2. UNCHANGED <<weight, slice_orig, period_orig>>
        => \A v \in Vcpus : WeightedSlice(v)' = WeightedSlice(v)
  BY SameShares
<1>3. CASE Schedule \/ UNCHANGED avars
  <2>1. [Next]_vars /\ QInv /\ UNCHANGED <<weight, call>>
    BY <1>3 DEF Schedule, adjust, avars, AInv
  <2>2. UNCHANGED <<period_orig, slice_orig>>
    BY <2>1, ParamsStep
  <2> QED
    BY <1>2, <2>1, <2>2 DEF SharesGiven
<1>4. ASSUME NEW v \in Vcpus, set_extratime_only(v) \/ set_weight(v) \/ set_times(v)
      PROVE  SharesGiven'
  <2>1. call.step = "params" /\ call' = [call EXCEPT !.todo = @ \ {v}]
    BY <1>4, VisitEffect DEF set_extratime_only, set_weight, set_times
  <2>2. call'.step = "params"
    BY <2>1 DEF AInv, CallTypeOK
  <2> QED
    BY <2>2 DEF SharesGiven
<1>5. ASSUME NEW v \in Vcpus, spread_weight(v) PROVE SharesGiven'
  <2> DEFINE share == WeightedSlice(v)
  <2>1. /\ call.step = "weights" /\ v \in call.todo /\ weight[v] # 0
        /\ call' = [call EXCEPT !.todo = @ \ {v}]
        /\ weight' = weight
        /\ slice_orig' = [slice_orig EXCEPT ![v] = share]
        /\ period_orig' = [period_orig EXCEPT ![v] = WEIGHT_PERIOD]
    BY <1>5, VisitEffect DEF spread_weight, AInv, CallTypeOK
  <2>2. call'.step = "weights" /\ call'.todo = call.todo \ {v}
    BY <2>1 DEF AInv, CallTypeOK
  <2>3. \A w \in Vcpus : weight[w] = 0 => /\ slice_orig'[w] = slice_orig[w]
                                          /\ period_orig'[w] = period_orig[w]
    <3> HIDE DEF share
    <3> QED
      BY <1>1, <2>1
  <2>4. \A w \in Vcpus : WeightedSlice(w)' = WeightedSlice(w)
    BY <2>1, <2>3, SameShares
  <2>5. ASSUME NEW w \in Vcpus, weight'[w] # 0, w \notin call'.todo
        PROVE  slice_orig'[w] = WeightedSlice(w)'
    <3>1. CASE w = v
      <4>1. slice_orig'[v] = share
        <5> HIDE DEF share
        <5> QED
          BY <1>1, <2>1
      <4> QED
        BY <2>4, <3>1, <4>1
    <3>2. CASE w # v
      <4>1. slice_orig'[w] = slice_orig[w]
        <5> HIDE DEF share
        <5> QED
          BY <1>1, <2>1, <3>2
      <4>2. slice_orig[w] = WeightedSlice(w)
        BY <2>1, <2>2, <2>5, <3>2 DEF SharesGiven
      <4> QED
        BY <2>4, <4>1, <4>2
    <3> QED
      BY <3>1, <3>2
  <2> QED
    BY <2>2, <2>5 DEF SharesGiven
<1>6. ASSUME NEW v \in Vcpus, set_flags(v) PROVE SharesGiven'
  <2>1. /\ call.step = "flags" /\ call' = [call EXCEPT !.todo = @ \ {v}]
        /\ UNCHANGED <<weight, slice_orig, period_orig>>
    BY <1>6, VisitEffect DEF set_flags, params
  <2>2. call'.step = "flags"
    BY <2>1 DEF AInv, CallTypeOK
  <2> QED
    BY <1>2, <2>1, <2>2 DEF SharesGiven
<1>7. ASSUME NEW dom \in Domains, NEW r \in Requests, adjust_call(dom, r)
      PROVE  SharesGiven'
  BY <1>7 DEF adjust_call, SharesGiven
<1>8. CASE sum_weights
  <2>1. /\ call'.step = "weights" /\ call'.todo = {v \in Vcpus : weight[v] # 0}
        /\ weight' = weight
    BY <1>8 DEF sum_weights, NextLoop, AInv, CallTypeOK
  <2> QED
    BY <2>1 DEF SharesGiven
<1>9. CASE weights_spread \/ adjust_return
  <2>1. /\ call.step \in {"weights", "flags"} /\ call.todo = {}
        /\ call'.step \notin {"params", "weights"}
        /\ UNCHANGED <<weight, slice_orig, period_orig>>
    <3>1. CASE weights_spread
      BY <3>1 DEF weights_spread, NextLoop, AInv, CallTypeOK, vars
    <3>2. CASE adjust_return
      BY <3>2 DEF adjust_return, NoCall, vars
    <3> QED
      BY <1>9, <3>1, <3>2
  <2> QED
    BY <1>2, <2>1 DEF SharesGiven
<1> QED
  BY <1>3, <1>4, <1>5, <1>6, <1>7, <1>8, <1>9 DEF AdjustNext, sedf_adjust

(* Shares that have been given fit.                                        *)
LEMMA GivenFit == AInv /\ SharesGiven => SharesFit
<1> DEFINE weighted == {v \in Vcpus : weight[v] # 0}
           whole == WEIGHT_PERIOD - WEIGHT_SAFETY - sumt
           given == SumFunctionOnSet(slice_orig, weighted)
<1> SUFFICES ASSUME AInv, SharesGiven, call.step = "none",
                    sumt <= WEIGHT_PERIOD - WEIGHT_SAFETY
             PROVE  given + sumt <= WEIGHT_PERIOD - WEIGHT_SAFETY
  BY DEF SharesFit
<1>1. /\ IsFiniteSet(Vcpus) /\ weighted \in SUBSET Vcpus
      /\ weight \in [Vcpus -> Nat] /\ slice_orig \in [Vcpus -> Int]
      /\ WEIGHT_PERIOD \in Int /\ WEIGHT_SAFETY \in Int /\ sumt \in Int
  <2>1. weight \in [Vcpus -> Nat] /\ slice_orig \in [Vcpus -> Int]
    BY DEF AInv, CallTypeOK, QInv, TypeOK
  <2>2. sumt \in Int
    BY <2>1, SumtType DEF AInv
  <2> QED
    BY <2>1, <2>2, AdjustAssumption
<1>2. whole \in Nat
  BY <1>1
<1>3. sumw = SumFunctionOnSet(weight, Vcpus) /\ sumw \in Nat
  BY <1>1, SumwProperties DEF sumw
<1>4. ASSUME NEW v \in weighted
      PROVE  /\ weight[v] # 0
             /\ slice_orig[v] \in Int
             /\ slice_orig[v] * sumw <= weight[v] * whole
  <2>1. v \in Vcpus /\ weight[v] # 0 /\ weight[v] \in Nat /\ slice_orig[v] \in Int
    BY <1>1
  <2>2. sumw \in Nat \ {0}
    BY <1>1, <1>3, <2>1, SumwProperties
  <2>3. slice_orig[v] = CDiv(weight[v] * whole, sumw)
    BY <2>1 DEF SharesGiven, WeightedSlice
  <2> HIDE DEF whole
  <2>4. weight[v] * whole \in Nat
    BY <1>2, <2>1
  <2> DEFINE a == weight[v] * whole
  <2>5. a \in Nat
    BY <2>4
  <2>6. slice_orig[v] = CDiv(a, sumw)
    BY <2>3
  <2> HIDE DEF a
  <2>7. slice_orig[v] = a \div sumw
    BY <2>2, <2>5, <2>6 DEF CDiv, Abs
  <2>8. (a \div sumw) * sumw <= a
    BY <2>2, <2>5, Quotient
  <2> QED
    BY <2>1, <2>7, <2>8 DEF a
<1>5. \A v \in Vcpus : weight[v] \in Nat
  BY <1>1
<1>6. given <= whole
  <2> HIDE DEF weighted, whole
  <2>1. \A v \in weighted : /\ weight[v] # 0
                            /\ slice_orig[v] \in Int
                            /\ slice_orig[v] * SumFunctionOnSet(weight, Vcpus) <= weight[v] * whole
    BY <1>3, <1>4
  <2> QED
    BY <1>1, <1>2, <1>5, <2>1, SharesOfWhole
<1>7. given \in Int
  <2>1. IsFiniteSet(weighted) /\ \A v \in weighted : slice_orig[v] \in Int
    BY <1>1, <1>4, FS_Subset
  <2> HIDE DEF weighted
  <2> QED
    BY <2>1, SumType
<1> HIDE DEF given
<1> QED
  BY <1>1, <1>6, <1>7

(* Whichever domain was adjusted last, and whatever the scheduler did      *)
(* meanwhile: see SharesFit.                                               *)
THEOREM WeightsShareTheRest == AdjustSpec => []SharesFit
<1>1. AdjustInit => SharesGiven
  BY DEF AdjustInit, SharesGiven
<1> QED
  BY <1>1, StepShares, GivenFit, PlacedWhileAdjusted, PTL DEF AdjustSpec

-----------------------------------------------------------------------------
(* Who is chosen.                                                          *)

(* When the weights are spread, the vCPUs without one have left some time; *)
(* nothing in sedf_adjust sees to that ("TODO: verify that realtime        *)
(* schedulability is still fullfilled").                                   *)
RoomLeft ==
    call.step = "weights" /\ call.todo # {} => sumt <= WEIGHT_PERIOD - WEIGHT_SAFETY

(* A share of what is left is not negative.                                *)
LEMMA ShareNat ==
    ASSUME AInv, RoomLeft, call.step = "weights", NEW v \in call.todo
    PROVE  WeightedSlice(v) >= 0
<1> DEFINE whole == WEIGHT_PERIOD - WEIGHT_SAFETY - sumt
<1>1. v \in Vcpus /\ weight \in [Vcpus -> Nat] /\ weight[v] # 0
  BY DEF AInv, CallTypeOK
<1>2. sumw \in Nat /\ weight[v] <= sumw /\ weight[v] \in Nat
  BY <1>1, SumwProperties
<1>3. sumt \in Int
  BY <1>1, SumtType DEF AInv
<1>4. whole \in Nat
  BY <1>3, AdjustAssumption DEF RoomLeft
<1> HIDE DEF whole
<1> DEFINE a == weight[v] * whole
<1>5. a \in Nat
  BY <1>2, <1>4
<1>6. WeightedSlice(v) = CDiv(a, sumw)
  BY Zenon DEF WeightedSlice, whole
<1> HIDE DEF a
<1>7. sumw \in Nat \ {0}
  BY <1>1, <1>2
<1>8. CDiv(a, sumw) = a \div sumw
  BY <1>5, <1>7 DEF CDiv, Abs
<1>9. a \div sumw \in Nat
  BY <1>5, <1>7, Quotient
<1> QED
  BY <1>6, <1>8, <1>9

(* The visits happen away from update_queues and the choice.               *)
LEMMA AdjustElsewhere ==
    ASSUME ServerInv, LockFree, UNCHANGED at, SlicesNat'
    PROVE  ServerInv'
<1>1. at' \in {"guest", "called"}
  BY DEF LockFree
<1> QED
  BY <1>1 DEF ServerInv, PassedFit, HeadCanRun, HeadWaits, NeverBehind

(* As long as there is room, every step keeps the server invariant.        *)
LEMMA StepFit == AInv /\ ServerInv /\ RoomLeft /\ [AdjustNext]_avars => ServerInv'
<1> SUFFICES ASSUME AInv, ServerInv, RoomLeft, [AdjustNext]_avars PROVE ServerInv'
  OBVIOUS
<1>1. CASE Schedule \/ UNCHANGED avars
  <2>1. [Next]_vars /\ QInv
    BY <1>1 DEF Schedule, avars, AInv
  <2> QED
    BY <2>1, StepServer
<1>2. /\ slice \in [Vcpus -> Int] /\ slice_orig \in [Vcpus -> Int]
      /\ \A v \in Vcpus : slice[v] >= 0 /\ slice_orig[v] >= 0
  BY DEF AInv, QInv, TypeOK, ServerInv, SlicesNat
<1>3. ASSUME NEW step, NEW v, Visit(step, v), SlicesNat' PROVE ServerInv'
  <2>1. LockFree /\ UNCHANGED at
    BY <1>3 DEF Visit, control
  <2> QED
    BY <1>3, <2>1, AdjustElsewhere
<1>4. ASSUME NEW v \in Vcpus, set_extratime_only(v) PROVE ServerInv'
  BY <1>2, <1>3, <1>4 DEF set_extratime_only, SlicesNat
<1>5. ASSUME NEW v \in Vcpus, set_weight(v) \/ set_flags(v) PROVE ServerInv'
  BY <1>2, <1>3, <1>5 DEF set_weight, set_flags, params, SlicesNat
<1>6. ASSUME NEW v \in Vcpus, set_times(v) PROVE ServerInv'
  <2>1. call.request \in Requests
    BY <1>6, VisitEffect DEF set_times, AInv, CallTypeOK
  <2>2. call.request.slice \in Nat
    BY <2>1, AdjustAssumption
  <2>3. SlicesNat'
    BY <1>2, <1>6, <2>2 DEF set_times, SlicesNat
  <2> QED
    BY <1>3, <1>6, <2>3 DEF set_times
<1>7. ASSUME NEW v \in Vcpus, spread_weight(v) PROVE ServerInv'
  <2> DEFINE share == WeightedSlice(v)
  <2>1. /\ Visit("weights", v)
        /\ slice' = [slice EXCEPT ![v] = share]
        /\ slice_orig' = [slice_orig EXCEPT ![v] = share]
    BY <1>7 DEF spread_weight
  <2>2. share >= 0
    BY <2>1, VisitEffect, ShareNat
  <2> HIDE DEF share
  <2>3. SlicesNat'
    BY <1>2, <2>1, <2>2 DEF SlicesNat
  <2> QED
    BY <1>3, <2>1, <2>3
<1>8. ASSUME \/ \E dom \in Domains, r \in Requests : adjust_call(dom, r)
             \/ sum_weights \/ weights_spread \/ adjust_return
      PROVE  ServerInv'
  <2>1. UNCHANGED vars
    BY <1>8 DEF adjust_call, sum_weights, weights_spread, adjust_return, NextLoop
  <2>2. QInv /\ [Next]_vars
    BY <2>1 DEF AInv
  <2> QED
    BY <2>2, StepServer
<1> QED
  BY <1>1, <1>4, <1>5, <1>6, <1>7, <1>8 DEF AdjustNext, sedf_adjust

(* However the parameters are changed between two decisions, the vCPU that *)
(* is chosen has budget, slice and a deadline ahead: see HeadCanRun.  When *)
(* the times leave no room for the weights it need not (run overload).     *)
THEOREM AdjustedHeadFit ==
    ASSUME \A p \in Params : p.slice >= 0 /\ p.slice_orig >= 0
    PROVE  AdjustSpec /\ []RoomLeft => []HeadCanRun
<1>1. AdjustInit => ServerInv
  <2>1. Init => ServerInv
    BY InitFit
  <2> QED
    BY <2>1 DEF AdjustInit
<1>2. ServerInv => HeadCanRun
  BY DEF ServerInv
<1> QED
  BY <1>1, <1>2, StepFit, PlacedWhileAdjusted, PTL DEF AdjustSpec

(* BUG_ON(1) is out of reach on the same condition: see NeverBehind.       *)
THEOREM AdjustedNeverBehind ==
    ASSUME \A p \in Params : p.slice >= 0 /\ p.slice_orig >= 0
    PROVE  AdjustSpec /\ []RoomLeft => []NeverBehind
<1>1. AdjustInit => ServerInv
  <2>1. Init => ServerInv
    BY InitFit
  <2> QED
    BY <2>1 DEF AdjustInit
<1>2. ServerInv => NeverBehind
  BY DEF ServerInv
<1> QED
  BY <1>1, <1>2, StepFit, PlacedWhileAdjusted, PTL DEF AdjustSpec

=============================================================================
