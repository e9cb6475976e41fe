--------------------------- MODULE SedfLifecycle ---------------------------
(***************************************************************************)
(* vCPUs and CPUs that come and go around the scheduler of one CPU:        *)
(* allocation, insertion and freeing of vCPUs, their placement by          *)
(* sedf_pick_cpu, and the per-CPU data of a CPU that is unplugged.         *)
(*                                                                         *)
(* struct scheduler has no remove_vcpu and no migrate here: nothing takes  *)
(* a vCPU off the queues before its memory is freed or its processor       *)
(* changes, except that it has been put to sleep before.                   *)
(*                                                                         *)
(* SedfCore is the scheduler on ThisCpu.  What a vCPU does on another CPU  *)
(* is not followed: it comes back in one of the states of Away.            *)
(***************************************************************************)
EXTENDS SedfProps

CONSTANTS
    Cpus,        \* the CPUs of the pool, as numbers
    ThisCpu,
    VcpuId,      \* vcpu_id, by vCPU
    Affinities,  \* the values cpu_affinity may take
    Away         \* what a vCPU may bring back; its times are from NOW() on

ASSUME LifecycleAssumption ==
    /\ Cpus \subseteq Nat
    /\ IsFiniteSet(Cpus)
    /\ ThisCpu \in Cpus
    /\ VcpuId \in [Vcpus -> Nat]
    /\ Affinities \subseteq SUBSET Cpus
    /\ Away \subseteq [status : SUBSET {EXTRA_AWARE, EXTRA_WANT_PEN_Q},
                       deadl_abs : Int, cputime : Int, blocked : BOOLEAN,
                       budget : Int, deadline : Int]

VARIABLES
    vdata,      \* the vCPUs that have been allocated
    processor,  \* v->processor
    online,     \* cpupool_scheduler_cpumask: the CPUs that take vCPUs
    pdata       \* the CPUs whose sedf_cpu_info is allocated

life  == <<vdata, processor, online, pdata>>
lvars == <<vars, life>>

Resident(v) == v \in vdata /\ processor[v] = ThisCpu

LifeInit ==
    /\ Init
    /\ vdata = Vcpus
    /\ processor = [v \in Vcpus |-> ThisCpu]
    /\ online = Cpus
    /\ pdata = Cpus

-----------------------------------------------------------------------------
(* cpumask_cycle: the next CPU of the mask behind n, or its first one.     *)
cpumask_cycle(n, mask) ==
    LET behind == {c \in mask : c > n}
    IN  IF behind # {} THEN Min(behind) ELSE Min(mask)

(* Mutant: a CPU that has left the pool is still taken. *)
AffinityOnly(affinity) == affinity

online_affinity(affinity) == affinity \cap online

(* sedf_pick_cpu, for a vCPU that may run on one of the CPUs online. *)
sedf_pick_cpu(v, affinity) ==
    LET mask == online_affinity(affinity)
    IN  cpumask_cycle((VcpuId[v] % Cardinality(mask)) - 1, mask)

(* A CPU that has left the pool runs nothing but its idle vCPU. *)
PickOffPool ==
    /\ ThisCpu \notin online
    /\ Run(IDLE, status, SECOND)

(* The scheduler, as long as it has its data.  The hypervisor pauses and   *)
(* resumes a vCPU on the CPU that it belongs to.                           *)
ScheduleHere ==
    /\ ThisCpu \in pdata
    /\ \/ PickOffPool
       \/ /\ at = "pick" => ThisCpu \in online
          /\ Next
    /\ \A v \in Vcpus : ~Resident(v) => runnable'[v] = runnable[v]
    /\ UNCHANGED life

(* The vCPU is paused, and sedf_sleep has returned, and it is off the CPU. *)
Quiet(v) == ~runnable[v] /\ pend[v] = {} /\ curr # v

(* sedf_alloc_vdata and sedf_insert_vcpu of a guest, placed on any CPU; a  *)
(* vCPU that cannot be allocated changes nothing.                          *)
sedf_alloc_vdata(v, c) ==
    LET st == {EXTRA_AWARE, SEDF_ASLEEP}
    IN  /\ LockFree
        /\ v \notin vdata
        /\ c \in online
        /\ vdata' = vdata \cup {v}
        /\ processor' = [processor EXCEPT ![v] = c]
        /\ status' = [status EXCEPT ![v] = st]
        /\ deadl_abs' = [deadl_abs EXCEPT ![v] = 0]
        /\ sched_start_abs' = [sched_start_abs EXCEPT ![v] = 0]
        /\ cputime' = [cputime EXCEPT ![v] = 0]
        /\ score' = [i \in Levels |-> [score[i] EXCEPT ![v] = 0]]
        /\ blocked' = [blocked EXCEPT ![v] = FALSE]
        /\ cbs_current_budget' = [cbs_current_budget EXCEPT ![v] = 0]
        /\ cbs_current_deadline' = [cbs_current_deadline EXCEPT ![v] = 0]
        /\ period' = [period EXCEPT ![v] = NewVcpu.period]
        /\ slice' = [slice EXCEPT ![v] = NewVcpu.slice]
        /\ period_orig' = [period_orig EXCEPT ![v] = NewVcpu.period_orig]
        /\ slice_orig' = [slice_orig EXCEPT ![v] = NewVcpu.slice_orig]
        /\ extraweight' = [extraweight EXCEPT ![v] = NewVcpu.extraweight]
        /\ extraq' = [extraq EXCEPT ![EXTRA_UTIL_Q] = extraq_check(v, st)]
        /\ UNCHANGED <<external, cpu, control, runq, waitq, online, pdata>>

(* sedf_free_vdata: the memory of the vCPU is freed as it is. *)
sedf_free_vdata(v) ==
    /\ LockFree
    /\ v \in vdata
    /\ Quiet(v)
    /\ vdata' = vdata \ {v}
    /\ UNCHANGED <<vars, processor, online, pdata>>

(* vcpu_migrate: the vCPU is moved as it is, to where sedf_pick_cpu says.  *)
vcpu_migrate(v, affinity) ==
    /\ LockFree
    /\ Resident(v)
    /\ Quiet(v)
    /\ affinity \cap online # {}
    /\ processor' = [processor EXCEPT ![v] = sedf_pick_cpu(v, affinity)]
    /\ UNCHANGED <<vars, vdata, online, pdata>>

(* vcpu_migrate on another CPU: the vCPU comes here, asleep. *)
vcpu_arrives(v, affinity, r) ==
    /\ LockFree
    /\ v \in vdata
    /\ ~Resident(v)
    /\ affinity \cap online # {}
    /\ sedf_pick_cpu(v, affinity) = ThisCpu
    /\ processor' = [processor EXCEPT ![v] = ThisCpu]
    /\ status' = [status EXCEPT ![v] = r.status \cup {SEDF_ASLEEP}]
    /\ deadl_abs' = [deadl_abs EXCEPT ![v] = now + r.deadl_abs]
    /\ cputime' = [cputime EXCEPT ![v] = r.cputime]
    /\ blocked' = [blocked EXCEPT ![v] = r.blocked]
    /\ cbs_current_budget' = [cbs_current_budget EXCEPT ![v] = r.budget]
    /\ cbs_current_deadline' =
           [cbs_current_deadline EXCEPT ![v] = now + r.deadline]
    /\ UNCHANGED <<external, cpu, control, queues, sched_start_abs, score,
                   params, vdata, online, pdata>>

(* The CPU leaves the pool and takes no vCPUs any more. *)
cpu_leaves(c) ==
    /\ c \in online
    /\ online # {c}
    /\ online' = online \ {c}
    /\ UNCHANGED <<vars, vdata, processor, pdata>>

(* sedf_free_pdata, when the pool has moved every vCPU away and only the   *)
(* idle vCPU is left.                                                      *)
sedf_free_pdata(c) ==
    /\ c \in pdata \ online
    /\ \A v \in vdata : processor[v] # c
    /\ c = ThisCpu => at = "guest" /\ curr = IDLE
    /\ pdata' = pdata \ {c}
    /\ UNCHANGED <<vars, vdata, processor, online>>

(* sedf_alloc_pdata: empty queues; the CPU joins the pool. *)
sedf_alloc_pdata(c) ==
    /\ c \notin pdata
    /\ pdata' = pdata \cup {c}
    /\ online' = online \cup {c}
    /\ IF c = ThisCpu
       THEN /\ runq' = << >>
            /\ waitq' = << >>
            /\ extraq' = [i \in Levels |-> << >>]
            /\ current_slice_expires' = 0
            /\ softirq' = FALSE
            /\ UNCHANGED <<external, curr, control, status, account, score,
                           blocked, cbs, params>>
       ELSE UNCHANGED vars
    /\ UNCHANGED <<vdata, processor>>

-----------------------------------------------------------------------------
LifeNext ==
    \/ ScheduleHere
    \/ \E v \in Vcpus : \/ \E c \in Cpus : sedf_alloc_vdata(v, c)
                        \/ sedf_free_vdata(v)
                        \/ \E a \in Affinities :
                              \/ vcpu_migrate(v, a)
                              \/ \E r \in Away : vcpu_arrives(v, a, r)
    \/ \E c \in Cpus : \/ cpu_leaves(c)
                       \/ sedf_free_pdata(c)
                       \/ sedf_alloc_pdata(c)

LifeSpec == LifeInit /\ [][LifeNext]_lvars

-----------------------------------------------------------------------------
(* No pointer is left behind: a vCPU that has been freed, or that has gone *)
(* to another CPU, is on no queue of this CPU and is neither its current   *)
(* vCPU nor the saved cursor of update_queues, although nothing takes it   *)
(* off; and the queues of a CPU whose data is freed are empty.             *)
OnlyResidentsQueued ==
    \A v \in Vcpus :
        ~(Resident(v) /\ ThisCpu \in pdata) =>
            /\ ~OnTaskQ(v)
            /\ \A i \in Levels : ~OnQ(extraq[i], v)
            /\ v # curr
            /\ v # cur

(* RUNQ(v->processor) exists: every vCPU is placed on a CPU whose          *)
(* sedf_cpu_info is allocated, however the pool changes.                   *)
PlacedWithData == \A v \in vdata : processor[v] \in pdata
=============================================================================
