----------------------------- MODULE LinkedList -----------------------------
(***************************************************************************)
(* The circular doubly linked lists of list.h, as operators on the two     *)
(* pointer fields of every struct list_head: l.next[n] and l.prev[n].      *)
(* The simulator uses them for its run events, the scheduler for all its   *)
(* queues, there with the convention that a node that is on no list has a  *)
(* next that is NULL or the node itself.                                   *)
(***************************************************************************)
EXTENDS Integers, Sequences, SequencesExt

CONSTANTS NULL, LIST_POISON1, LIST_POISON2

INIT_LIST_HEAD(l, n) ==
    [next |-> [l.next EXCEPT ![n] = n], prev |-> [l.prev EXCEPT ![n] = n]]

(* __list_add: new goes between two neighbours. *)
list_add_between(l, new, before, after) ==
    [next |-> [l.next EXCEPT ![new] = after, ![before] = new],
     prev |-> [l.prev EXCEPT ![after] = new, ![new] = before]]

list_add(l, new, head) == list_add_between(l, new, head, l.next[head])

list_add_tail(l, new, head) == list_add_between(l, new, l.prev[head], head)

(* The assertions of list_del. *)
LinkedIn(l, n) == l.prev[l.next[n]] = n /\ l.next[l.prev[n]] = n

(* list_del: the neighbours are linked to each other, the node is poisoned. *)
list_del(l, n) ==
    [next |-> [l.next EXCEPT ![l.prev[n]] = l.next[n], ![n] = LIST_POISON1],
     prev |-> [l.prev EXCEPT ![l.next[n]] = l.prev[n], ![n] = LIST_POISON2]]

(* __del_from_queue and extraq_del of the scheduler. *)
del_from_queue(l, n) ==
    [list_del(l, n) EXCEPT !.next = [@ EXCEPT ![n] = NULL]]

(* __task_on_queue and extraq_on: is the node linked? *)
task_on_queue(l, n) == l.next[n] # NULL /\ l.next[n] # n

-----------------------------------------------------------------------------
(* What the pointers stand for: from the head, through the nodes of q in   *)
(* their order, back to the head, and the same way backwards.              *)

(* The i-th stop of a walk from the head: 0 and Len(q) + 1 are the head.   *)
NodeAt(q, head, i) == IF i \in 1..Len(q) THEN q[i] ELSE head

Represents(l, head, q) ==
    \A i \in 0..Len(q) :
        /\ l.next[NodeAt(q, head, i)] = NodeAt(q, head, i + 1)
        /\ l.prev[NodeAt(q, head, i + 1)] = NodeAt(q, head, i)
=============================================================================
