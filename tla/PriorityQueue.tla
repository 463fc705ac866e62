--------------------------- MODULE PriorityQueue ---------------------------
(***************************************************************************)
(* What libpqueue promises its caller (pqueue.h): a collection of nodes,   *)
(* from which pqueue_pop and pqueue_peek return one of lowest priority     *)
(* value, with ties broken in any way.  RxProxy uses the queue as this.    *)
(* Nothing is promised any more once `void` holds.                         *)
(***************************************************************************)
EXTENDS Integers

CONSTANTS Nodes, Priorities, NULL

VARIABLES
    elems,  \* the nodes in the queue
    pri,    \* the priority of every node
    ret,    \* the node the last pop or peek returned
    void    \* a call has been given a node whose position is wrong

vars == <<elems, pri, ret, void>>

Init ==
    /\ elems = {} /\ pri \in [Nodes -> Priorities]
    /\ ret = NULL /\ void = FALSE

\* The nodes no other node of the queue has precedence over.
Firsts == {n \in elems : \A m \in elems : pri[n] <= pri[m]}

Insert == \E n \in Nodes \ elems, p \in Priorities :
    elems' = elems \cup {n} /\ pri' = [pri EXCEPT ![n] = p] /\ UNCHANGED ret

Pop == \E n \in Firsts :
    elems' = elems \ {n} /\ ret' = n /\ UNCHANGED pri

Peek == \E n \in Firsts : ret' = n /\ UNCHANGED <<elems, pri>>

PopEmpty == elems = {} /\ ret' = NULL /\ UNCHANGED <<elems, pri>>

Remove == \E n \in elems : elems' = elems \ {n} /\ UNCHANGED <<pri, ret>>

ChangePriority == \E n \in elems, p \in Priorities :
    pri' = [pri EXCEPT ![n] = p] /\ UNCHANGED <<elems, ret>>

\* The queue is anybody's guess from here on.
Break == void' = TRUE

Next ==
    \/ /\ Insert \/ Pop \/ Peek \/ PopEmpty \/ Remove \/ ChangePriority
       /\ void' = void
    \/ Break

Spec == Init /\ [][Next]_vars
=============================================================================
