------------------------------- MODULE PQueue -------------------------------
(***************************************************************************)
(* libpqueue (pqueue.c): the binary heap under the receiver proxy's pool.  *)
(* Slot 0 of q->d is not used.  bubble_up and percolate_down run one       *)
(* iteration of their loop per step; the operation that called them is     *)
(* over when `pc` is "idle" again.  Operations do not overlap here: callers *)
(* hold the pool's mutex (RxProxy models what happens when they do not).   *)
(* The caller inserts a node that is not in the queue, and removes or      *)
(* changes one that is; apart from that it may make any call at any time.  *)
(* pqueue_remove and pqueue_change_priority trust the position stored in   *)
(* the node they are given, right or wrong.                                *)
(***************************************************************************)
EXTENDS Integers, FiniteSets

CONSTANTS
    Nodes,       \* the node_t objects of the caller
    Priorities,  \* values of pri
    NULL,
    INIT_SIZE    \* the n of pqueue_init

ASSUME PQueueAssumption ==
    /\ Priorities \subseteq Nat
    /\ NULL \notin Nodes
    /\ INIT_SIZE \in Nat

VARIABLES
    d,       \* q->d, slots 1 .. avail - 1
    size,    \* q->size, one more than the number of nodes
    avail,   \* q->avail
    pri,     \* pri of every node
    pos,     \* pos of every node
    pc,      \* "idle", "up" in bubble_up, "down" in percolate_down
    i,       \* the slot the loop has come to
    moving,  \* moving_node
    ret,     \* what pqueue_pop or pqueue_peek returned last
    printed, \* history: pqueue_print has been called
    misled   \* history: a call has used the position of another node

heapVars == <<d, size, pri, pos>>
siftVars == <<pc, i, moving>>
history == <<printed, misled>>
vars == <<heapVars, avail, siftVars, ret, history>>

step == INIT_SIZE + 1
left(k) == 2 * k
right(k) == 2 * k + 1
parent(k) == k \div 2

\* Mutant: the comparison is the other way round.
less_pri(next, curr) == next < curr

cmp_pri(next, curr) == next > curr

\* pqueue_init
Init ==
    /\ avail = step
    /\ d = [k \in 1 .. avail - 1 |-> NULL]
    /\ size = 1
    /\ pri \in [Nodes -> Priorities]
    /\ pos = [n \in Nodes |-> 0]
    /\ pc = "idle" /\ i = 1 /\ moving = NULL
    /\ ret = NULL /\ printed = FALSE /\ misled = FALSE

-----------------------------------------------------------------------------
\* Entering bubble_up or percolate_down at slot k, where q->d[k] is n.
Sift(dir, k, n) == pc' = dir /\ i' = k /\ moving' = n

\* Mutant: the root is never reached.
GoesUpShort == i > 2 /\ cmp_pri(pri[d[parent(i)]], pri[moving])

\* The condition of the loop of bubble_up; an iteration moves the parent down.
GoesUp == i > 1 /\ cmp_pri(pri[d[parent(i)]], pri[moving])

\* Mutant: the loop does not step to the parent.
NextUpStays == i

\* i = parent_node
NextUp == parent(i)

\* Mutant: the parent does not learn its new position.
ParentPosOld == pos

\* setpos(q->d[i], i), of the parent that has come down
ParentPos == [pos EXCEPT ![d[parent(i)]] = i]

BubbleUp ==
    /\ pc = "up" /\ GoesUp
    /\ d' = [d EXCEPT ![i] = d[parent(i)]]
    /\ pos' = ParentPos
    /\ i' = NextUp
    /\ UNCHANGED <<size, pri, avail, pc, moving, ret>>

\* maxchild: the child of k that has precedence, or 0.
maxchild(k) ==
    IF left(k) >= size THEN 0
    ELSE IF right(k) < size /\ cmp_pri(pri[d[left(k)]], pri[d[right(k)]])
         THEN right(k) ELSE left(k)

\* The condition of the loop of percolate_down; an iteration moves a child up.
GoesDown == maxchild(i) # 0 /\ cmp_pri(pri[moving], pri[d[maxchild(i)]])

PercolateDown ==
    /\ pc = "down" /\ GoesDown
    /\ d' = [d EXCEPT ![i] = d[maxchild(i)]]
    /\ pos' = [pos EXCEPT ![d[maxchild(i)]] = i]
    /\ i' = maxchild(i)
    /\ UNCHANGED <<size, pri, avail, pc, moving, ret>>

\* Mutant: the moving node is not written back.
PlacedHeapOld == d

\* q->d[i] = moving_node
PlacedHeap == [d EXCEPT ![i] = moving]

\* setpos(moving_node, i)
PlacedPos == [pos EXCEPT ![moving] = i]

\* The loop is over and the moving node gets its slot.
Place ==
    /\ \/ pc = "up" /\ ~GoesUp
       \/ pc = "down" /\ ~GoesDown
    /\ d' = PlacedHeap
    /\ pos' = PlacedPos
    /\ pc' = "idle" /\ i' = 1 /\ moving' = NULL
    /\ UNCHANGED <<size, pri, avail, ret>>

-----------------------------------------------------------------------------
Members == {d[k] : k \in 1 .. size - 1}

\* Mutant: the array grows one insertion too late.
NoSlotLeftLate == size > avail

\* "allocate more memory if necessary"
NoSlotLeft == size >= avail

Insert(n, p) ==
    /\ pc = "idle" /\ n \notin Members
    /\ pri' = [pri EXCEPT ![n] = p]
    /\ avail' = IF NoSlotLeft THEN size + step ELSE avail
    /\ d' = [k \in 1 .. avail' - 1 |->
                IF k = size THEN n ELSE IF k < avail THEN d[k] ELSE NULL]
    /\ size' = size + 1
    /\ Sift("up", size, n)
    /\ UNCHANGED <<pos, ret>>

\* Mutant: the size is decremented after the slot is read.
LastBefore == d[size]

\* q->d[--q->size]
Last == d[size - 1]

\* pqueue_pop of a queue that is not empty.
Pop ==
    /\ pc = "idle" /\ size > 1
    /\ ret' = d[1]
    /\ d' = [d EXCEPT ![1] = Last]
    /\ size' = size - 1
    /\ Sift("down", 1, Last)
    /\ UNCHANGED <<pri, pos, avail>>

Peek ==
    /\ pc = "idle" /\ size > 1
    /\ ret' = d[1]
    /\ UNCHANGED <<heapVars, avail, siftVars>>

\* pqueue_pop and pqueue_peek on an empty queue.
PopEmpty ==
    /\ pc = "idle" /\ size = 1
    /\ ret' = NULL
    /\ UNCHANGED <<heapVars, avail, siftVars>>

\* Which way the node that came into a slot has to move.
Direction(old, new) == IF cmp_pri(old, new) THEN "up" ELSE "down"

\* The slot n says it is in is another node's.
WrongPos(n) == d[pos[n]] # n

Remove(n) ==
    /\ pc = "idle" /\ n \in Members
    /\ d' = [d EXCEPT ![pos[n]] = Last]
    /\ size' = size - 1
    /\ Sift(Direction(pri[n], pri[Last]), pos[n], Last)
    /\ misled' = (misled \/ WrongPos(n))
    /\ UNCHANGED <<pri, pos, avail, ret>>

ChangePriority(n, p) ==
    /\ pc = "idle" /\ n \in Members
    /\ pri' = [pri EXCEPT ![n] = p]
    /\ Sift(Direction(pri[n], p), pos[n], d[pos[n]])
    /\ misled' = (misled \/ WrongPos(n))
    /\ UNCHANGED <<d, size, pos, avail, ret>>

\* pqueue_print empties a copy of the array whose nodes are those of the
\* queue itself; each of them was put into slot 1 of the copy, and told so by
\* set_pos, before it was popped.
PQPrint ==
    /\ pc = "idle"
    /\ pos' = [n \in Nodes |-> IF n \in Members THEN 1 ELSE pos[n]]
    /\ printed' = TRUE
    /\ UNCHANGED <<d, size, pri, avail, siftVars, ret, misled>>

-----------------------------------------------------------------------------
SiftStep == BubbleUp \/ PercolateDown \/ Place

CallNoPos ==
    \/ Pop \/ Peek \/ PopEmpty
    \/ \E n \in Nodes, p \in Priorities : Insert(n, p)

CallByPos ==
    \E n \in Nodes : Remove(n) \/ \E p \in Priorities : ChangePriority(n, p)

Next ==
    \/ (SiftStep \/ CallNoPos) /\ UNCHANGED history
    \/ CallByPos /\ UNCHANGED printed
    \/ PQPrint

Spec == Init /\ [][Next]_vars

-----------------------------------------------------------------------------
(* Properties                                                              *)

\* The types of pqueue_t and of the locals; every used slot has a node.
TypeOK ==
    /\ avail \in Nat /\ size \in Nat \ {0}
    /\ d \in [1 .. avail - 1 -> Nodes \cup {NULL}]
    /\ \A k \in 1 .. size - 1 : d[k] \in Nodes
    /\ pri \in [Nodes -> Priorities] /\ pos \in [Nodes -> Nat]
    /\ pc \in {"idle", "up", "down"} /\ i \in Nat \ {0}
    /\ moving \in Nodes \cup {NULL} /\ (pc # "idle" => moving \in Nodes)
    /\ ret \in Nodes \cup {NULL}
    /\ printed \in BOOLEAN /\ misled \in BOOLEAN

\* The heap as it will be when the moving node is put down.
D == IF pc = "idle" THEN d ELSE [d EXCEPT ![i] = moving]

Elems == {D[k] : k \in 1 .. size - 1}

\* The array never holds more than it has room for.
FitsAvail == size <= avail

\* No node is lost or doubled while the heap is rearranged.
NodesOnce == \A j, k \in 1 .. size - 1 : D[j] = D[k] => j = k

\* No node has precedence over its parent.
InOrder == \A k \in 2 .. size - 1 : ~cmp_pri(pri[d[parent(k)]], pri[d[k]])

\* Between operations the heap is in order, after any sequence of calls in
\* which none was misled by a wrong position; pqueue_print may be among them.
HeapOrder == pc = "idle" /\ ~misled => InOrder

\* pqueue_remove and pqueue_change_priority get the right position from
\* getpos, after any rearrangement of the heap, unless pqueue_print has been
\* called: nothing else of pqueue.c makes a position wrong.
MisledByPrint == misled => printed

\* Mutant: the right child is never looked at.
LeftChild(k) == {left(k)}

\* The slots subtree_is_valid looks at and descends to.
Children(k) == {left(k), right(k)}

\* subtree_is_valid; 1 says that all is well below k.
subtree_is_valid[k \in Nat \ {0}] ==
    IF \A c \in Children(k) : c < size =>
            ~cmp_pri(pri[d[k]], pri[d[c]]) /\ subtree_is_valid[c] = 1
    THEN 1 ELSE 0

\* The library's own check, pqueue_is_valid, says yes exactly when the heap is
\* in order, also of the heaps that a misled call has put out of order.
CheckAgrees == pc = "idle" => (subtree_is_valid[1] = 1 <=> InOrder)

PQ == INSTANCE PriorityQueue WITH elems <- Elems, void <- misled

\* The heap implements the abstract priority queue: each call takes effect
\* once, pop and peek return a node of lowest priority value, until a call is
\* misled by a wrong position.
IsPriorityQueue == PQ!Spec

\* pqueue_pop returns a node of lowest priority value, as every pop recorded
\* in sample-multiattr.c does, with pqueue_print before and between the
\* changes of priority.
PopsInOrder ==
    [][Pop => \A k \in 1 .. size - 1 : pri[ret'] <= pri[d[k]]]_vars

\* Every call returns: a step of bubble_up goes to a smaller slot, one of
\* percolate_down to a larger one that is in use, so neither can go on for
\* ever, and nothing else happens to the heap before the loop is over.
SiftsEnd ==
    [][/\ pc = "up" => pc' = "idle" \/ (pc' = "up" /\ i' < i /\ 0 < i')
       /\ pc = "down" => pc' = "idle" \/ (pc' = "down" /\ i < i' /\ i' < size)
      ]_vars
=============================================================================
