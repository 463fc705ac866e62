---------------------------- MODULE PQueueProofs ----------------------------
(* Theorems about the binary heap, for any set of nodes and priorities.    *)
EXTENDS PQueue, WellFoundedInduction, TLAPS

\* The parent of slot k, and whose parent slot q is.
LEMMA ParentFacts ==
  ASSUME NEW k \in Nat, k > 1
  PROVE  /\ parent(k) \in 1 .. k - 1
         /\ \A q \in Nat : parent(k) = q <=> k = 2 * q \/ k = 2 * q + 1
  BY DEF parent

\* The node of slot k when the moving node counts as being in slot i.
At(k) == IF pc # "idle" /\ k = i THEN moving ELSE d[k]

\* Its priority.
PriAt(k) == pri[At(k)]

Slots == 1 .. size - 1

\* The nodes in the queue.
Held == {At(k) : k \in Slots}

\* The slot a loop has come to exists.  bubble_up stays among the used slots;
\* percolate_down may start in the slot that was just given up.
SlotInv ==
    /\ size <= avail
    /\ pc = "up" => i \in Slots
    /\ pc = "down" => i \in 1 .. avail - 1 /\ i <= size

OnceInv ==
    /\ \A j, k \in Slots : At(j) = At(k) => j = k
    /\ pc # "idle" => \A k \in Slots : k # i => d[k] # moving

\* Node n knows that it is in slot k, or pqueue_print has told it slot 1.
Knows(n, k) == pos[n] = k \/ (printed /\ pos[n] = 1)

\* The positions the nodes remember, the moving node's excepted.
PosInv == \A k \in Slots : (pc = "idle" \/ k # i) => Knows(d[k], k)

\* Heap order, except between the moving node and its parent (up) or its
\* children (down); the parent of slot i precedes the children of slot i.
OrderInv ==
    /\ \A k \in Slots :
          (k > 1 /\ (pc = "up" => k # i) /\ (pc = "down" => parent(k) # i))
              => PriAt(parent(k)) <= PriAt(k)
    /\ pc # "idle" /\ i > 1 =>
          \A k \in Slots : k > 1 /\ parent(k) = i => PriAt(parent(i)) <= PriAt(k)

HeapInv == TypeOK /\ SlotInv /\ OnceInv /\ PosInv

\* All of it.  The array stays sound whatever the positions are; heap order
\* lasts until a call is misled by one, which takes a pqueue_print.
Inv == HeapInv /\ (~misled => OrderInv) /\ MisledByPrint

\* An empty queue satisfies the invariant.
LEMMA HeapInit == Init => Inv
<1> SUFFICES ASSUME Init PROVE Inv
  OBVIOUS
<1>1. printed \in BOOLEAN /\ misled \in BOOLEAN /\ ~misled
  BY DEF Init
<1>2. TypeOK
  BY <1>1, PQueueAssumption DEF Init, step, TypeOK
<1>3. SlotInv /\ OnceInv /\ PosInv /\ OrderInv
  BY PQueueAssumption DEF Init, step, SlotInv, OnceInv, PosInv, OrderInv, Slots
<1> QED
  BY <1>1, <1>2, <1>3 DEF HeapInv, Inv, MisledByPrint

\* What the proofs below use of the types.
LEMMA HeapTypes ==
  ASSUME HeapInv
  PROVE  /\ size \in Nat \ {0} /\ avail \in Nat /\ size <= avail
         /\ pri \in [Nodes -> Nat] /\ i \in Nat \ {0}
         /\ \A k \in Slots : d[k] \in Nodes /\ k \in 1 .. avail - 1 /\ k \in Nat
         /\ pc # "idle" => i \in 1 .. avail - 1
<1>1. size \in Nat \ {0} /\ avail \in Nat /\ size <= avail /\ i \in Nat \ {0}
  BY DEF HeapInv, TypeOK, SlotInv
<1>2. pri \in [Nodes -> Nat]
  BY PQueueAssumption DEF HeapInv, TypeOK
<1>3. \A k \in Slots : d[k] \in Nodes /\ k \in 1 .. avail - 1 /\ k \in Nat
  BY <1>1 DEF HeapInv, TypeOK, Slots
<1>4. pc # "idle" => i \in 1 .. avail - 1
  BY <1>1, <1>3 DEF HeapInv, TypeOK, SlotInv
<1> QED
  BY <1>1, <1>2, <1>3, <1>4

-----------------------------------------------------------------------------
(* The loops of bubble_up and percolate_down                               *)

\* One iteration of bubble_up: the parent comes down to slot i, and the moving
\* node now counts as being where the parent was.
LEMMA BubbleUpKeeps ==
  ASSUME HeapInv, BubbleUp, UNCHANGED history
  PROVE  HeapInv' /\ Held' = Held /\ (OrderInv => OrderInv')
<1>0. PICK h, q : h = i /\ q = parent(h)
  OBVIOUS
<1>1. /\ h \in Slots /\ h > 1 /\ q \in Slots /\ q < h /\ q # h
      /\ size \in Nat /\ avail \in Nat /\ size <= avail
  BY <1>0, ParentFacts DEF HeapInv, SlotInv, TypeOK, BubbleUp, GoesUp, Slots
<1>2. /\ d' = [d EXCEPT ![h] = d[q]] /\ pos' = [pos EXCEPT ![d[q]] = h]
      /\ i = h /\ i' = q /\ pc = "up" /\ pc' = "up" /\ Slots' = Slots
      /\ UNCHANGED <<size, pri, avail, moving, ret>>
      /\ pri[d[q]] > pri[moving]
  BY <1>0 DEF BubbleUp, ParentPos, NextUp, GoesUp, cmp_pri, Slots
<1>3. \A k \in Slots : d[k] \in Nodes /\ k \in 1 .. avail - 1 /\ k \in Nat
  BY DEF HeapInv, TypeOK, SlotInv, Slots
<1>4. /\ moving \in Nodes /\ d \in [1 .. avail - 1 -> Nodes \cup {NULL}]
      /\ pos \in [Nodes -> Nat] /\ pri \in [Nodes -> Priorities]
  BY <1>2 DEF HeapInv, TypeOK
<1>5. \A k \in Slots : d'[k] = IF k = h THEN d[q] ELSE d[k]
  BY <1>1, <1>2, <1>3, <1>4
<1>6. /\ At(h) = moving /\ At(q) = d[q] /\ At(h)' = d[q] /\ At(q)' = moving
      /\ \A k \in Slots : k # h /\ k # q => At(k)' = At(k) /\ At(k) = d[k]
  BY <1>1, <1>2, <1>5 DEF At
<1>7. TypeOK'
  BY <1>1, <1>2, <1>3, <1>4, <1>5 DEF HeapInv, TypeOK, Slots, history
<1>8. SlotInv'
  BY <1>1, <1>2 DEF SlotInv
<1>9. OnceInv'
  BY <1>1, <1>2, <1>5, <1>6 DEF HeapInv, OnceInv
<1>10. PosInv'
  <2>1. \A k \in Slots : k # h /\ k # q => d[k] # d[q]
    BY <1>1, <1>6 DEF HeapInv, OnceInv
  <2> QED
    BY <1>1, <1>2, <1>3, <1>4, <1>5, <2>1 DEF HeapInv, PosInv, Knows, history
<1>11. ASSUME OrderInv PROVE OrderInv'
  <2>1. \A k \in Slots : PriAt(k) \in Nat
    BY <1>1, <1>3, <1>4, <1>6, PQueueAssumption DEF PriAt, At
  <2>2. /\ PriAt(q) > PriAt(h) /\ PriAt(h)' = PriAt(q) /\ PriAt(q)' = PriAt(h)
        /\ \A k \in Slots : k # h /\ k # q => PriAt(k)' = PriAt(k)
    BY <1>2, <1>6 DEF PriAt
  <2>3. \A k \in Slots : k > 1 => parent(k) \in Slots /\ parent(k) # k
    BY <1>1, <1>3, ParentFacts DEF Slots
  <2>4. \A k \in Slots : k > 1 /\ k # h => PriAt(parent(k)) <= PriAt(k)
    BY <1>2, <1>11 DEF OrderInv
  <2>5. \A k \in Slots : k > 1 /\ parent(k) = h => PriAt(q) <= PriAt(k)
    BY <1>0, <1>1, <1>2, <1>11 DEF OrderInv
  <2>6. ASSUME NEW k \in Slots, k > 1, k # q
        PROVE  PriAt(parent(k))' <= PriAt(k)'
    BY <1>0, <1>1, <2>1, <2>2, <2>3, <2>4, <2>5, <2>6
  <2>7. ASSUME q > 1, NEW k \in Slots, k > 1, parent(k) = q
        PROVE  PriAt(parent(q))' <= PriAt(k)'
    BY <1>0, <1>1, <2>1, <2>2, <2>3, <2>4, <2>7
  <2> QED
    BY <1>2, <2>6, <2>7 DEF OrderInv
<1>12. Held' = Held
  BY <1>1, <1>2, <1>6 DEF Held
<1> QED
  BY <1>7, <1>8, <1>9, <1>10, <1>11, <1>12 DEF HeapInv

\* maxchild(k) is 0 or a child of k that no child of k precedes.
LEMMA MaxChild ==
  ASSUME NEW k \in Nat \ {0}, size \in Nat,
         \A j \in Slots : d[j] \in Nodes, pri \in [Nodes -> Nat]
  PROVE  LET c == maxchild(k) IN
         /\ c = 0 => \A j \in Slots : j > 1 => parent(j) # k
         /\ c # 0 => /\ c \in Slots /\ c > k /\ c > 1 /\ parent(c) = k
                    /\ \A j \in Slots : j > 1 /\ parent(j) = k
                                          => pri[d[c]] <= pri[d[j]]
<1>1. \A j \in Slots : j > 1 => (parent(j) = k <=> j = 2 * k \/ j = 2 * k + 1)
  BY ParentFacts DEF Slots
<1> QED
  BY <1>1 DEF maxchild, left, right, cmp_pri, Slots

\* One iteration of percolate_down: the child that comes first moves up to
\* slot i, and the moving node now counts as being where the child was.
LEMMA PercolateDownKeeps ==
  ASSUME HeapInv, PercolateDown, UNCHANGED history
  PROVE  HeapInv' /\ Held' = Held /\ (OrderInv => OrderInv')
<1>0. PICK h, c : h = i /\ c = maxchild(h)
  OBVIOUS
<1>a. /\ size \in Nat \ {0} /\ avail \in Nat /\ size <= avail
      /\ pri \in [Nodes -> Nat] /\ h \in Nat \ {0}
      /\ \A k \in Slots : d[k] \in Nodes /\ k \in 1 .. avail - 1 /\ k \in Nat
  BY <1>0, HeapTypes
<1>1. /\ c \in Slots /\ c > h /\ c > 1 /\ parent(c) = h /\ h \in Slots
      /\ \A j \in Slots : j > 1 /\ parent(j) = h => pri[d[c]] <= pri[d[j]]
  <2>1. c # 0
    BY <1>0 DEF PercolateDown, GoesDown
  <2> QED
    BY <1>0, <1>a, <2>1, MaxChild DEF Slots
<1>2. /\ d' = [d EXCEPT ![h] = d[c]] /\ pos' = [pos EXCEPT ![d[c]] = h]
      /\ i = h /\ i' = c /\ pc = "down" /\ pc' = "down" /\ Slots' = Slots
      /\ UNCHANGED <<size, pri, avail, moving, ret>>
      /\ pri[moving] > pri[d[c]]
  BY <1>0 DEF PercolateDown, GoesDown, cmp_pri, Slots
<1>4. /\ moving \in Nodes /\ d \in [1 .. avail - 1 -> Nodes \cup {NULL}]
      /\ pos \in [Nodes -> Nat] /\ pri \in [Nodes -> Priorities]
  BY <1>2 DEF HeapInv, TypeOK
<1>5. \A k \in Slots : d'[k] = IF k = h THEN d[c] ELSE d[k]
  BY <1>1, <1>2, <1>a, <1>4
<1>6. /\ At(h) = moving /\ At(c) = d[c] /\ At(h)' = d[c] /\ At(c)' = moving
      /\ \A k \in Slots : k # h /\ k # c => At(k)' = At(k) /\ At(k) = d[k]
  BY <1>1, <1>2, <1>5 DEF At, Slots
<1>7. TypeOK'
  BY <1>1, <1>2, <1>a, <1>4, <1>5 DEF HeapInv, TypeOK, Slots, history
<1>8. SlotInv'
  BY <1>1, <1>2, <1>a DEF SlotInv, Slots
<1>9. OnceInv'
  BY <1>1, <1>2, <1>5, <1>6 DEF HeapInv, OnceInv
<1>10. PosInv'
  <2>1. \A k \in Slots : k # h /\ k # c => d[k] # d[c]
    BY <1>1, <1>6 DEF HeapInv, OnceInv
  <2> QED
    BY <1>1, <1>2, <1>a, <1>4, <1>5, <2>1 DEF HeapInv, PosInv, Knows, history
<1>11. ASSUME OrderInv PROVE OrderInv'
  <2>1. \A k \in Slots : PriAt(k) \in Nat
    BY <1>1, <1>a, <1>4, <1>6 DEF PriAt, At
  <2>2. /\ PriAt(h) > PriAt(c) /\ PriAt(h)' = PriAt(c) /\ PriAt(c)' = PriAt(h)
        /\ \A k \in Slots : k # h /\ k # c => PriAt(k)' = PriAt(k)
    BY <1>2, <1>6 DEF PriAt
  <2>3. \A k \in Slots : k > 1 => parent(k) \in Slots /\ parent(k) # k
    BY <1>a, ParentFacts DEF Slots
  <2>4. \A k \in Slots : k > 1 /\ parent(k) # h => PriAt(parent(k)) <= PriAt(k)
    BY <1>2, <1>11 DEF OrderInv
  <2>5. \A k \in Slots : k > 1 /\ parent(k) = h => PriAt(c) <= PriAt(k)
    <3>1. \A k \in Slots : k > 1 /\ parent(k) = h => At(k) = d[k]
      BY <1>1, <1>6, <2>3
    <3> QED
      BY <1>1, <1>6, <3>1 DEF PriAt
  <2>6. h > 1 => PriAt(parent(h)) <= PriAt(c)
    BY <1>0, <1>1, <1>2, <1>11 DEF OrderInv
  <2>7. ASSUME NEW k \in Slots, k > 1, parent(k) # c
        PROVE  PriAt(parent(k))' <= PriAt(k)'
    <3>1. CASE parent(k) = h /\ k = c
      BY <1>1, <2>1, <2>2, <3>1
    <3>2. CASE parent(k) = h /\ k # c
      BY <1>1, <2>1, <2>2, <2>3, <2>5, <2>7, <3>2
    <3>3. CASE k = h
      BY <1>1, <2>1, <2>2, <2>3, <2>6, <2>7, <3>3
    <3>4. CASE k # h /\ parent(k) # h
      BY <1>1, <2>1, <2>2, <2>3, <2>4, <2>7, <3>4
    <3> QED
      BY <3>1, <3>2, <3>3, <3>4
  <2>8. ASSUME NEW k \in Slots, k > 1, parent(k) = c
        PROVE  PriAt(parent(c))' <= PriAt(k)'
    BY <1>1, <2>1, <2>2, <2>3, <2>4, <2>8, ParentFacts
  <2> QED
    BY <1>2, <2>7, <2>8 DEF OrderInv
<1>12. Held' = Held
  BY <1>1, <1>2, <1>6 DEF Held
<1> QED
  BY <1>7, <1>8, <1>9, <1>10, <1>11, <1>12 DEF HeapInv

\* The end of either loop: the moving node is put down where heap order holds.
LEMMA PlaceKeeps ==
  ASSUME HeapInv, Place, UNCHANGED history
  PROVE  HeapInv' /\ Held' = Held /\ (OrderInv => OrderInv')
<1>0. PICK h : h = i
  OBVIOUS
<1>1. /\ d' = [d EXCEPT ![h] = moving] /\ pos' = [pos EXCEPT ![moving] = h]
      /\ i = h /\ i' = 1 /\ pc # "idle" /\ pc' = "idle" /\ Slots' = Slots
      /\ moving' = NULL
      /\ UNCHANGED <<size, pri, avail, ret>>
  BY <1>0 DEF Place, PlacedHeap, PlacedPos, Slots
<1>a. /\ size \in Nat \ {0} /\ avail \in Nat /\ size <= avail
      /\ pri \in [Nodes -> Nat] /\ h \in 1 .. avail - 1 /\ h \in Nat \ {0}
      /\ \A k \in Slots : d[k] \in Nodes /\ k \in 1 .. avail - 1 /\ k \in Nat
  BY <1>1, HeapTypes
<1>2. /\ moving \in Nodes /\ d \in [1 .. avail - 1 -> Nodes \cup {NULL}]
      /\ pos \in [Nodes -> Nat] /\ pri \in [Nodes -> Priorities]
  BY <1>1 DEF HeapInv, TypeOK
<1>3. \A k \in Slots : /\ d'[k] = IF k = h THEN moving ELSE d[k]
                       /\ At(k) = d'[k] /\ At(k)' = d'[k]
  BY <1>1, <1>2, <1>a DEF At
<1>4. TypeOK'
  BY <1>1, <1>2, <1>3, <1>a DEF HeapInv, TypeOK, Slots, history
<1>5. SlotInv'
  BY <1>1, <1>a DEF SlotInv
<1>6. OnceInv'
  BY <1>1, <1>3 DEF HeapInv, OnceInv
<1>7. PosInv'
  <2>1. \A k \in Slots : k # h => d[k] # moving
    BY <1>1 DEF HeapInv, OnceInv
  <2> QED
    BY <1>1, <1>2, <1>3, <1>a, <2>1 DEF HeapInv, PosInv, Knows, history
<1>8. ASSUME OrderInv PROVE OrderInv'
  <2>1. \A k \in Slots : PriAt(k)' = PriAt(k) /\ PriAt(k) \in Nat
    BY <1>1, <1>2, <1>3, <1>a DEF PriAt
  <2>2. \A k \in Slots : k > 1 => parent(k) \in Slots /\ parent(k) # k
    BY <1>a, ParentFacts DEF Slots
  <2>3. ASSUME NEW k \in Slots, k > 1 PROVE PriAt(parent(k)) <= PriAt(k)
    <3>1. CASE pc = "up" /\ k = h
      <4>1. ~(pri[d[parent(h)]] > pri[moving])
        BY <1>1, <1>a, <2>3, <3>1 DEF Place, GoesUp, cmp_pri
      <4>2. At(parent(h)) = d[parent(h)] /\ At(h) = moving
        BY <1>1, <1>3, <2>2, <2>3, <3>1
      <4> QED
        BY <2>1, <2>2, <2>3, <3>1, <4>1, <4>2 DEF PriAt
    <3>2. CASE pc = "down" /\ parent(k) = h
      <4>0. PICK c : c = maxchild(h)
        OBVIOUS
      <4>1. c # 0 /\ c \in Slots /\ pri[d[c]] <= pri[d[k]]
        BY <1>a, <2>3, <3>2, <4>0, MaxChild
      <4>2. ~(pri[moving] > pri[d[c]])
        BY <1>1, <3>2, <4>0, <4>1 DEF Place, GoesDown, cmp_pri
      <4>3. At(k) = d[k] /\ At(h) = moving
        BY <1>1, <1>3, <2>2, <2>3, <3>2
      <4>4. pri[moving] \in Nat /\ pri[d[c]] \in Nat /\ pri[d[k]] \in Nat
        BY <1>2, <1>a, <4>1
      <4> QED
        BY <3>2, <4>1, <4>2, <4>3, <4>4 DEF PriAt
    <3>3. CASE (pc = "up" => k # h) /\ (pc = "down" => parent(k) # h)
      BY <1>1, <1>8, <2>3, <3>3 DEF OrderInv
    <3> QED
      BY <3>1, <3>2, <3>3
  <2> QED
    BY <1>1, <2>1, <2>2, <2>3 DEF OrderInv
<1>9. Held' = Held
  BY <1>1, <1>3 DEF Held
<1> QED
  BY <1>4, <1>5, <1>6, <1>7, <1>8, <1>9 DEF HeapInv

-----------------------------------------------------------------------------
(* The calls, made when the heap is at rest                                *)

\* What holds at rest.
LEMMA AtRest ==
  ASSUME HeapInv, pc = "idle"
  PROVE  /\ \A k \in Slots : At(k) = d[k] /\ Knows(d[k], k)
         /\ \A j, k \in Slots : d[j] = d[k] => j = k
         /\ \A k \in Slots : pri[d[k]] \in Nat
         /\ \A k \in Slots : k > 1 => parent(k) \in Slots /\ parent(k) < k
<1>1. \A k \in Slots : At(k) = d[k] /\ Knows(d[k], k)
  BY DEF HeapInv, PosInv, At
<1>2. \A j, k \in Slots : d[j] = d[k] => j = k
  BY <1>1 DEF HeapInv, OnceInv
<1>3. \A k \in Slots : pri[d[k]] \in Nat
  BY HeapTypes
<1>4. \A k \in Slots : k > 1 => parent(k) \in Slots /\ parent(k) < k
  BY HeapTypes, ParentFacts DEF Slots
<1> QED
  BY <1>1, <1>2, <1>3, <1>4

\* And as long as heap order does.
LEMMA OrderAtRest ==
  ASSUME HeapInv, OrderInv, pc = "idle"
  PROVE  \A k \in Slots : k > 1 => pri[d[parent(k)]] <= pri[d[k]]
<1>1. \A k \in Slots : k > 1 => PriAt(parent(k)) <= PriAt(k) /\ parent(k) \in Slots
  BY AtRest DEF OrderInv
<1> QED
  BY <1>1, AtRest DEF PriAt

\* The position pqueue_remove and pqueue_change_priority get is a used slot,
\* and the node's own unless pqueue_print has been called.
LEMMA PosUsed ==
  ASSUME HeapInv, pc = "idle", NEW n \in Members
  PROVE  /\ pos[n] \in Slots /\ (WrongPos(n) => printed)
         /\ WrongPos(n) => pos[n] # size - 1 /\ pos[n] = 1
<1>1. PICK k \in Slots : d[k] = n
  BY DEF Members, Slots
<1>2. size \in Nat \ {0} /\ k \in Nat /\ 1 \in Slots /\ size - 1 \in Slots
  BY <1>1, HeapTypes DEF Slots
<1>3. pos[n] = k \/ (printed /\ pos[n] = 1)
  BY <1>1, AtRest DEF Knows
<1>4. WrongPos(n) => pos[n] # k
  BY <1>1 DEF WrongPos
<1>5. 1 < size - 1 \/ k = 1
  BY <1>1, <1>2 DEF Slots
<1> QED
  BY <1>1, <1>2, <1>3, <1>4, <1>5

\* pqueue_insert puts the node into the first free slot, growing the array
\* when there is none, and starts bubble_up there.
LEMMA InsertKeeps ==
  ASSUME HeapInv, NEW n \in Nodes, NEW p \in Priorities, Insert(n, p),
         UNCHANGED history
  PROVE  /\ HeapInv' /\ Held' = Held \cup {n} /\ n \notin Held
         /\ OrderInv => OrderInv'
<1>0. PICK h : h = size
  OBVIOUS
<1>1. /\ size \in Nat \ {0} /\ avail \in Nat /\ size <= avail /\ pc = "idle"
      /\ \A k \in Slots : d[k] \in Nodes /\ k \in 1 .. avail - 1 /\ k \in Nat
  BY HeapTypes DEF Insert
<1>2. /\ pri' = [pri EXCEPT ![n] = p] /\ size' = h + 1 /\ i' = h
      /\ pc' = "up" /\ moving' = n /\ pos' = pos /\ ret' = ret
  BY <1>0 DEF Insert, Sift
<1>3. avail' \in Nat /\ h < avail' /\ avail <= avail'
  BY <1>0, <1>1, PQueueAssumption DEF Insert, NoSlotLeft, step
<1>4. /\ d' = [k \in 1 .. avail' - 1 |->
                  IF k = h THEN n ELSE IF k < avail THEN d[k] ELSE NULL]
      /\ d \in [1 .. avail - 1 -> Nodes \cup {NULL}]
  BY <1>0 DEF Insert, HeapInv, TypeOK
<1>5. /\ h \in Nat \ {0} /\ h \notin Slots
      /\ \A k : k \in Slots' <=> k \in Slots \/ k = h
  BY <1>0, <1>1, <1>2 DEF Slots
<1>6. \A k \in Slots : d'[k] = d[k] /\ d[k] # n /\ k # h
  <2>1. \A k \in Slots : d[k] # n
    BY DEF Insert, Members, Slots
  <2>2. \A k \in Slots : k \in 1 .. avail' - 1 /\ k < avail /\ k # h
    BY <1>1, <1>3, <1>5
  <2> QED
    BY <1>4, <2>1, <2>2
<1>7. /\ At(h)' = n
      /\ \A k \in Slots : At(k)' = d[k]
  BY <1>2, <1>6 DEF At
<1>8. TypeOK'
  <2>1. \A k \in 1 .. avail' - 1 : k < avail => d[k] \in Nodes \cup {NULL}
    <3>1. \A k \in 1 .. avail' - 1 : k < avail => k \in 1 .. avail - 1
      BY <1>1, <1>3
    <3> QED
      BY <1>4, <3>1
  <2>2. d' \in [1 .. avail' - 1 -> Nodes \cup {NULL}]
    BY <1>4, <2>1
  <2>3. h \in 1 .. avail' - 1
    <3>1. PICK a \in Nat : a = avail'
      BY <1>3
    <3>2. h \in Nat \ {0} /\ h < a
      BY <1>3, <1>5, <3>1
    <3>3. h \in 1 .. a - 1
      BY <3>2
    <3> QED
      BY <3>1, <3>3
  <2>4. d'[h] = n
    BY <1>4, <2>3
  <2>5. \A k \in 1 .. size' - 1 : d'[k] \in Nodes
    BY <1>1, <1>5, <1>6, <2>4 DEF Slots
  <2>6. pri' \in [Nodes -> Priorities]
    BY <1>2 DEF HeapInv, TypeOK
  <2>7. size' \in Nat \ {0} /\ i' \in Nat \ {0}
    BY <1>2, <1>5
  <2> QED
    BY <1>2, <1>3, <2>2, <2>5, <2>6, <2>7 DEF HeapInv, TypeOK, history
<1>9. SlotInv'
  BY <1>2, <1>3, <1>5 DEF SlotInv
<1>10. OnceInv'
  BY <1>1, <1>2, <1>5, <1>6, <1>7, AtRest DEF OnceInv
<1>11. PosInv'
  BY <1>1, <1>2, <1>5, <1>6, AtRest DEF PosInv, Knows, history
<1>12. ASSUME OrderInv PROVE OrderInv'
  <2>1. \A k \in Slots : PriAt(k)' = pri[d[k]]
    <3>1. \A k \in Slots : pri'[d[k]] = pri[d[k]]
      BY <1>1, <1>2, <1>6 DEF HeapInv, TypeOK
    <3> QED
      BY <1>7, <3>1 DEF PriAt
  <2>2. ASSUME NEW k \in Slots', k > 1, k # h
        PROVE  PriAt(parent(k))' <= PriAt(k)'
    <3>1. k \in Slots /\ parent(k) \in Slots /\ pri[d[parent(k)]] <= pri[d[k]]
      BY <1>1, <1>5, <1>12, <2>2, AtRest, OrderAtRest
    <3> QED
      BY <2>1, <3>1
  <2>3. ASSUME NEW k \in Slots', k > 1 PROVE parent(k) # h
    <3>1. k \in Nat /\ k <= h
      BY <1>0, <1>1, <1>2 DEF Slots
    <3>2. parent(k) \in 1 .. k - 1
      BY <2>3, <3>1, ParentFacts
    <3> QED
      BY <1>5, <3>1, <3>2
  <2> QED
    BY <1>2, <2>2, <2>3 DEF OrderInv
<1>13. Held' = Held \cup {n} /\ n \notin Held
  <2>1. \A k \in Slots : At(k)' = At(k) /\ At(k) # n
    BY <1>1, <1>6, <1>7, AtRest
  <2> QED
    BY <1>5, <1>7, <2>1 DEF Held
<1> QED
  BY <1>8, <1>9, <1>10, <1>11, <1>12, <1>13 DEF HeapInv

\* pqueue_pop brings the last node to the root and starts percolate_down.
LEMMA PopKeeps ==
  ASSUME HeapInv, Pop, UNCHANGED history
  PROVE  /\ HeapInv' /\ Held' = Held \ {d[1]} /\ 1 \in Slots
         /\ OrderInv => OrderInv'
<1>0. PICK z : z = size - 1
  OBVIOUS
<1>1. /\ size \in Nat \ {0} /\ avail \in Nat /\ size <= avail /\ pc = "idle"
      /\ \A k \in Slots : d[k] \in Nodes /\ k \in 1 .. avail - 1 /\ k \in Nat
  BY HeapTypes DEF Pop
<1>2. /\ d' = [d EXCEPT ![1] = d[z]] /\ size' = z /\ i' = 1 /\ pc' = "down"
      /\ moving' = d[z] /\ ret' = d[1] /\ UNCHANGED <<pri, pos, avail>>
  BY <1>0 DEF Pop, Last, Sift
<1>3. /\ z \in Slots /\ 1 \in Slots /\ z \in Nat \ {0}
      /\ \A k : k \in Slots' <=> k \in Slots /\ k # z
  BY <1>0, <1>1, <1>2 DEF Slots, Pop
<1>4. \A k \in Slots : d'[k] = IF k = 1 THEN d[z] ELSE d[k]
  BY <1>1, <1>2 DEF HeapInv, TypeOK
<1>5. \A k \in Slots' : At(k)' = d'[k] /\ (k # 1 => At(k)' = d[k])
  BY <1>2, <1>3, <1>4 DEF At
<1>6. TypeOK'
  <2>1. \A k \in 1 .. size' - 1 : d'[k] \in Nodes
    BY <1>1, <1>3, <1>4 DEF Slots
  <2> QED
    BY <1>1, <1>2, <1>3, <2>1 DEF HeapInv, TypeOK, history
<1>7. SlotInv'
  BY <1>0, <1>1, <1>2, <1>3 DEF SlotInv
<1>8. OnceInv'
  BY <1>1, <1>2, <1>3, <1>4, <1>5, AtRest DEF OnceInv
<1>9. PosInv'
  BY <1>1, <1>2, <1>3, <1>4, AtRest DEF PosInv, Knows, history
<1>10. ASSUME OrderInv PROVE OrderInv'
  <2>1. \A k \in Slots' : k # 1 => PriAt(k)' = pri[d[k]]
    BY <1>2, <1>5 DEF PriAt
  <2>2. \A k \in Slots' : k > 1 => parent(k) \in Slots'
    BY <1>0, <1>1, <1>2, <1>3, AtRest DEF Slots
  <2> QED
    BY <1>1, <1>2, <1>3, <1>10, <2>1, <2>2, OrderAtRest DEF OrderInv
<1>11. Held' = Held \ {d[1]}
  <2>1. /\ \A k \in Slots : At(k) = d[k] /\ (d[k] = d[1] => k = 1)
        /\ \A k \in Slots' : At(k)' = IF k = 1 THEN d[z] ELSE d[k]
    BY <1>1, <1>3, <1>4, <1>5, AtRest
  <2>2. \A x : x \in Held' <=> \E k \in Slots : k # 1 /\ x = d[k]
    BY <1>3, <2>1 DEF Held
  <2> QED
    BY <2>1, <2>2 DEF Held
<1> QED
  BY <1>3, <1>6, <1>7, <1>8, <1>9, <1>10, <1>11 DEF HeapInv

\* pqueue_remove goes where the node's pos says, brings the last node there
\* and sends it up or down by its priority.  What was there leaves the queue.
LEMMA RemoveKeeps ==
  ASSUME HeapInv, NEW n \in Nodes, Remove(n), UNCHANGED printed,
         misled \in BOOLEAN
  PROVE  /\ HeapInv' /\ Held' = Held \ {d[pos[n]]} /\ n \in Held
         /\ ~WrongPos(n) /\ OrderInv => OrderInv'
<1>0. PICK z, h : z = size - 1 /\ h = pos[n]
  OBVIOUS
<1>1. /\ size \in Nat \ {0} /\ avail \in Nat /\ size <= avail /\ pc = "idle"
      /\ \A k \in Slots : d[k] \in Nodes /\ k \in 1 .. avail - 1 /\ k \in Nat
  BY HeapTypes DEF Remove
<1>2. h \in Slots /\ (d[h] # n => h # z)
  BY <1>0, <1>1, PosUsed DEF Remove, WrongPos
<1>b. n \in Held
  BY <1>1, AtRest DEF Remove, Members, Held, Slots
<1>3. /\ d' = [d EXCEPT ![h] = d[z]] /\ size' = z /\ i' = h
      /\ pc' = Direction(pri[n], pri[d[z]])
      /\ moving' = d[z] /\ UNCHANGED <<pri, pos, avail, ret>>
  BY <1>0 DEF Remove, Last, Sift
<1>4. /\ z \in Slots /\ z \in Nat \ {0} /\ h \in Nat \ {0} /\ h <= z
      /\ \A k : k \in Slots' <=> k \in Slots /\ k # z
  BY <1>0, <1>1, <1>2, <1>3 DEF Slots
<1>5. \A k \in Slots : d'[k] = IF k = h THEN d[z] ELSE d[k]
  BY <1>1, <1>3 DEF HeapInv, TypeOK
<1>6. pc' \in {"up", "down"}
  BY <1>3 DEF Direction
<1>7. \A k \in Slots' : At(k)' = d'[k] /\ (k # h => At(k)' = d[k])
  BY <1>3, <1>4, <1>5 DEF At
<1>8. pri[n] \in Nat /\ pri[d[z]] \in Nat
  BY <1>1, <1>4, HeapTypes, AtRest
<1>9. pc' = "up" => h # z /\ pri[n] > pri[d[z]]
  BY <1>2, <1>3, <1>8 DEF Direction, cmp_pri
<1>10. pc' = "down" => pri[n] <= pri[d[z]]
  BY <1>3, <1>8 DEF Direction, cmp_pri
<1>c. misled' \in BOOLEAN
  BY DEF Remove
<1>11. TypeOK'
  <2>1. \A k \in 1 .. size' - 1 : d'[k] \in Nodes
    BY <1>1, <1>4, <1>5 DEF Slots
  <2> QED
    BY <1>1, <1>3, <1>4, <1>6, <1>c, <2>1 DEF HeapInv, TypeOK
<1>12. SlotInv'
  <2>1. size' <= avail'
    BY <1>0, <1>1, <1>3
  <2>2. pc' = "up" => i' \in Slots'
    BY <1>2, <1>3, <1>4, <1>9
  <2>3. i' \in 1 .. avail' - 1 /\ i' <= size'
    BY <1>1, <1>2, <1>3, <1>4
  <2> QED
    BY <2>1, <2>2, <2>3 DEF SlotInv
<1>13. OnceInv'
  BY <1>1, <1>3, <1>4, <1>5, <1>7, AtRest DEF OnceInv
<1>14. PosInv'
  BY <1>1, <1>3, <1>4, <1>5, <1>6, AtRest DEF PosInv, Knows
<1>15. ASSUME d[h] = n, OrderInv PROVE OrderInv'
  <2>1. \A k \in Slots' : PriAt(k)' = IF k = h THEN pri[d[z]] ELSE pri[d[k]]
    BY <1>3, <1>4, <1>5, <1>7 DEF PriAt
  <2>2. \A k \in Slots' : k > 1 => parent(k) \in Slots' /\ parent(k) < k
    BY <1>0, <1>1, <1>3, <1>4, AtRest DEF Slots
  <2>3. \A k \in Slots' : k \in Slots /\ pri[d[k]] \in Nat /\ k \in Nat
    BY <1>1, <1>4, AtRest
  <2>4. ASSUME NEW k \in Slots', k > 1, pc' = "up" => k # h,
               pc' = "down" => parent(k) # h
        PROVE  PriAt(parent(k))' <= PriAt(k)'
    <3>1. pri[d[parent(k)]] <= pri[d[k]]
      BY <1>1, <1>15, <2>3, <2>4, OrderAtRest
    <3>2. CASE k = h
      BY <1>15, <1>6, <1>8, <1>10, <2>1, <2>2, <2>3, <2>4, <3>1, <3>2
    <3>3. CASE parent(k) = h
      BY <1>15, <1>6, <1>8, <1>9, <2>1, <2>2, <2>3, <2>4, <3>1, <3>3
    <3>4. CASE k # h /\ parent(k) # h
      BY <2>1, <2>2, <2>4, <3>1, <3>4
    <3> QED
      BY <3>2, <3>3, <3>4
  <2>5. ASSUME h > 1, NEW k \in Slots', k > 1, parent(k) = h
        PROVE  PriAt(parent(h))' <= PriAt(k)'
    <3>1. pri[d[h]] <= pri[d[k]]
      BY <1>1, <1>15, <2>3, <2>5, OrderAtRest
    <3>2. /\ h \in Slots' /\ parent(h) \in Slots' /\ parent(h) # h
          /\ k # h /\ pri[d[parent(h)]] <= pri[d[h]]
      BY <1>1, <1>15, <2>2, <2>3, <2>5, OrderAtRest
    <3> QED
      BY <2>1, <2>3, <3>1, <3>2
  <2> QED
    BY <1>3, <1>6, <2>4, <2>5 DEF OrderInv
<1>16. Held' = Held \ {d[h]}
  <2>1. /\ \A k \in Slots : At(k) = d[k] /\ (d[k] = d[h] => k = h)
        /\ \A k \in Slots' : At(k)' = IF k = h THEN d[z] ELSE d[k]
    BY <1>1, <1>2, <1>4, <1>5, <1>7, AtRest
  <2>2. \A x : x \in Held' <=> \E k \in Slots : k # h /\ x = d[k]
    BY <1>2, <1>4, <2>1 DEF Held
  <2>3. \A x : x \in Held <=> \E k \in Slots : x = d[k]
    BY <2>1 DEF Held
  <2>4. \A x : x \in Held' <=> x \in Held /\ x # d[h]
    BY <1>2, <2>1, <2>2, <2>3
  <2> HIDE DEF Held
  <2> QED
    BY <2>4
<1> QED
  BY <1>0, <1>b, <1>11, <1>12, <1>13, <1>14, <1>15, <1>16 DEF HeapInv, WrongPos

\* pqueue_change_priority goes where the node's pos says and sends what is
\* there up or down.
LEMMA ChangePriorityKeeps ==
  ASSUME HeapInv, NEW n \in Nodes, NEW p \in Priorities,
         ChangePriority(n, p), UNCHANGED printed, misled \in BOOLEAN
  PROVE  /\ HeapInv' /\ Held' = Held /\ n \in Held
         /\ ~WrongPos(n) /\ OrderInv => OrderInv'
<1>0. PICK h : h = pos[n]
  OBVIOUS
<1>1. /\ size \in Nat \ {0} /\ avail \in Nat /\ size <= avail /\ pc = "idle"
      /\ \A k \in Slots : d[k] \in Nodes /\ k \in 1 .. avail - 1 /\ k \in Nat
  BY HeapTypes DEF ChangePriority
<1>2. h \in Slots
  BY <1>0, <1>1, PosUsed DEF ChangePriority
<1>3. /\ pri' = [pri EXCEPT ![n] = p] /\ i' = h /\ moving' = d[h]
      /\ pc' = Direction(pri[n], p) /\ Slots' = Slots
      /\ UNCHANGED <<d, size, pos, avail, ret>>
  BY <1>0 DEF ChangePriority, Sift, Slots
<1>4. pc' \in {"up", "down"}
  BY <1>3 DEF Direction
<1>5. \A k \in Slots : At(k)' = d[k]
  BY <1>2, <1>3 DEF At
<1>6. pri[n] \in Nat /\ p \in Nat
  BY HeapTypes, PQueueAssumption
<1>7. /\ pc' = "up" => pri[n] > p
      /\ pc' = "down" => pri[n] <= p
  BY <1>3, <1>6 DEF Direction, cmp_pri
<1>c. misled' \in BOOLEAN
  BY DEF ChangePriority
<1>8. TypeOK'
  <2>1. pri' \in [Nodes -> Priorities]
    BY <1>3 DEF HeapInv, TypeOK
  <2>2. h \in Nat \ {0}
    BY <1>1, <1>2 DEF Slots
  <2> QED
    BY <1>1, <1>2, <1>3, <1>4, <1>c, <2>1, <2>2 DEF HeapInv, TypeOK
<1>9. SlotInv'
  BY <1>1, <1>2, <1>3 DEF SlotInv, Slots
<1>10. OnceInv'
  BY <1>1, <1>2, <1>3, <1>5, AtRest DEF OnceInv
<1>11. PosInv'
  BY <1>1, <1>3, AtRest DEF PosInv, Knows
<1>12. ASSUME d[h] = n, OrderInv PROVE OrderInv'
  <2>1. \A k \in Slots : PriAt(k)' = IF k = h THEN p ELSE pri[d[k]]
    <3>1. \A k \in Slots : k # h => d[k] # n
      BY <1>1, <1>2, <1>12, AtRest
    <3>2. \A k \in Slots : pri'[d[k]] = IF k = h THEN p ELSE pri[d[k]]
      BY <1>1, <1>2, <1>3, <1>12, <3>1 DEF HeapInv, TypeOK
    <3> QED
      BY <1>5, <3>2 DEF PriAt
  <2>2. \A k \in Slots : pri[d[k]] \in Nat /\ k \in Nat
    BY <1>1, AtRest
  <2>3. \A k \in Slots : k > 1 => /\ parent(k) \in Slots /\ parent(k) < k
                                  /\ parent(k) # k
                                  /\ pri[d[parent(k)]] <= pri[d[k]]
    BY <1>1, <1>12, <2>2, AtRest, OrderAtRest
  <2>4. ASSUME NEW k \in Slots, k > 1, pc' = "up" => k # h,
               pc' = "down" => parent(k) # h
        PROVE  PriAt(parent(k))' <= PriAt(k)'
    <3>2. CASE k = h
      BY <1>2, <1>4, <1>6, <1>7, <1>12, <2>1, <2>2, <2>3, <2>4, <3>2
    <3>3. CASE parent(k) = h
      BY <1>2, <1>4, <1>6, <1>7, <1>12, <2>1, <2>2, <2>3, <2>4, <3>3
    <3>4. CASE k # h /\ parent(k) # h
      BY <2>1, <2>3, <2>4, <3>4
    <3> QED
      BY <3>2, <3>3, <3>4
  <2>5. ASSUME h > 1, NEW k \in Slots, k > 1, parent(k) = h
        PROVE  PriAt(parent(h))' <= PriAt(k)'
    BY <1>2, <2>1, <2>2, <2>3, <2>5
  <2> QED
    BY <1>3, <1>4, <2>4, <2>5 DEF OrderInv
<1>13. Held' = Held /\ n \in Held
  <2>1. n \in Held
    BY <1>1, AtRest DEF ChangePriority, Members, Held, Slots
  <2> QED
    BY <1>1, <1>2, <1>3, <1>5, <2>1, AtRest DEF Held
<1> QED
  BY <1>0, <1>8, <1>9, <1>10, <1>11, <1>12, <1>13 DEF HeapInv, WrongPos

\* pqueue_print and the calls that only look leave the heap as it is.
LEMMA LookKeeps ==
  ASSUME HeapInv, ((Peek \/ PopEmpty) /\ UNCHANGED history) \/ PQPrint
  PROVE  /\ HeapInv' /\ Held' = Held /\ misled' = misled
         /\ printed => printed'
         /\ OrderInv => OrderInv'
         /\ UNCHANGED <<d, size, pri, avail, siftVars>>
<1>1. UNCHANGED <<d, size, pri, avail, siftVars, misled>>
  BY DEF Peek, PopEmpty, PQPrint, heapVars, history
<1>2. printed' = printed \/ printed' = TRUE
  BY DEF PQPrint, history
<1>3. printed' \in BOOLEAN /\ (printed => printed')
  BY <1>2 DEF HeapInv, TypeOK
<1>4. ret' \in Nodes \cup {NULL}
  BY HeapTypes DEF Peek, PopEmpty, PQPrint, Slots, HeapInv, TypeOK
<1>5. pos' \in [Nodes -> Nat]
  <2>1. pos \in [Nodes -> Nat]
    BY DEF HeapInv, TypeOK
  <2>2. CASE PQPrint
    <3>1. pos' = [n \in Nodes |-> IF n \in Members THEN 1 ELSE pos[n]]
      BY <2>2 DEF PQPrint
    <3> QED
      BY <2>1, <3>1
  <2>3. CASE (Peek \/ PopEmpty) /\ UNCHANGED history
    BY <2>1, <2>3 DEF Peek, PopEmpty, heapVars
  <2> QED
    BY <2>2, <2>3
<1>6. TypeOK'
  BY <1>1, <1>3, <1>4, <1>5 DEF siftVars, HeapInv, TypeOK
<1>7. PosInv'
  <2>1. CASE PQPrint
    <3>1. \A k \in Slots : d[k] \in Nodes /\ d[k] \in Members
      BY HeapTypes DEF Members, Slots
    <3>2. \A k \in Slots : pos'[d[k]] = 1
      BY <2>1, <3>1 DEF PQPrint
    <3>3. printed'
      BY <2>1 DEF PQPrint
    <3> QED
      BY <1>1, <3>2, <3>3 DEF PosInv, Knows, Slots
  <2>2. CASE (Peek \/ PopEmpty) /\ UNCHANGED history
    BY <1>1, <2>2 DEF Peek, PopEmpty, heapVars, siftVars, history, HeapInv, PosInv,
       Knows, Slots
  <2> QED
    BY <2>1, <2>2
<1>8. /\ SlotInv' /\ OnceInv' /\ Held' = Held /\ (OrderInv => OrderInv')
  BY <1>1 DEF siftVars, HeapInv, SlotInv, OnceInv, OrderInv, PriAt, At, Slots, Held
<1> QED
  BY <1>1, <1>3, <1>6, <1>7, <1>8 DEF HeapInv

\* Every step keeps the invariant.
LEMMA HeapNext == Inv /\ [Next]_vars => Inv'
<1> SUFFICES ASSUME Inv, [Next]_vars PROVE Inv'
  OBVIOUS
<1>0. HeapInv /\ (~misled => OrderInv) /\ (misled => printed) /\ misled \in BOOLEAN
  BY DEF Inv, HeapInv, TypeOK, MisledByPrint
<1>1. CASE (SiftStep \/ Pop \/ \E n \in Nodes, p \in Priorities : Insert(n, p))
             /\ UNCHANGED history
  <2>1. HeapInv' /\ (OrderInv => OrderInv')
    BY <1>0, <1>1, BubbleUpKeeps, PercolateDownKeeps, PlaceKeeps, PopKeeps,
       InsertKeeps DEF SiftStep
  <2>2. misled' = misled /\ printed' = printed
    BY <1>1 DEF history
  <2> QED
    BY <1>0, <2>1, <2>2 DEF Inv, MisledByPrint
<1>2. CASE ((Peek \/ PopEmpty) /\ UNCHANGED history) \/ PQPrint
  <2>1. HeapInv' /\ (OrderInv => OrderInv') /\ misled' = misled /\ (printed => printed')
    BY <1>0, <1>2, LookKeeps
  <2> QED
    BY <1>0, <2>1 DEF Inv, MisledByPrint
<1>3. ASSUME NEW n \in Nodes, UNCHANGED printed,
             Remove(n) \/ \E p \in Priorities : ChangePriority(n, p)
      PROVE  Inv'
  <2>1. HeapInv' /\ (~WrongPos(n) /\ OrderInv => OrderInv')
    BY <1>0, <1>3, RemoveKeeps, ChangePriorityKeeps
  <2>2. misled' = (misled \/ WrongPos(n)) /\ n \in Members /\ pc = "idle"
    BY <1>3 DEF Remove, ChangePriority
  <2>3. WrongPos(n) => printed
    BY <1>0, <2>2, PosUsed
  <2>4. (misled' => printed') /\ (~misled' => OrderInv')
    BY <1>0, <1>3, <2>1, <2>2, <2>3
  <2> QED
    BY <2>1, <2>4 DEF Inv, MisledByPrint
<1>4. CASE UNCHANGED vars
  BY <1>0, <1>4 DEF vars, heapVars, siftVars, history, Inv, MisledByPrint, HeapInv,
     TypeOK, SlotInv, OnceInv, PosInv, Knows, OrderInv, PriAt, At, Slots
<1> QED
  BY <1>1, <1>2, <1>3, <1>4 DEF Next, CallNoPos, CallByPos

\* The invariant of the heap, at rest and in the middle of a loop.
LEMMA HeapAlways == Spec => []Inv
  BY HeapInit, HeapNext, PTL DEF Spec

\* A set of numbers that is not empty has a least one.
LEMMA LeastOf ==
  ASSUME NEW T \in SUBSET Nat, T # {}
  PROVE  \E x \in T : \A y \in T : x <= y
<1> DEFINE R == OpToRel(<, Nat)
<1>1. IsWellFoundedOn(R, Nat)
  BY NatLessThanWellFounded
<1>2. \A x, y \in Nat : x < y => <<x, y>> \in R
  BY DEF OpToRel
<1> HIDE DEF R
<1>3. PICK x \in T : \A y \in T : <<y, x>> \notin R
  BY <1>1, WFMin
<1>4. ASSUME NEW y \in T PROVE x <= y
  <2>1. x \in Nat /\ y \in Nat
    OBVIOUS
  <2>2. ~(y < x)
    BY <1>2, <1>3, <2>1
  <2> QED
    BY <2>1, <2>2
<1> QED
  BY <1>4

\* Heap order puts a node of lowest priority value at the root.
LEMMA RootLeast ==
  ASSUME HeapInv, OrderInv, pc = "idle"
  PROVE  \A k \in Slots : pri[d[1]] <= pri[d[k]]
<1> DEFINE Bad == {j \in Slots : ~(pri[d[1]] <= pri[d[j]])}
<1>1. SUFFICES ASSUME Bad # {} PROVE FALSE
  OBVIOUS
<1>2. Bad \in SUBSET Nat /\ Bad \subseteq Slots
  BY HeapTypes
<1>3. PICK j \in Bad : \A m \in Bad : j <= m
  <2> HIDE DEF Bad
  <2> QED
    BY <1>1, <1>2, LeastOf
<1>4. j \in Slots /\ j \in Nat /\ j > 0 /\ 1 \in Slots
  BY <1>2, <1>3, HeapTypes DEF Slots
<1>5. j > 1
  BY <1>3, <1>4, AtRest
<1>6. parent(j) \in Slots /\ parent(j) < j /\ pri[d[parent(j)]] <= pri[d[j]]
  BY <1>4, <1>5, AtRest, OrderAtRest
<1>7. parent(j) \notin Bad
  BY <1>3, <1>4, <1>6 DEF Slots
<1>8. /\ pri[d[1]] \in Nat /\ pri[d[j]] \in Nat /\ pri[d[parent(j)]] \in Nat
  BY <1>4, <1>6, AtRest
<1> QED
  BY <1>3, <1>6, <1>7, <1>8

\* The nodes of the refinement mapping are the nodes held.
ElemsAreHeld == Elems = Held

\* The mapping and the invariant speak of the same set of nodes.
LEMMA ElemsHeld == HeapInv => ElemsAreHeld
<1> SUFFICES ASSUME HeapInv PROVE Elems = Held
  BY DEF ElemsAreHeld
<1>1. \A k \in Slots : D[k] = At(k)
  BY HeapTypes DEF D, At, HeapInv, TypeOK
<1> QED
  BY <1>1 DEF Elems, Held, Slots

\* The same of the next state.
LEMMA ElemsHeldNext == HeapInv' => ElemsAreHeld'
  BY ElemsHeld, PTL

\* Every step of the heap is a step of the abstract queue, or leaves it alone.
LEMMA StepRefines == Inv /\ [Next]_vars => [PQ!Next]_(PQ!vars)
<1> SUFFICES ASSUME Inv, [Next]_vars PROVE [PQ!Next]_(PQ!vars)
  OBVIOUS
<1>0. HeapInv /\ Inv' /\ misled \in BOOLEAN /\ misled' \in BOOLEAN
  BY HeapNext DEF Inv, HeapInv, TypeOK
<1>1. Elems = Held /\ Elems' = Held'
  BY <1>0, ElemsHeld, ElemsHeldNext DEF ElemsAreHeld, Inv
<1>2. CASE misled'
  <2>1. misled' = TRUE
    BY <1>0, <1>2
  <2> QED
    BY <2>1 DEF PQ!Break, PQ!Next
<1>3. CASE ~misled'
  <2>0. /\ OrderInv /\ misled' = misled
        /\ \A n \in Nodes : Remove(n) => d[pos[n]] = n
    <3>1. misled' = misled
             \/ \E n \in Nodes : CallByPos /\ misled' = (misled \/ WrongPos(n))
      BY DEF Next, CallByPos, Remove, ChangePriority, PQPrint, history, vars
    <3>2. ~misled
      BY <1>3, <3>1
    <3>3. misled = FALSE /\ misled' = FALSE
      BY <1>0, <1>3, <3>2
    <3>4. \A n \in Nodes : Remove(n) => d[pos[n]] = n
      BY <1>3 DEF Remove, WrongPos
    <3> QED
      BY <3>2, <3>3, <3>4 DEF Inv
  <2>1. CASE SiftStep /\ UNCHANGED history
    <3>1. Held' = Held
      BY <1>0, <2>1, BubbleUpKeeps, PercolateDownKeeps, PlaceKeeps DEF SiftStep
    <3> QED
      BY <1>1, <2>0, <2>1, <3>1
         DEF SiftStep, BubbleUp, PercolateDown, Place, PQ!vars
  <2>2. CASE Pop /\ UNCHANGED history
    <3>1. Held' = Held \ {d[1]} /\ 1 \in Slots /\ ret' = d[1] /\ pri' = pri
      BY <1>0, <2>2, PopKeeps DEF Pop
    <3>2. d[1] \in PQ!Firsts
      BY <1>0, <1>1, <2>0, <2>2, <3>1, AtRest, RootLeast DEF PQ!Firsts, Held, Pop
    <3>3. PQ!Pop
      BY <1>1, <3>1, <3>2 DEF PQ!Pop
    <3> QED
      BY <2>0, <3>3 DEF PQ!Next
  <2>3. CASE Peek
    <3>1. 1 \in Slots /\ ret' = d[1] /\ pri' = pri /\ Held' = Held
      BY <1>0, <2>3, HeapTypes DEF Peek, heapVars, siftVars, Held, At, Slots
    <3>2. d[1] \in PQ!Firsts
      BY <1>0, <1>1, <2>0, <2>3, <3>1, AtRest, RootLeast DEF PQ!Firsts, Held, Peek
    <3>3. PQ!Peek
      BY <1>1, <3>1, <3>2 DEF PQ!Peek
    <3> QED
      BY <2>0, <3>3 DEF PQ!Next
  <2>4. CASE PopEmpty
    <3>1. Held = {} /\ Held' = {}
      BY <2>4 DEF PopEmpty, heapVars, Held, Slots
    <3>2. PQ!PopEmpty
      BY <1>1, <2>4, <3>1 DEF PopEmpty, heapVars, PQ!PopEmpty
    <3> QED
      BY <2>0, <3>2 DEF PQ!Next
  <2>5. CASE UNCHANGED printed /\ \E n \in Nodes : Remove(n)
    <3>1. PICK n \in Nodes : Remove(n)
      BY <2>5
    <3>2. Held' = Held \ {n} /\ n \in Held
      BY <1>0, <2>0, <2>5, <3>1, RemoveKeeps
    <3>3. PQ!Remove
      BY <1>1, <3>1, <3>2 DEF Remove, PQ!Remove
    <3> QED
      BY <2>0, <3>3 DEF PQ!Next
  <2>6. CASE (\E n \in Nodes, p \in Priorities : Insert(n, p)) /\ UNCHANGED history
    <3>1. PICK n \in Nodes, p \in Priorities : Insert(n, p)
      BY <2>6
    <3>2. PQ!Insert
      BY <1>0, <1>1, <2>6, <3>1, InsertKeeps DEF Insert, PQ!Insert
    <3> QED
      BY <2>0, <3>2 DEF PQ!Next
  <2>7. CASE UNCHANGED printed
               /\ \E n \in Nodes, p \in Priorities : ChangePriority(n, p)
    <3>1. PICK n \in Nodes, p \in Priorities : ChangePriority(n, p)
      BY <2>7
    <3>2. PQ!ChangePriority
      BY <1>0, <1>1, <2>7, <3>1, ChangePriorityKeeps
         DEF ChangePriority, PQ!ChangePriority
    <3> QED
      BY <2>0, <3>2 DEF PQ!Next
  <2>8. CASE UNCHANGED vars
    BY <2>8 DEF vars, heapVars, siftVars, history, Elems, D, PQ!vars
  <2>9. CASE PQPrint
    BY <1>0, <1>1, <2>9, LookKeeps DEF PQPrint, PQ!vars
  <2> QED
    BY <2>1, <2>2, <2>3, <2>4, <2>5, <2>6, <2>7, <2>8, <2>9
       DEF Next, CallNoPos, CallByPos
<1> QED
  BY <1>2, <1>3

-----------------------------------------------------------------------------
(* The theorems                                                            *)

\* Every state of the heap is well typed: in particular no used slot is ever
\* empty and no loop of pqueue.c leaves the array, also when pqueue_remove and
\* pqueue_change_priority are given positions that pqueue_print has spoiled.
THEOREM HeapTypeCorrect == Spec => []TypeOK
<1>1. Inv => TypeOK
  BY DEF Inv, HeapInv
<1> QED
  BY <1>1, HeapAlways, PTL

\* The array of pqueue_t never holds more nodes than were allocated for it,
\* whatever the size it was created with.
THEOREM NeverOverfull == Spec => []FitsAvail
<1>1. Inv => FitsAvail
  BY DEF Inv, HeapInv, SlotInv, FitsAvail
<1> QED
  BY <1>1, HeapAlways, PTL

\* No operation of pqueue.c, and no iteration of bubble_up or percolate_down,
\* leaves a gap in the heap or two copies of a node, spoiled positions or not.
THEOREM NoneLostOrDoubled == Spec => []NodesOnce
<1>1. Inv => NodesOnce
  <2> SUFFICES ASSUME HeapInv PROVE NodesOnce
    BY DEF Inv
  <2>1. \A k \in Slots : D[k] = At(k)
    BY HeapTypes DEF D, At, HeapInv, TypeOK
  <2> QED
    BY <2>1 DEF NodesOnce, HeapInv, OnceInv, Slots
<1> QED
  BY <1>1, HeapAlways, PTL

\* Between operations no node of pqueue.c's heap has precedence over its
\* parent, until a call is misled by a wrong position.
THEOREM HeapOrdered == Spec => []HeapOrder
<1>1. Inv => HeapOrder
  <2> SUFFICES ASSUME HeapInv, OrderInv, pc = "idle", NEW k \in 2 .. size - 1
               PROVE  ~cmp_pri(pri[d[parent(k)]], pri[d[k]])
    BY DEF Inv, HeapOrder, InOrder
  <2>1. k \in Slots /\ k > 1
    BY HeapTypes DEF Slots
  <2> QED
    BY <2>1, AtRest, OrderAtRest DEF cmp_pri
<1> QED
  BY <1>1, HeapAlways, PTL

\* A call of pqueue_remove or pqueue_change_priority uses a wrong position only
\* after pqueue_print, which pops the same nodes from a copy of the array.
THEOREM OnlyPrintMisleads == Spec => []MisledByPrint
<1>1. Inv => MisledByPrint
  BY DEF Inv
<1> QED
  BY <1>1, HeapAlways, PTL

\* The heap of pqueue.c implements the abstract priority queue until a call is
\* misled by a wrong position.
THEOREM Implements == Spec => IsPriorityQueue
<1>1. Init => PQ!Init
  BY DEF Init, PQ!Init, Elems, step
<1> QED
  BY <1>1, HeapAlways, StepRefines, PTL DEF Spec, IsPriorityQueue, PQ!Spec

\* Every call of pqueue.c returns: bubble_up only steps towards the root and
\* percolate_down only to a used slot below, whatever the priorities are.
THEOREM SiftsTerminate == Spec => SiftsEnd
<1>1. ASSUME Inv, [Next]_vars
      PROVE  [/\ pc = "up" => pc' = "idle" \/ (pc' = "up" /\ i' < i /\ 0 < i')
              /\ pc = "down" =>
                   pc' = "idle" \/ (pc' = "down" /\ i < i' /\ i' < size)]_vars
  <2> SUFFICES ASSUME Next
               PROVE  /\ pc = "up" =>
                           pc' = "idle" \/ (pc' = "up" /\ i' < i /\ 0 < i')
                      /\ pc = "down" =>
                           pc' = "idle" \/ (pc' = "down" /\ i < i' /\ i' < size)
    BY <1>1
  <2>0. HeapInv
    BY <1>1 DEF Inv
  <2>1. CASE BubbleUp
    <3>1. i \in Nat /\ i > 1
      BY <2>0, <2>1, HeapTypes DEF BubbleUp, GoesUp
    <3> QED
      BY <2>1, <3>1 DEF BubbleUp, NextUp, parent
  <2>2. CASE PercolateDown
    <3>1. i \in Nat \ {0} /\ size \in Nat
      BY <2>0, HeapTypes
    <3>2. maxchild(i) \in Nat /\ i < maxchild(i) /\ maxchild(i) < size
      BY <2>2, <3>1 DEF PercolateDown, GoesDown, maxchild, left, right
    <3> QED
      BY <2>2, <3>2 DEF PercolateDown
  <2>3. CASE Place
    BY <2>3 DEF Place
  <2>4. CASE CallNoPos \/ CallByPos \/ PQPrint
    BY <2>4 DEF CallNoPos, CallByPos, PQPrint, Pop, Peek, PopEmpty, Remove, Insert,
                ChangePriority
  <2> QED
    BY <2>1, <2>2, <2>3, <2>4 DEF Next, SiftStep
<1> QED
  BY <1>1, HeapAlways, PTL DEF Spec, SiftsEnd

-----------------------------------------------------------------------------
(* pqueue_is_valid                                                         *)

SlotNumbers == Nat \ {0}

\* What subtree_is_valid asks of slot k, with the answers f further down.
Below(f, k) ==
    \A c \in Children(k) : c < size =>
        ~cmp_pri(pri[d[k]], pri[d[c]]) /\ f[c] = 1

\* A slot that is wrong when those of S are: a child has precedence over it or
\* is wrong itself.
WrongIf(S, k) ==
    \E c \in Children(k) : c < size /\ (cmp_pri(pri[d[k]], pri[d[c]]) \/ c \in S)

\* The children of a slot are slots further on.
LEMMA ChildFacts ==
  ASSUME NEW k \in SlotNumbers, NEW c \in Children(k)
  PROVE  c \in SlotNumbers /\ k < c /\ c > 1 /\ parent(c) = k
<1>1. c \in Nat /\ c > 1 /\ k < c /\ (c = 2 * k \/ c = 2 * k + 1)
  BY DEF Children, left, right, SlotNumbers
<1>2. parent(c) = k
  BY <1>1, ParentFacts DEF SlotNumbers
<1> QED
  BY <1>1, <1>2 DEF SlotNumbers

\* The recursion of subtree_is_valid has a solution, whatever is in the heap:
\* 0 at the least set of slots that contains those that are wrong because of it.
LEMMA ValidDefined ==
  \A k \in SlotNumbers :
      subtree_is_valid[k] = IF Below(subtree_is_valid, k) THEN 1 ELSE 0
<1> DEFINE Closed(S) == \A k \in SlotNumbers : WrongIf(S, k) => k \in S
           Bad == {k \in SlotNumbers :
                     \A S \in SUBSET SlotNumbers : Closed(S) => k \in S}
           F(g) == [k \in SlotNumbers |-> IF Below(g, k) THEN 1 ELSE 0]
           g0 == [k \in SlotNumbers |-> IF k \in Bad THEN 0 ELSE 1]
<1>1. \A S, T : S \subseteq T => \A k : WrongIf(S, k) => WrongIf(T, k)
  BY DEF WrongIf
<1>2. \A k \in SlotNumbers : WrongIf(Bad, k) => k \in Bad
  <2> SUFFICES ASSUME NEW k \in SlotNumbers, WrongIf(Bad, k),
                      NEW S \in SUBSET SlotNumbers, Closed(S)
               PROVE  k \in S
    OBVIOUS
  <2>1. Bad \subseteq S
    OBVIOUS
  <2> HIDE DEF Bad
  <2>2. WrongIf(S, k)
    BY <1>1, <2>1
  <2> QED
    BY <2>2
<1>3. \A k \in Bad : WrongIf(Bad, k)
  <2> DEFINE T == {k \in Bad : WrongIf(Bad, k)}
  <2>1. T \subseteq Bad /\ T \in SUBSET SlotNumbers
    OBVIOUS
  <2>2. Closed(T)
    <3> SUFFICES ASSUME NEW k \in SlotNumbers, WrongIf(T, k) PROVE k \in T
      OBVIOUS
    <3> HIDE DEF Bad
    <3>1. WrongIf(Bad, k)
      <4> HIDE DEF T
      <4> QED
        BY <1>1, <2>1
    <3> QED
      BY <1>2, <3>1
  <2>3. Bad \subseteq T
    <3> HIDE DEF T
    <3> QED
      BY <2>1, <2>2
  <2> QED
    BY <2>3
<1>4. g0 = F(g0)
  <2> SUFFICES ASSUME NEW k \in SlotNumbers PROVE Below(g0, k) <=> k \notin Bad
    OBVIOUS
  <2> HIDE DEF Bad
  <2>1. \A c \in Children(k) : g0[c] = 1 <=> c \notin Bad
    BY ChildFacts
  <2> HIDE DEF g0
  <2>2. Below(g0, k) <=> ~WrongIf(Bad, k)
    BY <2>1 DEF Below, WrongIf
  <2> QED
    BY <1>2, <1>3, <2>2
<1>5. subtree_is_valid = CHOOSE g : g = F(g)
  BY DEF subtree_is_valid, Below, SlotNumbers
<1> HIDE DEF g0
<1>6. subtree_is_valid = F(subtree_is_valid)
  BY <1>4, <1>5
<1> QED
  BY <1>6

\* In a heap that is in order the check finds nothing wrong below any slot.
LEMMA ValidBelow ==
  ASSUME size \in Nat, InOrder, NEW k \in SlotNumbers
  PROVE  subtree_is_valid[k] = 1
<1> DEFINE f == subtree_is_valid
           Bad == {m \in Nat : \E h \in SlotNumbers : f[h] # 1 /\ h < size /\ m = size - h}
<1>1. \A h \in SlotNumbers : f[h] = IF Below(f, h) THEN 1 ELSE 0
  BY ValidDefined
<1> HIDE DEF f
<1>2. ASSUME NEW h \in SlotNumbers, f[h] # 1
      PROVE  \E c \in SlotNumbers : f[c] # 1 /\ h < c /\ c < size
  <2>1. PICK c \in Children(h) :
           c < size /\ ~(~cmp_pri(pri[d[h]], pri[d[c]]) /\ f[c] = 1)
    BY <1>1, <1>2 DEF Below
  <2>2. c \in SlotNumbers /\ h < c /\ c > 1 /\ parent(c) = h
    BY ChildFacts
  <2>3. c \in 2 .. size - 1
    BY <2>1, <2>2 DEF SlotNumbers
  <2>4. ~cmp_pri(pri[d[h]], pri[d[c]])
    BY <2>2, <2>3 DEF InOrder
  <2> QED
    BY <2>1, <2>2, <2>4
<1>3. Bad = {}
  <2> SUFFICES ASSUME Bad # {} PROVE FALSE
    OBVIOUS
  <2>1. PICK m \in Bad : \A n \in Bad : m <= n
    <3>1. Bad \in SUBSET Nat
      OBVIOUS
    <3> HIDE DEF Bad
    <3> QED
      BY <3>1, LeastOf
  <2>2. PICK h \in SlotNumbers : f[h] # 1 /\ h < size /\ m = size - h
    OBVIOUS
  <2>3. PICK c \in SlotNumbers : f[c] # 1 /\ h < c /\ c < size
    BY <1>2, <2>2
  <2>4. size - c \in Nat /\ size - c < m
    BY <2>2, <2>3 DEF SlotNumbers
  <2>5. size - c \in Bad
    BY <2>3, <2>4
  <2> HIDE DEF Bad
  <2>6. m \in Nat /\ m <= size - c
    BY <2>1, <2>2, <2>5 DEF SlotNumbers
  <2> QED
    BY <2>4, <2>6
<1>4. SUFFICES ASSUME f[k] # 1 PROVE FALSE
  BY DEF f
<1>5. PICK c \in SlotNumbers : f[c] # 1 /\ k < c /\ c < size
  BY <1>2, <1>4
<1>6. size - c \in Nat
  BY <1>5 DEF SlotNumbers
<1> QED
  BY <1>3, <1>5, <1>6

\* A heap the check finds nothing wrong with is in order.
LEMMA ValidSound ==
  ASSUME size \in Nat, subtree_is_valid[1] = 1
  PROVE  InOrder
<1> DEFINE f == subtree_is_valid
           Bad == {k \in Nat : k # 0 /\ k < size /\ f[k] # 1}
<1>1. \A h \in SlotNumbers : f[h] = IF Below(f, h) THEN 1 ELSE 0
  BY ValidDefined
<1>2. f[1] = 1
  OBVIOUS
<1> HIDE DEF f
<1>3. ASSUME NEW k \in Nat, k > 1, k < size, f[parent(k)] = 1
      PROVE  f[k] = 1 /\ ~cmp_pri(pri[d[parent(k)]], pri[d[k]])
  <2>0. PICK q : q = parent(k)
    OBVIOUS
  <2>1. q \in SlotNumbers /\ (k = 2 * q \/ k = 2 * q + 1)
    BY <1>3, <2>0, ParentFacts DEF SlotNumbers
  <2>2. k \in Children(q)
    BY <2>1 DEF Children, left, right
  <2>3. Below(f, q)
    BY <1>1, <1>3, <2>0, <2>1
  <2> QED
    BY <1>3, <2>0, <2>2, <2>3 DEF Below
<1>4. Bad = {}
  <2> SUFFICES ASSUME Bad # {} PROVE FALSE
    OBVIOUS
  <2>1. Bad \in SUBSET Nat
    OBVIOUS
  <2>2. PICK k \in Bad : \A n \in Bad : k <= n
    <3> HIDE DEF Bad
    <3> QED
      BY <2>1, LeastOf
  <2>3. k \in Nat /\ k > 1 /\ k < size /\ f[k] # 1
    BY <1>2, <2>2
  <2>4. parent(k) \in 1 .. k - 1
    BY <2>3, ParentFacts
  <2>5. parent(k) \notin Bad
    BY <2>2, <2>3, <2>4
  <2>6. f[parent(k)] = 1
    BY <2>3, <2>4, <2>5
  <2> QED
    BY <1>3, <2>3, <2>6
<1> SUFFICES ASSUME NEW k \in 2 .. size - 1
             PROVE  ~cmp_pri(pri[d[parent(k)]], pri[d[k]])
  BY DEF InOrder
<1>5. k \in Nat /\ k > 1 /\ k < size /\ parent(k) \in 1 .. k - 1
  BY ParentFacts
<1>6. f[parent(k)] = 1
  BY <1>4, <1>5
<1> QED
  BY <1>3, <1>5, <1>6

\* pqueue_is_valid answers 1 exactly when the heap is in order, for every number
\* of nodes, and also of the heaps that misled calls leave behind.
THEOREM CheckIsRight == Spec => []CheckAgrees
<1>1. Inv => CheckAgrees
  <2> SUFFICES ASSUME HeapInv PROVE subtree_is_valid[1] = 1 <=> InOrder
    BY DEF Inv, CheckAgrees
  <2>1. size \in Nat /\ 1 \in SlotNumbers
    BY HeapTypes DEF SlotNumbers
  <2> QED
    BY <2>1, ValidBelow, ValidSound
<1> QED
  BY <1>1, HeapAlways, PTL
=============================================================================
