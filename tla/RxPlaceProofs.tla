--------------------------- MODULE RxPlaceProofs ---------------------------
(* Where the blocks are in the receiver proxy: none is in two places, none *)
(* is nowhere, and none is stuck in the heap, for any number of connections *)
(* and blocks, as long as no undefined behaviour has happened.             *)
EXTENDS RxProxyProofs

\* The blocks that come from connection c and are not in the pool yet.
Upstream(c) == OnLink(c) \cup InHand(c)

\* The places of NothingTwice are disjoint.
PlacesDisjoint ==
    /\ \A c, d \in Conns : c # d => Upstream(c) \cap Upstream(d) = {}
    /\ \A c \in Conns : OnLink(c) \cap InHand(c) = {}
    /\ \A c \in Conns :
          Upstream(c) \cap (Queued \cup Pending \cup Delivered) = {}
    /\ Queued \cap Pending = {} /\ Queued \cap Delivered = {}
    /\ Pending \cap Delivered = {}

\* No place holds a block twice.
LinksOnce == \A c \in Conns : \A k, m \in 1 .. Len(link[c]) :
                link[c][k].blk = link[c][m].blk => k = m
HeapOnce == \A p, q \in pq : p.blk = q.blk => p = q
RunOnce == \A k, m \in count + 1 .. Len(fbuf) :
                fbuf[k].blk = fbuf[m].blk => k = m
DestOnce == \A k, m \in 1 .. Len(dest) : dest[k].blk = dest[m].blk => k = m

PlacesOnce == LinksOnce /\ HeapOnce /\ RunOnce /\ DestOnce

PlacesSound == ub = {} => PlacesDisjoint /\ PlacesOnce

\* NothingTwice, in parts.
LEMMA TwiceParts == TypeOK => (NothingTwice <=> PlacesSound)
<1> SUFFICES ASSUME TypeOK PROVE NothingTwice <=> PlacesSound
  OBVIOUS
<1>1. dest \in Seq(Packet) /\ \A c \in Conns : link[c] \in Seq(Packet)
  BY DEF TypeOK, SendTypeOK, LinkTypeOK
<1>2. /\ DOMAIN dest = 1 .. Len(dest)
      /\ \A c \in Conns : DOMAIN link[c] = 1 .. Len(link[c])
  BY <1>1
<1>3. (\A c \in Conns : \A k, m \in DOMAIN link[c] :
            link[c][k].blk = link[c][m].blk => k = m) <=> LinksOnce
  BY <1>2 DEF LinksOnce
<1>4. (\A k, m \in DOMAIN dest : dest[k].blk = dest[m].blk => k = m) <=> DestOnce
  BY <1>2 DEF DestOnce
<1> QED
  BY <1>3, <1>4, Zenon
     DEF NothingTwice, PlacesSound, PlacesDisjoint, PlacesOnce, HeapOnce, RunOnce,
         Upstream

\* A step of a thread that works on neither a packet nor the heap.
Quiet ==
    /\ UNCHANGED <<link, pq, fbuf, count, dest, lost, arrived, ub>>
    /\ \A c \in Conns : InHand(c)' = InHand(c)

\* What the steps of rx_chain on a packet do to the places.
LEMMA ChainQuiet ==
  ASSUME TypeOK, NEW c \in Conns,
         Accept(c) \/ LockPool(c) \/ UpdateUnlock(c) \/ Signal(c)
  PROVE  Quiet
<1>1. rpc \in [Conns -> ChainStates]
  BY DEF TypeOK, ChainTypeOK
<1>2. UNCHANGED <<link, pq, fbuf, count, dest, lost, arrived, ub, raw>>
  BY DEF Accept, LockPool, UpdateUnlock, Signal, linkVars, minSeqs, fillVars,
         sendVars
<1>3. \A e \in Conns : rpc'[e] \in {"lock", "insert"} <=> rpc[e] \in {"lock", "insert"}
  BY <1>1 DEF Accept, LockPool, UpdateUnlock, Signal, AfterAdd
<1> QED
  BY <1>2, <1>3 DEF Quiet, InHand

\* Locking, waiting and unlocking of the forwarder move no packet.
LEMMA ForwardQuiet ==
  ASSUME ForwardLock \/ TimedWait \/ Relock \/ ForwardUnlock
  PROVE  Quiet
  BY DEF ForwardLock, TimedWait, Relock, ForwardUnlock, Quiet, InHand, linkVars,
         chainVars, minSeqs, fillVars, sendVars

\* ... and the places stay as they are.
LEMMA QuietPlaces ==
  ASSUME Quiet
  PROVE  /\ \A c \in Conns : OnLink(c)' = OnLink(c) /\ InHand(c)' = InHand(c)
         /\ Queued' = Queued /\ Pending' = Pending /\ Delivered' = Delivered
         /\ (PlacesDisjoint /\ PlacesOnce)' <=> (PlacesDisjoint /\ PlacesOnce)
<1>1. \A c \in Conns : OnLink(c)' = OnLink(c) /\ InHand(c)' = InHand(c)
  BY DEF Quiet, OnLink
<1>2. Queued' = Queued /\ Pending' = Pending /\ Delivered' = Delivered
  BY DEF Quiet, Queued, Pending, Delivered
<1>3. PlacesDisjoint' <=> PlacesDisjoint
  BY <1>1, <1>2, Zenon DEF PlacesDisjoint, Upstream
<1>4. PlacesOnce' <=> PlacesOnce
  BY DEF Quiet, PlacesOnce, LinksOnce, HeapOnce, RunOnce, DestOnce
<1> QED
  BY <1>1, <1>2, <1>3, <1>4

-----------------------------------------------------------------------------
(* The steps that move a block                                             *)

\* The tail of a sequence of different blocks is one.
LEMMA TailOnce ==
  ASSUME NEW s \in Seq(Packet), s # << >>,
         \A k, m \in 1 .. Len(s) : s[k].blk = s[m].blk => k = m
  PROVE  \A k, m \in 1 .. Len(Tail(s)) :
            Tail(s)[k].blk = Tail(s)[m].blk => k = m
<1>1. /\ Len(s) \in Nat \ {0} /\ Len(Tail(s)) = Len(s) - 1
      /\ \A k \in 1 .. Len(s) - 1 : Tail(s)[k] = s[k + 1]
  OBVIOUS
<1>2. \A k \in 1 .. Len(s) - 1 : k + 1 \in 1 .. Len(s)
  BY <1>1
<1>3. \A k, m \in 1 .. Len(s) - 1 : s[k + 1].blk = s[m + 1].blk => k + 1 = m + 1
  BY <1>2
<1> QED
  BY <1>1, <1>3

\* A recv() that completes a packet takes its block off the connection.
LEMMA ReceiveMoves ==
  ASSUME TypeOK, NEW c \in Conns, Receive(c)
  PROVE  /\ UNCHANGED <<pq, fbuf, count, dest, lost, arrived, ub>>
         /\ \A e \in Conns \ {c} : link'[e] = link[e]
                /\ OnLink(e)' = OnLink(e) /\ InHand(e)' = InHand(e)
         /\ link'[c] = Tail(link[c]) /\ InHand(c) = {}
         /\ InHand(c)' = {Head(link[c]).blk}
         /\ OnLink(c) = OnLink(c)' \cup InHand(c)'
         /\ LinksOnce => OnLink(c)' \cap InHand(c)' = {}
<1>0. link \in [Conns -> Seq(Packet)] /\ rpc \in [Conns -> ChainStates]
        /\ raw \in [Conns -> Packet \cup {NoPacket}]
  BY DEF TypeOK, LinkTypeOK, ChainTypeOK
<1>1. /\ UNCHANGED <<pq, fbuf, count, dest, lost, arrived, ub>>
      /\ \A e \in Conns \ {c} : link'[e] = link[e]
                /\ OnLink(e)' = OnLink(e) /\ InHand(e)' = InHand(e)
      /\ link'[c] = Tail(link[c]) /\ InHand(c) = {}
      /\ InHand(c)' = {Head(link[c]).blk}
  BY <1>0 DEF Receive, InHand, OnLink, linkVars, minSeqs, fillVars, sendVars
<1> DEFINE s == link[c]
<1>2. s \in Seq(Packet) /\ s # << >>
  BY <1>0 DEF Receive
<1>3. /\ Head(s) = s[1] /\ Len(s) \in Nat \ {0} /\ Len(Tail(s)) = Len(s) - 1
      /\ \A k \in 1 .. Len(s) - 1 : Tail(s)[k] = s[k + 1]
      /\ DOMAIN s = 1 .. Len(s) /\ DOMAIN Tail(s) = 1 .. Len(s) - 1
  BY <1>2
<1>4. OnLink(c) = {s[k].blk : k \in 1 .. Len(s)}
  BY <1>3 DEF OnLink
<1>5. OnLink(c)' = {s[k + 1].blk : k \in 1 .. Len(s) - 1}
  <2>1. OnLink(c)' = {Tail(s)[k].blk : k \in 1 .. Len(s) - 1}
    <3>1. OnLink(c)' = {link'[c][k].blk : k \in DOMAIN link'[c]}
      BY DEF OnLink
    <3>2. link'[c] = Tail(s) /\ DOMAIN Tail(s) = 1 .. Len(s) - 1
      BY <1>1, <1>3
    <3> HIDE DEF s
    <3> QED
      BY <3>1, <3>2, Zenon
  <2> HIDE DEF s
  <2> QED
    BY <1>3, <2>1
<1>6. \A k \in 1 .. Len(s) : k = 1 \/ (k - 1 \in 1 .. Len(s) - 1 /\ k = (k - 1) + 1)
  BY <1>3
<1>7. \A k \in 1 .. Len(s) - 1 : k + 1 \in 1 .. Len(s) /\ k + 1 # 1
  BY <1>3
<1>8. 1 \in 1 .. Len(s)
  BY <1>3
<1> HIDE DEF s
<1>9. \A b : b \in OnLink(c) <=> b \in OnLink(c)' \/ b = s[1].blk
  BY <1>4, <1>5, <1>6, <1>7, <1>8
<1>10. LinksOnce => s[1].blk \notin OnLink(c)'
  BY <1>5, <1>7, <1>8 DEF LinksOnce, s
<1> QED
  BY <1>1, <1>3, <1>9, <1>10 DEF s

\* A connection that breaks off takes everything that was under way on it.
LEMMA CutMoves ==
  ASSUME TypeOK, NEW c \in Conns, ReceiveCut(c) \/ Complete(c)
  PROVE  /\ UNCHANGED <<pq, fbuf, count, dest, arrived, ub>>
         /\ \A e \in Conns \ {c} : link'[e] = link[e]
                /\ OnLink(e)' = OnLink(e) /\ InHand(e)' = InHand(e)
         /\ link'[c] = << >> /\ InHand(c) = {} /\ OnLink(c)' = {}
         /\ InHand(c)' \subseteq OnLink(c)
         /\ lost' = lost \cup OnLink(c)
<1>0. link \in [Conns -> Seq(Packet)] /\ rpc \in [Conns -> ChainStates]
        /\ raw \in [Conns -> Packet \cup {NoPacket}]
  BY DEF TypeOK, LinkTypeOK, ChainTypeOK
<1>a. /\ UNCHANGED <<pq, fbuf, count, dest, arrived, ub>>
      /\ rpc[c] = "poll" /\ lost' = lost \cup OnLink(c)
  BY DEF ReceiveCut, Complete, minSeqs, fillVars, sendVars
<1>b. \A e \in Conns : link'[e] = IF e = c THEN << >> ELSE link[e]
  BY <1>0 DEF ReceiveCut, Complete
<1>c. \A e \in Conns \ {c} : rpc'[e] = rpc[e] /\ raw'[e] = raw[e]
  BY <1>0 DEF ReceiveCut, Complete
<1>1. /\ UNCHANGED <<pq, fbuf, count, dest, arrived, ub>>
      /\ \A e \in Conns \ {c} : link'[e] = link[e]
                /\ OnLink(e)' = OnLink(e) /\ InHand(e)' = InHand(e)
      /\ link'[c] = << >> /\ InHand(c) = {}
      /\ lost' = lost \cup OnLink(c)
  BY <1>a, <1>b, <1>c DEF InHand, OnLink
<1>2. OnLink(c)' = {}
  BY <1>1 DEF OnLink
<1>3. CASE Complete(c)
  <2>1. InHand(c)' = {}
    BY <1>0, <1>3 DEF Complete, InHand
  <2> QED
    BY <1>1, <1>2, <2>1
<1>4. CASE ReceiveCut(c)
  <2>1. InHand(c)' = {Head(link[c]).blk}
    BY <1>0, <1>4 DEF ReceiveCut, InHand
  <2>2. link[c] \in Seq(Packet) /\ link[c] # << >>
    BY <1>0, <1>4 DEF ReceiveCut
  <2>3. Head(link[c]) = link[c][1] /\ 1 \in DOMAIN link[c]
    BY <2>2
  <2>4. Head(link[c]).blk \in OnLink(c)
    BY <2>3 DEF OnLink
  <2> QED
    BY <1>1, <1>2, <2>1, <2>4
<1> QED
  BY <1>3, <1>4

\* add2queue puts the block in hand into the heap.
LEMMA InsertMoves ==
  ASSUME TypeOK, NEW c \in Conns, Insert(c), ub' = {}
  PROVE  /\ UNCHANGED <<link, fbuf, count, dest, lost>> /\ ub = {}
         /\ \A e \in Conns : OnLink(e)' = OnLink(e)
         /\ \A e \in Conns \ {c} : InHand(e)' = InHand(e)
         /\ InHand(c) = {raw[c].blk} /\ InHand(c)' = {}
         /\ pq' = pq \cup {raw[c]}
         /\ Queued' = Queued \cup {raw[c].blk}
         /\ arrived' = arrived \cup {raw[c]}
<1>0. rpc \in [Conns -> ChainStates]
  BY DEF TypeOK, ChainTypeOK
<1>1. ub = {} /\ Race(c) = {} /\ ~Corrupt(c)
  BY DEF Insert, Corrupt
<1>2. pq' = pq \cup {raw[c]} /\ arrived' = arrived \cup {raw[c]}
  BY <1>1 DEF Insert
<1>3. Queued' = Queued \cup {raw[c].blk}
  BY <1>2 DEF Queued
<1> QED
  BY <1>0, <1>1, <1>2, <1>3 DEF Insert, InHand, OnLink, linkVars, minSeqs, fillVars,
                                sendVars

\* A pop of a sound heap takes out one packet, and a put-back restores it.
LEMMA PopMoves ==
  ASSUME ub = {}, Race(Forwarder) = {}, NEW r \in PopResults(Forwarder)
  PROVE  r.head \in pq /\ r.rest = pq \ {r.head} /\ PutBack(r) = pq
<1>1. ~Corrupt(Forwarder)
  BY DEF Corrupt
<1>2. PICK p \in Mins : r = [head |-> p, rest |-> pq \ {p}]
  BY <1>1 DEF PopResults
<1> QED
  BY <1>2 DEF Mins, PutBack

\* What is left of the heap is without the block, if that was there once.
LEMMA PoppedQueue ==
  ASSUME NEW p \in pq, pq' = pq \ {p}
  PROVE  /\ Queued = Queued' \cup {p.blk}
         /\ HeapOnce => p.blk \notin Queued' /\ HeapOnce'
  BY DEF Queued, HeapOnce

\* fq->buffer is empty until fill_queue fills it.
BufferEmpty == fpc \in {"start", "wait", "relock", "fill"} => fbuf = << >>

\* forward_data passes a filled buffer on before the next round fills it.
LEMMA BufferEmptyNext == TypeOK /\ BufferEmpty /\ [Next]_vars => BufferEmpty'
<1> SUFFICES ASSUME TypeOK, BufferEmpty, [Next]_vars PROVE BufferEmpty'
  OBVIOUS
<1> USE DEF BufferEmpty, linkVars, chainVars, minSeqs, fillVars, sendVars
<1>1. ASSUME NEW c \in Conns, RxChain(c) PROVE BufferEmpty'
  BY <1>1 DEF RxChain, Accept, Receive, ReceiveCut, Complete, LockPool, Insert,
              UpdateUnlock, Signal
<1>2. CASE ForwardLock \/ TimedWait \/ Relock \/ FillNothing \/ FillFirst
              \/ FillNext \/ FillEnd \/ ForwardData \/ ForwardDone
  BY <1>2 DEF ForwardLock, TimedWait, Relock, FillNothing, FillFirst, FillNext,
              FillEnd, ForwardData, ForwardDone
<1>3. CASE ForwardUnlock
  BY <1>3 DEF ForwardUnlock, TypeOK, FillTypeOK
<1>4. CASE UNCHANGED vars
  BY <1>4 DEF vars
<1> QED
  BY <1>1, <1>2, <1>3, <1>4 DEF Next, ForwardLoop

\* The steps of fill_queue and forward_data leave the connections alone.
LEMMA UpstreamKept ==
  ASSUME FillNothing \/ FillFirst \/ FillNext \/ FillEnd \/ ForwardData
            \/ ForwardDone
  PROVE  /\ UNCHANGED <<link, lost, arrived>>
         /\ \A c \in Conns : OnLink(c)' = OnLink(c) /\ InHand(c)' = InHand(c)
<1>1. UNCHANGED <<link, lost, arrived, rpc, raw>>
  BY DEF FillNothing, FillFirst, FillNext, FillEnd, ForwardData, ForwardDone,
         linkVars, chainVars
<1> QED
  BY <1>1 DEF OnLink, InHand

\* An iteration of fill_queue that takes a packet moves it from the heap to
\* the end of fq->buffer.
LEMMA FillMoves ==
  ASSUME TypeOK, BufferEmpty, FillFirst \/ FillNext, ub' = {}
  PROVE  \E p \in pq :
            /\ pq' = pq \ {p} /\ ub = {} /\ UNCHANGED <<dest, count>>
            /\ Pending' = Pending \cup {p.blk}
            /\ RunOnce /\ p.blk \notin Pending => RunOnce'
<1>1. ub = {} /\ Race(Forwarder) = {}
  BY DEF FillFirst, FillNext
<1>2. PICK r \in PopResults(Forwarder) :
          pq' = r.rest /\ fbuf' = Append(fbuf, r.head)
  <2>1. CASE FillFirst
    <3>1. fbuf = << >>
      BY <2>1 DEF FillFirst, BufferEmpty
    <3>2. \A e : <<e>> = Append(<< >>, e)
      OBVIOUS
    <3> QED
      BY <2>1, <3>1, <3>2, Zenon DEF FillFirst
  <2>2. CASE FillNext
    BY <2>2 DEF FillNext
  <2> QED
    BY <2>1, <2>2
<1>3. r.head \in pq /\ r.rest = pq \ {r.head}
  BY <1>1, PopMoves
<1>4. UNCHANGED <<dest, count>> /\ count = 0
  BY DEF FillFirst, FillNext, sendVars, TypeOK, SendTypeOK
<1> DEFINE n == Len(fbuf)
           p == r.head
<1>5. /\ fbuf \in Seq(Packet) /\ p \in Packet /\ n \in Nat
      /\ Len(fbuf') = n + 1 /\ fbuf'[n + 1] = p
      /\ \A k \in 1 .. n : fbuf'[k] = fbuf[k]
  <2>1. fbuf \in Seq(Packet) /\ p \in Packet
    BY PopType DEF TypeOK, FillTypeOK
  <2> QED
    BY <1>2, <2>1, AppendType
<1>6. /\ Pending = {fbuf[k].blk : k \in 1 .. n}
      /\ Pending' = {fbuf'[k].blk : k \in 1 .. n + 1}
  BY <1>4, <1>5 DEF Pending
<1>7. \A k : k \in 1 .. n + 1 <=> (k \in 1 .. n \/ k = n + 1)
  BY <1>5
<1> HIDE DEF p, n
<1>8. Pending' = Pending \cup {p.blk}
  BY <1>5, <1>6, <1>7
<1>9. ASSUME RunOnce, p.blk \notin Pending PROVE RunOnce'
  <2>1. \A k, m \in 1 .. n : fbuf[k].blk = fbuf[m].blk => k = m
    BY <1>4, <1>5, <1>9 DEF RunOnce, n
  <2>2. \A k \in 1 .. n : fbuf[k].blk # p.blk
    BY <1>6, <1>9
  <2>3. \A k, m \in 1 .. n + 1 : fbuf'[k].blk = fbuf'[m].blk => k = m
    BY <1>5, <1>7, <2>1, <2>2
  <2> QED
    BY <1>4, <1>5, <2>3 DEF RunOnce
<1> QED
  BY <1>1, <1>2, <1>3, <1>4, <1>8, <1>9 DEF p

\* An iteration that takes nothing leaves the heap and the run as they were.
LEMMA FillKeeps ==
  ASSUME TypeOK, BufferEmpty, FillNothing \/ FillEnd, ub' = {}
  PROVE  UNCHANGED <<pq, fbuf, count, dest>> /\ ub = {}
<1>1. ub = {} /\ Race(Forwarder) = {}
  BY DEF FillNothing, FillEnd
<1>2. UNCHANGED <<fbuf, count, dest>>
  BY DEF FillNothing, FillEnd, BufferEmpty, sendVars
<1>3. UNCHANGED pq
  BY <1>1, PopMoves DEF FillNothing, FillEnd
<1> QED
  BY <1>1, <1>2, <1>3

\* A packet forward_data has sent leaves the run for the destination.
LEMMA SendMoves ==
  ASSUME TypeOK, ForwardData
  PROVE  /\ UNCHANGED <<pq, ub, fbuf>>
         /\ \/ UNCHANGED <<count, dest>>
            \/ \E b : /\ Pending = Pending' \cup {b}
                      /\ Delivered' = Delivered \cup {b}
                      /\ RunOnce => b \notin Pending' /\ RunOnce'
                      /\ DestOnce /\ b \notin Delivered => DestOnce'
<1>1. UNCHANGED <<pq, ub, fbuf>>
  BY DEF ForwardData, fillVars
<1> SUFFICES ASSUME /\ dest' = Append(dest, fbuf[count + 1])
                    /\ count' = count + 1
                    /\ count + 1 \in 1 .. Len(fbuf)
                    /\ fbuf[count + 1] \in Packet
             PROVE  \E b : /\ Pending = Pending' \cup {b}
                           /\ Delivered' = Delivered \cup {b}
                           /\ RunOnce => b \notin Pending' /\ RunOnce'
                           /\ DestOnce /\ b \notin Delivered => DestOnce'
  BY <1>1, SendStep
<1> DEFINE n == Len(dest)
           l == Len(fbuf)
           p == fbuf[count + 1]
<1>2. count \in Nat /\ l \in Nat /\ n \in Nat /\ dest \in Seq(Packet)
  BY DEF TypeOK, SendTypeOK, FillTypeOK
<1>3. /\ dest' \in Seq(Packet) /\ Len(dest') = n + 1 /\ dest'[n + 1] = p
      /\ \A k \in 1 .. n : dest'[k] = dest[k]
  BY <1>2, AppendType
<1>4. /\ Delivered = {dest[k].blk : k \in 1 .. n}
      /\ Delivered' = {dest'[k].blk : k \in 1 .. n + 1}
  BY <1>2, <1>3 DEF Delivered
<1>5. /\ Pending = {fbuf[k].blk : k \in count + 1 .. l}
      /\ Pending' = {fbuf[k].blk : k \in count + 2 .. l}
  BY <1>1, <1>2 DEF Pending
<1>6. \A k : k \in 1 .. n + 1 <=> (k \in 1 .. n \/ k = n + 1)
  BY <1>2
<1>7. /\ \A k : k \in count + 1 .. l <=> (k \in count + 2 .. l \/ k = count + 1)
      /\ count + 1 \notin count + 2 .. l
  BY <1>2
<1>8. RunOnce <=> \A k, m \in count + 1 .. l : fbuf[k].blk = fbuf[m].blk => k = m
  BY DEF RunOnce
<1>9. RunOnce' <=> \A k, m \in count + 2 .. l : fbuf[k].blk = fbuf[m].blk => k = m
  BY <1>1, <1>2 DEF RunOnce
<1>a. p = fbuf[count + 1]
  OBVIOUS
<1> HIDE DEF p, n, l
<1>10. Pending = Pending' \cup {p.blk}
  BY <1>a, <1>5, <1>7
<1>11. Delivered' = Delivered \cup {p.blk}
  BY <1>3, <1>4, <1>6
<1>12. RunOnce => p.blk \notin Pending' /\ RunOnce'
  BY <1>a, <1>5, <1>7, <1>8, <1>9
<1>13. ASSUME DestOnce, p.blk \notin Delivered PROVE DestOnce'
  <2>1. \A k, m \in 1 .. n : dest[k].blk = dest[m].blk => k = m
    BY <1>13 DEF DestOnce, n
  <2>2. \A k \in 1 .. n : dest[k].blk # p.blk
    BY <1>4, <1>13
  <2>3. \A k, m \in 1 .. n + 1 : dest'[k].blk = dest'[m].blk => k = m
    BY <1>3, <1>6, <2>1, <2>2
  <2> QED
    BY <1>3, <2>3 DEF DestOnce
<1> QED
  BY <1>10, <1>11, <1>12, <1>13

\* When a run is sent, nothing of it is left to send.
LEMMA DoneMoves ==
  ASSUME TypeOK, ForwardDone
  PROVE  /\ UNCHANGED <<pq, dest, ub>>
         /\ Pending = {} /\ Pending' = {} /\ RunOnce'
<1>1. UNCHANGED <<pq, dest, ub>> /\ count = Len(fbuf) /\ Len(fbuf) \in Nat
        /\ fbuf' = << >> /\ count' = 0
  BY DEF ForwardDone, TypeOK, FillTypeOK
<1>2. count + 1 .. Len(fbuf) = {} /\ count' + 1 .. Len(fbuf') = {}
  BY <1>1
<1> QED
  BY <1>1, <1>2 DEF Pending, RunOnce

-----------------------------------------------------------------------------
(* Nothing twice                                                           *)

\* A step that only takes blocks away from one connection's end of the proxy.
LEMMA UpstreamShrinks ==
  ASSUME PlacesDisjoint,
         \A e \in Conns : Upstream(e)' \subseteq Upstream(e),
         \A e \in Conns : OnLink(e)' \cap InHand(e)' = {},
         Queued' = Queued, Pending' = Pending, Delivered' = Delivered
  PROVE  PlacesDisjoint'
<1>1. \A c, d \in Conns : c # d => Upstream(c)' \cap Upstream(d)' = {}
  BY DEF PlacesDisjoint
<1>2. \A c \in Conns :
         Upstream(c)' \cap (Queued' \cup Pending' \cup Delivered') = {}
  BY DEF PlacesDisjoint
<1> QED
  BY <1>1, <1>2 DEF PlacesDisjoint

\* A step that moves a block within the proxy leaves it in one place.
LEMMA DownstreamMoves ==
  ASSUME PlacesDisjoint, NEW b,
         \A e \in Conns : OnLink(e)' = OnLink(e) /\ InHand(e)' = InHand(e),
         \/ /\ Queued = Queued' \cup {b} /\ b \notin Queued'
            /\ Pending' = Pending \cup {b} /\ Delivered' = Delivered
         \/ /\ Pending = Pending' \cup {b} /\ b \notin Pending'
            /\ Delivered' = Delivered \cup {b} /\ Queued' = Queued
  PROVE  PlacesDisjoint'
<1>0. \A e \in Conns : Upstream(e)' = Upstream(e)
  BY DEF Upstream
<1>1. Queued' \cup Pending' \cup Delivered' = Queued \cup Pending \cup Delivered
  OBVIOUS
<1>2. /\ Queued' \cap Pending' = {} /\ Queued' \cap Delivered' = {}
      /\ Pending' \cap Delivered' = {}
  BY DEF PlacesDisjoint
<1>3. /\ \A c, d \in Conns : c # d => Upstream(c)' \cap Upstream(d)' = {}
      /\ \A c \in Conns : OnLink(c)' \cap InHand(c)' = {}
      /\ \A c \in Conns :
            Upstream(c)' \cap (Queued' \cup Pending' \cup Delivered') = {}
  BY <1>0, <1>1, Zenon DEF PlacesDisjoint
<1> QED
  BY <1>2, <1>3 DEF PlacesDisjoint

\* Every step of the proxy leaves each block in one place.
LEMMA PlacesNext ==
  ASSUME TypeOK, BufferEmpty, PlacesSound, [Next]_vars, ub' = {}
  PROVE  PlacesDisjoint' /\ PlacesOnce'
<1> USE DEF PlacesOnce, PlacesSound
<1>q. ASSUME Quiet PROVE PlacesDisjoint' /\ PlacesOnce'
  BY <1>q, QuietPlaces DEF Quiet
<1>1. ASSUME NEW c \in Conns,
             Accept(c) \/ LockPool(c) \/ UpdateUnlock(c) \/ Signal(c)
      PROVE  PlacesDisjoint' /\ PlacesOnce'
  BY <1>1, <1>q, ChainQuiet
<1>2. ASSUME NEW c \in Conns, Receive(c) PROVE PlacesDisjoint' /\ PlacesOnce'
  <2>1. ub = {} /\ PlacesDisjoint /\ PlacesOnce
    BY <1>2, ReceiveMoves
  <2>2. /\ \A e \in Conns : Upstream(e)' \subseteq Upstream(e)
        /\ \A e \in Conns : OnLink(e)' \cap InHand(e)' = {}
    BY <1>2, <2>1, ReceiveMoves DEF Upstream, PlacesDisjoint
  <2>3. Queued' = Queued /\ Pending' = Pending /\ Delivered' = Delivered
    BY <1>2, ReceiveMoves DEF Queued, Pending, Delivered
  <2>4. PlacesDisjoint'
    BY <2>1, <2>2, <2>3, UpstreamShrinks
  <2>5. LinksOnce'
    <3>1. link[c] \in Seq(Packet) /\ link[c] # << >>
      BY <1>2 DEF Receive, TypeOK, LinkTypeOK
    <3>2. \A k, m \in 1 .. Len(Tail(link[c])) :
             Tail(link[c])[k].blk = Tail(link[c])[m].blk => k = m
      BY <2>1, <3>1, TailOnce DEF LinksOnce
    <3>3. \A e \in Conns : link'[e] = link[e] \/ (e = c /\ link'[e] = Tail(link[e]))
      BY <1>2, ReceiveMoves
    <3>4. \A e \in Conns : \A k, m \in 1 .. Len(link'[e]) :
             link'[e][k].blk = link'[e][m].blk => k = m
      <4> SUFFICES ASSUME NEW e \in Conns
                   PROVE  \A k, m \in 1 .. Len(link'[e]) :
                            link'[e][k].blk = link'[e][m].blk => k = m
        OBVIOUS
      <4>1. CASE link'[e] = link[e]
        BY <2>1, <4>1 DEF LinksOnce
      <4>2. CASE e = c /\ link'[e] = Tail(link[e])
        BY <3>2, <4>2
      <4> QED
        BY <3>3, <4>1, <4>2
    <3> QED
      BY <3>4 DEF LinksOnce
  <2>6. HeapOnce' /\ RunOnce' /\ DestOnce'
    BY <1>2, <2>1, ReceiveMoves DEF HeapOnce, RunOnce, DestOnce
  <2> QED
    BY <2>4, <2>5, <2>6
<1>3. ASSUME NEW c \in Conns, ReceiveCut(c) \/ Complete(c)
      PROVE  PlacesDisjoint' /\ PlacesOnce'
  <2>1. ub = {} /\ PlacesDisjoint /\ PlacesOnce
    BY <1>3, CutMoves
  <2>2. /\ \A e \in Conns : Upstream(e)' \subseteq Upstream(e)
        /\ \A e \in Conns : OnLink(e)' \cap InHand(e)' = {}
    BY <1>3, <2>1, CutMoves DEF Upstream, PlacesDisjoint
  <2>3. Queued' = Queued /\ Pending' = Pending /\ Delivered' = Delivered
    BY <1>3, CutMoves DEF Queued, Pending, Delivered
  <2>4. PlacesDisjoint'
    BY <2>1, <2>2, <2>3, UpstreamShrinks
  <2>5. LinksOnce'
    BY <1>3, <2>1, CutMoves DEF LinksOnce
  <2>6. HeapOnce' /\ RunOnce' /\ DestOnce'
    BY <1>3, <2>1, CutMoves DEF HeapOnce, RunOnce, DestOnce
  <2> QED
    BY <2>4, <2>5, <2>6
<1>4. ASSUME NEW c \in Conns, Insert(c) PROVE PlacesDisjoint' /\ PlacesOnce'
  <2>1. ub = {} /\ PlacesDisjoint /\ PlacesOnce
    BY <1>4, InsertMoves
  <2>2. Pending' = Pending /\ Delivered' = Delivered
    BY <1>4, InsertMoves DEF Pending, Delivered
  <2> DEFINE b == raw[c].blk
  <2>3. b \in Upstream(c) /\ b \notin Queued \cup Pending \cup Delivered
    BY <1>4, <2>1, InsertMoves DEF Upstream, PlacesDisjoint
  <2>4. /\ \A e \in Conns : Upstream(e)' \subseteq Upstream(e)
        /\ \A e \in Conns : b \notin Upstream(e)'
    BY <1>4, <2>1, <2>3, InsertMoves DEF Upstream, PlacesDisjoint
  <2>5. PlacesDisjoint'
    <3>1. Queued' = Queued \cup {b}
      BY <1>4, InsertMoves
    <3>2. \A e \in Conns : OnLink(e)' \cap InHand(e)' = {}
      BY <1>4, <2>1, InsertMoves DEF PlacesDisjoint
    <3>3. \A e, d \in Conns : e # d => Upstream(e)' \cap Upstream(d)' = {}
      BY <2>1, <2>4 DEF PlacesDisjoint
    <3>4. \A e \in Conns :
             Upstream(e)' \cap (Queued' \cup Pending' \cup Delivered') = {}
      BY <2>1, <2>2, <2>4, <3>1 DEF PlacesDisjoint
    <3>5. Queued' \cap Pending' = {} /\ Queued' \cap Delivered' = {}
            /\ Pending' \cap Delivered' = {}
      BY <2>1, <2>2, <2>3, <3>1 DEF PlacesDisjoint
    <3> QED
      BY <3>2, <3>3, <3>4, <3>5 DEF PlacesDisjoint
  <2>6. HeapOnce'
    BY <1>4, <2>1, <2>3, InsertMoves DEF HeapOnce, Queued
  <2>7. LinksOnce' /\ RunOnce' /\ DestOnce'
    BY <1>4, <2>1, InsertMoves DEF LinksOnce, RunOnce, DestOnce
  <2> QED
    BY <2>5, <2>6, <2>7
<1>5. CASE ForwardLock \/ TimedWait \/ Relock \/ ForwardUnlock
  BY <1>5, <1>q, ForwardQuiet
<1>6. CASE FillNothing \/ FillEnd
  BY <1>6, <1>q, FillKeeps, UpstreamKept DEF Quiet
<1>7. CASE FillFirst \/ FillNext
  <2>1. PICK p \in pq :
            /\ pq' = pq \ {p} /\ ub = {} /\ UNCHANGED <<dest, count>>
            /\ Pending' = Pending \cup {p.blk}
            /\ RunOnce /\ p.blk \notin Pending => RunOnce'
    BY <1>7, FillMoves
  <2>2. PlacesDisjoint /\ PlacesOnce
    BY <2>1
  <2>3. Queued = Queued' \cup {p.blk} /\ p.blk \notin Queued' /\ HeapOnce'
    BY <2>1, <2>2, PoppedQueue
  <2>4. Delivered' = Delivered
    BY <2>1 DEF Delivered
  <2>5. PlacesDisjoint'
    BY <1>7, <2>1, <2>2, <2>3, <2>4, UpstreamKept, DownstreamMoves
  <2>6. p.blk \notin Pending
    BY <2>2, <2>3 DEF PlacesDisjoint
  <2>7. LinksOnce' /\ DestOnce'
    BY <1>7, <2>1, <2>2, UpstreamKept DEF LinksOnce, DestOnce
  <2> QED
    BY <2>1, <2>2, <2>3, <2>5, <2>6, <2>7
<1>8. CASE ForwardData
  <2>1. UNCHANGED <<pq, ub, fbuf>> /\ PlacesDisjoint /\ PlacesOnce
    BY <1>8, SendMoves
  <2>2. CASE UNCHANGED <<count, dest>>
    BY <1>8, <2>1, <2>2, <1>q, UpstreamKept DEF Quiet
  <2>3. ASSUME NEW b, /\ Pending = Pending' \cup {b}
                      /\ Delivered' = Delivered \cup {b}
                      /\ RunOnce => b \notin Pending' /\ RunOnce'
                      /\ DestOnce /\ b \notin Delivered => DestOnce'
        PROVE  PlacesDisjoint' /\ PlacesOnce'
    <3>1. Queued' = Queued
      BY <2>1 DEF Queued
    <3>2. PlacesDisjoint'
      BY <1>8, <2>1, <2>3, <3>1, UpstreamKept, DownstreamMoves
    <3>3. b \notin Delivered
      BY <2>1, <2>3 DEF PlacesDisjoint
    <3>4. LinksOnce' /\ HeapOnce'
      BY <1>8, <2>1, UpstreamKept DEF LinksOnce, HeapOnce
    <3> QED
      BY <2>1, <2>3, <3>2, <3>3, <3>4
  <2> QED
    BY <1>8, <2>2, <2>3, SendMoves
<1>9. CASE ForwardDone
  <2>1. PlacesDisjoint /\ PlacesOnce /\ UNCHANGED <<pq, dest>>
    BY <1>9, DoneMoves
  <2>2. Queued' = Queued /\ Delivered' = Delivered /\ Pending' = Pending
    BY <1>9, <2>1, DoneMoves DEF Queued, Delivered
  <2>3. PlacesDisjoint'
    BY <1>9, <2>1, <2>2, UpstreamKept, Zenon DEF PlacesDisjoint, Upstream
  <2>4. LinksOnce' /\ HeapOnce' /\ DestOnce' /\ RunOnce'
    BY <1>9, <2>1, DoneMoves, UpstreamKept DEF LinksOnce, HeapOnce, DestOnce
  <2> QED
    BY <2>3, <2>4
<1>10. CASE UNCHANGED vars
  BY <1>10, <1>q DEF vars, Quiet, InHand, linkVars, chainVars, fillVars, sendVars
<1> QED
  BY <1>1, <1>2, <1>3, <1>4, <1>5, <1>6, <1>7, <1>8, <1>9, <1>10
     DEF Next, RxChain, ForwardLoop

\* However the blocks are spread over the connections and the threads
\* interleave, no block is ever in two places or twice in one, until a data
\* race or an overrun makes the heap undefined.
THEOREM BlockInOnePlace == Spec => []NothingTwice
<1>1. Init => NothingTwice /\ BufferEmpty
  <2> SUFFICES ASSUME Init PROVE NothingTwice /\ BufferEmpty
    OBVIOUS
  <2>1. /\ pq = {} /\ fbuf = << >> /\ dest = << >> /\ count = 0
        /\ \A c \in Conns : InHand(c) = {}
    BY DEF Init, PoolInit, ForwardInit, InHand
  <2>2. Queued = {} /\ Pending = {} /\ Delivered = {}
    BY <2>1 DEF Queued, Pending, Delivered
  <2>3. \A c, d \in Conns : c # d => OnLink(c) \cap OnLink(d) = {}
    BY DEF Init, LinkInit, OnLink
  <2>4. LinksOnce
    <3> SUFFICES ASSUME NEW c \in Conns, NEW k \in 1 .. Len(link[c]),
                        NEW m \in 1 .. Len(link[c]),
                        link[c][k].blk = link[c][m].blk
                 PROVE  k = m
      BY DEF LinksOnce
    <3>1. link[c] \in RisingSeqs
      BY DEF Init, LinkInit
    <3>2. link[c] \in Seq(Packet)
      BY TypeInit DEF TypeOK, LinkTypeOK
    <3>3. \A x, y \in 1 .. Len(link[c]) : x < y => link[c][x].blk < link[c][y].blk
      BY <3>1, <3>2 DEF RisingSeqs
    <3>4. \A x \in 1 .. Len(link[c]) : link[c][x].blk \in Int
      <4>1. \A x \in 1 .. Len(link[c]) : link[c][x] \in Packet
        BY <3>2
      <4>2. \A p \in Packet : p.blk \in Int
        BY ConstantsAssumption DEF Packet, Blocks
      <4> QED
        BY <4>1, <4>2
    <3> QED
      BY <3>3, <3>4
  <2>5. PlacesOnce
    BY <2>1, <2>4 DEF PlacesOnce, HeapOnce, RunOnce, DestOnce
  <2>6. PlacesDisjoint
    BY <2>1, <2>2, <2>3 DEF PlacesDisjoint, Upstream
  <2> QED
    BY <2>1, <2>5, <2>6, TypeInit, TwiceParts DEF BufferEmpty, PlacesSound
<1>a. TypeOK' => (NothingTwice' <=> PlacesSound')
  BY TwiceParts, PTL
<1>2. TypeOK /\ BufferEmpty /\ NothingTwice /\ [Next]_vars => NothingTwice'
  <2> SUFFICES ASSUME TypeOK, BufferEmpty, NothingTwice, [Next]_vars
               PROVE  NothingTwice'
    OBVIOUS
  <2>1. TypeOK'
    BY TypeNext
  <2>2. PlacesSound'
    BY TwiceParts, PlacesNext DEF PlacesSound
  <2> QED
    BY <1>a, <2>1, <2>2
<1> QED
  BY <1>1, <1>2, BufferEmptyNext, TypeCorrect, PTL DEF Spec

-----------------------------------------------------------------------------
(* Nothing lost                                                            *)

\* Block b is in one of the places, or went down with its connection.
Somewhere(b) ==
    \/ \E c \in Conns : b \in Upstream(c)
    \/ b \in Queued \cup Pending \cup Delivered \cup lost

NothingNowhere == ub = {} => \A b \in Blocks : Somewhere(b)

\* The places hold blocks of the stream and nothing else.
LEMMA LostParts == TypeOK => (NothingNowhere => NothingLost)
<1> SUFFICES ASSUME TypeOK, NothingNowhere, ub = {}
             PROVE  Blocks = (UNION {OnLink(c) \cup InHand(c) : c \in Conns})
                       \cup Queued \cup Pending \cup Delivered \cup lost
  BY DEF NothingLost
<1>1. \A p \in Packet : p.blk \in Blocks
  BY DEF Packet
<1>2. \A c \in Conns : OnLink(c) \subseteq Blocks
  BY OnLinkType DEF TypeOK
<1>3. \A c \in Conns : InHand(c) \subseteq Blocks
  BY <1>1 DEF TypeOK, ChainTypeOK, InHand
<1>4. Queued \subseteq Blocks
  BY <1>1 DEF TypeOK, PoolTypeOK, Queued
<1>5. Pending \subseteq Blocks
  <2>1. \A k \in count + 1 .. Len(fbuf) : fbuf[k] \in Packet
    BY DEF TypeOK, FillTypeOK, SendTypeOK
  <2> QED
    BY <1>1, <2>1 DEF Pending
<1>6. Delivered \subseteq Blocks
  <2>1. \A k \in DOMAIN dest : dest[k] \in Packet
    BY DEF TypeOK, SendTypeOK
  <2> QED
    BY <1>1, <2>1 DEF Delivered
<1>7. lost \subseteq Blocks
  BY DEF TypeOK, LinkTypeOK
<1>8. \A b \in Blocks : \/ \E c \in Conns : b \in OnLink(c) \cup InHand(c)
                        \/ b \in Queued \cup Pending \cup Delivered \cup lost
  BY DEF NothingNowhere, Somewhere, Upstream
<1> QED
  BY <1>2, <1>3, <1>4, <1>5, <1>6, <1>7, <1>8

\* A block that is somewhere stays somewhere.
LEMMA SomewhereNext ==
  ASSUME TypeOK, BufferEmpty, [Next]_vars, ub' = {}, NEW b,
         ub = {} => Somewhere(b)
  PROVE  Somewhere(b)'
<1> USE DEF Somewhere, Upstream
<1>q. ASSUME Quiet PROVE Somewhere(b)'
  BY <1>q, QuietPlaces DEF Quiet
<1>1. ASSUME NEW c \in Conns,
             Accept(c) \/ LockPool(c) \/ UpdateUnlock(c) \/ Signal(c)
      PROVE  Somewhere(b)'
  BY <1>1, <1>q, ChainQuiet
<1>2. ASSUME NEW c \in Conns, Receive(c) PROVE Somewhere(b)'
  <2>1. Queued' = Queued /\ Pending' = Pending /\ Delivered' = Delivered
    BY <1>2, ReceiveMoves DEF Queued, Pending, Delivered
  <2> QED
    BY <1>2, <2>1, ReceiveMoves
<1>3. ASSUME NEW c \in Conns, ReceiveCut(c) \/ Complete(c) PROVE Somewhere(b)'
  <2>1. Queued' = Queued /\ Pending' = Pending /\ Delivered' = Delivered
    BY <1>3, CutMoves DEF Queued, Pending, Delivered
  <2> QED
    BY <1>3, <2>1, CutMoves
<1>4. ASSUME NEW c \in Conns, Insert(c) PROVE Somewhere(b)'
  <2>1. Pending' = Pending /\ Delivered' = Delivered
    BY <1>4, InsertMoves DEF Pending, Delivered
  <2> QED
    BY <1>4, <2>1, InsertMoves
<1>5. CASE ForwardLock \/ TimedWait \/ Relock \/ ForwardUnlock
  BY <1>5, <1>q, ForwardQuiet
<1>6. CASE FillNothing \/ FillEnd
  BY <1>6, <1>q, FillKeeps, UpstreamKept DEF Quiet
<1>7. CASE FillFirst \/ FillNext
  <2>1. PICK p \in pq : /\ pq' = pq \ {p} /\ ub = {} /\ UNCHANGED dest
                        /\ Pending' = Pending \cup {p.blk}
    BY <1>7, FillMoves
  <2>2. Queued = Queued' \cup {p.blk} /\ Delivered' = Delivered
    BY <2>1, PoppedQueue DEF Delivered
  <2> QED
    BY <1>7, <2>1, <2>2, UpstreamKept
<1>8. CASE ForwardData
  <2>1. UNCHANGED <<pq, ub, fbuf>> /\ Queued' = Queued
    BY <1>8, SendMoves DEF Queued
  <2>2. CASE UNCHANGED <<count, dest>>
    BY <1>8, <2>1, <2>2, <1>q, UpstreamKept DEF Quiet
  <2>3. ASSUME NEW a, Pending = Pending' \cup {a}, Delivered' = Delivered \cup {a}
        PROVE  Somewhere(b)'
    BY <1>8, <2>1, <2>3, UpstreamKept
  <2> QED
    BY <1>8, <2>2, <2>3, SendMoves
<1>9. CASE ForwardDone
  <2>1. Queued' = Queued /\ Delivered' = Delivered /\ Pending' = Pending /\ ub = {}
    BY <1>9, DoneMoves DEF Queued, Delivered
  <2> QED
    BY <1>9, <2>1, UpstreamKept
<1>10. CASE UNCHANGED vars
  BY <1>10, <1>q DEF vars, Quiet, InHand, linkVars, chainVars, fillVars, sendVars
<1> QED
  BY <1>1, <1>2, <1>3, <1>4, <1>5, <1>6, <1>7, <1>8, <1>9, <1>10
     DEF Next, RxChain, ForwardLoop

\* Every block the transmitter sent is on its connection, in the proxy or at
\* the destination, or its connection broke off while it was under way, until
\* a data race or an overrun makes the heap undefined.
THEOREM BlockSomewhere == Spec => []NothingLost
<1>1. Init => NothingNowhere /\ BufferEmpty
  BY DEF Init, LinkInit, ForwardInit, NothingNowhere, Somewhere, Upstream, OnLink,
         BufferEmpty
<1>2. ub' = {} /\ [Next]_vars => ub = {}
  BY DEF Next, RxChain, ForwardLoop, vars, Accept, Receive, ReceiveCut, Complete,
         LockPool, Insert, UpdateUnlock, Signal, ForwardLock, TimedWait, Relock,
         FillNothing, FillFirst, FillNext, FillEnd, ForwardUnlock, ForwardData,
         ForwardDone
<1>3. TypeOK /\ BufferEmpty /\ NothingNowhere /\ [Next]_vars => NothingNowhere'
  <2> SUFFICES ASSUME TypeOK, BufferEmpty, NothingNowhere, [Next]_vars, ub' = {},
                      NEW b \in Blocks
               PROVE  Somewhere(b)'
    BY DEF NothingNowhere
  <2> QED
    BY <1>2, SomewhereNext DEF NothingNowhere
<1> QED
  BY <1>1, <1>3, LostParts, BufferEmptyNext, TypeCorrect, PTL DEF Spec

-----------------------------------------------------------------------------
(* Nothing stuck at the head of the heap                                   *)

\* Whatever is in the heap or has left it was inserted once.
CameIn ==
    /\ pq \subseteq arrived
    /\ \A k \in 1 .. Len(fbuf) : fbuf[k] \in arrived
    /\ \A k \in 1 .. Len(dest) : dest[k] \in arrived

\* The heap makes no packets up, even a damaged one.
LEMMA CameInNext == TypeOK /\ CameIn /\ [Next]_vars => CameIn'
<1> SUFFICES ASSUME TypeOK, CameIn, [Next]_vars PROVE CameIn'
  OBVIOUS
<1>p. ASSUME NEW r \in PopResults(Forwarder)
      PROVE  r.head \in arrived /\ r.rest \subseteq arrived
  BY DEF CameIn, PopResults, Mins
<1> USE DEF linkVars, chainVars, minSeqs, fillVars, sendVars
<1>1. ASSUME NEW c \in Conns, Insert(c) PROVE CameIn'
  BY <1>1 DEF Insert, CameIn
<1>2. ASSUME NEW c \in Conns,
             Accept(c) \/ Receive(c) \/ ReceiveCut(c) \/ Complete(c)
               \/ LockPool(c) \/ UpdateUnlock(c) \/ Signal(c)
      PROVE  CameIn'
  BY <1>2 DEF Accept, Receive, ReceiveCut, Complete, LockPool, UpdateUnlock,
              Signal, CameIn
<1>3. CASE ForwardLock \/ TimedWait \/ Relock \/ ForwardUnlock \/ ForwardDone
  BY <1>3 DEF ForwardLock, TimedWait, Relock, ForwardUnlock, ForwardDone, CameIn
<1>4. CASE FillNothing \/ FillEnd
  <2>1. pq' \subseteq arrived
    BY <1>4, <1>p DEF FillNothing, FillEnd, PutBack, CameIn
  <2> QED
    BY <1>4, <2>1 DEF FillNothing, FillEnd, CameIn
<1>5. CASE FillFirst
  BY <1>5, <1>p DEF FillFirst, CameIn
<1>6. CASE FillNext
  <2>1. PICK r \in PopResults(Forwarder) :
            pq' = r.rest /\ fbuf' = Append(fbuf, r.head)
    BY <1>6 DEF FillNext
  <2>2. r.head \in Packet /\ fbuf \in Seq(Packet)
    BY PopType DEF TypeOK, FillTypeOK
  <2>3. \A k \in 1 .. Len(fbuf') : fbuf'[k] \in arrived
    BY <1>p, <2>1, <2>2 DEF CameIn
  <2> QED
    BY <1>6, <1>p, <2>1, <2>3 DEF FillNext, CameIn
<1>7. CASE ForwardData
  <2>1. \A k \in 1 .. Len(dest') : dest'[k] \in arrived
    <3>1. CASE dest' = dest
      BY <3>1 DEF CameIn
    <3>2. CASE /\ dest' = Append(dest, fbuf[count + 1])
               /\ count + 1 \in 1 .. Len(fbuf) /\ fbuf[count + 1] \in Packet
      <4>1. dest \in Seq(Packet) /\ fbuf[count + 1] \in arrived
        BY <3>2 DEF TypeOK, SendTypeOK, CameIn
      <4> QED
        BY <3>2, <4>1, AppendType DEF CameIn
    <3> QED
      BY <1>7, <3>1, <3>2, SendStep
  <2> QED
    BY <1>7, <2>1 DEF ForwardData, CameIn
<1>8. CASE UNCHANGED vars
  BY <1>8 DEF vars, CameIn
<1> QED
  BY <1>1, <1>2, <1>3, <1>4, <1>5, <1>6, <1>7, <1>8 DEF Next, RxChain, ForwardLoop

\* As long as the stream has no more blocks than the header has sequence
\* numbers and every packet came in whole, no packet that was passed by is in
\* the heap, where it would be popped and put back for ever.
THEOREM NoStalePackets ==
  ASSUME NBlocks <= SEQ_MOD
  PROVE  Spec => []NoStaleHead
<1>1. Init => CameIn
  BY DEF Init, PoolInit, ForwardInit, CameIn
<1>2. TypeOK /\ LabelInv /\ RunInv /\ SentCounters /\ CameIn /\ NothingTwice
        => NoStaleHead
  <2> SUFFICES ASSUME TypeOK, LabelInv, RunInv, SentCounters, CameIn,
                      NothingTwice, ub = {}, \A p \in arrived : p.whole,
                      NEW q \in pq
               PROVE  q.seq > sent
    BY DEF NoStaleHead
  <2>n. ASSUME NEW p \in Packet, Labelled(p), p.whole PROVE p.seq = p.blk
    <3>1. p.blk \in 0 .. SEQ_MOD - 1
      BY ConstantsAssumption DEF Packet, Blocks
    <3> QED
      BY <2>n, <3>1, SmallMod, ConstantsAssumption DEF Labelled
  <2>1. q \in Packet /\ q.seq = q.blk
    BY <2>n DEF TypeOK, PoolTypeOK, LabelInv, CameIn
  <2>2. q.seq \in Nat /\ sent \in Nat \cup {-1} /\ Len(dest) = sent + 1
    BY <2>1, ConstantsAssumption DEF Packet, TypeOK, SendTypeOK, SentCounters
  <2> SUFFICES ASSUME q.seq <= sent PROVE FALSE
    BY <2>2
  <2>3. q.seq + 1 \in 1 .. Len(dest) /\ dest \in Seq(Packet)
    BY <2>2 DEF TypeOK, SendTypeOK
  <2> DEFINE d == dest[q.seq + 1]
  <2>4. d \in Packet /\ d.seq = q.seq /\ d.seq = d.blk
    BY <2>2, <2>3, <2>n DEF RunInv, LabelInv, CameIn
  <2>5. d.blk \in Delivered /\ q.blk \in Queued
    BY <2>3 DEF Delivered, Queued
  <2>6. Queued \cap Delivered = {}
    BY DEF NothingTwice
  <2> QED
    BY <2>1, <2>4, <2>5, <2>6
<1> QED
  BY <1>1, <1>2, CameInNext, LabelInit, LabelNext, RunNext, TypeCorrect,
     CountersCorrect, BlockInOnePlace, PTL DEF Spec
=============================================================================
