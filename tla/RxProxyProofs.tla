--------------------------- MODULE RxProxyProofs ---------------------------
(* Theorems about the receiver proxy, for any number of connections and    *)
(* blocks.                                                                 *)
EXTENDS RxProxy, TLAPS

\* A packet of the transmitter proxy is a packet.
LEMMA PktType == \A b \in Blocks : Pkt(b) \in Packet
  BY ConstantsAssumption DEF Pkt, Packet, Blocks

\* What Append does to a sequence over any set.
LEMMA AppendType ==
  ASSUME NEW S, NEW s \in Seq(S), NEW e \in S
  PROVE  /\ Append(s, e) \in Seq(S) /\ Len(Append(s, e)) = Len(s) + 1
         /\ \A k \in 1 .. Len(s) : Append(s, e)[k] = s[k]
         /\ Append(s, e)[Len(s) + 1] = e
  OBVIOUS

\* The blocks under way are blocks.
LEMMA OnLinkType == LinkTypeOK => \A c \in Conns : OnLink(c) \subseteq Blocks
<1> SUFFICES ASSUME LinkTypeOK, NEW c \in Conns PROVE OnLink(c) \subseteq Blocks
  OBVIOUS
<1>1. link[c] \in Seq(Packet)
  BY DEF LinkTypeOK
<1>2. \A i \in DOMAIN link[c] : link[c][i] \in Packet
  BY <1>1
<1>3. \A p \in Packet : p.blk \in Blocks
  BY DEF Packet
<1> QED
  BY <1>2, <1>3 DEF OnLink

\* What a pop of the heap returns and leaves are packets.
LEMMA PopType ==
  ASSUME PoolTypeOK, NEW t, NEW r \in PopResults(t)
  PROVE  r.head \in Packet /\ r.rest \in SUBSET Packet
  BY DEF PoolTypeOK, PopResults, Mins

\* server_start leaves everything well typed.
LEMMA TypeInit == Init => TypeOK
<1> SUFFICES ASSUME Init PROVE TypeOK
  OBVIOUS
<1>1. RisingSeqs \subseteq Seq(Packet)
  BY PktType DEF RisingSeqs
<1>2. LinkTypeOK
  BY <1>1 DEF LinkTypeOK, Init, LinkInit
<1>3. ChainTypeOK
  BY DEF ChainTypeOK, Init, PoolInit, ChainStates
<1>4. PoolTypeOK
  BY DEF PoolTypeOK, Init, PoolInit
<1>5. FillTypeOK
  BY ConstantsAssumption DEF FillTypeOK, Init, ForwardInit, ForwardStates
<1>6. SendTypeOK
  BY ConstantsAssumption DEF SendTypeOK, Init, ForwardInit
<1> QED
  BY <1>2, <1>3, <1>4, <1>5, <1>6 DEF TypeOK

\* Every step of the proxy keeps the types.
LEMMA TypeNext == TypeOK /\ [Next]_vars => TypeOK'
<1> SUFFICES ASSUME TypeOK, [Next]_vars PROVE TypeOK'
  OBVIOUS
<1> USE ConstantsAssumption DEF TypeOK, linkVars, chainVars, minSeqs, fillVars,
        sendVars
<1>1. ASSUME NEW c \in Conns, Accept(c) PROVE TypeOK'
  <2>1. ChainTypeOK'
    BY <1>1 DEF Accept, ChainTypeOK, ChainStates
  <2>2. LinkTypeOK' /\ PoolTypeOK' /\ FillTypeOK' /\ SendTypeOK'
    BY <1>1 DEF Accept, LinkTypeOK, PoolTypeOK, FillTypeOK, SendTypeOK
  <2> QED
    BY <2>1, <2>2
<1>2. ASSUME NEW c \in Conns, Receive(c) PROVE TypeOK'
  <2>0. Head(link[c]) \in Packet /\ Tail(link[c]) \in Seq(Packet)
    BY <1>2 DEF Receive, LinkTypeOK
  <2>1. LinkTypeOK'
    BY <1>2, <2>0 DEF Receive, LinkTypeOK
  <2>2. ChainTypeOK'
    BY <1>2, <2>0 DEF Receive, ChainTypeOK, ChainStates
  <2>3. PoolTypeOK' /\ FillTypeOK' /\ SendTypeOK'
    BY <1>2 DEF Receive, PoolTypeOK, FillTypeOK, SendTypeOK
  <2> QED
    BY <2>1, <2>2, <2>3
<1>3. ASSUME NEW c \in Conns, ReceiveCut(c) PROVE TypeOK'
  <2>0. Head(link[c]) \in Packet /\ Tail(link[c]) \in Seq(Packet)
    BY <1>3 DEF ReceiveCut, LinkTypeOK
  <2>1. LinkTypeOK'
    BY <1>3, OnLinkType DEF ReceiveCut, LinkTypeOK
  <2>2. ChainTypeOK'
    BY <1>3, <2>0 DEF ReceiveCut, ChainTypeOK, ChainStates, Packet
  <2>3. PoolTypeOK' /\ FillTypeOK' /\ SendTypeOK'
    BY <1>3 DEF ReceiveCut, PoolTypeOK, FillTypeOK, SendTypeOK
  <2> QED
    BY <2>1, <2>2, <2>3
<1>4. ASSUME NEW c \in Conns, Complete(c) PROVE TypeOK'
  <2>1. LinkTypeOK'
    BY <1>4, OnLinkType DEF Complete, LinkTypeOK
  <2>2. ChainTypeOK'
    BY <1>4 DEF Complete, ChainTypeOK, ChainStates
  <2>3. PoolTypeOK' /\ FillTypeOK' /\ SendTypeOK'
    BY <1>4 DEF Complete, PoolTypeOK, FillTypeOK, SendTypeOK
  <2> QED
    BY <2>1, <2>2, <2>3
<1>5. ASSUME NEW c \in Conns, LockPool(c) PROVE TypeOK'
  <2>1. ChainTypeOK'
    BY <1>5 DEF LockPool, ChainTypeOK, ChainStates
  <2>2. PoolTypeOK'
    BY <1>5 DEF LockPool, PoolTypeOK
  <2>3. LinkTypeOK' /\ FillTypeOK' /\ SendTypeOK'
    BY <1>5 DEF LockPool, LinkTypeOK, FillTypeOK, SendTypeOK
  <2> QED
    BY <2>1, <2>2, <2>3
<1>6. ASSUME NEW c \in Conns, Insert(c) PROVE TypeOK'
  <2>1. ChainTypeOK'
    BY <1>6 DEF Insert, ChainTypeOK, ChainStates
  <2>2. PoolTypeOK'
    BY <1>6 DEF Insert, PoolTypeOK, ChainTypeOK, Race, Corrupt
  <2>3. LinkTypeOK' /\ FillTypeOK' /\ SendTypeOK'
    BY <1>6 DEF Insert, LinkTypeOK, FillTypeOK, SendTypeOK
  <2> QED
    BY <2>1, <2>2, <2>3
<1>7. ASSUME NEW c \in Conns, UpdateUnlock(c) PROVE TypeOK'
  <2>1. ChainTypeOK'
    BY <1>7 DEF UpdateUnlock, ChainTypeOK, ChainStates, AfterAdd
  <2>2. PoolTypeOK'
    BY <1>7 DEF UpdateUnlock, PoolTypeOK
  <2>3. LinkTypeOK' /\ FillTypeOK' /\ SendTypeOK'
    BY <1>7 DEF UpdateUnlock, LinkTypeOK, FillTypeOK, SendTypeOK
  <2> QED
    BY <2>1, <2>2, <2>3
<1>8. ASSUME NEW c \in Conns, Signal(c) PROVE TypeOK'
  <2>1. ChainTypeOK'
    BY <1>8 DEF Signal, ChainTypeOK, ChainStates, AfterAdd
  <2>2. LinkTypeOK' /\ PoolTypeOK' /\ FillTypeOK' /\ SendTypeOK'
    BY <1>8 DEF Signal, LinkTypeOK, PoolTypeOK, FillTypeOK, SendTypeOK
  <2> QED
    BY <2>1, <2>2
<1>9. CASE ForwardLock
  <2>1. PoolTypeOK'
    BY <1>9 DEF ForwardLock, PoolTypeOK
  <2>2. FillTypeOK'
    BY <1>9 DEF ForwardLock, FillTypeOK, ForwardStates
  <2>3. SendTypeOK'
    BY <1>9 DEF ForwardLock, SendTypeOK, FillTypeOK
  <2>4. LinkTypeOK' /\ ChainTypeOK'
    BY <1>9 DEF ForwardLock, LinkTypeOK, ChainTypeOK
  <2> QED
    BY <2>1, <2>2, <2>3, <2>4
<1>10. CASE TimedWait
  <2>1. PoolTypeOK'
    BY <1>10 DEF TimedWait, PoolTypeOK
  <2>2. FillTypeOK'
    BY <1>10 DEF TimedWait, FillTypeOK, ForwardStates
  <2>3. SendTypeOK'
    BY <1>10 DEF TimedWait, SendTypeOK, FillTypeOK
  <2>4. LinkTypeOK' /\ ChainTypeOK'
    BY <1>10 DEF TimedWait, LinkTypeOK, ChainTypeOK
  <2> QED
    BY <2>1, <2>2, <2>3, <2>4
<1>11. CASE Relock
  <2>1. PoolTypeOK'
    BY <1>11 DEF Relock, PoolTypeOK
  <2>2. FillTypeOK'
    BY <1>11 DEF Relock, FillTypeOK, ForwardStates
  <2>3. SendTypeOK'
    BY <1>11 DEF Relock, SendTypeOK, FillTypeOK
  <2>4. LinkTypeOK' /\ ChainTypeOK'
    BY <1>11 DEF Relock, LinkTypeOK, ChainTypeOK
  <2> QED
    BY <2>1, <2>2, <2>3, <2>4
<1>12. CASE FillNothing
  <2>1. PoolTypeOK'
    BY <1>12, PopType DEF FillNothing, PoolTypeOK, PutBack, Race
  <2>2. FillTypeOK'
    BY <1>12 DEF FillNothing, FillTypeOK, ForwardStates
  <2>3. SendTypeOK'
    BY <1>12 DEF FillNothing, SendTypeOK, FillTypeOK
  <2>4. LinkTypeOK' /\ ChainTypeOK'
    BY <1>12 DEF FillNothing, LinkTypeOK, ChainTypeOK
  <2> QED
    BY <2>1, <2>2, <2>3, <2>4
<1>13. CASE FillFirst
  <2>1. PoolTypeOK'
    BY <1>13, PopType DEF FillFirst, PoolTypeOK, Race
  <2>2. FillTypeOK'
    BY <1>13, PopType DEF FillFirst, FillTypeOK, ForwardStates
  <2>3. SendTypeOK'
    BY <1>13 DEF FillFirst, SendTypeOK, FillTypeOK
  <2>4. LinkTypeOK' /\ ChainTypeOK'
    BY <1>13 DEF FillFirst, LinkTypeOK, ChainTypeOK
  <2> QED
    BY <2>1, <2>2, <2>3, <2>4
<1>14. CASE FillNext
  <2>1. PoolTypeOK'
    BY <1>14, PopType DEF FillNext, PoolTypeOK, Race, Overrun
  <2>2. FillTypeOK'
    BY <1>14, PopType DEF FillNext, FillTypeOK, ForwardStates, ExtendBuffer
  <2>3. SendTypeOK'
    BY <1>14, PopType DEF FillNext, SendTypeOK, FillTypeOK
  <2>4. LinkTypeOK' /\ ChainTypeOK'
    BY <1>14 DEF FillNext, LinkTypeOK, ChainTypeOK
  <2> QED
    BY <2>1, <2>2, <2>3, <2>4
<1>15. CASE FillEnd
  <2>1. PoolTypeOK'
    BY <1>15, PopType DEF FillEnd, PoolTypeOK, PutBack, Race
  <2>2. FillTypeOK'
    BY <1>15 DEF FillEnd, FillTypeOK, ForwardStates, ExtendBuffer
  <2>3. SendTypeOK'
    BY <1>15 DEF FillEnd, SendTypeOK, FillTypeOK
  <2>4. LinkTypeOK' /\ ChainTypeOK'
    BY <1>15 DEF FillEnd, LinkTypeOK, ChainTypeOK
  <2> QED
    BY <2>1, <2>2, <2>3, <2>4
<1>16. CASE ForwardUnlock
  <2>1. PoolTypeOK'
    BY <1>16 DEF ForwardUnlock, PoolTypeOK
  <2>2. FillTypeOK'
    BY <1>16 DEF ForwardUnlock, FillTypeOK, ForwardStates
  <2>3. SendTypeOK'
    BY <1>16 DEF ForwardUnlock, SendTypeOK, FillTypeOK
  <2>4. LinkTypeOK' /\ ChainTypeOK'
    BY <1>16 DEF ForwardUnlock, LinkTypeOK, ChainTypeOK
  <2> QED
    BY <2>1, <2>2, <2>3, <2>4
<1>17. CASE ForwardData
  <2>1. SendTypeOK'
    <3>1. PICK n \in SendSizes : Advance(cur \o SentOffsets(n))
      BY <1>17 DEF ForwardData
    <3>2. n \in 1 .. BLOCKSIZE - Len(cur)
      BY DEF SendSizes, SendTypeOK
    <3>3. SentOffsets(n) \in Seq(1 .. BLOCKSIZE) /\ Len(SentOffsets(n)) = n
      BY <3>2 DEF SentOffsets, SendTypeOK
    <3> DEFINE bytes == cur \o SentOffsets(n)
    <3>4. bytes \in Seq(1 .. BLOCKSIZE)
      BY <3>3 DEF SendTypeOK
    <3>5. fbuf[count + 1] \in Packet /\ count + 1 \in 0 .. Len(fbuf)
      BY <1>17 DEF ForwardData, FillTypeOK, SendTypeOK
    <3>6. CASE Len(bytes) < BLOCKSIZE
      BY <1>17, <3>1, <3>4, <3>6 DEF Advance, ForwardData, SendTypeOK
    <3>7. CASE ~(Len(bytes) < BLOCKSIZE)
      <4>1. /\ cur' = << >> /\ count' = count + 1 /\ sent' = sent + 1
            /\ dest' = Append(dest, fbuf[count + 1])
            /\ wire' = Append(wire, bytes)
        BY <3>1, <3>7 DEF Advance
      <4>2. dest' \in Seq(Packet) /\ Len(dest') = Len(dest) + 1
        BY <3>5, <4>1 DEF SendTypeOK
      <4>3. wire' \in Seq(Seq(1 .. BLOCKSIZE)) /\ Len(wire') = Len(wire) + 1
        <5> HIDE DEF bytes
        <5> QED  BY <3>4, <4>1, AppendType DEF SendTypeOK
      <4>4. cur' \in Seq(1 .. BLOCKSIZE) /\ Len(cur') < BLOCKSIZE
        BY <4>1
      <4> QED
        BY <1>17, <3>5, <4>1, <4>2, <4>3, <4>4 DEF ForwardData, SendTypeOK
    <3> QED
      BY <3>6, <3>7
  <2>2. LinkTypeOK' /\ ChainTypeOK' /\ PoolTypeOK' /\ FillTypeOK'
    BY <1>17 DEF ForwardData, LinkTypeOK, ChainTypeOK, PoolTypeOK, FillTypeOK
  <2> QED
    BY <2>1, <2>2
<1>18. CASE ForwardDone
  <2>1. PoolTypeOK'
    BY <1>18 DEF ForwardDone, PoolTypeOK, SentMinAfterRun, FillTypeOK
  <2>2. FillTypeOK'
    BY <1>18 DEF ForwardDone, FillTypeOK, ForwardStates
  <2>3. SendTypeOK'
    BY <1>18 DEF ForwardDone, SendTypeOK, FillTypeOK
  <2>4. LinkTypeOK' /\ ChainTypeOK'
    BY <1>18 DEF ForwardDone, LinkTypeOK, ChainTypeOK
  <2> QED
    BY <2>1, <2>2, <2>3, <2>4
<1>19. CASE UNCHANGED vars
  BY <1>19 DEF vars, LinkTypeOK, ChainTypeOK, PoolTypeOK, FillTypeOK, SendTypeOK
<1> QED
  BY <1>1, <1>2, <1>3, <1>4, <1>5, <1>6, <1>7, <1>8, <1>9, <1>10, <1>11,
      <1>12, <1>13, <1>14, <1>15, <1>16, <1>17, <1>18, <1>19
     DEF Next, RxChain, ForwardLoop

\* Every state of the receiver proxy is well typed, whatever the connections
\* deliver and however its threads interleave.
THEOREM TypeCorrect == Spec => []TypeOK
  BY TypeInit, TypeNext, PTL DEF Spec

-----------------------------------------------------------------------------
(* Mutual exclusion on the pool                                            *)

\* Who is between lock and unlock owns the mutex.
Owners ==
    /\ \A c \in Conns : rpc[c] \in {"insert", "update"} => lock = c
    /\ fpc \in {"fill", "fillmore", "unlock"} => lock = Forwarder

\* Until a timed wait takes it away, the mutex does its work.
LockInv == ~stolen => Owners /\ "race" \notin ub

\* Nobody is in a critical section to begin with.
LEMMA LockInit == Init => LockInv
  BY DEF Init, PoolInit, ForwardInit, LockInv, Owners

\* A thread that owns the mutex is the only one on the heap.
LEMMA NoRace ==
  ASSUME Owners
  PROVE  /\ \A c \in Conns : rpc[c] = "insert" => Race(c) = {}
         /\ fpc \in {"fill", "fillmore"} => Race(Forwarder) = {}
  BY ConstantsAssumption DEF Owners, Race, InHeap

\* A step that leaves the mutex with its owner keeps LockInv; the steps that
\* lock or unlock do so because nobody else is between lock and unlock.
LEMMA LockNext == TypeOK /\ LockInv /\ [Next]_vars => LockInv'
<1> SUFFICES ASSUME TypeOK, LockInv, [Next]_vars, ~stolen'
             PROVE  (Owners /\ "race" \notin ub)'
  BY DEF LockInv
<1> USE ConstantsAssumption
<1>0. ~stolen
  BY DEF Next, RxChain, ForwardLoop, vars, Accept, Receive, ReceiveCut,
         Complete, LockPool, Insert, UpdateUnlock, Signal, ForwardLock,
         TimedWait, Relock, FillNothing, FillFirst, FillNext, FillEnd,
         ForwardUnlock, ForwardData, ForwardDone
<1>a. Owners /\ "race" \notin ub
  BY <1>0 DEF LockInv
<1>b. rpc \in [Conns -> ChainStates]
  BY DEF TypeOK, ChainTypeOK
<1> USE DEF Owners, linkVars, chainVars, minSeqs, fillVars, sendVars
<1>1. ASSUME NEW c \in Conns,
             Accept(c) \/ Receive(c) \/ ReceiveCut(c) \/ Complete(c) \/ Signal(c)
      PROVE  (Owners /\ "race" \notin ub)'
  BY <1>1, <1>a, <1>b DEF Accept, Receive, ReceiveCut, Complete, Signal, AfterAdd
<1>2. ASSUME NEW c \in Conns, LockPool(c) \/ UpdateUnlock(c)
      PROVE  (Owners /\ "race" \notin ub)'
  BY <1>2, <1>a, <1>b DEF LockPool, UpdateUnlock, AfterAdd
<1>3. ASSUME NEW c \in Conns, Insert(c)
      PROVE  (Owners /\ "race" \notin ub)'
  BY <1>3, <1>a, <1>b, NoRace DEF Insert
<1>4. CASE ForwardLock \/ TimedWait \/ Relock
  BY <1>4, <1>0, <1>a DEF ForwardLock, TimedWait, Relock
<1>5. CASE FillNothing \/ FillFirst \/ FillNext \/ FillEnd
  <2>1. Race(Forwarder) = {}
    BY <1>5, <1>a, NoRace DEF FillNothing, FillFirst, FillNext, FillEnd
  <2> QED
    BY <1>5, <1>a, <2>1 DEF FillNothing, FillFirst, FillNext, FillEnd, Overrun
<1>6. CASE ForwardUnlock \/ ForwardData \/ ForwardDone
  BY <1>6, <1>a DEF ForwardUnlock, ForwardData, ForwardDone
<1>7. CASE UNCHANGED vars
  BY <1>7, <1>a DEF vars
<1> QED
  BY <1>1, <1>2, <1>3, <1>4, <1>5, <1>6, <1>7 DEF Next, RxChain, ForwardLoop

\* Two threads are in the pool, or race on the heap, only after a timed wait
\* of forward_loop took the mutex from the rx_chain that held it.
THEOREM MutexUntilStolen == Spec => []ExclusiveUntilStolen
<1>1. LockInv => ExclusiveUntilStolen
  BY ConstantsAssumption
     DEF LockInv, Owners, ExclusiveUntilStolen, PoolExclusive, InPool
<1> QED
  BY <1>1, LockInit, LockNext, TypeCorrect, PTL DEF Spec

-----------------------------------------------------------------------------
(* The forwarder's buffer                                                  *)

\* What is allocated while fill_queue fills it, and what it takes for that.
AllocInv ==
    /\ byte_capacity >= INIT_QUEUE_SIZE
    /\ fpc = "fillmore" => alloc >= 10 * BLOCKSIZE

\* An extension of the buffer makes it no smaller than a fresh one.
LEMMA AllocNext ==
  ASSUME 10 * BLOCKSIZE <= 2 * INIT_QUEUE_SIZE
  PROVE  TypeOK /\ AllocInv /\ [Next]_vars => AllocInv'
<1> SUFFICES ASSUME TypeOK, AllocInv, [Next]_vars PROVE AllocInv'
  OBVIOUS
<1> USE ConstantsAssumption
<1>t. byte_capacity \in Nat /\ alloc \in Nat
  BY DEF TypeOK, FillTypeOK
<1>1. CASE FillFirst \/ FillNothing
  BY <1>1 DEF FillFirst, FillNothing, AllocInv
<1>2. CASE FillNext \/ FillEnd
  BY <1>2, <1>t DEF FillNext, FillEnd, ExtendBuffer, AllocInv
<1>3. CASE ForwardLock \/ TimedWait \/ Relock \/ ForwardUnlock \/ ForwardData
              \/ ForwardDone
  BY <1>3 DEF ForwardLock, TimedWait, Relock, ForwardUnlock, ForwardData,
              ForwardDone, fillVars, AllocInv
<1>4. ASSUME NEW c \in Conns, RxChain(c) PROVE AllocInv'
  BY <1>4 DEF RxChain, Accept, Receive, ReceiveCut, Complete, LockPool, Insert,
              UpdateUnlock, Signal, fillVars, AllocInv
<1>5. CASE UNCHANGED vars
  BY <1>5 DEF vars, fillVars, AllocInv
<1> QED
  BY <1>1, <1>2, <1>3, <1>4, <1>5 DEF Next, ForwardLoop

\* A step that writes past fq->buffer takes the run beyond what a fresh buffer
\* of 10 * BLOCKSIZE bytes has room for.
OverrunByLongRun ==
    []["overrun" \in ub' \ ub => pack_cnt' * PTR_SIZE > 10 * BLOCKSIZE]_vars

\* fill_queue stays inside its buffer in every run of consecutive packets that
\* fits into a fresh one: 1250 of them with the sizes of the code, which meet
\* the condition on the initial capacity (10 * 1000 <= 2 * 8000).
THEOREM ShortRunsFit ==
  ASSUME 10 * BLOCKSIZE <= 2 * INIT_QUEUE_SIZE
  PROVE  Spec => OverrunByLongRun
<1>1. Init => AllocInv
  BY ConstantsAssumption DEF Init, ForwardInit, AllocInv
<1>2. ASSUME TypeOK, AllocInv, [Next]_vars
      PROVE  ["overrun" \in ub' \ ub => pack_cnt' * PTR_SIZE > 10 * BLOCKSIZE]_vars
  <2> SUFFICES ASSUME "overrun" \in ub' \ ub
               PROVE  pack_cnt' * PTR_SIZE > 10 * BLOCKSIZE
    OBVIOUS
  <2>1. "overrun" \in ub' /\ "overrun" \notin ub
    OBVIOUS
  <2>2. FillNext
    BY <1>2, <2>1 DEF Next, ForwardLoop, RxChain, Accept, Receive, ReceiveCut,
        Complete, LockPool, Insert, UpdateUnlock, Signal, ForwardLock, TimedWait,
        Relock, FillNothing, FillFirst, FillEnd, ForwardUnlock, ForwardData,
        ForwardDone, Race, vars
  <2>3. /\ "overrun" \in Overrun /\ pack_cnt' = pack_cnt + 1 /\ fpc = "fillmore"
        /\ ExtendBuffer
    BY <2>1, <2>2 DEF FillNext, Race
  <2>4. ~((pack_cnt + 1) * PTR_SIZE <= alloc')
    BY <2>3 DEF Overrun
  <2>5. alloc' \in Nat /\ alloc' >= 10 * BLOCKSIZE
    BY <1>2, <2>3, ConstantsAssumption
       DEF ExtendBuffer, AllocInv, TypeOK, FillTypeOK
  <2>6. (pack_cnt + 1) * PTR_SIZE \in Int /\ 10 * BLOCKSIZE \in Int
    BY <1>2, ConstantsAssumption DEF TypeOK, FillTypeOK
  <2> QED
    BY <2>3, <2>4, <2>5, <2>6
<1> QED
  BY <1>1, <1>2, AllocNext, TypeCorrect, PTL DEF Spec, OverrunByLongRun

-----------------------------------------------------------------------------
(* What has been sent, and in which order                                  *)

\* A send() either leaves the packet unfinished or delivers it.
LEMMA SendStep ==
  ASSUME TypeOK, ForwardData
  PROVE  \/ UNCHANGED <<sent, count, dest>>
         \/ /\ dest' = Append(dest, fbuf[count + 1])
            /\ count' = count + 1 /\ sent' = sent + 1
            /\ count + 1 \in 1 .. Len(fbuf) /\ fbuf[count + 1] \in Packet
<1>1. PICK n \in SendSizes : Advance(cur \o SentOffsets(n))
  BY DEF ForwardData
<1>2. count + 1 \in 1 .. Len(fbuf) /\ fbuf[count + 1] \in Packet
  BY DEF ForwardData, TypeOK, FillTypeOK, SendTypeOK
<1> QED
  BY <1>1, <1>2 DEF Advance

\* No step of forward_loop or rx_chain takes fq->sent and sent_min_seq apart.
LEMMA CountersNext == TypeOK /\ SentCounters /\ [Next]_vars => SentCounters'
<1> SUFFICES ASSUME TypeOK, SentCounters, [Next]_vars PROVE SentCounters'
  OBVIOUS
<1> USE DEF SentCounters, linkVars, chainVars, minSeqs, fillVars, sendVars
<1>1. ASSUME NEW c \in Conns, RxChain(c) PROVE SentCounters'
  BY <1>1 DEF RxChain, Accept, Receive, ReceiveCut, Complete, LockPool, Insert,
              UpdateUnlock, Signal
<1>2. CASE ForwardLock \/ TimedWait \/ Relock \/ FillNothing \/ FillFirst
              \/ FillNext \/ FillEnd \/ ForwardUnlock
  BY <1>2 DEF ForwardLock, TimedWait, Relock, FillNothing, FillFirst, FillNext,
              FillEnd, ForwardUnlock
<1>3. CASE ForwardData
  BY <1>3, SendStep DEF ForwardData, TypeOK, SendTypeOK, PoolTypeOK
<1>4. CASE ForwardDone
  BY <1>4 DEF ForwardDone, SentMinAfterRun, TypeOK, SendTypeOK, FillTypeOK,
              PoolTypeOK
<1>5. CASE UNCHANGED vars
  BY <1>5 DEF vars
<1> QED
  BY <1>1, <1>2, <1>3, <1>4, <1>5 DEF Next, ForwardLoop

\* fq->sent and pl->sent_min_seq count the packets that reached the
\* destination; the second lags behind by the run being sent.
THEOREM CountersCorrect == Spec => []SentCounters
<1>1. Init => SentCounters
  BY DEF Init, PoolInit, ForwardInit, SentCounters
<1> QED
  BY <1>1, CountersNext, TypeCorrect, PTL DEF Spec

\* A block number below the modulus is its own residue.
LEMMA SmallMod == \A n \in Nat \ {0} : \A b \in 0 .. n - 1 : b % n = b
  OBVIOUS

\* A complete packet carries the sequence number of its block.
Labelled(p) == p.whole => p.seq = p.blk % SEQ_MOD

\* Every packet anywhere in the proxy is labelled.
LabelInv ==
    /\ \A c \in Conns : \A k \in 1 .. Len(link[c]) : Labelled(link[c][k])
    /\ \A c \in Conns : Labelled(raw[c])
    /\ \A p \in pq \cup arrived : Labelled(p)
    /\ \A k \in 1 .. Len(fbuf) : Labelled(fbuf[k])
    /\ \A k \in 1 .. Len(dest) : Labelled(dest[k])

\* fq->buffer holds the packets that follow the last one sent, and what was
\* sent has the sequence numbers from 0 on.
RunInv ==
    /\ \A k \in 1 .. Len(fbuf) : fbuf[k].seq = sent - count + k
    /\ \A k \in 1 .. Len(dest) : dest[k].seq = k - 1

\* No packet has been received, and none forwarded, to begin with.
LEMMA LabelInit == Init => LabelInv /\ RunInv
<1> SUFFICES ASSUME Init PROVE LabelInv /\ RunInv
  OBVIOUS
<1>1. \A s \in RisingSeqs : \A k \in 1 .. Len(s) : Labelled(s[k])
  BY ConstantsAssumption DEF RisingSeqs, Labelled, Pkt, Blocks
<1> QED
  BY <1>1 DEF Init, LinkInit, PoolInit, ForwardInit, LabelInv, RunInv, Labelled,
              NoPacket

\* What a pop returns and leaves is labelled if the heap is.
LEMMA PopLabelled ==
  ASSUME LabelInv, NEW t, NEW r \in PopResults(t)
  PROVE  Labelled(r.head) /\ \A p \in r.rest : Labelled(p)
  BY DEF LabelInv, PopResults, Mins

\* Every copy of a packet keeps the block it was cut from.
LEMMA LabelNext == TypeOK /\ LabelInv /\ [Next]_vars => LabelInv'
<1> SUFFICES ASSUME TypeOK, LabelInv, [Next]_vars PROVE LabelInv'
  OBVIOUS
<1> USE DEF linkVars, chainVars, minSeqs, fillVars, sendVars
<1>1. ASSUME NEW c \in Conns, Receive(c) PROVE LabelInv'
  <2>1. link[c] \in Seq(Packet) /\ link[c] # << >>
    BY <1>1 DEF Receive, TypeOK, LinkTypeOK
  <2>2. /\ Labelled(Head(link[c]))
        /\ \A k \in 1 .. Len(Tail(link[c])) : Labelled(Tail(link[c])[k])
    BY <2>1 DEF LabelInv
  <2> QED
    BY <1>1, <2>2 DEF Receive, LabelInv, TypeOK, LinkTypeOK, ChainTypeOK
<1>2. ASSUME NEW c \in Conns, ReceiveCut(c) \/ Complete(c) PROVE LabelInv'
  <2>1. \A e \in Conns : \A k \in 1 .. Len(link'[e]) : Labelled(link'[e][k])
    <3>1. link' = [link EXCEPT ![c] = << >>]
      BY <1>2 DEF ReceiveCut, Complete
    <3>2. \A e \in Conns : link'[e] = IF e = c THEN << >> ELSE link[e]
      BY <3>1 DEF TypeOK, LinkTypeOK
    <3> QED
      BY <3>2 DEF LabelInv
  <2>2. \A e \in Conns : Labelled(raw'[e])
    BY <1>2 DEF ReceiveCut, Complete, LabelInv, Labelled, TypeOK, ChainTypeOK
  <2> QED
    BY <1>2, <2>1, <2>2 DEF ReceiveCut, Complete, LabelInv
<1>3. ASSUME NEW c \in Conns, Insert(c) PROVE LabelInv'
  BY <1>3 DEF Insert, LabelInv
<1>4. ASSUME NEW c \in Conns,
             Accept(c) \/ LockPool(c) \/ UpdateUnlock(c) \/ Signal(c)
      PROVE  LabelInv'
  BY <1>4 DEF Accept, LockPool, UpdateUnlock, Signal, LabelInv
<1>5. CASE ForwardLock \/ TimedWait \/ Relock \/ ForwardUnlock
  BY <1>5 DEF ForwardLock, TimedWait, Relock, ForwardUnlock, LabelInv
<1>6. CASE FillNothing
  BY <1>6, PopLabelled DEF FillNothing, PutBack, LabelInv
<1>7. CASE FillFirst
  BY <1>7, PopLabelled DEF FillFirst, LabelInv
<1>8. CASE FillNext
  <2>1. PICK r \in PopResults(Forwarder) :
            pq' = r.rest /\ fbuf' = Append(fbuf, r.head)
    BY <1>8 DEF FillNext
  <2>2. r.head \in Packet /\ fbuf \in Seq(Packet)
    BY PopType DEF TypeOK, FillTypeOK
  <2>3. \A k \in 1 .. Len(fbuf') : Labelled(fbuf'[k])
    BY <2>1, <2>2, PopLabelled DEF LabelInv
  <2> QED
    BY <1>8, <2>1, <2>3, PopLabelled DEF FillNext, LabelInv
<1>9. CASE FillEnd
  BY <1>9, PopLabelled DEF FillEnd, PutBack, LabelInv
<1>10. CASE ForwardData
  <2>1. \A k \in 1 .. Len(dest') : Labelled(dest'[k])
    <3>1. CASE dest' = dest
      BY <3>1 DEF LabelInv
    <3>2. CASE /\ dest' = Append(dest, fbuf[count + 1])
               /\ count + 1 \in 1 .. Len(fbuf) /\ fbuf[count + 1] \in Packet
      <4>1. Labelled(fbuf[count + 1]) /\ dest \in Seq(Packet)
        BY <3>2 DEF LabelInv, TypeOK, SendTypeOK
      <4> QED
        BY <3>2, <4>1, AppendType DEF LabelInv
    <3> QED
      BY <1>10, <3>1, <3>2, SendStep
  <2> QED
    BY <1>10, <2>1 DEF ForwardData, LabelInv
<1>11. CASE ForwardDone
  BY <1>11 DEF ForwardDone, LabelInv
<1>12. CASE UNCHANGED vars
  BY <1>12 DEF vars, LabelInv
<1> QED
  BY <1>1, <1>2, <1>3, <1>4, <1>5, <1>6, <1>7, <1>8, <1>9, <1>10, <1>11, <1>12
     DEF Next, RxChain, ForwardLoop

\* fill_queue collects the blocks that follow what was sent, one by one.
LEMMA RunNext ==
  TypeOK /\ SentCounters /\ RunInv /\ [Next]_vars => RunInv'
<1> SUFFICES ASSUME TypeOK, SentCounters, RunInv, [Next]_vars PROVE RunInv'
  OBVIOUS
<1> USE DEF linkVars, chainVars, minSeqs, fillVars, sendVars
<1>1. ASSUME NEW c \in Conns, RxChain(c) PROVE RunInv'
  BY <1>1 DEF RxChain, Accept, Receive, ReceiveCut, Complete, LockPool, Insert,
              UpdateUnlock, Signal, RunInv
<1>2. CASE ForwardLock \/ TimedWait \/ Relock \/ ForwardUnlock \/ FillEnd
  BY <1>2 DEF ForwardLock, TimedWait, Relock, ForwardUnlock, FillEnd, RunInv
<1>3. CASE FillNothing \/ ForwardDone
  BY <1>3 DEF FillNothing, ForwardDone, RunInv
<1>4. CASE FillFirst
  BY <1>4 DEF FillFirst, IsNext, RunInv, TypeOK, SendTypeOK
<1>5. CASE FillNext
  <2>1. PICK r \in PopResults(Forwarder) :
            r.head.seq = sent + pack_cnt + 1 /\ fbuf' = Append(fbuf, r.head)
    BY <1>5 DEF FillNext, IsNext
  <2>2. r.head \in Packet /\ fbuf \in Seq(Packet)
    BY PopType DEF TypeOK, FillTypeOK
  <2>3. count = 0 /\ pack_cnt = Len(fbuf) /\ sent \in Int
    BY <1>5 DEF FillNext, TypeOK, FillTypeOK, SendTypeOK
  <2>4. \A k \in 1 .. Len(fbuf') : fbuf'[k].seq = sent - count + k
    BY <2>1, <2>2, <2>3 DEF RunInv
  <2> QED
    BY <1>5, <2>4 DEF FillNext, RunInv
<1>6. CASE ForwardData
  <2>1. dest \in Seq(Packet) /\ sent \in Int /\ count \in Int
    BY DEF TypeOK, SendTypeOK
  <2>2. count + 1 \in 1 .. Len(fbuf) => fbuf[count + 1].seq = Len(dest)
    BY <2>1 DEF RunInv, SentCounters
  <2>3. \A k \in 1 .. Len(dest') : dest'[k].seq = k - 1
    <3>1. CASE dest' = dest
      BY <3>1 DEF RunInv
    <3>2. CASE /\ dest' = Append(dest, fbuf[count + 1])
               /\ count + 1 \in 1 .. Len(fbuf) /\ fbuf[count + 1] \in Packet
      BY <2>1, <2>2, <3>2, AppendType DEF RunInv
    <3> QED
      BY <1>6, <3>1, <3>2, SendStep
  <2>4. \A k \in 1 .. Len(fbuf) : fbuf[k].seq = sent' - count' + k
    BY <1>6, <2>1, SendStep DEF RunInv
  <2> QED
    BY <1>6, <2>3, <2>4 DEF ForwardData, RunInv
<1>7. CASE UNCHANGED vars
  BY <1>7 DEF vars, RunInv
<1> QED
  BY <1>1, <1>2, <1>3, <1>4, <1>5, <1>6, <1>7 DEF Next, ForwardLoop

\* As long as the stream has no more blocks than the header has sequence
\* numbers, the destination gets block k - 1 in place k, however the blocks
\* were spread over the connections and whenever each of them arrived.
THEOREM InPlace ==
  ASSUME NBlocks <= SEQ_MOD
  PROVE  Spec => []BlocksInPlace
<1>1. TypeOK /\ LabelInv /\ RunInv => BlocksInPlace
  <2> SUFFICES ASSUME TypeOK, LabelInv, RunInv,
                      NEW k \in DOMAIN dest, dest[k].whole
               PROVE  dest[k].blk = k - 1
    BY DEF BlocksInPlace
  <2>1. dest[k] \in Packet /\ k \in 1 .. Len(dest)
    BY DEF TypeOK, SendTypeOK
  <2>2. dest[k].seq = k - 1 /\ dest[k].seq = dest[k].blk % SEQ_MOD
    BY <2>1 DEF LabelInv, RunInv, Labelled
  <2>3. dest[k].blk \in 0 .. SEQ_MOD - 1
    BY <2>1, ConstantsAssumption DEF Packet, Blocks
  <2> QED
    BY <2>2, <2>3, SmallMod, ConstantsAssumption
<1> QED
  BY <1>1, LabelInit, LabelNext, RunNext, TypeCorrect, CountersCorrect, PTL
     DEF Spec

-----------------------------------------------------------------------------
(* Where packets come from                                                 *)

\* What is in the heap, in fq->buffer or sent was inserted by an add2queue.
Inserted ==
    /\ pq \subseteq arrived
    /\ \A k \in 1 .. Len(fbuf) : fbuf[k] \in arrived
    /\ \A k \in 1 .. Len(dest) : dest[k] \in arrived

\* Even a corrupted heap returns and keeps nodes that were inserted.
LEMMA PopInserted ==
  ASSUME Inserted, NEW t, NEW r \in PopResults(t)
  PROVE  r.head \in arrived /\ r.rest \subseteq arrived
  BY DEF Inserted, PopResults, Mins

\* fill_queue and forward_data make up no packet.
LEMMA InsertedNext == TypeOK /\ Inserted /\ [Next]_vars => Inserted'
<1> SUFFICES ASSUME TypeOK, Inserted, [Next]_vars PROVE Inserted'
  OBVIOUS
<1> USE DEF linkVars, chainVars, minSeqs, fillVars, sendVars
<1>1. ASSUME NEW c \in Conns, Insert(c) PROVE Inserted'
  BY <1>1 DEF Insert, Inserted
<1>2. ASSUME NEW c \in Conns,
             \/ Accept(c) \/ Receive(c) \/ ReceiveCut(c) \/ Complete(c)
             \/ LockPool(c) \/ UpdateUnlock(c) \/ Signal(c)
      PROVE  Inserted'
  BY <1>2 DEF Accept, Receive, ReceiveCut, Complete, LockPool, UpdateUnlock,
              Signal, Inserted
<1>3. CASE ForwardLock \/ TimedWait \/ Relock \/ ForwardUnlock \/ ForwardDone
  BY <1>3 DEF ForwardLock, TimedWait, Relock, ForwardUnlock, ForwardDone, Inserted
<1>4. CASE FillNothing \/ FillEnd
  BY <1>4, PopInserted DEF FillNothing, FillEnd, PutBack, Inserted
<1>5. CASE FillFirst
  BY <1>5, PopInserted DEF FillFirst, Inserted
<1>6. CASE FillNext
  <2>1. PICK r \in PopResults(Forwarder) :
            pq' = r.rest /\ fbuf' = Append(fbuf, r.head)
    BY <1>6 DEF FillNext
  <2>2. r.head \in Packet /\ fbuf \in Seq(Packet)
    BY PopType DEF TypeOK, FillTypeOK
  <2>3. \A k \in 1 .. Len(fbuf') : fbuf'[k] \in arrived
    BY <2>1, <2>2, PopInserted DEF Inserted
  <2> QED
    BY <1>6, <2>1, <2>3, PopInserted DEF FillNext, Inserted
<1>7. CASE ForwardData
  <2>1. dest \in Seq(Packet)
    BY DEF TypeOK, SendTypeOK
  <2>2. \A k \in 1 .. Len(dest') : dest'[k] \in arrived
    <3>1. CASE dest' = dest
      BY <3>1 DEF Inserted
    <3>2. CASE /\ dest' = Append(dest, fbuf[count + 1])
               /\ count + 1 \in 1 .. Len(fbuf) /\ fbuf[count + 1] \in Packet
      BY <2>1, <3>2, AppendType DEF Inserted
    <3> QED
      BY <1>7, <3>1, <3>2, SendStep
  <2> QED
    BY <1>7, <2>2 DEF ForwardData, Inserted
<1>8. CASE UNCHANGED vars
  BY <1>8 DEF vars, Inserted
<1> QED
  BY <1>1, <1>2, <1>3, <1>4, <1>5, <1>6, <1>7, <1>8 DEF Next, RxChain, ForwardLoop

\* The packet is on a connection, in the hands of an rx_chain or inserted.
Held(p) ==
    \/ \E c \in Conns : \E k \in 1 .. Len(link[c]) : p = link[c][k]
    \/ \E c \in Conns : p = raw[c]
    \/ p \in arrived

\* A packet that an rx_chain has or inserts came over a connection, unless it
\* is what is left of one.
LEMMA HeldNext ==
  TypeOK /\ [Next]_vars => \A p : Held(p)' => Held(p) \/ ~p.whole
<1> SUFFICES ASSUME TypeOK, [Next]_vars, NEW p, Held(p)'
             PROVE  Held(p) \/ ~p.whole
  OBVIOUS
<1>t. link \in [Conns -> Seq(Packet)] /\ raw \in [Conns -> Packet \cup {NoPacket}]
  BY DEF TypeOK, LinkTypeOK, ChainTypeOK
<1> USE DEF linkVars, chainVars, minSeqs, fillVars, sendVars
<1>1. ASSUME NEW c \in Conns, Receive(c) PROVE Held(p)
  <2>1. link[c] \in Seq(Packet) /\ link[c] # << >>
    BY <1>1, <1>t DEF Receive
  <2>2. /\ Head(link[c]) = link[c][1] /\ 1 \in 1 .. Len(link[c])
        /\ \A k \in 1 .. Len(Tail(link[c])) :
              k + 1 \in 1 .. Len(link[c]) /\ Tail(link[c])[k] = link[c][k + 1]
    BY <2>1
  <2>3. /\ \A e \in Conns : link'[e] = IF e = c THEN Tail(link[c]) ELSE link[e]
        /\ \A e \in Conns : raw'[e] = IF e = c THEN Head(link[c]) ELSE raw[e]
        /\ arrived' = arrived
    BY <1>1, <1>t DEF Receive
  <2>4. ASSUME NEW e \in Conns, NEW k \in 1 .. Len(link'[e]), p = link'[e][k]
        PROVE  Held(p)
    <3>1. CASE e = c
      <4>1. k \in 1 .. Len(Tail(link[c])) /\ p = Tail(link[c])[k]
        BY <2>3, <2>4, <3>1
      <4>2. k + 1 \in 1 .. Len(link[c]) /\ p = link[c][k + 1]
        BY <2>2, <4>1
      <4> QED
        BY <4>2 DEF Held
    <3>2. CASE e # c
      BY <2>3, <2>4, <3>2 DEF Held
    <3> QED
      BY <3>1, <3>2
  <2>5. ASSUME NEW e \in Conns, p = raw'[e] PROVE Held(p)
    BY <2>2, <2>3, <2>5 DEF Held
  <2> QED
    BY <2>3, <2>4, <2>5 DEF Held
<1>2. ASSUME NEW c \in Conns, ReceiveCut(c) \/ Complete(c)
      PROVE  Held(p) \/ ~p.whole
  <2>1. /\ \A e \in Conns : link'[e] = IF e = c THEN << >> ELSE link[e]
        /\ \A e \in Conns : raw'[e] = raw[e] \/ ~raw'[e].whole
        /\ arrived' = arrived
    BY <1>2, <1>t DEF ReceiveCut, Complete
  <2>2. ASSUME NEW e \in Conns, NEW k \in 1 .. Len(link'[e]), p = link'[e][k]
        PROVE  Held(p)
    BY <2>1, <2>2 DEF Held
  <2> QED
    BY <2>1, <2>2 DEF Held
<1>3. ASSUME NEW c \in Conns, Insert(c) PROVE Held(p)
  BY <1>3 DEF Insert, Held
<1>4. ASSUME NEW c \in Conns,
             Accept(c) \/ LockPool(c) \/ UpdateUnlock(c) \/ Signal(c)
      PROVE  Held(p)
  BY <1>4 DEF Accept, LockPool, UpdateUnlock, Signal, Held
<1>5. CASE ForwardLoop \/ UNCHANGED vars
  <2>1. UNCHANGED <<link, raw, arrived>>
    BY <1>5 DEF ForwardLoop, vars, ForwardLock, TimedWait, Relock, FillNothing,
                FillFirst, FillNext, FillEnd, ForwardUnlock, ForwardData,
                ForwardDone
  <2> QED
    BY <2>1 DEF Held
<1> QED
  BY <1>1, <1>2, <1>3, <1>4, <1>5 DEF Next, RxChain

\* With sends that take everything, forward_data sends each packet at once,
\* its bytes in order.
WholeSends ==
    /\ cur = << >>
    /\ \A k \in 1 .. Len(wire) : wire[k] = [n \in 1 .. BLOCKSIZE |-> n]

\* A send() that takes everything keeps it so.
LEMMA WholeSendsNext ==
  ASSUME ShortSends = FALSE
  PROVE  TypeOK /\ WholeSends /\ [Next]_vars => WholeSends'
<1> SUFFICES ASSUME TypeOK, WholeSends, [Next]_vars PROVE WholeSends'
  OBVIOUS
<1>1. CASE ForwardData
  <2>1. Advance(cur \o SentOffsets(BLOCKSIZE))
    <3>1. Len(cur) = 0
      BY DEF WholeSends
    <3> QED
      BY <1>1, <3>1, ConstantsAssumption DEF ForwardData, SendSizes
  <2> DEFINE bytes == SentOffsets(BLOCKSIZE)
  <2>2. /\ bytes = [n \in 1 .. BLOCKSIZE |-> n] /\ bytes \in Seq(1 .. BLOCKSIZE)
        /\ Len(bytes) = BLOCKSIZE
    BY ConstantsAssumption DEF SentOffsets
  <2>3. cur \o bytes = bytes
    BY <2>2 DEF WholeSends
  <2> HIDE DEF bytes
  <2>4. cur' = << >> /\ wire' = Append(wire, bytes)
    BY <2>1, <2>2, <2>3, ConstantsAssumption DEF Advance, bytes
  <2>5. wire \in Seq(Seq(1 .. BLOCKSIZE))
    BY DEF TypeOK, SendTypeOK
  <2>6. \A k \in 1 .. Len(wire') : wire'[k] = [n \in 1 .. BLOCKSIZE |-> n]
    <3>1. /\ Len(wire') = Len(wire) + 1 /\ wire'[Len(wire) + 1] = bytes
          /\ \A k \in 1 .. Len(wire) : wire'[k] = wire[k]
      BY <2>2, <2>4, <2>5, AppendType
    <3>2. \A k \in 1 .. Len(wire) + 1 : k \in 1 .. Len(wire) \/ k = Len(wire) + 1
      BY <2>5
    <3> QED
      BY <2>2, <3>1, <3>2 DEF WholeSends
  <2> QED
    BY <2>4, <2>6 DEF WholeSends
<1>2. CASE ~ForwardData
  <2>1. UNCHANGED <<cur, wire>>
    BY <1>2 DEF Next, RxChain, ForwardLoop, vars, Accept, Receive, ReceiveCut,
         Complete, LockPool, Insert, UpdateUnlock, Signal, ForwardLock,
         TimedWait, Relock, FillNothing, FillFirst, FillNext, FillEnd,
         ForwardUnlock, ForwardDone, sendVars
  <2> QED
    BY <2>1 DEF WholeSends
<1> QED
  BY <1>1, <1>2

\* Packets go to the destination one by one.
LEMMA DestNext ==
  TypeOK /\ [Next]_vars => UNCHANGED dest \/ Len(dest') = Len(dest) + 1
<1> SUFFICES ASSUME TypeOK, [Next]_vars
             PROVE  UNCHANGED dest \/ Len(dest') = Len(dest) + 1
  OBVIOUS
<1>1. CASE ForwardData
  <2>1. dest \in Seq(Packet)
    BY DEF TypeOK, SendTypeOK
  <2> QED
    BY <1>1, <2>1, SendStep, AppendType
<1>2. CASE ~ForwardData
  BY <1>2 DEF Next, RxChain, ForwardLoop, vars, Accept, Receive, ReceiveCut,
         Complete, LockPool, Insert, UpdateUnlock, Signal, ForwardLock,
         TimedWait, Relock, FillNothing, FillFirst, FillNext, FillEnd,
         ForwardUnlock, ForwardDone, sendVars
<1> QED
  BY <1>1, <1>2
=============================================================================
