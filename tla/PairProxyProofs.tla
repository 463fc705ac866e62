-------------------------- MODULE PairProxyProofs --------------------------
(* The pair of proxies is a pipe, for any number of connections, any sizes *)
(* of blocks and buffers and any stream that does not use up the sequence  *)
(* numbers, with every fault of PairProxy.                                 *)
EXTENDS PairProxy, TLAPS

\* What is proved of each proxy by itself.
TxP == INSTANCE TxProxyProofs WITH link <- txLink, lock <- txLock,
        Faults <- {"link", "connect"}, AssertAcceptFails <- FALSE
RxP == INSTANCE RxProxyProofs WITH
        ShortSends <- FALSE, CutConns <- {}, lost <- {}

\* The constants are as the proofs of each proxy need them.
LEMMA Constants ==
  /\ TxP!TxConstants /\ RxP!ConstantsAssumption
  /\ CONN_NUMBER \in Nat \ {0} /\ BLOCKSIZE \in Nat \ {0} /\ SEQ_MOD \in Nat \ {0}
  /\ StreamLen \in Nat /\ NBlocks \in Nat
  BY PairConstants DEF TxP!TxConstants, RxP!ConstantsAssumption, Tx!TxConstants,
                       Rx!ConstantsAssumption, TxP!FaultKinds, Tx!FaultKinds

-----------------------------------------------------------------------------
(* The steps of each proxy                                                 *)

\* The queuer's, getter's and controller's steps are steps of TxProxy.
LEMMA TxThreadStep ==
  ASSUME Queuer \/ GetPayload \/ Controller
  PROVE  TxP!Next
<1> USE DEF TxDoes, Tx!synVars, Tx!getVars, Tx!buffVars, Tx!cntrlVars,
            Tx!chainVars, TxP!synVars, TxP!getVars, TxP!buffVars, TxP!cntrlVars,
            TxP!chainVars, Tx!Conns, TxP!Conns
<1>1. CASE Queuer
  BY <1>1 DEF Queuer, Tx!QueuerLoop, Tx!QueuerSetup, Tx!SynQueued, Tx!GetSyn,
              Tx!Verdict, TxP!QueuerLoop, TxP!QueuerSetup, TxP!SynQueued,
              TxP!GetSyn, TxP!Verdict, TxP!Next
<1>2. CASE GetPayload
  <2>1. CASE Tx!GetterSetup \/ Tx!Accept \/ Tx!PollIn
    BY <2>1 DEF Tx!GetterSetup, Tx!Accept, Tx!PollIn, Tx!Garbage, TxP!Garbage,
                TxP!GetterSetup, TxP!Accept, TxP!PollIn, TxP!GetPayload, TxP!Next
  <2>2. CASE Tx!RecvSome \/ Tx!RecvEnd
    BY <2>2 DEF Tx!RecvSome, Tx!RecvEnd, Tx!RecvSizes, TxP!RecvSizes,
                TxP!RecvSome, TxP!RecvEnd, TxP!GetPayload, TxP!Next
  <2>3. CASE Tx!AddLock \/ Tx!AddExtend
    BY <2>3 DEF Tx!AddLock, Tx!AddExtend, Tx!Padded, Tx!RemainsTooLittle,
                Tx!Garbage, TxP!AddLock, TxP!AddExtend, TxP!Padded,
                TxP!RemainsTooLittle, TxP!Garbage, TxP!GetPayload, TxP!Next
  <2>4. CASE Tx!AddSetInd \/ Tx!AddStore \/ Tx!SetFin
    BY <2>4 DEF Tx!AddSetInd, Tx!AddStore, Tx!SetFin, TxP!AddSetInd,
                TxP!AddStore, TxP!SetFin, TxP!GetPayload, TxP!Next
  <2> QED
    BY <1>2, <2>1, <2>2, <2>3, <2>4 DEF GetPayload, Tx!GetPayload
<1>3. CASE Controller
  <2>1. CASE Connect
    BY <2>1 DEF Connect, Tx!SetLink, TxP!SetLink, TxP!RunController, TxP!Next
  <2>2. CASE ConnectFails
    BY <2>2 DEF ConnectFails, Tx!SetLinkFails, Tx!Exit, TxP!SetLinkFails,
                TxP!Exit, TxP!Fault, TxP!Next
  <2>3. CASE TxDoes(Tx!CreateChain) \/ TxDoes(Tx!Join)
    BY <2>3 DEF Tx!CreateChain, Tx!Join, TxP!CreateChain, TxP!Join,
                TxP!RunController, TxP!Next
  <2> QED
    BY <1>3, <2>1, <2>2, <2>3 DEF Controller
<1> QED
  BY <1>1, <1>2, <1>3

\* So are those of a tx_chain.
LEMMA TxChainStep ==
  ASSUME NEW c \in Conns, TxChain(c)
  PROVE  TxP!Next
<1> USE DEF TxDoes, Tx!synVars, Tx!getVars, Tx!buffVars, Tx!cntrlVars,
            Tx!chainVars, TxP!synVars, TxP!getVars, TxP!buffVars, TxP!cntrlVars,
            TxP!chainVars, Conns, Tx!Conns, TxP!Conns
<1>1. CASE Send(c)
  BY <1>1 DEF Send, Tx!TxSend, TxP!TxSend, TxP!TxChain, TxP!Next
<1>2. CASE SendFails(c)
  BY <1>2 DEF SendFails, Tx!TxSendFails, Tx!Exit, TxP!TxSendFails, TxP!Exit,
              TxP!Fault, TxP!Next
<1>3. CASE Tx!TxLock(c) \/ Tx!TxCopy(c) \/ Tx!TxAdvance(c)
  BY <1>3 DEF Tx!TxLock, Tx!TxCopy, Tx!TxAdvance, Tx!HasBlock, TxP!TxLock,
              TxP!TxCopy, TxP!TxAdvance, TxP!HasBlock, TxP!TxChain, TxP!Next
<1>4. CASE Tx!TxEmpty(c) \/ Tx!TxClose(c)
  BY <1>4 DEF Tx!TxEmpty, Tx!TxClose, Tx!HasBlock, Tx!AfterEmpty, TxP!TxEmpty,
              TxP!TxClose, TxP!HasBlock, TxP!AfterEmpty, TxP!TxChain, TxP!Next
<1> QED
  BY <1>1, <1>2, <1>3, <1>4 DEF TxChain

\* The steps of the receiver proxy are steps of RxProxy.
LEMMA RxStep ==
  ASSUME Forward \/ \E c \in Conns : RxChain(c)
  PROVE  RxP!Next /\ UNCHANGED <<txVars, path, rxUp>> /\ ~Void
<1> USE DEF RxDoes, Rx!linkVars, Rx!chainVars, Rx!minSeqs, Rx!fillVars,
            Rx!sendVars, RxP!linkVars, RxP!chainVars, RxP!minSeqs, RxP!fillVars,
            RxP!sendVars
<1>1. UNCHANGED <<txVars, path, rxUp>> /\ ~Void
  BY DEF Forward, RxChain
<1>2. ASSUME NEW c \in Conns, Rx!RxChain(c) PROVE RxP!RxChain(c)
  <2> USE DEF Rx!RxChain, RxP!RxChain
  <2>1. CASE Rx!Accept(c) \/ Rx!Receive(c) \/ Rx!ReceiveCut(c) \/ Rx!Complete(c)
    BY <2>1 DEF Rx!Accept, Rx!Receive, Rx!ReceiveCut, Rx!Complete, Rx!OnLink,
                RxP!Accept, RxP!Receive, RxP!ReceiveCut, RxP!Complete, RxP!OnLink
  <2>2. CASE Rx!LockPool(c) \/ Rx!Insert(c)
    BY <2>2 DEF Rx!LockPool, Rx!Insert, Rx!Race, Rx!Corrupt, Rx!InHeap,
                RxP!LockPool, RxP!Insert, RxP!Race, RxP!Corrupt, RxP!InHeap
  <2>3. CASE Rx!UpdateUnlock(c) \/ Rx!Signal(c)
    BY <2>3 DEF Rx!UpdateUnlock, Rx!Signal, Rx!WantsSignal, Rx!AfterAdd,
                RxP!UpdateUnlock, RxP!Signal, RxP!WantsSignal, RxP!AfterAdd
  <2> QED
    BY <1>2, <2>1, <2>2, <2>3
<1>3. ASSUME Rx!ForwardLoop PROVE RxP!ForwardLoop
  <2> USE DEF Rx!ForwardLoop, RxP!ForwardLoop
  <2>1. CASE Rx!ForwardLock \/ Rx!TimedWait \/ Rx!Relock \/ Rx!ForwardUnlock
    BY <2>1 DEF Rx!ForwardLock, Rx!TimedWait, Rx!Relock, Rx!ForwardUnlock,
                RxP!ForwardLock, RxP!TimedWait, RxP!Relock, RxP!ForwardUnlock
  <2>2. /\ Rx!PopResults(Forwarder) = RxP!PopResults(Forwarder)
        /\ Rx!PopsNull(Forwarder) <=> RxP!PopsNull(Forwarder)
        /\ Rx!Race(Forwarder) = RxP!Race(Forwarder)
    BY DEF Rx!PopResults, Rx!PopsNull, Rx!Race, Rx!Corrupt, Rx!InHeap, Rx!Mins,
           RxP!PopResults, RxP!PopsNull, RxP!Race, RxP!Corrupt, RxP!InHeap,
           RxP!Mins
  <2>3. CASE Rx!FillNothing
    BY <2>2, <2>3 DEF Rx!FillNothing, Rx!IsNext, Rx!PutBack, RxP!FillNothing,
                RxP!IsNext, RxP!PutBack
  <2>4. CASE Rx!FillFirst
    BY <2>2, <2>4 DEF Rx!FillFirst, Rx!IsNext, RxP!FillFirst, RxP!IsNext
  <2>5. CASE Rx!FillNext
    BY <2>2, <2>5 DEF Rx!FillNext, Rx!IsNext, Rx!ExtendBuffer, Rx!BufferFull,
                Rx!Overrun, RxP!FillNext, RxP!IsNext, RxP!ExtendBuffer,
                RxP!BufferFull, RxP!Overrun
  <2>6. CASE Rx!FillEnd
    BY <2>2, <2>6 DEF Rx!FillEnd, Rx!IsNext, Rx!PutBack, Rx!ExtendBuffer,
                Rx!BufferFull, RxP!FillEnd, RxP!IsNext, RxP!PutBack,
                RxP!ExtendBuffer, RxP!BufferFull
  <2>7. CASE Rx!ForwardData \/ Rx!ForwardDone
    BY <2>7 DEF Rx!ForwardData, Rx!ForwardDone, Rx!SendSizes, Rx!SentOffsets,
                Rx!Advance, Rx!SentMinAfterRun, RxP!ForwardData,
                RxP!ForwardDone, RxP!SendSizes, RxP!SentOffsets, RxP!Advance,
                RxP!SentMinAfterRun
  <2> QED
    BY <1>3, <2>1, <2>3, <2>4, <2>5, <2>6, <2>7
<1> QED
  BY <1>1, <1>2, <1>3 DEF Forward, RxChain, RxP!Next

-----------------------------------------------------------------------------
(* The inductive invariant                                                 *)

\* The transmitter proxy is as TxProxyProofs shows it.
TxInv ==
    /\ TxP!TypeOK /\ TxP!Owners /\ TxP!Slots /\ TxP!Started
    /\ TxP!StreamInv /\ TxP!BufferInv /\ TxP!PacketInv

\* The receiver proxy is as RxProxyProofs shows it.
RxInv ==
    /\ RxP!TypeOK /\ RxP!SentCounters /\ RxP!RunInv
    /\ RxP!Inserted /\ RxP!WholeSends

\* A tx_chain has sent block b.
WasSent(b) ==
    \E d \in Conns : \E k \in 1 .. Len(txLink[d]) : Tx!BlkNum(txLink[d][k]) = b

\* A complete packet carries the number of its block, and a tx_chain sent it.
Genuine(p) == p.whole => p.seq = p.blk % SEQ_MOD /\ WasSent(p.blk)

\* The receiver proxy has, and is sent, no other packets.
OriginInv == \A p : RxP!Held(p) => Genuine(p)

PairInv == TxInv /\ RxInv /\ OriginInv

\* A block of the stream is one of NBlocks.
LEMMA BlockInStream ==
  ASSUME NEW b \in Nat, b * BLOCKSIZE < StreamLen
  PROVE  b \in 0 .. NBlocks - 1
<1> DEFINE m == StreamLen + BLOCKSIZE - 1
<1>1. BLOCKSIZE \in Nat \ {0} /\ StreamLen \in Nat /\ NBlocks \in Nat
  BY Constants
<1>2. m \in Nat /\ NBlocks = m \div BLOCKSIZE
  BY <1>1 DEF NBlocks
<1>3. m < (m \div BLOCKSIZE + 1) * BLOCKSIZE
  <2> HIDE DEF m
  <2> QED BY <1>1, <1>2
<1>4. m < (NBlocks + 1) * BLOCKSIZE
  BY <1>2, <1>3
<1>5. StreamLen <= NBlocks * BLOCKSIZE
  BY <1>1, <1>4
<1>6. ASSUME b >= NBlocks PROVE FALSE
  <2>1. b * BLOCKSIZE >= NBlocks * BLOCKSIZE
    BY <1>1, <1>6
  <2> QED
    BY <1>1, <1>5, <2>1
<1> QED
  BY <1>1, <1>6

\* A step of the transmitter proxy keeps its invariant.
LEMMA TxInvStep == TxInv /\ TxP!Next => TxInv'
<1> SUFFICES ASSUME TxInv, TxP!Next PROVE TxInv'
  OBVIOUS
<1>1. [TxP!Next]_(TxP!vars)
  OBVIOUS
<1>2. TxP!TypeOK' /\ TxP!Owners' /\ TxP!Slots' /\ TxP!Started'
  BY <1>1, Constants, TxP!TypeNext, TxP!OwnersNext, TxP!SlotsNext,
     TxP!StartedNext DEF TxInv
<1>3. TxP!StreamInv' /\ TxP!BufferInv' /\ TxP!PacketInv'
  BY <1>1, Constants, TxP!StreamNext, TxP!BufferNext, TxP!PacketNext DEF TxInv
<1> QED
  BY <1>2, <1>3 DEF TxInv

\* What others do to the connections does not concern it.
LEMMA TxInvIdle ==
  ASSUME TxInv, UNCHANGED txVars, conn' \in [Conns -> {"none", "open", "fin"}]
  PROVE  TxInv'
<1> USE DEF txVars
<1>1. TxP!TypeOK'
  BY DEF TxInv, TxP!TypeOK, TxP!SynTypeOK, TxP!GetTypeOK, TxP!BuffTypeOK,
         TxP!ChainTypeOK, TxP!Conns, Conns
<1>2. TxP!Owners' /\ TxP!Slots' /\ TxP!Started'
  BY DEF TxInv, TxP!Owners, TxP!Slots, TxP!SlotInBounds, TxP!Started
<1>3. TxP!StreamInv'
  BY DEF TxInv, TxP!StreamInv, TxP!Received
<1>4. TxP!BufferInv'
  BY DEF TxInv, TxP!BufferInv, TxP!IsBlock
<1>5. TxP!PacketInv'
  BY DEF TxInv, TxP!PacketInv, TxP!IsPacket
<1> QED
  BY <1>1, <1>2, <1>3, <1>4, <1>5 DEF TxInv

\* A step of the receiver proxy keeps its invariant.
LEMMA RxInvStep == RxInv /\ RxP!Next => RxInv'
<1> SUFFICES ASSUME RxInv, RxP!Next PROVE RxInv'
  OBVIOUS
<1>1. [RxP!Next]_(RxP!vars)
  OBVIOUS
<1> QED
  BY <1>1, Constants, RxP!TypeNext, RxP!CountersNext, RxP!RunNext,
     RxP!InsertedNext, RxP!WholeSendsNext DEF RxInv

\* What others put on the connections does not concern it, as long as these
\* are packets.
LEMMA RxInvIdle ==
  ASSUME RxInv, UNCHANGED rxVars, link' \in [Conns -> Seq(RxP!Packet)],
         conn' \in [Conns -> {"none", "open", "fin"}]
  PROVE  RxInv'
<1> USE DEF rxVars
<1>1. RxP!TypeOK'
  BY DEF RxInv, RxP!TypeOK, RxP!LinkTypeOK, RxP!ChainTypeOK, RxP!PoolTypeOK,
         RxP!FillTypeOK, RxP!SendTypeOK
<1>2. RxP!SentCounters' /\ RxP!RunInv' /\ RxP!Inserted' /\ RxP!WholeSends'
  BY DEF RxInv, RxP!SentCounters, RxP!RunInv, RxP!Inserted, RxP!WholeSends
<1> QED
  BY <1>1, <1>2 DEF RxInv

\* The connections have their types in both proxies.
LEMMA ConnTypes ==
  TxInv => /\ conn \in [Conns -> {"none", "open", "fin"}]
           /\ txLink \in [Conns -> Seq(TxP!Packet)]
           /\ packet \in [Conns -> TxP!Packet]
           /\ tpc \in [Conns -> TxP!ChainStates]
           /\ taken \in 0 .. StreamLen /\ closing \in BOOLEAN
  BY DEF TxInv, TxP!TypeOK, TxP!ChainTypeOK, TxP!GetTypeOK, TxP!Conns, Conns

\* What the receiver's invariant says of the types of the links.
LEMMA LinkTypes ==
  RxInv => /\ conn \in [Conns -> {"none", "open", "fin"}]
           /\ link \in [Conns -> Seq(RxP!Packet)]
  BY DEF RxInv, RxP!TypeOK, RxP!LinkTypeOK

-----------------------------------------------------------------------------
(* What gets on the connections                                            *)

\* What is left of a packet is a packet that is not whole.
LEMMA TornType ==
  ASSUME NEW p \in RxP!Packet, NEW t \in Torn(p)
  PROVE  t \in RxP!Packet /\ ~t.whole
  BY DEF RxP!Packet, Torn

\* A sequence of packets with one more.
LEMMA OneMorePacket ==
  ASSUME NEW s \in Seq(RxP!Packet), NEW p \in RxP!Packet
  PROVE  /\ Append(s, p) \in Seq(RxP!Packet)
         /\ \A k \in 1 .. Len(Append(s, p)) :
               \/ Append(s, p)[k] = p
               \/ \E m \in 1 .. Len(s) : Append(s, p)[k] = s[m]
<1>1. /\ Append(s, p) \in Seq(RxP!Packet) /\ Len(Append(s, p)) = Len(s) + 1
      /\ \A k \in 1 .. Len(s) : Append(s, p)[k] = s[k]
      /\ Append(s, p)[Len(s) + 1] = p /\ Len(s) \in Nat
  OBVIOUS
<1>2. \A k \in 1 .. Len(s) + 1 : k \in 1 .. Len(s) \/ k = Len(s) + 1
  BY <1>1
<1> QED
  BY <1>1, <1>2

\* What comes through of the packets under way on a connection that ends is
\* some of them and maybe what is left of another.
LEMMA RemainsType ==
  ASSUME NEW s \in Seq(RxP!Packet), NEW r \in Remains(s)
  PROVE  /\ r \in Seq(RxP!Packet)
         /\ \A k \in 1 .. Len(r) :
               ~r[k].whole \/ \E m \in 1 .. Len(s) : r[k] = s[m]
<1>1. ASSUME NEW n \in 0 .. Len(s)
      PROVE  /\ SubSeq(s, 1, n) \in Seq(RxP!Packet) /\ Len(SubSeq(s, 1, n)) = n
             /\ \A k \in 1 .. n : k \in 1 .. Len(s) /\ SubSeq(s, 1, n)[k] = s[k]
  OBVIOUS
<1>2. CASE \E n \in 0 .. Len(s) : r = SubSeq(s, 1, n)
  BY <1>1, <1>2
<1>3. CASE \E n \in DOMAIN s : \E t \in Torn(s[n]) : r = Append(SubSeq(s, 1, n - 1), t)
  <2>0. PICK n \in DOMAIN s :
              \E t \in Torn(s[n]) : r = Append(SubSeq(s, 1, n - 1), t)
    BY <1>3
  <2>1. PICK t \in Torn(s[n]) : r = Append(SubSeq(s, 1, n - 1), t)
    BY <2>0
  <2>2. n \in 1 .. Len(s) /\ n - 1 \in 0 .. Len(s) /\ s[n] \in RxP!Packet
    OBVIOUS
  <2> DEFINE u == SubSeq(s, 1, n - 1)
  <2>3. u \in Seq(RxP!Packet) /\ \A k \in 1 .. Len(u) : k \in 1 .. Len(s) /\ u[k] = s[k]
    BY <1>1, <2>2
  <2>4. t \in RxP!Packet /\ ~t.whole
    BY <2>2, TornType
  <2> HIDE DEF u
  <2>5. /\ Append(u, t) \in Seq(RxP!Packet)
        /\ \A k \in 1 .. Len(Append(u, t)) :
               \/ Append(u, t)[k] = t
               \/ \E m \in 1 .. Len(u) : Append(u, t)[k] = u[m]
    BY <2>3, <2>4, OneMorePacket
  <2>6. r = Append(u, t)
    BY <2>1 DEF u
  <2> QED
    BY <2>3, <2>4, <2>5, <2>6
<1>4. \/ \E n \in 0 .. Len(s) : r = SubSeq(s, 1, n)
      \/ \E n \in DOMAIN s : \E t \in Torn(s[n]) : r = Append(SubSeq(s, 1, n - 1), t)
  <2> DEFINE X == UNION {{n} \X Torn(s[n]) : n \in DOMAIN s}
  <2>1. \A x \in X : \E n \in DOMAIN s : x[1] = n /\ x[2] \in Torn(s[n])
    OBVIOUS
  <2>2. \/ \E n \in 0 .. Len(s) : r = SubSeq(s, 1, n)
        \/ \E x \in X : r = Append(SubSeq(s, 1, x[1] - 1), x[2])
    BY Zenon DEF Remains
  <2> HIDE DEF X
  <2> QED
    BY <2>1, <2>2, Zenon
<1> QED
  BY <1>2, <1>3, <1>4

\* The packet in the hands of a tx_chain is labelled with its block.
LEMMA HandPacket ==
  ASSUME TxInv, NEW c \in Conns, tpc[c] = "send"
  PROVE  /\ OnWire(packet[c]) \in RxP!Packet
         /\ OnWire(packet[c]).seq = OnWire(packet[c]).blk % SEQ_MOD
<1>1. TxP!PacketOf(packet[c], taken, closing)
  BY DEF TxInv, TxP!PacketInv, TxP!IsPacket, TxP!Conns, Conns
<1>2. Tx!BlkNum(packet[c]) = TxP!BlkNum(packet[c])
  BY DEF Tx!BlkNum, TxP!BlkNum
<1> DEFINE b == Tx!BlkNum(packet[c])
<1>3. b \in Nat /\ b * BLOCKSIZE < taken /\ packet[c].seq = b % SEQ_MOD
  BY <1>1, <1>2 DEF TxP!PacketOf, TxP!CutFrom
<1>4. b * BLOCKSIZE < StreamLen
  BY <1>3, ConnTypes, Constants
<1> HIDE DEF b
<1>5. b \in 0 .. NBlocks - 1
  BY <1>3, <1>4, BlockInStream
<1>6. packet[c].seq \in 0 .. SEQ_MOD - 1
  BY ConnTypes DEF TxP!Packet
<1> QED
  BY <1>3, <1>5, <1>6 DEF b, OnWire, RxP!Packet, RxP!Blocks

\* Only Send adds to what has been sent.
LEMMA SentOnlyBySend ==
  ASSUME Next \/ UNCHANGED vars
  PROVE  UNCHANGED txLink \/ \E c \in Conns : Send(c)
<1> USE DEF txVars, Tx!synVars, Tx!getVars, Tx!buffVars, Tx!cntrlVars, Tx!chainVars
<1>1. CASE UNCHANGED vars
  BY <1>1 DEF vars
<1>2. CASE Queuer
  BY <1>2 DEF Queuer, TxDoes, Tx!QueuerLoop, Tx!QueuerSetup, Tx!SynQueued, Tx!GetSyn
<1>3. CASE GetPayload
  BY <1>3 DEF GetPayload, TxDoes, Tx!GetPayload, Tx!GetterSetup, Tx!Accept,
              Tx!PollIn, Tx!RecvSome, Tx!RecvEnd, Tx!AddLock, Tx!AddExtend,
              Tx!AddSetInd, Tx!AddStore, Tx!SetFin, Tx!Exit
<1>4. CASE Controller
  BY <1>4 DEF Controller, Connect, ConnectFails, TxDoes, Tx!SetLink,
              Tx!SetLinkFails, Tx!CreateChain, Tx!Join, Tx!Exit
<1>5. ASSUME NEW c \in Conns, TxChain(c), ~Send(c) PROVE UNCHANGED txLink
  BY <1>5 DEF TxChain, SendFails, TxDoes, Tx!TxSendFails, Tx!Exit, Tx!TxLock,
              Tx!TxCopy, Tx!TxAdvance, Tx!TxEmpty, Tx!TxClose
<1>6. CASE Forward \/ RxDies \/ \E c \in Conns : RxChain(c) \/ Cut(c) \/ ResetArrives(c)
  BY <1>6 DEF Forward, RxDies, RxChain, RxDoes, Cut, ResetArrives
<1> QED
  BY <1>1, <1>2, <1>3, <1>4, <1>5, <1>6 DEF Next

\* What a Send adds.
LEMMA SendAdds ==
  ASSUME TxInv, NEW c \in Conns, Send(c)
  PROVE  /\ \A d \in Conns \ {c} : txLink'[d] = txLink[d]
         /\ Len(txLink[c]) \in Nat /\ Len(txLink'[c]) = Len(txLink[c]) + 1
         /\ \A k \in 1 .. Len(txLink[c]) : txLink'[c][k] = txLink[c][k]
         /\ txLink'[c][Len(txLink[c]) + 1] = packet[c]
         /\ tpc[c] = "send"
<1>1. txLink \in [Conns -> Seq(TxP!Packet)] /\ packet[c] \in TxP!Packet
  BY ConnTypes
<1>2. txLink' = [txLink EXCEPT ![c] = Append(txLink[c], packet[c])] /\ tpc[c] = "send"
  BY DEF Send, Tx!TxSend
<1>3. txLink[c] \in Seq(TxP!Packet)
  BY <1>1
<1> QED
  BY <1>1, <1>2, <1>3

\* What has been sent stays sent.
LEMMA SentStays ==
  ASSUME TxInv, Next \/ UNCHANGED vars, NEW b, WasSent(b)
  PROVE  WasSent(b)'
<1>1. CASE UNCHANGED txLink
  BY <1>1 DEF WasSent, Tx!BlkNum
<1>2. ASSUME NEW c \in Conns, Send(c) PROVE WasSent(b)'
  <2>0. PICK d \in Conns :
              \E k \in 1 .. Len(txLink[d]) : Tx!BlkNum(txLink[d][k]) = b
    BY DEF WasSent
  <2>1. PICK k \in 1 .. Len(txLink[d]) : Tx!BlkNum(txLink[d][k]) = b
    BY <2>0
  <2>2. k \in 1 .. Len(txLink'[d]) /\ txLink'[d][k] = txLink[d][k]
    BY <1>2, SendAdds
  <2> QED
    BY <2>1, <2>2 DEF WasSent, Tx!BlkNum
<1> QED
  BY <1>1, <1>2, SentOnlyBySend

-----------------------------------------------------------------------------
(* The invariant is kept                                                   *)

\* After the step the connections carry packets, each of which was there
\* before or is genuine.
LinksGenuine ==
    /\ link' \in [Conns -> Seq(RxP!Packet)]
    /\ \A c \in Conns : \A k \in 1 .. Len(link'[c]) : \A p :
          p = link'[c][k] => RxP!Held(p) \/ Genuine(p)'

\* A step that leaves the receiver proxy alone.
LEMMA RxAlone ==
  ASSUME TxInv, RxInv, OriginInv, Next \/ UNCHANGED vars, UNCHANGED rxVars,
         LinksGenuine, conn' \in [Conns -> {"none", "open", "fin"}]
  PROVE  RxInv' /\ OriginInv'
<1>1. RxInv'
  BY RxInvIdle DEF LinksGenuine
<1>2. ASSUME NEW p, RxP!Held(p) PROVE Genuine(p)'
  <2>1. Genuine(p)
    BY <1>2 DEF OriginInv
  <2> QED
    BY <2>1, SentStays DEF Genuine
<1>3. ASSUME NEW p, RxP!Held(p)' PROVE Genuine(p)'
  <2>1. \/ \E c \in Conns : \E k \in 1 .. Len(link'[c]) : p = link'[c][k]
        \/ \E c \in Conns : p = raw[c]
        \/ p \in arrived
    BY <1>3 DEF RxP!Held, rxVars
  <2>2. ASSUME NEW c \in Conns, NEW k \in 1 .. Len(link'[c]), p = link'[c][k]
        PROVE  Genuine(p)'
    BY <1>2, <2>2 DEF LinksGenuine
  <2>3. CASE (\E c \in Conns : p = raw[c]) \/ p \in arrived
    BY <1>2, <2>3 DEF RxP!Held
  <2> QED
    BY <2>1, <2>2, <2>3
<1> QED
  BY <1>1, <1>3 DEF OriginInv

\* Connections that stay as they are.
LEMMA LinksSame ==
  ASSUME RxInv, UNCHANGED link
  PROVE  LinksGenuine
  BY LinkTypes DEF LinksGenuine, RxP!Held

\* A tx_chain sends a packet.
LEMMA LinksSend ==
  ASSUME TxInv, RxInv, NEW c \in Conns, Send(c)
  PROVE  LinksGenuine
<1> SUFFICES ASSUME NEW p, p = OnWire(packet[c]) PROVE LinksGenuine
  OBVIOUS
<1>1. link \in [Conns -> Seq(RxP!Packet)] /\ link[c] \in Seq(RxP!Packet)
  BY LinkTypes
<1>2. tpc[c] = "send"
  BY SendAdds
<1>3. p \in RxP!Packet /\ p.seq = p.blk % SEQ_MOD
  BY <1>2, HandPacket
<1>4. Genuine(p)'
  <2>1. /\ Len(txLink[c]) + 1 \in 1 .. Len(txLink'[c])
        /\ txLink'[c][Len(txLink[c]) + 1] = packet[c]
    BY SendAdds
  <2>2. p.blk = Tx!BlkNum(packet[c])
    BY DEF OnWire
  <2>3. WasSent(p.blk)'
    BY <2>1, <2>2 DEF WasSent, Tx!BlkNum
  <2> QED
    BY <1>3, <2>3 DEF Genuine
<1>5. CASE link' = link
  BY <1>5, LinksSame
<1>6. CASE link' = [link EXCEPT ![c] = Append(link[c], p)]
  <2>1. /\ Append(link[c], p) \in Seq(RxP!Packet)
        /\ \A k \in 1 .. Len(Append(link[c], p)) :
               \/ Append(link[c], p)[k] = p
               \/ \E m \in 1 .. Len(link[c]) : Append(link[c], p)[k] = link[c][m]
    BY <1>1, <1>3, OneMorePacket
  <2>2. \A d \in Conns : link'[d] = IF d = c THEN Append(link[c], p) ELSE link[d]
    BY <1>1, <1>6
  <2>3. link' \in [Conns -> Seq(RxP!Packet)]
    BY <1>1, <1>6, <2>1
  <2>4. ASSUME NEW d \in Conns, NEW k \in 1 .. Len(link'[d])
        PROVE  RxP!Held(link'[d][k]) \/ link'[d][k] = p
    <3>1. CASE d = c
      BY <2>1, <2>2, <3>1 DEF RxP!Held
    <3>2. CASE d # c
      BY <2>2, <3>2 DEF RxP!Held
    <3> QED
      BY <3>1, <3>2
  <2> QED
    BY <1>4, <2>3, <2>4 DEF LinksGenuine
<1> QED
  BY <1>5, <1>6 DEF Send

\* The process ends, maybe inside a send().
LEMMA LinksEnd ==
  ASSUME TxInv, RxInv, TxEnds
  PROVE  LinksGenuine
<1>1. link \in [Conns -> Seq(RxP!Packet)]
  BY LinkTypes
<1>2. /\ \A c \in Conns : link'[c] \in LastWords(c)
      /\ link' \in [Conns -> UNION {LastWords(c) : c \in Conns}]
  BY DEF TxEnds
<1>3. ASSUME NEW c \in Conns
      PROVE  /\ link'[c] \in Seq(RxP!Packet)
             /\ \A k \in 1 .. Len(link'[c]) :
                   \/ ~link'[c][k].whole
                   \/ \E m \in 1 .. Len(link[c]) : link'[c][k] = link[c][m]
  <2>1. CASE link'[c] = link[c]
    BY <1>1, <2>1
  <2>2. ASSUME tpc[c] = "send", NEW t \in Torn(OnWire(packet[c])),
               link'[c] = Append(link[c], t)
        PROVE  /\ link'[c] \in Seq(RxP!Packet)
               /\ \A k \in 1 .. Len(link'[c]) :
                     \/ ~link'[c][k].whole
                     \/ \E m \in 1 .. Len(link[c]) : link'[c][k] = link[c][m]
    <3>1. t \in RxP!Packet /\ ~t.whole
      BY <2>2, HandPacket, TornType
    <3>2. link[c] \in Seq(RxP!Packet)
      BY <1>1
    <3> QED
      BY <2>2, <3>1, <3>2, OneMorePacket
  <2>3. \/ link'[c] = link[c]
        \/ /\ tpc[c] = "send"
           /\ \E t \in Torn(OnWire(packet[c])) : link'[c] = Append(link[c], t)
    BY <1>2 DEF LastWords
  <2> QED
    BY <2>1, <2>2, <2>3
<1>4. link' \in [Conns -> Seq(RxP!Packet)]
  BY <1>2, <1>3
<1>5. ASSUME NEW c \in Conns, NEW k \in 1 .. Len(link'[c]), NEW p, p = link'[c][k]
      PROVE  RxP!Held(p) \/ Genuine(p)'
  BY <1>3, <1>5 DEF RxP!Held, Genuine
<1> QED
  BY <1>4, <1>5 DEF LinksGenuine

\* A connection breaks off.
LEMMA LinksCut ==
  ASSUME RxInv, NEW c \in Conns, Cut(c)
  PROVE  LinksGenuine
<1>1. link \in [Conns -> Seq(RxP!Packet)] /\ link[c] \in Seq(RxP!Packet)
  BY LinkTypes
<1>2. PICK r \in Remains(link[c]) : link' = [link EXCEPT ![c] = r]
  BY DEF Cut
<1>3. /\ r \in Seq(RxP!Packet)
      /\ \A k \in 1 .. Len(r) :
            ~r[k].whole \/ \E m \in 1 .. Len(link[c]) : r[k] = link[c][m]
  BY <1>1, RemainsType
<1>4. \A d \in Conns : link'[d] = IF d = c THEN r ELSE link[d]
  BY <1>1, <1>2
<1>5. link' \in [Conns -> Seq(RxP!Packet)]
  BY <1>1, <1>2, <1>3
<1>6. ASSUME NEW d \in Conns, NEW k \in 1 .. Len(link'[d]), NEW p, p = link'[d][k]
      PROVE  RxP!Held(p) \/ Genuine(p)'
  BY <1>3, <1>4, <1>6 DEF RxP!Held, Genuine
<1> QED
  BY <1>5, <1>6 DEF LinksGenuine

\* Init of the pair is Init of each proxy, with nothing on the connections.
LEMMA PairInit == Init => PairInv
<1> SUFFICES ASSUME Init PROVE PairInv
  OBVIOUS
<1>1. TxP!Init
  BY DEF Init, Tx!Init, TxP!Init, Tx!Conns, TxP!Conns, Tx!Garbage, TxP!Garbage
<1>2. TxInv
  BY <1>1, Constants, TxP!BaseInit, TxP!RelayInit DEF TxInv, TxP!RelayInv
<1> USE DEF Init, Rx!PoolInit, Rx!ForwardInit, Rx!NoPacket
<1>3. RxP!TypeOK
  <2>1. RxP!LinkTypeOK
    BY <1>2, ConnTypes DEF RxP!LinkTypeOK
  <2>2. RxP!ChainTypeOK
    BY DEF RxP!ChainTypeOK, RxP!ChainStates, RxP!NoPacket
  <2>3. RxP!PoolTypeOK
    BY DEF RxP!PoolTypeOK
  <2>4. RxP!FillTypeOK /\ RxP!SendTypeOK
    BY Constants DEF RxP!FillTypeOK, RxP!SendTypeOK, RxP!ForwardStates,
                     RxP!ConstantsAssumption
  <2> QED
    BY <2>1, <2>2, <2>3, <2>4 DEF RxP!TypeOK
<1>4. RxInv
  BY <1>3 DEF RxInv, RxP!SentCounters, RxP!RunInv, RxP!Inserted, RxP!WholeSends
<1>5. OriginInv
  BY DEF OriginInv, RxP!Held, Genuine
<1> QED
  BY <1>2, <1>4, <1>5 DEF PairInv

\* No step of either proxy and no fault breaks the invariant.
LEMMA PairNext == PairInv /\ [Next]_vars => PairInv'
<1> SUFFICES ASSUME TxInv, RxInv, OriginInv, Next \/ UNCHANGED vars
             PROVE  TxInv' /\ RxInv' /\ OriginInv'
  BY DEF PairInv
<1>1. CASE UNCHANGED vars
  <2>1. UNCHANGED <<txVars, rxVars, conn, link>>
    BY <1>1 DEF vars, wireVars
  <2> QED
    BY <2>1, ConnTypes, TxInvIdle, LinksSame, RxAlone
<1>2. ASSUME TxP!Next, UNCHANGED rxVars, LinksGenuine
      PROVE  TxInv' /\ RxInv' /\ OriginInv'
  <2>1. TxInv'
    BY <1>2, TxInvStep
  <2>2. conn' \in [Conns -> {"none", "open", "fin"}]
    BY <2>1 DEF TxInv, TxP!TypeOK, TxP!ChainTypeOK, TxP!Conns, Conns
  <2> QED
    BY <1>2, <2>1, <2>2, RxAlone
<1>3. CASE Queuer \/ GetPayload \/ Controller
  <2>1. UNCHANGED rxVars /\ (UNCHANGED link \/ TxEnds)
    BY <1>3 DEF Queuer, GetPayload, Controller, TxDoes, Connect, ConnectFails,
                TxEnds, wireVars
  <2> QED
    BY <1>2, <1>3, <2>1, TxThreadStep, LinksSame, LinksEnd
<1>4. ASSUME NEW c \in Conns, TxChain(c) PROVE TxInv' /\ RxInv' /\ OriginInv'
  <2>1. UNCHANGED rxVars /\ (UNCHANGED link \/ TxEnds \/ Send(c))
    BY <1>4 DEF TxChain, TxDoes, Send, SendFails, TxEnds, wireVars
  <2> QED
    BY <1>2, <1>4, <2>1, TxChainStep, LinksSame, LinksEnd, LinksSend
<1>5. CASE Forward \/ \E c \in Conns : RxChain(c)
  <2>1. RxP!Next /\ UNCHANGED txVars
    BY <1>5, RxStep
  <2>2. RxInv'
    BY <2>1, RxInvStep
  <2>3. TxInv'
    <3>1. conn' \in [Conns -> {"none", "open", "fin"}]
      BY <2>2 DEF RxInv, RxP!TypeOK, RxP!LinkTypeOK
    <3> QED
      BY <2>1, <3>1, TxInvIdle
  <2>4. ASSUME NEW p, RxP!Held(p)' PROVE Genuine(p)'
    <3>1. RxP!Held(p) \/ ~p.whole
      BY <2>1, <2>4, Constants, RxP!HeldNext DEF RxInv
    <3>2. Genuine(p)
      BY <3>1 DEF OriginInv, Genuine
    <3> QED
      BY <3>2, SentStays DEF Genuine
  <2> QED
    BY <2>2, <2>3, <2>4 DEF OriginInv
<1>6. CASE RxDies
  <2>1. UNCHANGED <<txVars, conn, rxVars>> /\ link' = [c \in Conns |-> << >>]
    BY <1>6 DEF RxDies
  <2>2. LinksGenuine
    BY <2>1 DEF LinksGenuine
  <2> QED
    BY <2>1, <2>2, ConnTypes, TxInvIdle, RxAlone
<1>7. ASSUME NEW c \in Conns, Cut(c) PROVE TxInv' /\ RxInv' /\ OriginInv'
  <2>1. UNCHANGED <<txVars, rxVars>> /\ conn' = [conn EXCEPT ![c] = "fin"]
    BY <1>7 DEF Cut
  <2>2. conn' \in [Conns -> {"none", "open", "fin"}]
    BY <2>1, ConnTypes
  <2> QED
    BY <1>7, <2>1, <2>2, TxInvIdle, LinksCut, RxAlone
<1>8. ASSUME NEW c \in Conns, ResetArrives(c) PROVE TxInv' /\ RxInv' /\ OriginInv'
  <2>1. UNCHANGED <<txVars, rxVars, conn, link>>
    BY <1>8 DEF ResetArrives
  <2> QED
    BY <2>1, ConnTypes, TxInvIdle, LinksSame, RxAlone
<1> QED
  BY <1>1, <1>3, <1>4, <1>5, <1>6, <1>7, <1>8 DEF Next

-----------------------------------------------------------------------------
(* What comes out                                                          *)

\* The first n bytes out, of a stream of which t are known.
Prefix(n, t) == [k \in 1 .. n |-> IF k <= t THEN k ELSE 0]

\* As long as nothing has gone wrong for good, the destination has been sent
\* the stream from its beginning, in blocks that are whole or the last.
InStep ==
    ~Void =>
      /\ BytesOut = Prefix(Len(dest) * BLOCKSIZE, taken)
      /\ Len(dest) > 0 => (Len(dest) - 1) * BLOCKSIZE < taken
      /\ ~closing => Len(dest) * BLOCKSIZE <= taken

\* The n-th packet sent to the destination is block n - 1, which a tx_chain
\* sent.
LEMMA DestInPlace ==
  ASSUME NBlocks <= SEQ_MOD, PairInv, ~Void, NEW n \in 1 .. Len(dest)
  PROVE  dest[n].blk = n - 1 /\ WasSent(n - 1)
<1>1. dest[n] \in arrived /\ dest[n].seq = n - 1
  BY DEF PairInv, RxInv, RxP!Inserted, RxP!RunInv
<1>2. dest[n].whole
  BY <1>1 DEF Void
<1>3. dest[n].seq = dest[n].blk % SEQ_MOD /\ WasSent(dest[n].blk)
  BY <1>1, <1>2 DEF PairInv, OriginInv, RxP!Held, Genuine
<1>4. dest[n] \in RxP!Packet
  BY <1>1 DEF PairInv, RxInv, RxP!TypeOK, RxP!PoolTypeOK
<1>5. dest[n].blk \in 0 .. SEQ_MOD - 1
  BY <1>4, Constants DEF RxP!Packet, RxP!Blocks
<1>6. dest[n].blk % SEQ_MOD = dest[n].blk
  BY <1>5, Constants, RxP!SmallMod
<1> QED
  BY <1>1, <1>3, <1>6

\* The payload of a block that was sent.
LEMMA SentPayload ==
  ASSUME TxInv, NEW b, WasSent(b)
  PROVE  /\ b \in Nat /\ b * BLOCKSIZE < taken
         /\ ~closing => (b + 1) * BLOCKSIZE <= taken
         /\ PayloadOf(b) = TxP!BlockOf(b, taken)
<1>1. \A d \in Conns : DOMAIN txLink[d] = 1 .. Len(txLink[d])
  BY ConnTypes
<1> DEFINE c == CHOOSE d \in Conns : \E k \in DOMAIN txLink[d] :
                    Tx!BlkNum(txLink[d][k]) = b
<1>2. \E d \in Conns : \E k \in DOMAIN txLink[d] : Tx!BlkNum(txLink[d][k]) = b
  BY <1>1 DEF WasSent
<1>3. c \in Conns /\ \E k \in DOMAIN txLink[c] : Tx!BlkNum(txLink[c][k]) = b
  BY <1>2, Zenon
<1> DEFINE m == CHOOSE k \in DOMAIN txLink[c] : Tx!BlkNum(txLink[c][k]) = b
<1>4. m \in DOMAIN txLink[c] /\ Tx!BlkNum(txLink[c][m]) = b
  BY <1>3, Zenon
<1>5. PayloadOf(b) = txLink[c][m].data
  BY Zenon DEF PayloadOf
<1> HIDE DEF c, m
<1>6. TxP!PacketOf(txLink[c][m], taken, closing)
  BY <1>1, <1>3, <1>4 DEF TxInv, TxP!PacketInv, TxP!IsPacket, TxP!Conns, Conns
<1>7. TxP!BlkNum(txLink[c][m]) = b
  BY <1>4 DEF Tx!BlkNum, TxP!BlkNum
<1> QED
  BY <1>5, <1>6, <1>7 DEF TxP!PacketOf, TxP!CutFrom

\* Byte k out is byte ((k - 1) % BLOCKSIZE) + 1 of its block.
LEMMA BytePlace ==
  ASSUME NEW d \in Nat, NEW k \in 1 .. d * BLOCKSIZE
  PROVE  /\ (k - 1) \div BLOCKSIZE + 1 \in 1 .. d
         /\ ((k - 1) % BLOCKSIZE) + 1 \in 1 .. BLOCKSIZE
         /\ ((k - 1) \div BLOCKSIZE) * BLOCKSIZE + (((k - 1) % BLOCKSIZE) + 1) = k
<1> DEFINE q == (k - 1) \div BLOCKSIZE
           r == (k - 1) % BLOCKSIZE
<1>1. BLOCKSIZE \in Nat \ {0} /\ k - 1 \in Nat /\ k - 1 < d * BLOCKSIZE
  BY Constants
<1>2. q \in Nat /\ r \in 0 .. BLOCKSIZE - 1 /\ k - 1 = q * BLOCKSIZE + r
  BY <1>1
<1> HIDE DEF q, r
<1>3. ASSUME q >= d PROVE FALSE
  <2>1. q * BLOCKSIZE >= d * BLOCKSIZE
    BY <1>1, <1>2, <1>3
  <2> QED
    BY <1>1, <1>2, <2>1
<1>4. q + 1 \in 1 .. d /\ r + 1 \in 1 .. BLOCKSIZE /\ q * BLOCKSIZE + (r + 1) = k
  BY <1>1, <1>2, <1>3
<1> QED
  BY <1>4 DEF q, r

\* The invariant puts the output in step with the input.
LEMMA OutInStep ==
  ASSUME NBlocks <= SEQ_MOD
  PROVE  PairInv => InStep
<1> SUFFICES ASSUME PairInv, ~Void
             PROVE  /\ BytesOut = Prefix(Len(dest) * BLOCKSIZE, taken)
                    /\ Len(dest) > 0 => (Len(dest) - 1) * BLOCKSIZE < taken
                    /\ ~closing => Len(dest) * BLOCKSIZE <= taken
  BY DEF InStep
<1> DEFINE d == Len(dest)
<1>1. /\ d \in Nat /\ Len(wire) = d /\ BLOCKSIZE \in Nat \ {0} /\ taken \in Nat
      /\ \A n \in 1 .. d : wire[n] = [k \in 1 .. BLOCKSIZE |-> k]
  BY ConnTypes, Constants DEF PairInv, RxInv, RxP!TypeOK, RxP!SendTypeOK, RxP!WholeSends
<1>2. \A n \in 1 .. d : dest[n].blk = n - 1 /\ WasSent(n - 1)
  BY DestInPlace
<1>3. ASSUME NEW n \in 1 .. d
      PROVE  /\ (n - 1) * BLOCKSIZE < taken /\ (~closing => n * BLOCKSIZE <= taken)
             /\ PayloadOf(n - 1) = TxP!BlockOf(n - 1, taken)
  <2>1. (n - 1) + 1 = n
    BY <1>1
  <2> QED
    BY <1>2, <2>1, SentPayload DEF PairInv
<1> HIDE DEF d
<1>4. ASSUME NEW k \in 1 .. d * BLOCKSIZE
      PROVE  PayloadOf(dest[(k - 1) \div BLOCKSIZE + 1].blk)
                [wire[(k - 1) \div BLOCKSIZE + 1][((k - 1) % BLOCKSIZE) + 1]]
              = IF k <= taken THEN k ELSE 0
  <2> DEFINE n == (k - 1) \div BLOCKSIZE + 1
             o == ((k - 1) % BLOCKSIZE) + 1
  <2>1. n \in 1 .. d /\ o \in 1 .. BLOCKSIZE /\ (n - 1) * BLOCKSIZE + o = k
    BY <1>1, BytePlace
  <2> HIDE DEF n, o
  <2>2. dest[n].blk = n - 1 /\ wire[n][o] = o
    BY <1>1, <1>2, <2>1
  <2>3. PayloadOf(n - 1)[o] = IF (n - 1) * BLOCKSIZE + o <= taken
                              THEN (n - 1) * BLOCKSIZE + o ELSE 0
    BY <1>3, <2>1 DEF TxP!BlockOf
  <2>4. PayloadOf(dest[n].blk)[wire[n][o]] = IF k <= taken THEN k ELSE 0
    BY <2>1, <2>2, <2>3
  <2> QED
    BY <2>4 DEF n, o
<1>5. BytesOut = Prefix(d * BLOCKSIZE, taken)
  BY <1>4, Zenon DEF BytesOut, Prefix, d
<1>6. d > 0 => (d - 1) * BLOCKSIZE < taken
  BY <1>1, <1>3
<1>7. ~closing => d * BLOCKSIZE <= taken
  <2>1. CASE d = 0
    BY <1>1, <2>1
  <2>2. CASE d > 0
    BY <1>1, <1>3, <2>2
  <2> QED
    BY <1>1, <2>1, <2>2
<1> QED
  BY <1>5, <1>6, <1>7 DEF d

-----------------------------------------------------------------------------
(* The refinement                                                          *)

\* The four things a step may do to the pipe: nothing, take bytes, see the end
\* of the stream, send a packet to the destination.
LEMMA Kinds ==
  ASSUME PairInv, Next \/ UNCHANGED vars
  PROVE  \/ UNCHANGED <<taken, closing, dest>>
         \/ ~closing /\ taken' \in taken + 1 .. StreamLen /\ UNCHANGED <<closing, dest>>
         \/ ~closing /\ closing' = TRUE /\ UNCHANGED <<taken, dest>>
         \/ Len(dest') = Len(dest) + 1 /\ UNCHANGED <<taken, closing>>
<1> USE DEF txVars, rxVars, Tx!synVars, Tx!getVars, Tx!buffVars, Tx!cntrlVars,
            Tx!chainVars
<1>1. CASE UNCHANGED vars
  BY <1>1 DEF vars
<1>2. CASE Queuer
  BY <1>2 DEF Queuer, TxDoes, Tx!QueuerLoop, Tx!QueuerSetup, Tx!SynQueued, Tx!GetSyn
<1>3. CASE GetPayload
  <2>1. UNCHANGED dest
    BY <1>3 DEF GetPayload, TxDoes
  <2>2. gpc = "recv" => ~closing
    BY DEF PairInv, TxInv, TxP!StreamInv
  <2>3. CASE Tx!RecvSome
    <3>1. PICK n \in Tx!RecvSizes :
                taken + n <= StreamLen /\ taken' = taken + n
      BY <2>3 DEF Tx!RecvSome
    <3>2. n \in Nat \ {0} /\ taken \in Nat /\ StreamLen \in Nat
      BY ConnTypes, Constants DEF Tx!RecvSizes, PairInv, TxInv, TxP!TypeOK,
                                  TxP!GetTypeOK
    <3>3. gpc = "recv" /\ UNCHANGED closing
      BY <2>3 DEF Tx!RecvSome
    <3>4. taken' \in taken + 1 .. StreamLen
      BY <3>1, <3>2
    <3> QED
      BY <2>1, <2>2, <3>3, <3>4
  <2>4. CASE Tx!RecvEnd
    BY <2>1, <2>2, <2>4 DEF Tx!RecvEnd
  <2>5. CASE ~Tx!RecvSome /\ ~Tx!RecvEnd
    BY <1>3, <2>1, <2>5 DEF GetPayload, TxDoes, Tx!GetPayload, Tx!GetterSetup,
              Tx!Accept, Tx!PollIn, Tx!AddLock, Tx!AddExtend, Tx!AddSetInd,
              Tx!AddStore, Tx!SetFin, Tx!Exit
  <2> QED
    BY <2>3, <2>4, <2>5
<1>4. CASE Controller
  BY <1>4 DEF Controller, Connect, ConnectFails, TxDoes, TxEnds, Tx!SetLink,
              Tx!SetLinkFails, Tx!CreateChain, Tx!Join, Tx!Exit
<1>5. ASSUME NEW c \in Conns, TxChain(c) PROVE UNCHANGED <<taken, closing, dest>>
  BY <1>5 DEF TxChain, Send, SendFails, TxDoes, TxEnds, Tx!TxSend, Tx!TxSendFails,
              Tx!Exit, Tx!TxLock, Tx!TxCopy, Tx!TxAdvance, Tx!TxEmpty, Tx!TxClose
<1>6. CASE Forward \/ \E c \in Conns : RxChain(c)
  <2>1. RxP!Next /\ UNCHANGED <<taken, closing>>
    BY <1>6, RxStep
  <2> QED
    BY <2>1, Constants, RxP!DestNext DEF PairInv, RxInv
<1>7. CASE RxDies \/ \E c \in Conns : Cut(c) \/ ResetArrives(c)
  BY <1>7 DEF RxDies, Cut, ResetArrives
<1> QED
  BY <1>1, <1>2, <1>3, <1>4, <1>5, <1>6, <1>7 DEF Next

\* What has gone wrong for good stays so.
LEMMA VoidStays ==
  ASSUME Void, Next \/ UNCHANGED vars
  PROVE  Void'
<1>1. UNCHANGED rxVars
  BY DEF Next, vars, Queuer, GetPayload, Controller, TxChain, TxDoes, Connect,
         ConnectFails, Send, SendFails, TxEnds, Forward, RxChain, RxDoes, RxDies,
         Cut, ResetArrives
<1> QED
  BY <1>1 DEF rxVars, Void

\* The bytes out are a sequence.
LEMMA PrefixLen ==
  ASSUME NEW n \in Nat, NEW t
  PROVE  Len(Prefix(n, t)) = n /\ Prefix(n, t) \in Seq(Nat)
  BY DEF Prefix

\* Bytes that are known stay what they are.
LEMMA PrefixKept ==
  ASSUME NEW n \in Nat, NEW t \in Nat, NEW u \in Nat, n <= t, t <= u
  PROVE  Prefix(n, t) = Prefix(n, u)
  BY DEF Prefix

\* Sequences of the same bytes are the same.
LEMMA SameBytes ==
  ASSUME NEW s \in Seq(Nat), NEW r \in Seq(Nat), NEW n \in Nat,
         Len(s) = n, Len(r) = n, \A k \in 1 .. n : s[k] = r[k]
  PROVE  s = r
  OBVIOUS

\* What is where in two sequences one after the other.
LEMMA Joined ==
  ASSUME NEW S, NEW s \in Seq(S), NEW r \in Seq(S)
  PROVE  /\ s \o r \in Seq(S) /\ Len(s \o r) = Len(s) + Len(r)
         /\ \A k \in 1 .. Len(s) : (s \o r)[k] = s[k]
         /\ \A k \in 1 .. Len(r) : (s \o r)[Len(s) + k] = r[k]
  OBVIOUS

\* The next block out continues the stream.
LEMMA PrefixNext ==
  ASSUME NEW n \in Nat, NEW t \in Nat, NEW b \in Nat
  PROVE  Prefix(n + b, t)
           = Prefix(n, t) \o [k \in 1 .. b |-> IF n + k <= t THEN n + k ELSE 0]
<1> DEFINE more == [k \in 1 .. b |-> IF n + k <= t THEN n + k ELSE 0]
<1>1. more \in Seq(Nat) /\ Len(more) = b
  OBVIOUS
<1>2. Prefix(n, t) \in Seq(Nat) /\ Len(Prefix(n, t)) = n
  BY PrefixLen
<1>3. Prefix(n + b, t) \in Seq(Nat) /\ Len(Prefix(n + b, t)) = n + b
  BY PrefixLen
<1>4. /\ Prefix(n, t) \o more \in Seq(Nat) /\ Len(Prefix(n, t) \o more) = n + b
      /\ \A k \in 1 .. n : (Prefix(n, t) \o more)[k] = Prefix(n, t)[k]
      /\ \A k \in 1 .. b : (Prefix(n, t) \o more)[n + k] = more[k]
  <2> DEFINE head == Prefix(n, t)
             S == Nat
  <2>1. head \in Seq(S) /\ Len(head) = n /\ more \in Seq(S) /\ Len(more) = b
    BY <1>1, <1>2
  <2> HIDE DEF more, head, S
  <2>2. /\ head \o more \in Seq(S) /\ Len(head \o more) = Len(head) + Len(more)
        /\ \A k \in 1 .. Len(head) : (head \o more)[k] = head[k]
        /\ \A k \in 1 .. Len(more) : (head \o more)[Len(head) + k] = more[k]
    <3>1. head \in Seq(S) /\ more \in Seq(S)
      BY <2>1
    <3> QED
      BY <3>1, Joined
  <2>3. /\ head \o more \in Seq(S) /\ Len(head \o more) = n + b
        /\ \A k \in 1 .. n : (head \o more)[k] = head[k]
        /\ \A k \in 1 .. b : (head \o more)[n + k] = more[k]
    BY <2>1, <2>2
  <2> QED
    BY <2>3 DEF head, S
<1>5. ASSUME NEW k \in 1 .. n + b
      PROVE  Prefix(n + b, t)[k] = (Prefix(n, t) \o more)[k]
  <2>1. CASE k \in 1 .. n
    BY <1>4, <2>1 DEF Prefix
  <2>2. CASE k \in n + 1 .. n + b
    <3>1. k - n \in 1 .. b /\ n + (k - n) = k
      BY <2>2
    <3>2. (Prefix(n, t) \o more)[n + (k - n)] = more[k - n]
      BY <1>4, <3>1
    <3>3. more[k - n] = IF n + (k - n) <= t THEN n + (k - n) ELSE 0
      BY <3>1
    <3> QED
      BY <3>1, <3>2, <3>3 DEF Prefix
  <2>3. k \in 1 .. n \/ k \in n + 1 .. n + b
    OBVIOUS
  <2> QED
    BY <2>1, <2>2, <2>3
<1> HIDE DEF more
<1>6. Prefix(n + b, t) = Prefix(n, t) \o more
  <2> DEFINE u == Prefix(n + b, t)
             v == Prefix(n, t) \o more
  <2>1. /\ u \in Seq(Nat) /\ v \in Seq(Nat) /\ n + b \in Nat
        /\ Len(u) = n + b /\ Len(v) = n + b /\ \A k \in 1 .. n + b : u[k] = v[k]
    BY <1>3, <1>4, <1>5
  <2> HIDE DEF u, v
  <2>2. u = v
    BY <2>1, SameBytes
  <2> QED
    BY <2>2 DEF u, v
<1> QED
  BY <1>6 DEF more

\* The step of the pipe that a step of the proxies is.
LEMMA PipeStep ==
  ASSUME PairInv, PairInv', InStep, InStep', Next \/ UNCHANGED vars
  PROVE  [Pipe!Next]_(Pipe!vars)
<1>1. CASE Void'
  BY <1>1 DEF Pipe!Next, Pipe!Break
<1>2. CASE ~Void'
  <2> DEFINE d == Len(dest)
             out == IF Void THEN << >> ELSE BytesOut
  <2>1. ~Void
    BY <1>2, VoidStays
  <2>2. Void' = Void
    BY <1>2, <2>1, Zenon DEF Void
  <2>3. out = BytesOut /\ out' = BytesOut'
    BY <1>2, <2>1
  <2>4. out = Prefix(d * BLOCKSIZE, taken) /\ out' = Prefix(d' * BLOCKSIZE, taken')
    BY <1>2, <2>1, <2>3 DEF InStep
  <2>5. /\ d \in Nat /\ BLOCKSIZE \in Nat \ {0} /\ taken \in Nat
        /\ d * BLOCKSIZE \in Nat
    BY ConnTypes, Constants DEF PairInv, RxInv, RxP!TypeOK, RxP!SendTypeOK
  <2>6. Len(out) = d * BLOCKSIZE
    BY <2>4, <2>5, PrefixLen
  <2>7. CASE UNCHANGED <<taken, closing, dest>>
    <3>1. UNCHANGED out
      BY <2>4, <2>7
    <3> QED
      BY <2>2, <2>7, <3>1 DEF Pipe!vars
  <2>8. CASE ~closing /\ taken' \in taken + 1 .. StreamLen /\ UNCHANGED <<closing, dest>>
    <3>1. d * BLOCKSIZE <= taken /\ taken' \in Nat /\ taken <= taken'
      BY <2>1, <2>5, <2>8, Constants DEF InStep
    <3>2. UNCHANGED out
      BY <2>4, <2>5, <2>8, <3>1, PrefixKept
    <3> QED
      BY <2>2, <2>8, <3>2 DEF Pipe!Next, Pipe!Take
  <2>9. CASE ~closing /\ closing' = TRUE /\ UNCHANGED <<taken, dest>>
    <3>1. UNCHANGED out
      BY <2>4, <2>9
    <3> QED
      BY <2>2, <2>9, <3>1 DEF Pipe!Next, Pipe!End
  <2>10. CASE Len(dest') = Len(dest) + 1 /\ UNCHANGED <<taken, closing>>
    <3>1. d' = d + 1 /\ (d + 1) * BLOCKSIZE = d * BLOCKSIZE + BLOCKSIZE
      BY <2>5, <2>10
    <3>2. /\ d * BLOCKSIZE < taken
          /\ ~closing => d * BLOCKSIZE + BLOCKSIZE <= taken
      BY <1>2, <2>5, <2>10, <3>1 DEF InStep
    <3>3. out' = Prefix(d * BLOCKSIZE + BLOCKSIZE, taken)
      BY <2>4, <2>10, <3>1
    <3>4. Pipe!NextBlock = [k \in 1 .. BLOCKSIZE |->
                IF d * BLOCKSIZE + k <= taken THEN d * BLOCKSIZE + k ELSE 0]
      BY <2>6 DEF Pipe!NextBlock
    <3>5. out' = out \o Pipe!NextBlock
      <4> DEFINE m == d * BLOCKSIZE
      <4>1. m \in Nat /\ BLOCKSIZE \in Nat /\ taken \in Nat
        BY <2>5
      <4> HIDE DEF m
      <4>2. Prefix(m + BLOCKSIZE, taken) = Prefix(m, taken) \o
                [k \in 1 .. BLOCKSIZE |-> IF m + k <= taken THEN m + k ELSE 0]
        BY <4>1, PrefixNext, Zenon
      <4> QED
        BY <2>4, <3>3, <3>4, <4>2 DEF m
    <3> QED
      BY <2>2, <2>5, <2>6, <2>10, <3>2, <3>5 DEF Pipe!Next, Pipe!Deliver
  <2> QED
    BY <2>7, <2>8, <2>9, <2>10, Kinds
<1> QED
  BY <1>1, <1>2

\* Nothing has been taken and nothing put out to begin with.
LEMMA PipeInit == Init => Pipe!Init
<1> SUFFICES ASSUME Init PROVE Pipe!Init
  OBVIOUS
<1>1. ~Void /\ Len(dest) = 0 /\ taken = 0 /\ closing = FALSE
  BY DEF Init, Void, Tx!Init, Rx!ForwardInit
<1>2. BytesOut = << >>
  BY <1>1, Constants DEF BytesOut
<1> QED
  BY <1>1, <1>2 DEF Pipe!Init

\* The pair of proxies implements the pipe: whatever connection each block
\* takes, in whatever order the blocks arrive, wherever a connection breaks off
\* and whichever process ends, the destination is sent the bytes of the source
\* in order, each once, in whole blocks, padded only at the end of the stream,
\* until the heap is corrupted or what is left of a packet is queued.  The
\* stream must not have more blocks than there are sequence numbers.
THEOREM ProxiesArePipe ==
  ASSUME NBlocks <= SEQ_MOD
  PROVE  Spec => IsPipe
<1>1. PairInv => InStep
  BY OutInStep
<1>2. (PairInv => InStep)'
  BY <1>1, PTL
<1>3. PairInv /\ [Next]_vars => [Pipe!Next]_(Pipe!vars)
  BY <1>1, <1>2, PairNext, PipeStep
<1> QED
  BY <1>3, PairInit, PairNext, PipeInit, PTL DEF Spec, IsPipe, Pipe!Spec
=============================================================================
