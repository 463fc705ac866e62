----------------------------- MODULE PairProxy -----------------------------
(***************************************************************************)
(* The two proxies joined by their CONN_NUMBER TCP connections: TxProxy    *)
(* puts packets on a link, RxProxy takes them off it.  Here the faults     *)
(* between the processes are modelled: a connection that breaks off, at a  *)
(* packet boundary or inside a packet; a process that ends and takes its   *)
(* connections along; a destination that goes away.  One fault happens in  *)
(* a behaviour, the rest is what follows from it.                          *)
(*                                                                         *)
(* TCP delivers in order what was sent before a connection ended.  Once    *)
(* undefined behaviour or a torn packet has made its output void the       *)
(* receiver proxy is not followed any further, except that it may crash.   *)
(***************************************************************************)
EXTENDS Integers, Sequences, FiniteSets

CONSTANTS
    CONN_NUMBER, BLOCKSIZE, INITIAL_CAPACITY, PTR_SIZE, SEQ_MOD,
    INIT_QUEUE_SIZE, StreamLen, NoOwner, Getter, Forwarder,
    Cuttable,      \* the connections that may break off
    DestMayGo      \* may the destination go away?

VARIABLES
    qpc, syn, gpc, taken, raw_buf, recv_count, closing, txLock, set_ind,
    get_ind, capacity, buffer, fin_flag, cpc, i, tpc, packet, txLink, failed,
    conn,
    link, rpc, raw, lock, pq, avail_min_seq, sent_min_seq, fpc, fbuf,
    sent, byte_count, byte_capacity, alloc, pack_cnt, count, cur, dest, wire,
    arrived, stolen, ub,
    path,    \* of each connection: "whole", "cut", or "reset" when the
             \* transmitter's kernel has learned of the cut
    rxUp     \* the receiver proxy runs

Conns == 1 .. CONN_NUMBER

\* Blocks of the stream, the padded one included.
NBlocks == (StreamLen + BLOCKSIZE - 1) \div BLOCKSIZE

\* The transmitter proxy: txLink keeps everything it has sent.
Tx == INSTANCE TxProxy WITH link <- txLink, lock <- txLock,
        Faults <- {"link", "connect"}, AssertAcceptFails <- FALSE

\* The receiver proxy: link is what is under way.
Rx == INSTANCE RxProxy WITH
        ShortSends <- FALSE, CutConns <- {}, lost <- {}

\* What each proxy assumes of its constants.
ASSUME PairConstants ==
    /\ Tx!TxConstants /\ Rx!ConstantsAssumption
    /\ Cuttable \subseteq Conns /\ DestMayGo \in BOOLEAN

\* The variables of each side but the ones both touch.
txVars == <<qpc, syn, gpc, taken, raw_buf, recv_count, closing, txLock,
            set_ind, get_ind, capacity, buffer, fin_flag, cpc, i, tpc, packet,
            txLink, failed>>
rxVars == <<rpc, raw, lock, pq, avail_min_seq, sent_min_seq, fpc, fbuf, sent,
            byte_count, byte_capacity, alloc, pack_cnt, count, cur, dest, wire,
            arrived, stolen, ub>>
wireVars == <<link, path>>
vars == <<txVars, conn, rxVars, wireVars, rxUp>>

-----------------------------------------------------------------------------
\* The transmitter proxy is started; the receiver proxy runs, or does not.
Init ==
    /\ Tx!Init
    /\ link = [c \in Conns |-> << >>]
    /\ Rx!PoolInit /\ Rx!ForwardInit
    /\ arrived = {} /\ stolen = FALSE /\ ub = {}
    /\ path = [c \in Conns |-> "whole"] /\ rxUp \in BOOLEAN

\* Undefined behaviour, or what is left of a packet in the pool: the output
\* may be anything from here on.
Void == ub # {} \/ \E p \in arrived : ~p.whole

NoFaultYet == rxUp /\ \A c \in Conns : path[c] = "whole"

\* What rx_chain will see of a packet of tx_chain.
OnWire(p) == [seq |-> p.seq, blk |-> Tx!BlkNum(p), whole |-> TRUE]

\* The packet p cut off in its middle, before or after the end of its header.
Torn(p) == [seq : 0 .. SEQ_MOD - 1, blk : {p.blk}, whole : {FALSE}]

\* What still comes through of the packets under way when a connection ends
\* without having been closed: some, and maybe the beginning of the next one.
Remains(s) ==
    {SubSeq(s, 1, n) : n \in 0 .. Len(s)}
      \cup {Append(SubSeq(s, 1, x[1] - 1), x[2]) : x \in
              UNION {{n} \X Torn(s[n]) : n \in DOMAIN s}}

-----------------------------------------------------------------------------
(* The transmitter proxy                                                   *)

\* A step the receiver proxy does not notice, or only by a FIN.
TxDoes(A) == A /\ UNCHANGED <<rxVars, wireVars, rxUp>>

Connect == rxUp /\ TxDoes(Tx!SetLink)

\* What a tx_chain sends on a connection that has been cut gets nowhere.
Send(c) ==
    /\ path[c] # "reset" /\ Tx!TxSend(c)
    /\ link' = IF path[c] = "whole"
               THEN [link EXCEPT ![c] = Append(link[c], OnWire(packet[c]))]
               ELSE link
    /\ UNCHANGED <<rxVars, path, rxUp>>

\* What may be under way on connection c when the process ends, maybe inside
\* the send loop of its tx_chain.
LastWords(c) ==
    {link[c]} \cup
    IF tpc[c] = "send" /\ path[c] = "whole"
    THEN {Append(link[c], t) : t \in Torn(OnWire(packet[c]))} ELSE {}

TxEnds ==
    /\ \E l \in [Conns -> UNION {LastWords(c) : c \in Conns}] :
          /\ \A c \in Conns : l[c] \in LastWords(c)
          /\ link' = l
    /\ UNCHANGED <<path, rxVars, rxUp>>

\* Mutant: SIGPIPE is ignored, and the send loop goes round for ever.
SendRetries(c) == path[c] = "reset" /\ tpc[c] = "send" /\ UNCHANGED vars

SendFails(c) == path[c] = "reset" /\ Tx!TxSendFails(c) /\ TxEnds

ConnectFails == ~rxUp /\ Tx!SetLinkFails /\ TxEnds

Queuer == TxDoes(Tx!QueuerLoop)

GetPayload == TxDoes(Tx!GetPayload)

Controller ==
    \/ Connect \/ ConnectFails
    \/ TxDoes(Tx!CreateChain) \/ TxDoes(Tx!Join)

TxChain(c) ==
    \/ Send(c) \/ SendFails(c)
    \/ TxDoes(Tx!TxLock(c)) \/ TxDoes(Tx!TxCopy(c)) \/ TxDoes(Tx!TxAdvance(c))
    \/ TxDoes(Tx!TxEmpty(c)) \/ TxDoes(Tx!TxClose(c))

-----------------------------------------------------------------------------
(* The receiver proxy                                                      *)

RxDoes(A) == rxUp /\ ~Void /\ A /\ UNCHANGED <<txVars, path, rxUp>>

RxChain(c) == RxDoes(Rx!RxChain(c))

Forward == RxDoes(Rx!ForwardLoop)

\* The destination has gone: forward_data's send() returns -1 and is called
\* again, and SIGPIPE ends the process; or undefined behaviour ends it.  Its
\* connections end with it.
RxDies ==
    /\ rxUp
    /\ \/ /\ DestMayGo /\ NoFaultYet
          /\ fpc = "send" /\ count < pack_cnt
       \/ ub # {}
    /\ rxUp' = FALSE
    /\ path' = [c \in Conns |-> IF conn[c] = "none" \/ path[c] = "reset"
                                THEN path[c] ELSE "cut"]
    /\ link' = [c \in Conns |-> << >>]
    /\ UNCHANGED <<txVars, conn, rxVars>>

-----------------------------------------------------------------------------
(* The network                                                             *)

Cut(c) ==
    /\ c \in Cuttable /\ NoFaultYet /\ conn[c] # "none"
    /\ path' = [path EXCEPT ![c] = "cut"]
    /\ conn' = [conn EXCEPT ![c] = "fin"]
    /\ \E r \in Remains(link[c]) : link' = [link EXCEPT ![c] = r]
    /\ UNCHANGED <<txVars, rxVars, rxUp>>

\* The RST that answers what is sent on a cut connection.
ResetArrives(c) ==
    /\ path[c] = "cut"
    /\ path' = [path EXCEPT ![c] = "reset"]
    /\ UNCHANGED <<txVars, conn, rxVars, link, rxUp>>

-----------------------------------------------------------------------------
Next ==
    \/ Queuer \/ GetPayload \/ Controller \/ Forward \/ RxDies
    \/ \E c \in Conns :
          TxChain(c) \/ RxChain(c) \/ Cut(c) \/ ResetArrives(c)

Spec == Init /\ [][Next]_vars

\* Each proxy's threads go on as in its own specification, and a transmitter
\* that sends on a cut connection is told so in the end.
Fairness ==
    /\ WF_vars(Queuer) /\ WF_vars(GetPayload) /\ WF_vars(Controller)
    /\ SF_vars(TxDoes(Tx!AddLock)) /\ SF_vars(TxDoes(Tx!SetFin))
    /\ WF_vars(Forward)
    /\ SF_vars(RxDoes(Rx!ForwardLock)) /\ SF_vars(RxDoes(Rx!Relock))
    /\ \A c \in Conns :
          /\ WF_vars(TxChain(c)) /\ SF_vars(TxDoes(Tx!TxLock(c)))
          /\ WF_vars(RxChain(c)) /\ SF_vars(RxDoes(Rx!LockPool(c)))
          /\ WF_vars(ResetArrives(c))

FairSpec == Spec /\ Fairness

-----------------------------------------------------------------------------
(* Properties                                                              *)

\* The bytes of block b as tx_chain sent them.
PayloadOf(b) ==
    LET c == CHOOSE d \in Conns : \E k \in DOMAIN txLink[d] :
                Tx!BlkNum(txLink[d][k]) = b
        k == CHOOSE k \in DOMAIN txLink[c] : Tx!BlkNum(txLink[c][k]) = b
    IN  txLink[c][k].data

\* The bytes forward_data has sent, BLOCKSIZE for each packet.
BytesOut ==
    [k \in 1 .. Len(dest) * BLOCKSIZE |->
        LET n == (k - 1) \div BLOCKSIZE + 1
        IN  PayloadOf(dest[n].blk)[wire[n][((k - 1) % BLOCKSIZE) + 1]]]

Pipe == INSTANCE BytePipe WITH
            in <- taken, ended <- closing, void <- Void,
            out <- IF Void THEN << >> ELSE BytesOut

\* The pair of proxies is a pipe for the byte stream: blocks over any
\* connection, in any order, with connections cut between packets and
\* processes ending, come out in order, each once, whole, and padded only at
\* the end of the stream.
IsPipe == Pipe!Spec

\* The whole stream comes out, if no fault happens and the getter listens by
\* the time the queuer lets the SYN pass.
AllDelivered ==
    <>(\/ Void \/ ~NoFaultYet \/ syn = "refused"
       \/ Len(dest) = NBlocks)

\* When the receiver proxy has ended the transmitter proxy does not wait for
\* it for ever: it is told by a send() or connect() and ends too, or it has
\* nothing left to send.
StopSpreads == ~rxUp ~> cpc \in {"done", "exit"}
=============================================================================
