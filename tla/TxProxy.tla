------------------------------ MODULE TxProxy ------------------------------
(***************************************************************************)
(* The transmitter proxy (split.c): the getter thread (get_payload,        *)
(* split_loop) cuts the byte stream of the intercepted connection into     *)
(* blocks of BLOCKSIZE bytes and appends them to proxy_buff; run_controller*)
(* opens CONN_NUMBER connections to the receiver proxy and starts one      *)
(* tx_chain thread on each; a tx_chain takes the next block and sends it   *)
(* with the block's index as joint sequence number.  The queuer thread     *)
(* (queuer_loop, nfqueue_get_syn) gets the SYN of the intercepted          *)
(* connection from netfilter and lets it pass.                             *)
(*                                                                         *)
(* A byte is its offset in the stream, counted from 1; 0 is the '\0' that  *)
(* add2buff pads the last block with.  TCP is reliable and in order, so a  *)
(* packet is put on its link in one step although send() may take it in    *)
(* parts.  The state of a struct link is never set to PASSIVE, so the check*)
(* of it at the end of tx_chain's loop always goes round again.            *)
(***************************************************************************)
EXTENDS Integers, Sequences, FiniteSets

CONSTANTS
    CONN_NUMBER,       \* connections between the proxies
    BLOCKSIZE,         \* payload bytes of a packet
    INITIAL_CAPACITY,  \* slots proxy_buff starts with
    PTR_SIZE,          \* sizeof(char*)
    SEQ_MOD,           \* values of the unsigned short header field, 2^16
    StreamLen,         \* bytes the source sends before it closes
    NoOwner,           \* the mutex of proxy_buff is free
    Getter,            \* identity of the get_payload thread
    Faults,            \* which calls may fail, a subset of FaultKinds
    AssertAcceptFails  \* TRUE: split.c:504 as it stands, sockfd == -1;
                       \* FALSE: sockfd != -1, as after the other accepts

FaultKinds == {"nfq", "verdict", "nfrecv", "listen", "accept", "connect",
               "reset", "pollerr", "link"}

ASSUME TxConstants ==
    /\ CONN_NUMBER \in Nat \ {0} /\ BLOCKSIZE \in Nat \ {0}
    /\ INITIAL_CAPACITY \in Nat \ {0} /\ PTR_SIZE \in Nat \ {0}
    /\ SEQ_MOD \in Nat \ {0} /\ StreamLen \in Nat
    /\ NoOwner \notin Nat /\ Getter \notin Nat /\ NoOwner # Getter
    /\ Faults \subseteq FaultKinds
    /\ AssertAcceptFails \in BOOLEAN

Conns == 1 .. CONN_NUMBER

\* A block of memory: stream bytes, '\0' (0), or what malloc left (-1).
Bytes == [1 .. BLOCKSIZE -> -1 .. StreamLen]
Garbage == [k \in 1 .. BLOCKSIZE |-> -1]

\* encaps_packet_t
Packet == [seq : 0 .. SEQ_MOD - 1, data : Bytes]

VARIABLES
    qpc,         \* where the queuer is
    syn,         \* the SYN of the source: "sent" (again and again), "queued"
                 \* by netfilter, "accepted", "refused" (nobody listened)
    gpc,         \* where the getter is
    taken,       \* bytes of the stream it has received
    raw_buf,     \* the block it is receiving
    recv_count,  \* bytes of it received so far
    closing,     \* it is past CONN_CLOSE
    lock,        \* owner of buff->lock
    set_ind, get_ind, capacity, buffer, fin_flag,    \* proxy_buff
    cpc,         \* where run_controller is
    i,           \* its loop counter, the link it works on
    tpc,         \* where each tx_chain is
    packet,      \* the packet it holds
    link,        \* everything it has sent
    conn,        \* "none", "open" or "fin"
    failed       \* a system call has failed

synVars == <<qpc, syn>>
getVars == <<gpc, taken, raw_buf, recv_count, closing>>
buffVars == <<set_ind, get_ind, capacity, buffer, fin_flag>>
cntrlVars == <<cpc, i>>
chainVars == <<tpc, packet, link>>
vars == <<synVars, getVars, lock, buffVars, cntrlVars, chainVars, conn,
          failed>>

-----------------------------------------------------------------------------
\* set_split_args, set_controller_args
Init ==
    /\ qpc = "setup" /\ syn = "sent"
    /\ gpc = "setup" /\ taken = 0 /\ raw_buf = Garbage /\ recv_count = 0
    /\ closing = FALSE
    /\ lock = NoOwner
    /\ set_ind = -1 /\ get_ind = 0 /\ fin_flag = FALSE
    /\ capacity = INITIAL_CAPACITY
    /\ buffer = [k \in 0 .. INITIAL_CAPACITY - 1 |-> Garbage]
    /\ cpc = "connect" /\ i = 1
    /\ tpc = [c \in Conns |-> "none"]
    /\ packet = [c \in Conns |-> [seq |-> 0, data |-> Garbage]]
    /\ link = [c \in Conns |-> << >>]
    /\ conn = [c \in Conns |-> "none"]
    /\ failed = FALSE

\* LOG_ASSERT(expr): on a false expr the whole process exits, whatever its
\* threads are doing, and the kernel closes its connections.
Exit ==
    /\ qpc' = "exit" /\ gpc' = "exit" /\ cpc' = "exit"
    /\ tpc' = [c \in Conns |-> "exit"]
    /\ conn' = [c \in Conns |-> IF conn[c] = "open" THEN "fin" ELSE conn[c]]
    /\ UNCHANGED <<syn, taken, raw_buf, recv_count, closing, lock, buffVars,
                   i, packet, link>>

-----------------------------------------------------------------------------
(* queuer_loop and nfqueue_get_syn                                         *)

\* nfq_open, nfq_bind_pf, nfq_create_queue, nfq_set_mode.
QueuerSetup ==
    /\ qpc = "setup"
    /\ qpc' = "recv"
    /\ UNCHANGED <<syn, getVars, lock, buffVars, cntrlVars, chainVars, conn,
                   failed>>

\* One of them fails: exit(0), of the whole process.
QueuerSetupFails ==
    /\ qpc = "setup" /\ "nfq" \in Faults
    /\ failed' = TRUE
    /\ Exit

\* The kernel puts the SYN into the queue; while no handler is bound it drops
\* it, and the source sends it again.
SynQueued ==
    /\ qpc = "recv" /\ syn = "sent"
    /\ syn' = "queued"
    /\ UNCHANGED <<qpc, getVars, lock, buffVars, cntrlVars, chainVars, conn,
                   failed>>

\* Mutant: the callback gives no verdict.
VerdictNone == "queued"

\* Where an accepted SYN gets: to the getter, if it listens by now.
Verdict == IF gpc = "setup" THEN "refused" ELSE "accepted"

\* recv() and nfq_handle_packet, which calls nfqueue_get_syn: NF_ACCEPT.
GetSyn ==
    /\ qpc = "recv" /\ syn = "queued"
    /\ syn' = Verdict
    /\ UNCHANGED <<qpc, getVars, lock, buffVars, cntrlVars, chainVars, conn,
                   failed>>

\* "nfq_set_verdict to NF_ACCEPT failed", and nothing else is done about it.
GetSynFails ==
    /\ qpc = "recv" /\ syn = "queued" /\ "verdict" \in Faults /\ ~failed
    /\ syn' = "sent"
    /\ failed' = TRUE
    /\ UNCHANGED <<qpc, getVars, lock, buffVars, cntrlVars, chainVars, conn>>

\* recv() returns -1: the loop ends and nfq_close drops what is queued.
QueuerFails ==
    /\ qpc = "recv" /\ "nfrecv" \in Faults
    /\ qpc' = "closed"
    /\ syn' = IF syn = "queued" THEN "sent" ELSE syn
    /\ failed' = TRUE
    /\ UNCHANGED <<getVars, lock, buffVars, cntrlVars, chainVars, conn>>

-----------------------------------------------------------------------------
(* get_payload and split_loop                                              *)

\* The socket of get_payload, and listen() of split_loop.
GetterSetup ==
    /\ gpc = "setup"
    /\ gpc' = "accept"
    /\ UNCHANGED <<synVars, taken, raw_buf, recv_count, closing, lock,
                   buffVars, cntrlVars, chainVars, conn, failed>>

GetterSetupFails ==
    /\ gpc = "setup" /\ "listen" \in Faults
    /\ failed' = TRUE
    /\ Exit

\* accept() succeeds.
Accept ==
    /\ gpc = "accept" /\ syn = "accepted"
    /\ IF AssertAcceptFails
       THEN Exit /\ UNCHANGED failed
       ELSE /\ gpc' = "poll"
            /\ UNCHANGED <<synVars, taken, raw_buf, recv_count, closing, lock,
                           buffVars, cntrlVars, chainVars, conn, failed>>

\* accept() returns -1.  poll() ignores a negative descriptor, so a getter
\* that goes on waits for ever.
AcceptFails ==
    /\ gpc = "accept" /\ "accept" \in Faults
    /\ failed' = TRUE
    /\ IF AssertAcceptFails
       THEN /\ gpc' = "stuck"
            /\ UNCHANGED <<synVars, taken, raw_buf, recv_count, closing, lock,
                           buffVars, cntrlVars, chainVars, conn>>
       ELSE Exit

\* The source has sent something or has closed: revents is POLLIN.
PollIn ==
    /\ gpc = "poll"
    /\ gpc' = "recv"
    /\ recv_count' = 0 /\ raw_buf' = Garbage
    /\ UNCHANGED <<synVars, taken, closing, lock, buffVars, cntrlVars,
                   chainVars, conn, failed>>

\* revents is POLLERR alone.
PollErr ==
    /\ gpc = "poll" /\ "pollerr" \in Faults
    /\ gpc' = "fin" /\ recv_count' = 0 /\ closing' = TRUE
    /\ failed' = TRUE
    /\ UNCHANGED <<synVars, taken, raw_buf, lock, buffVars, cntrlVars,
                   chainVars, conn>>

\* A reset source: POLLIN | POLLERR | POLLHUP equals neither of the values
\* revents is compared with, and poll() returns it again and again.
PollReset ==
    /\ gpc = "poll" /\ "reset" \in Faults
    /\ gpc' = "stuck" /\ recv_count' = 0
    /\ failed' = TRUE
    /\ UNCHANGED <<synVars, taken, raw_buf, closing, lock, buffVars,
                   cntrlVars, chainVars, conn>>

\* Mutant: recv() is offered the whole block again.
RecvSizesWhole == 1 .. BLOCKSIZE

\* What one recv() of split_loop may return.
RecvSizes == 1 .. BLOCKSIZE - recv_count

RecvSome ==
    /\ gpc = "recv" /\ recv_count < BLOCKSIZE
    /\ \E n \in RecvSizes :
          /\ taken + n <= StreamLen
          /\ raw_buf' = [k \in 1 .. BLOCKSIZE |->
                            IF k \in recv_count + 1 .. recv_count + n
                            THEN taken + k - recv_count ELSE raw_buf[k]]
          /\ recv_count' = recv_count + n
          /\ taken' = taken + n
          /\ gpc' = IF recv_count + n = BLOCKSIZE THEN "add" ELSE "recv"
    /\ UNCHANGED <<synVars, closing, lock, buffVars, cntrlVars, chainVars,
                   conn, failed>>

\* recv() returns 0 at the end of the stream, or -1 after a reset: CONN_CLOSE
\* adds what there is of a block, padded with '\0'.
RecvEnd ==
    /\ gpc = "recv"
    /\ \/ taken = StreamLen /\ UNCHANGED failed
       \/ "reset" \in Faults /\ failed' = TRUE
    /\ closing' = TRUE
    /\ gpc' = IF recv_count > 0 THEN "add" ELSE "fin"
    /\ UNCHANGED <<synVars, taken, raw_buf, recv_count, lock, buffVars,
                   cntrlVars, chainVars, conn>>

(* add2buff: pad and lock; extend; set_ind++; store and unlock.            *)

\* Mutant: the tail of the last block is left as it was allocated.
Unpadded == raw_buf

\* "fill remaining as NULL, if residue"
Padded == [k \in 1 .. BLOCKSIZE |-> IF k > recv_count THEN 0 ELSE raw_buf[k]]

AddLock ==
    /\ gpc = "add" /\ lock = NoOwner
    /\ raw_buf' = Padded
    /\ lock' = Getter
    /\ gpc' = "extend"
    /\ UNCHANGED <<synVars, taken, recv_count, closing, buffVars, cntrlVars,
                   chainVars, conn, failed>>

\* Mutant: the capacity is compared with set_ind itself.
RemainsTooLittleLate == capacity - set_ind < 1

\* "check capacity overflow"
RemainsTooLittle == capacity - set_ind < 2 * PTR_SIZE

AddExtend ==
    /\ gpc = "extend"
    /\ gpc' = "setind"
    /\ IF RemainsTooLittle
       THEN /\ capacity' = 2 * capacity
            /\ buffer' = [k \in 0 .. 2 * capacity - 1 |->
                            IF k < capacity THEN buffer[k] ELSE Garbage]
       ELSE UNCHANGED <<capacity, buffer>>
    /\ UNCHANGED <<synVars, taken, raw_buf, recv_count, closing, lock,
                   set_ind, get_ind, fin_flag, cntrlVars, chainVars, conn,
                   failed>>

AddSetInd ==
    /\ gpc = "setind"
    /\ set_ind' = set_ind + 1
    /\ gpc' = "store"
    /\ UNCHANGED <<synVars, taken, raw_buf, recv_count, closing, lock,
                   get_ind, capacity, buffer, fin_flag, cntrlVars, chainVars,
                   conn, failed>>

AddStore ==
    /\ gpc = "store"
    /\ buffer' = [buffer EXCEPT ![set_ind] = raw_buf]
    /\ lock' = NoOwner
    /\ gpc' = IF closing THEN "fin" ELSE "poll"
    /\ UNCHANGED <<synVars, taken, raw_buf, recv_count, closing, set_ind,
                   get_ind, capacity, fin_flag, cntrlVars, chainVars, conn,
                   failed>>

\* "no more interception": fin_flag is set under the lock.
SetFin ==
    /\ gpc = "fin" /\ lock = NoOwner
    /\ fin_flag' = TRUE
    /\ gpc' = "done"
    /\ UNCHANGED <<synVars, taken, raw_buf, recv_count, closing, lock,
                   set_ind, get_ind, capacity, buffer, cntrlVars, chainVars,
                   conn, failed>>

-----------------------------------------------------------------------------
(* run_controller                                                          *)

\* set_link
SetLink ==
    /\ cpc = "connect" /\ i \in Conns
    /\ conn' = [conn EXCEPT ![i] = "open"]
    /\ cpc' = "create"
    /\ UNCHANGED <<synVars, getVars, lock, buffVars, i, chainVars, failed>>

SetLinkFails ==
    /\ cpc = "connect" /\ i \in Conns /\ "connect" \in Faults
    /\ failed' = TRUE
    /\ Exit

\* sleep(1) and pthread_create of tx_chain.
CreateChain ==
    /\ cpc = "create"
    /\ tpc' = [tpc EXCEPT ![i] = "lock"]
    /\ i' = i + 1
    /\ cpc' = IF i = CONN_NUMBER THEN "join" ELSE "connect"
    /\ UNCHANGED <<synVars, getVars, lock, buffVars, packet, link, conn,
                   failed>>

\* pthread_join of every tx_chain.
Join ==
    /\ cpc = "join" /\ \A c \in Conns : tpc[c] = "done"
    /\ cpc' = "done"
    /\ UNCHANGED <<synVars, getVars, lock, buffVars, i, chainVars, conn,
                   failed>>

-----------------------------------------------------------------------------
(* tx_chain                                                                *)

\* Mutant: tx_chain does not wait for the mutex.
TxLockUnlocked(c) ==
    /\ tpc[c] = "lock"
    /\ lock' = c
    /\ tpc' = [tpc EXCEPT ![c] = "locked"]
    /\ UNCHANGED <<synVars, getVars, buffVars, cntrlVars, packet, link, conn,
                   failed>>

TxLock(c) ==
    /\ tpc[c] = "lock" /\ lock = NoOwner
    /\ lock' = c
    /\ tpc' = [tpc EXCEPT ![c] = "locked"]
    /\ UNCHANGED <<synVars, getVars, buffVars, cntrlVars, packet, link, conn,
                   failed>>

\* Mutant: a block may be taken only when another one follows it.
HasBlockButLast == set_ind - get_ind > 0

\* diff >= 0
HasBlock == set_ind - get_ind >= 0

\* memcpy of the block, and its index as sequence number.
TxCopy(c) ==
    /\ tpc[c] = "locked" /\ HasBlock
    /\ packet' = [packet EXCEPT ![c] = [seq |-> get_ind % SEQ_MOD,
                                        data |-> buffer[get_ind]]]
    /\ tpc' = [tpc EXCEPT ![c] = "advance"]
    /\ UNCHANGED <<synVars, getVars, lock, buffVars, cntrlVars, link, conn,
                   failed>>

TxAdvance(c) ==
    /\ tpc[c] = "advance"
    /\ get_ind' = get_ind + 1
    /\ lock' = NoOwner
    /\ tpc' = [tpc EXCEPT ![c] = "send"]
    /\ UNCHANGED <<synVars, getVars, set_ind, capacity, buffer, fin_flag,
                   cntrlVars, packet, link, conn, failed>>

TxSend(c) ==
    /\ tpc[c] = "send"
    /\ link' = [link EXCEPT ![c] = Append(link[c], packet[c])]
    /\ tpc' = [tpc EXCEPT ![c] = "lock"]
    /\ UNCHANGED <<synVars, getVars, lock, buffVars, cntrlVars, packet, conn,
                   failed>>

\* The connection to the receiver proxy broke: send() returns -1, the loop
\* calls it again, and SIGPIPE, which nobody handles, ends the process.
TxSendFails(c) ==
    /\ tpc[c] = "send" /\ "link" \in Faults
    /\ failed' = TRUE
    /\ Exit

\* Mutant: an empty buffer ends the connection.
AfterNothing == "close"

\* Nothing to take: the end of the connection, or another round after a
\* second of sleep.
AfterEmpty == IF fin_flag THEN "close" ELSE "lock"

TxEmpty(c) ==
    /\ tpc[c] = "locked" /\ ~HasBlock
    /\ lock' = NoOwner
    /\ tpc' = [tpc EXCEPT ![c] = AfterEmpty]
    /\ UNCHANGED <<synVars, getVars, buffVars, cntrlVars, packet, link, conn,
                   failed>>

\* CONN_CLOSE
TxClose(c) ==
    /\ tpc[c] = "close"
    /\ conn' = [conn EXCEPT ![c] = "fin"]
    /\ tpc' = [tpc EXCEPT ![c] = "done"]
    /\ UNCHANGED <<synVars, getVars, lock, buffVars, cntrlVars, packet, link,
                   failed>>

-----------------------------------------------------------------------------
QueuerLoop == QueuerSetup \/ SynQueued \/ GetSyn

GetPayload ==
    \/ GetterSetup \/ Accept \/ PollIn \/ RecvSome \/ RecvEnd
    \/ AddLock \/ AddExtend \/ AddSetInd \/ AddStore \/ SetFin

RunController == SetLink \/ CreateChain \/ Join

TxChain(c) ==
    \/ TxLock(c) \/ TxCopy(c) \/ TxAdvance(c) \/ TxSend(c)
    \/ TxEmpty(c) \/ TxClose(c)

\* A call fails.
Fault ==
    \/ QueuerSetupFails \/ GetSynFails \/ QueuerFails
    \/ GetterSetupFails \/ AcceptFails \/ PollErr \/ PollReset
    \/ SetLinkFails \/ \E c \in Conns : TxSendFails(c)

Next ==
    \/ QueuerLoop \/ GetPayload \/ RunController
    \/ \E c \in Conns : TxChain(c)
    \/ Fault

Spec == Init /\ [][Next]_vars

\* Every thread that can go on does; the source sends its SYN until it is let
\* through, then its stream, and closes.  No call has to fail.
\* A tx_chain that found nothing sleeps a second without the mutex, and one
\* that found a block sends it without the mutex, so whoever waits gets it.
Fairness ==
    /\ WF_vars(QueuerLoop) /\ WF_vars(GetPayload) /\ WF_vars(RunController)
    /\ SF_vars(AddLock) /\ SF_vars(SetFin)
    /\ \A c \in Conns : /\ WF_vars(TxChain(c))
                        /\ SF_vars(TxLock(c))

FairSpec == Spec /\ Fairness

-----------------------------------------------------------------------------
(* Properties                                                              *)

GetterStates == {"setup", "accept", "poll", "recv", "add", "extend", "setind",
                 "store", "fin", "done", "stuck", "exit"}
ChainStates == {"none", "lock", "locked", "advance", "send", "close", "done",
                "exit"}

SynTypeOK ==
    /\ qpc \in {"setup", "recv", "closed", "exit"}
    /\ syn \in {"sent", "queued", "accepted", "refused"}
    /\ failed \in BOOLEAN

GetTypeOK ==
    /\ gpc \in GetterStates /\ closing \in BOOLEAN
    /\ taken \in 0 .. StreamLen /\ recv_count \in 0 .. BLOCKSIZE
    /\ raw_buf \in Bytes

BuffTypeOK ==
    /\ lock \in Conns \cup {Getter, NoOwner}
    /\ set_ind \in Nat \cup {-1} /\ get_ind \in Nat /\ capacity \in Nat
    /\ buffer \in [0 .. capacity - 1 -> Bytes]
    /\ fin_flag \in BOOLEAN

ChainTypeOK ==
    /\ cpc \in {"connect", "create", "join", "done", "exit"}
    /\ i \in 1 .. CONN_NUMBER + 1
    /\ tpc \in [Conns -> ChainStates] /\ packet \in [Conns -> Packet]
    /\ link \in [Conns -> Seq(Packet)]
    /\ conn \in [Conns -> {"none", "open", "fin"}]

\* The types of proxy_buff and of the threads' locals.
TypeOK == SynTypeOK /\ GetTypeOK /\ BuffTypeOK /\ ChainTypeOK

\* buff->buffer[set_ind] is a slot add2buff allocated, in spite of its own
\* reckoning of the capacity in sizes of pointers, and no tx_chain runs ahead
\* of the slots that hold a block.
SlotInBounds == set_ind < capacity /\ get_ind <= set_ind + 1

\* Block b of the first n bytes of the stream, padded if it is the last.
BlockOf(b, n) == [k \in 1 .. BLOCKSIZE |->
                    IF b * BLOCKSIZE + k <= n THEN b * BLOCKSIZE + k ELSE 0]

\* The number of a block is that of its first byte's.
BlkNum(p) == (p.data[1] - 1) \div BLOCKSIZE

\* What is on a link, or in the hands of a tx_chain that has not sent it.
Taken(c) == IF tpc[c] \in {"advance", "send"} THEN Append(link[c], packet[c])
            ELSE link[c]

\* A packet carries the bytes of the stream its sequence number says, whole
\* and in order; only the last block of a stream that ended is padded.
PacketsCutStream ==
    \A c \in Conns : \A k \in DOMAIN Taken(c) :
        LET p == Taken(c)[k] IN
        /\ p.seq = BlkNum(p) % SEQ_MOD
        /\ p.data = BlockOf(BlkNum(p), taken)
        /\ p.data[BLOCKSIZE] = 0 => closing

\* Every block get_ind has passed is with exactly one tx_chain, once, and
\* each link carries its blocks in rising order (RxProxy!LinkInit), as long
\* as the process lives.
EachBlockOnce ==
    (lock = NoOwner /\ gpc # "exit") =>
    /\ {BlkNum(Taken(x[1])[x[2]]) : x \in
            {y \in Conns \X (1 .. get_ind) : y[2] <= Len(Taken(y[1]))}}
          = 0 .. get_ind - 1
    /\ \A c, d \in Conns : \A k \in DOMAIN Taken(c), m \in DOMAIN Taken(d) :
          BlkNum(Taken(c)[k]) = BlkNum(Taken(d)[m]) => c = d
    /\ \A c \in Conns : \A k, m \in DOMAIN Taken(c) :
          k < m => BlkNum(Taken(c)[k]) < BlkNum(Taken(c)[m])

\* A tx_chain closes its connection only when the stream has ended and every
\* block of it has been taken.
CloseOnlyDrained ==
    \A c \in Conns : tpc[c] \in {"close", "done"} =>
        /\ fin_flag /\ get_ind = set_ind + 1
        /\ ~failed => get_ind * BLOCKSIZE >= StreamLen

\* The stream ends with every byte of it on the links and every connection
\* closed, unless a call fails and with it the process exits or the getter
\* spins, or the getter waits for a SYN that will not wake it: the handler
\* closed the queue before it accepted one, or accepted one before the getter
\* listened.
AllRelayed ==
    <>(\/ failed /\ gpc \in {"exit", "stuck"}
       \/ /\ gpc = "accept"
          /\ (qpc = "closed" /\ syn # "accepted") \/ syn = "refused"
       \/ /\ cpc = "done" /\ \A c \in Conns : conn[c] = "fin"
          /\ get_ind * BLOCKSIZE >= taken
          /\ failed \/ taken = StreamLen)

\* LOG_ASSERT ends the process only when a call has failed.
ExitsOnFailure == gpc = "exit" => failed
=============================================================================
