------------------------------ MODULE RxProxy ------------------------------
(***************************************************************************)
(* The receiver proxy: accept_loop (boss_server.c) starts one rx_chain     *)
(* thread (link_receptor.c) per connection; each one hands the packets it  *)
(* reads to the shared pool (a mutex and a priority queue); one forwarder  *)
(* thread (forward.c) takes runs of consecutive sequence numbers out of    *)
(* the pool and sends them to the end destination.                         *)
(*                                                                         *)
(* The mutex is modelled as glibc builds it for a default mutex: an unlock *)
(* frees it whoever holds it.  That matters because forward_loop calls     *)
(* pthread_cond_timedwait without owning the mutex from its second round   *)
(* on.  A data race on the heap and a write past fq->buffer are undefined  *)
(* behaviour: `ub` records them, and from then on a heap operation may     *)
(* leave any collection of the nodes ever inserted (nodes are never freed) *)
(* in the queue.  A crash needs no action: it is the process stopping.     *)
(***************************************************************************)
EXTENDS Integers, Sequences, FiniteSets

CONSTANTS
    Conns,           \* the TCP connections between the proxies
    Forwarder,       \* identity of the wait2forward thread
    NoOwner,         \* the pool mutex is free
    NBlocks,         \* number of blocks the transmitter proxy sends
    SEQ_MOD,         \* values of the unsigned short header field, 2^16
    BLOCKSIZE,       \* payload bytes of a packet
    PTR_SIZE,        \* sizeof(char*)
    INIT_QUEUE_SIZE, \* initial value of fq->byte_capacity
    ShortSends,      \* may send() to the destination take only a part?
    CutConns         \* connections that may break off inside a packet

ASSUME ConstantsAssumption ==
    /\ Forwarder \notin Conns /\ NoOwner \notin Conns /\ Forwarder # NoOwner
    /\ NBlocks \in Nat /\ SEQ_MOD \in Nat \ {0}
    /\ BLOCKSIZE \in Nat \ {0} /\ PTR_SIZE \in Nat \ {0}
    /\ PTR_SIZE <= 10 * BLOCKSIZE
    /\ INIT_QUEUE_SIZE \in Nat
    /\ ShortSends \in BOOLEAN
    /\ CutConns \subseteq Conns

Blocks == 0 .. NBlocks - 1

\* encaps_packet_t: the header and which block of the stream the payload is.
\* A packet the connection broke off in is queued with an undefined tail.
Packet == [seq : 0 .. SEQ_MOD - 1, blk : Blocks, whole : BOOLEAN]

\* What tx_chain puts on the wire for block b: (unsigned short) get_ind.
Pkt(b) == [seq |-> b % SEQ_MOD, blk |-> b, whole |-> TRUE]

NoPacket == [seq |-> -1, blk |-> -1, whole |-> FALSE]

VARIABLES
    link,           \* packets sent and not yet read, per connection
    conn,           \* "none", "open" or "fin" (the transmitter closed it)
    lost,           \* blocks that went down with their connection
    rpc,            \* where each rx_chain thread is
    raw,            \* its raw_buf
    lock,           \* owner of pl->lock
    pq,             \* pl->pq, the packets in the heap
    avail_min_seq,  \* pl->avail_min_seq
    sent_min_seq,   \* pl->sent_min_seq
    fpc,            \* where the forwarder is
    fbuf,           \* fq->buffer, the packets written into it
    sent,           \* fq->sent
    byte_count,     \* fq->byte_count
    byte_capacity,  \* fq->byte_capacity
    alloc,          \* bytes really allocated for fq->buffer
    pack_cnt,       \* result of fill_queue
    count,          \* packets of fbuf forward_data has finished
    cur,            \* payload offsets sent of the packet in progress
    dest,           \* packets completely sent to the destination
    wire,           \* the payload offsets sent for each of them
    arrived,        \* every packet ever inserted into the pool
    stolen,         \* a wait released the mutex while another thread held it
    ub              \* undefined behaviour that has happened

linkVars == <<link, conn, lost>>
chainVars == <<rpc, raw>>
minSeqs == <<avail_min_seq, sent_min_seq>>
fillVars == <<fbuf, byte_count, byte_capacity, alloc, pack_cnt>>
sendVars == <<sent, count, cur, dest, wire>>
vars == <<linkVars, chainVars, lock, pq, minSeqs, fpc, fillVars, sendVars,
          arrived, stolen, ub>>

-----------------------------------------------------------------------------
\* Every distribution of the blocks over the connections: a block travels on
\* one connection, and each connection carries its blocks in rising order.
RisingSeqs ==
    {s \in UNION {[1 .. n -> {Pkt(b) : b \in Blocks}] : n \in 0 .. NBlocks} :
        \A i, j \in DOMAIN s : i < j => s[i].blk < s[j].blk}

LinkInit ==
    /\ link \in [Conns -> RisingSeqs]
    /\ \A c, d \in Conns : \A i \in DOMAIN link[c], j \in DOMAIN link[d] :
            link[c][i].blk = link[d][j].blk => c = d
    /\ \A b \in Blocks : \E c \in Conns : \E i \in DOMAIN link[c] :
            link[c][i].blk = b
    /\ conn = [c \in Conns |-> "fin"] /\ lost = {}

\* The blocks under way on connection c.
OnLink(c) == {link[c][i].blk : i \in DOMAIN link[c]}

\* pool_init, and wait2forward up to forward_loop.
PoolInit ==
    /\ lock = NoOwner
    /\ pq = {}
    /\ avail_min_seq = 0
    /\ sent_min_seq = 0
    /\ rpc = [c \in Conns |-> "backlog"]
    /\ raw = [c \in Conns |-> NoPacket]

ForwardInit ==
    /\ fpc = "start"
    /\ fbuf = << >> /\ pack_cnt = -1 /\ alloc = 0
    /\ byte_count = 0 /\ byte_capacity = INIT_QUEUE_SIZE
    /\ sent = -1
    /\ count = 0 /\ cur = << >> /\ dest = << >> /\ wire = << >>

Init ==
    /\ LinkInit /\ PoolInit /\ ForwardInit
    /\ arrived = {} /\ stolen = FALSE /\ ub = {}

-----------------------------------------------------------------------------
(* The priority queue, as its callers see it (PQueue models the heap).     *)

\* The packets pqueue_pop may return.
Mins == {p \in pq : \A q \in pq : p.seq <= q.seq}

\* Threads in the middle of an operation on the heap.
InHeap == {c \in Conns : rpc[c] = "insert"}
            \cup (IF fpc \in {"fill", "fillmore"} THEN {Forwarder} ELSE {})

Race(t) == IF InHeap \subseteq {t} THEN {} ELSE {"race"}

\* The heap after an undefined step can hold, and return, any node.
Corrupt(t) == ub # {} \/ Race(t) # {}

\* Mutant: pqueue_pop leaves its result in the heap.
PopResultsKept(t) == {[head |-> p, rest |-> pq] : p \in Mins}

PopResults(t) ==
    IF Corrupt(t) THEN [head : arrived, rest : SUBSET arrived]
    ELSE {[head |-> p, rest |-> pq \ {p}] : p \in Mins}

PopsNull(t) == pq = {} \/ Corrupt(t)

-----------------------------------------------------------------------------
(* accept_loop and rx_chain                                                *)

Accept(c) ==
    /\ rpc[c] = "backlog" /\ conn[c] # "none"
    /\ rpc' = [rpc EXCEPT ![c] = "poll"]
    /\ UNCHANGED <<linkVars, raw, lock, pq, minSeqs, fpc, fillVars, sendVars,
                   arrived, stolen, ub>>

\* poll() > 0 and the recv loop up to PACKET_SIZE bytes.
Receive(c) ==
    /\ rpc[c] = "poll" /\ link[c] # << >>
    /\ raw' = [raw EXCEPT ![c] = Head(link[c])]
    /\ link' = [link EXCEPT ![c] = Tail(link[c])]
    /\ rpc' = [rpc EXCEPT ![c] = "lock"]
    /\ UNCHANGED <<conn, lost, lock, pq, minSeqs, fpc, fillVars, sendVars,
                   arrived, stolen, ub>>

\* recv() returns 0 with recv_count > 0: COMPLETE still queues raw_buf, whose
\* tail (or, after one byte, header) malloc left undefined.
ReceiveCut(c) ==
    /\ rpc[c] = "poll" /\ link[c] # << >> /\ c \in CutConns
    /\ \E s \in 0 .. SEQ_MOD - 1 :
          raw' = [raw EXCEPT ![c] =
                    [seq |-> s, blk |-> Head(link[c]).blk, whole |-> FALSE]]
    /\ link' = [link EXCEPT ![c] = << >>]
    /\ conn' = [conn EXCEPT ![c] = "fin"]
    /\ lost' = lost \cup OnLink(c)
    /\ rpc' = [rpc EXCEPT ![c] = "lock"]
    /\ UNCHANGED <<lock, pq, minSeqs, fpc, fillVars, sendVars,
                   arrived, stolen, ub>>

\* recv() returns 0 at a packet boundary: the transmitter closed, or the
\* connection broke off and what was under way on it is gone.
Complete(c) ==
    /\ rpc[c] = "poll"
    /\ \/ link[c] = << >> /\ conn[c] = "fin"
       \/ c \in CutConns
    /\ link' = [link EXCEPT ![c] = << >>]
    /\ conn' = [conn EXCEPT ![c] = "fin"]
    /\ lost' = lost \cup OnLink(c)
    /\ rpc' = [rpc EXCEPT ![c] = "done"]
    /\ UNCHANGED <<raw, lock, pq, minSeqs, fpc, fillVars, sendVars,
                   arrived, stolen, ub>>

(* add2queue: lock, insert, update and unlock, signal.                     *)
\* Mutant: add2queue does not wait for the mutex.
LockPoolUnlocked(c) ==
    /\ rpc[c] = "lock"
    /\ lock' = c
    /\ rpc' = [rpc EXCEPT ![c] = "insert"]
    /\ UNCHANGED <<linkVars, raw, pq, minSeqs, fpc, fillVars, sendVars,
                   arrived, stolen, ub>>

LockPool(c) ==
    /\ rpc[c] = "lock" /\ lock = NoOwner
    /\ lock' = c
    /\ rpc' = [rpc EXCEPT ![c] = "insert"]
    /\ UNCHANGED <<linkVars, raw, pq, minSeqs, fpc, fillVars, sendVars,
                   arrived, stolen, ub>>

Insert(c) ==
    /\ rpc[c] = "insert"
    /\ arrived' = arrived \cup {raw[c]}
    /\ ub' = ub \cup Race(c)
    /\ pq' \in IF Corrupt(c) THEN SUBSET arrived' ELSE {pq \cup {raw[c]}}
    /\ rpc' = [rpc EXCEPT ![c] = "update"]
    /\ UNCHANGED <<linkVars, raw, lock, minSeqs, fpc, fillVars, sendVars,
                   stolen>>

\* Which of the two unlock branches add2queue takes.
WantsSignal(p) == sent_min_seq + 1 = p.seq

\* Back to the poll loop, or out of it after the rest of a broken packet.
AfterAdd(p) == IF p.whole THEN "poll" ELSE "done"

UpdateUnlock(c) ==
    /\ rpc[c] = "update"
    /\ avail_min_seq' = IF avail_min_seq + 1 = raw[c].seq
                        THEN avail_min_seq + 1 ELSE avail_min_seq
    /\ lock' = NoOwner
    /\ rpc' = [rpc EXCEPT ![c] = IF WantsSignal(raw[c]) THEN "signal"
                                 ELSE AfterAdd(raw[c])]
    /\ UNCHANGED <<linkVars, raw, pq, sent_min_seq, fpc, fillVars, sendVars,
                   arrived, stolen, ub>>

\* pthread_cond_signal: the deadline of the only waiter has always passed
\* already, so the signal changes nothing.
Signal(c) ==
    /\ rpc[c] = "signal"
    /\ rpc' = [rpc EXCEPT ![c] = AfterAdd(raw[c])]
    /\ UNCHANGED <<linkVars, raw, lock, pq, minSeqs, fpc, fillVars, sendVars,
                   arrived, stolen, ub>>

-----------------------------------------------------------------------------
(* forward_loop                                                            *)

ForwardLock ==
    /\ fpc = "start" /\ lock = NoOwner
    /\ lock' = Forwarder
    /\ fpc' = "wait"
    /\ UNCHANGED <<linkVars, chainVars, pq, minSeqs, fillVars, sendVars,
                   arrived, stolen, ub>>

\* sleep(WAIT_TIME), then pthread_cond_timedwait with a deadline that has
\* passed: it releases the mutex, whoever holds it, and queues for it again.
TimedWait ==
    /\ fpc = "wait"
    /\ stolen' = (stolen \/ lock \in Conns)
    /\ lock' = NoOwner
    /\ fpc' = "relock"
    /\ UNCHANGED <<linkVars, chainVars, pq, minSeqs, fillVars, sendVars,
                   arrived, ub>>

Relock ==
    /\ fpc = "relock" /\ lock = NoOwner
    /\ lock' = Forwarder
    /\ fpc' = "fill"
    /\ UNCHANGED <<linkVars, chainVars, pq, minSeqs, fillVars, sendVars,
                   arrived, stolen, ub>>

\* Mutant: the packet that ends a run, or is not next, is not put back.
PutBackDropped(r) == r.rest

\* pqueue_insert of the packet just popped.
PutBack(r) == r.rest \cup {r.head}

\* Mutant: a gap in the sequence numbers is accepted.
IsLater(p, k) == p.seq > sent + k

\* Is p the next packet to send after k packets of the current run?
IsNext(p, k) == p.seq = sent + k + 1

\* fill_queue returns -1: the heap is empty, or its head is not the next
\* packet and goes back.
FillNothing ==
    /\ fpc = "fill"
    /\ \/ PopsNull(Forwarder) /\ UNCHANGED pq
       \/ \E r \in PopResults(Forwarder) :
             /\ ~IsNext(r.head, 0)
             /\ pq' = PutBack(r)
    /\ fbuf' = << >> /\ alloc' = 10 * BLOCKSIZE
    /\ pack_cnt' = -1
    /\ ub' = ub \cup Race(Forwarder)
    /\ fpc' = "unlock"
    /\ UNCHANGED <<linkVars, chainVars, lock, minSeqs, byte_count,
                   byte_capacity, sendVars, arrived, stolen>>

\* fill_queue up to its loop: the head is the next packet.
FillFirst ==
    /\ fpc = "fill"
    /\ \E r \in PopResults(Forwarder) :
          /\ IsNext(r.head, 0)
          /\ pq' = r.rest
          /\ fbuf' = <<r.head>>
    /\ alloc' = 10 * BLOCKSIZE
    /\ pack_cnt' = 1
    /\ ub' = ub \cup Race(Forwarder)
    /\ fpc' = "fillmore"
    /\ UNCHANGED <<linkVars, chainVars, lock, minSeqs, byte_count,
                   byte_capacity, sendVars, arrived, stolen>>

\* "extend buffer, if full"
BufferFull == byte_capacity - byte_count < 10 * BLOCKSIZE

ExtendBuffer ==
    IF BufferFull
    THEN byte_capacity' = 2 * byte_capacity /\ alloc' = 2 * byte_capacity
    ELSE UNCHANGED <<byte_capacity, alloc>>

Overrun == IF (pack_cnt + 1) * PTR_SIZE <= alloc' THEN {} ELSE {"overrun"}

\* An iteration of the loop of fill_queue that takes one more packet.
FillNext ==
    /\ fpc = "fillmore"
    /\ ExtendBuffer
    /\ \E r \in PopResults(Forwarder) :
          /\ IsNext(r.head, pack_cnt)
          /\ pq' = r.rest
          /\ fbuf' = Append(fbuf, r.head)
    /\ pack_cnt' = pack_cnt + 1
    /\ byte_count' = byte_count + PTR_SIZE
    /\ ub' = ub \cup Race(Forwarder) \cup Overrun
    /\ UNCHANGED <<linkVars, chainVars, lock, minSeqs, fpc, sendVars,
                   arrived, stolen>>

\* The last iteration: the heap is empty or its head is not consecutive.
FillEnd ==
    /\ fpc = "fillmore"
    /\ ExtendBuffer
    /\ \/ PopsNull(Forwarder) /\ UNCHANGED pq
       \/ \E r \in PopResults(Forwarder) :
             /\ ~IsNext(r.head, pack_cnt)
             /\ pq' = PutBack(r)
    /\ ub' = ub \cup Race(Forwarder)
    /\ fpc' = "unlock"
    /\ UNCHANGED <<linkVars, chainVars, lock, minSeqs, fbuf, byte_count,
                   pack_cnt, sendVars, arrived, stolen>>

\* The next round of the loop starts without the mutex.
ForwardUnlock ==
    /\ fpc = "unlock"
    /\ lock' = NoOwner
    /\ fpc' = IF pack_cnt = -1 THEN "wait" ELSE "send"
    /\ UNCHANGED <<linkVars, chainVars, pq, minSeqs, fillVars, sendVars,
                   arrived, stolen, ub>>

\* What one send() may take of the BLOCKSIZE - byte bytes it is given.
SendSizes == IF ShortSends THEN 1 .. (BLOCKSIZE - Len(cur))
             ELSE {BLOCKSIZE - Len(cur)}

\* send() is always given fq->buffer[count] itself, so n bytes sent are the
\* first n of the block, whatever was sent of it before.
SentOffsets(n) == [i \in 1 .. n |-> i]

\* The send loop has sent `bytes` of the packet: on to the next one, or not.
Advance(bytes) ==
    IF Len(bytes) < BLOCKSIZE
    THEN /\ cur' = bytes
         /\ UNCHANGED <<sent, count, dest, wire>>
    ELSE /\ cur' = << >>
         /\ dest' = Append(dest, fbuf[count + 1])
         /\ wire' = Append(wire, bytes)
         /\ count' = count + 1
         /\ sent' = sent + 1

\* An iteration of the send loop of forward_data.
ForwardData ==
    /\ fpc = "send" /\ count < pack_cnt
    /\ \E n \in SendSizes : Advance(cur \o SentOffsets(n))
    /\ UNCHANGED <<linkVars, chainVars, lock, pq, minSeqs, fpc, fillVars,
                   arrived, stolen, ub>>

\* Mutant: a run counts as one packet.
SentMinOnePerRun == sent_min_seq + 1

\* pl->sent_min_seq += pack_cnt
SentMinAfterRun == sent_min_seq + pack_cnt

\* Mutant: the packet counter survives the run.
ForwardDoneKeepsCount ==
    /\ fpc = "send" /\ count = pack_cnt
    /\ fbuf' = << >> /\ UNCHANGED count
    /\ sent_min_seq' = SentMinAfterRun
    /\ fpc' = "wait"
    /\ UNCHANGED <<linkVars, chainVars, lock, pq, avail_min_seq, byte_count,
                   byte_capacity, alloc, pack_cnt, sent, cur, dest, wire,
                   arrived, stolen, ub>>

\* free(fq->buffer), and forward_loop's update outside the mutex.
ForwardDone ==
    /\ fpc = "send" /\ count = pack_cnt
    /\ fbuf' = << >> /\ count' = 0
    /\ sent_min_seq' = SentMinAfterRun
    /\ fpc' = "wait"
    /\ UNCHANGED <<linkVars, chainVars, lock, pq, avail_min_seq, byte_count,
                   byte_capacity, alloc, pack_cnt, sent, cur, dest, wire,
                   arrived, stolen, ub>>

-----------------------------------------------------------------------------
RxChain(c) ==
    \/ Accept(c) \/ Receive(c) \/ ReceiveCut(c) \/ Complete(c)
    \/ LockPool(c) \/ Insert(c) \/ UpdateUnlock(c) \/ Signal(c)

ForwardLoop ==
    \/ ForwardLock \/ TimedWait \/ Relock
    \/ FillNothing \/ FillFirst \/ FillNext \/ FillEnd
    \/ ForwardUnlock \/ ForwardData \/ ForwardDone

Next == ForwardLoop \/ \E c \in Conns : RxChain(c)

Spec == Init /\ [][Next]_vars

\* Every thread that can go on does.  The forwarder is without the mutex for
\* WAIT_TIME seconds of each round, so a thread waiting for it gets it.
Fairness ==
    /\ WF_vars(ForwardLoop) /\ SF_vars(ForwardLock) /\ SF_vars(Relock)
    /\ \A c \in Conns : WF_vars(RxChain(c)) /\ SF_vars(LockPool(c))

FairSpec == Spec /\ Fairness

-----------------------------------------------------------------------------
(* Properties                                                              *)

ChainStates == {"backlog", "poll", "lock", "insert", "update", "signal",
                "done"}
ForwardStates == {"start", "wait", "relock", "fill", "fillmore", "unlock",
                  "send"}

LinkTypeOK == link \in [Conns -> Seq(Packet)] /\ lost \subseteq Blocks
                /\ conn \in [Conns -> {"none", "open", "fin"}]

ChainTypeOK ==
    /\ rpc \in [Conns -> ChainStates]
    /\ raw \in [Conns -> Packet \cup {NoPacket}]
    /\ \A c \in Conns : rpc[c] \in {"lock", "insert", "update", "signal"}
                            => raw[c] \in Packet

PoolTypeOK ==
    /\ lock \in Conns \cup {Forwarder, NoOwner}
    /\ pq \in SUBSET Packet /\ arrived \in SUBSET Packet
    /\ avail_min_seq \in Nat /\ sent_min_seq \in Nat
    /\ stolen \in BOOLEAN
    /\ ub \in SUBSET {"race", "overrun"}

FillTypeOK ==
    /\ fpc \in ForwardStates
    /\ fbuf \in Seq(Packet)
    /\ byte_count \in Nat /\ byte_capacity \in Nat /\ alloc \in Nat
    /\ pack_cnt \in Nat \cup {-1}
    /\ fpc \in {"fillmore", "send"} => pack_cnt = Len(fbuf) /\ pack_cnt > 0
    /\ fpc = "unlock" => pack_cnt = IF fbuf = << >> THEN -1 ELSE Len(fbuf)

SendTypeOK ==
    /\ sent \in Nat \cup {-1}
    /\ count \in 0 .. Len(fbuf) /\ (fpc # "send" => count = 0)
    /\ cur \in Seq(1 .. BLOCKSIZE) /\ Len(cur) < BLOCKSIZE
    /\ dest \in Seq(Packet)
    /\ wire \in Seq(Seq(1 .. BLOCKSIZE)) /\ Len(wire) = Len(dest)

\* The types of pool_t, fqueue_t and the threads' locals, and that a buffer
\* fill_queue reports holds exactly pack_cnt packets.
TypeOK == LinkTypeOK /\ ChainTypeOK /\ PoolTypeOK /\ FillTypeOK /\ SendTypeOK

InHand(c) == IF rpc[c] \in {"lock", "insert"} THEN {raw[c].blk} ELSE {}
Queued == {p.blk : p \in pq}
Pending == {fbuf[i].blk : i \in count + 1 .. Len(fbuf)}
Delivered == {dest[i].blk : i \in DOMAIN dest}

\* The joint sequence number puts each payload back in its place: the k-th
\* block fill_queue and forward_data pass on is block k - 1 of the stream,
\* unless it is what was left of a broken packet.
BlocksInPlace ==
    ub = {} => \A k \in DOMAIN dest : dest[k].whole => dest[k].blk = k - 1

\* A block is in one place only: on one connection, in the hands of one
\* rx_chain, in the heap, in fq->buffer waiting to be sent, or delivered, and
\* there once.  No add2queue, fill_queue or put-back duplicates it.
NothingTwice ==
    ub = {} =>
        /\ \A c, d \in Conns : c # d =>
               (OnLink(c) \cup InHand(c)) \cap (OnLink(d) \cup InHand(d)) = {}
        /\ \A c \in Conns :
              /\ OnLink(c) \cap InHand(c) = {}
              /\ (OnLink(c) \cup InHand(c)) \cap
                    (Queued \cup Pending \cup Delivered) = {}
              /\ \A i, j \in DOMAIN link[c] :
                    link[c][i].blk = link[c][j].blk => i = j
        /\ Queued \cap Pending = {} /\ Queued \cap Delivered = {}
        /\ Pending \cap Delivered = {}
        /\ \A p, q \in pq : p.blk = q.blk => p = q
        /\ \A i, j \in count + 1 .. Len(fbuf) :
              fbuf[i].blk = fbuf[j].blk => i = j
        /\ \A i, j \in DOMAIN dest : dest[i].blk = dest[j].blk => i = j

\* No block disappears between recv() and send(): each one is somewhere, or
\* was on a connection when that broke off.
NothingLost ==
    ub = {} =>
        Blocks = (UNION {OnLink(c) \cup InHand(c) : c \in Conns})
                    \cup Queued \cup Pending \cup Delivered \cup lost

\* Threads between pthread_mutex_lock and pthread_mutex_unlock of the pool.
InPool == {c \in Conns : rpc[c] \in {"insert", "update"}}
            \cup (IF fpc \in {"fill", "fillmore", "unlock"}
                  THEN {Forwarder} ELSE {})

\* "lock queue and insert data" (link_receptor.c:98): one thread at a time
\* works on the pool.
PoolExclusive == \A t, u \in InPool : t = u

\* Mutual exclusion is lost in one way only: forward_loop's timed wait
\* releases the mutex while an rx_chain thread holds it.
ExclusiveUntilStolen == ~stolen => PoolExclusive /\ "race" \notin ub

\* pl->sent_min_seq, which add2queue reads, lags behind fq->sent by what
\* forward_data has sent of the current run, and both count what went out.
SentCounters == sent + 1 = Len(dest) /\ sent_min_seq + count = sent + 1

\* A packet that forward_data has already passed by never sits in the heap:
\* it would stay its head for ever and fill_queue would never pass it.  Only
\* what is left of a broken packet, whose number is anything, can do that.
NoStaleHead ==
    (ub = {} /\ \A p \in arrived : p.whole) => \A p \in pq : p.seq > sent

\* Every block reaches the destination, unless a connection took some down.
AllForwarded == <>(ub # {} \/ lost # {} \/ Len(dest) = NBlocks)

\* "capacity of **buf" (boss_server.h:79), "extend buffer, if full"
\* (forward.c:179): fill_queue writes inside what it allocated.
BufferInBounds == "overrun" \notin ub

\* The payload of a packet reaches the destination byte by byte in order.
BytesInOrder ==
    ub = {} => \A k \in DOMAIN wire : wire[k] = [i \in 1 .. BLOCKSIZE |-> i]
=============================================================================
