# A TLA+ model of the pair proxy

The program splits a TCP connection over a lossy link: a *transmitter proxy*
intercepts the byte stream of a source, cuts it into blocks and sends them
over several TCP connections; a *receiver proxy* puts the blocks back in order
and sends them to the destination. This directory holds TLA+ modules for the
two proxies, the priority queue under the receiver, the pair of them as a pipe,
the programs at both ends and the start of all four, TLC configurations that
check them on small instances, and TLAPS proofs for every instance.

## 1. Inventory

| Component | State | Operations | Properties that make it correct |
|---|---|---|---|
| getter thread of `tx_proxy/split.c` (`get_payload`, `split_loop`, `add2buff`) | the block being received, `proxy_buff` (`set_ind`, `capacity`, `buffer`, `fin_flag`) | accept, poll, recv, pad, append, end of stream | blocks are the stream cut every `BLOCKSIZE` bytes; slots are allocated; `fin_flag` comes last |
| `run_controller` and the `tx_chain` threads of `split.c` | `get_ind`, the packet in hand, a connection each | connect, create, join; take a block, send it, close | each block taken once and numbered by its place; close only when drained |
| netfilter queue handler of `split.c` (`queuer_loop`, `nfqueue_get_syn`) | the SYN in the queue | set-up, receive a packet, accept it | the SYN gets to the getter, which listens by then |
| `accept_loop` (`rx_proxy/boss_server.c`) and the `rx_chain` threads (`link_receptor.c`) | the packet in hand | accept, receive a packet, `add2queue` | nothing lost or doubled on the way to the pool |
| the pool (`boss_server.h`) | mutex, condition, heap, `avail_min_seq`, `sent_min_seq` | lock, insert, pop, wait, signal | one thread at a time |
| the forwarder (`forward.c`) | `fqueue_t` (`buffer`, `byte_count`, `byte_capacity`, `sent`) | timed wait, `fill_queue`, `forward_data` | in order, once, all of it; writes stay inside the buffer |
| `rx_proxy/libpqueue` | the array `d`, `size`, `avail`, `pri` and `pos` of the nodes | init, insert, pop, peek, remove, change priority, print, is_valid | pop returns a node of lowest priority value; `pos` is right |
| `receive`, `stream` with `file_read` | a file, a buffer and a socket | read and write by blocks, receive and print by blocks | the file arrives in order, and what printf keeps of it arrives whole |
| the `main` functions and `commons/argv_reader` | `arg_vals`, who listens, who is connected | read options or the config file, look them up, listen, connect | options mean the same in any order; started in order, all come up |
| `commons/network`, `commons/logger` | none | formatting, `LOG_ASSERT` | `LOG_ASSERT` ends the process on failure only |

**Interaction.** The getter and the `tx_chain` threads share `proxy_buff` under
one mutex. A `tx_chain` sends packets `[seq][BLOCKSIZE bytes]` on its own
connection. On the other side one `rx_chain` per connection hands packets to
the pool under the pool's mutex; the forwarder pops runs of consecutive numbers
from the pool and sends them without the mutex. There is no acknowledgement,
no retransmission and no message back to the transmitter.

**What is hard.** Threads that share a heap under a mutex one of them uses
wrongly; blocks that overtake each other on different connections; counters
that live in different structures and have different widths; buffers whose
capacity is tracked by hand; connections that end inside a packet; partial
`send()` and `recv()`; error handling that consists of `exit()`.
PROJECT.json lists each hazard with its line and the properties aimed at it.

## 2. Modules

| Module | Models | Checked by |
|---|---|---|
| `RxProxy` | `boss_server.c`, `link_receptor.c`, `forward.c` | `MCRxProxy` with the `Rx*.cfg` files |
| `RxProxyProofs` | theorems about `RxProxy`: types, the mutex, the buffer, the counters, the order | tlapm |
| `RxPlaceProofs` | theorems about `RxProxy`: where each block is | tlapm |
| `TxProxy` | `split.c` from the start of its threads | `MCTxProxy` with the `Tx*.cfg` files |
| `TxProxyProofs` | theorems about `TxProxy` | tlapm |
| `PriorityQueue` | what `libpqueue` promises: a set of nodes, pop takes a first one | as the property `IsPriorityQueue` |
| `PQueue` | `pqueue.c`, one loop iteration per step | `MCPQueue` with `PQHeap.cfg`, `PQPrinted.cfg` |
| `PQueueProofs` | theorems about `PQueue` | tlapm |
| `BytePipe` | what the pair of proxies promises: a pipe of bytes in padded blocks | as the property `IsPipe` |
| `PairProxy` | both proxies, joined by their connections, and the faults between them | `MCPairProxy` with `Pair.cfg` |
| `PairProxyProofs` | the theorem that `PairProxy` implements `BytePipe`, from those of its two sides | tlapm |
| `EndPrograms` | `stream.c`, `file_read.c`, `receive.c`, with a TCP connection or `BytePipe` between them | `MCEndPrograms` with `Ends.cfg` |
| `EndProgramsProofs` | theorems about `EndPrograms` | tlapm |
| `Startup` | the four `main` functions, `argv_read.c`, who connects to whom | `MCStartup` with `Startup.cfg` |
| `StartupProofs` | theorems about `Startup` | tlapm |

### RxProxy

One variable per field of `pool_t` and `fqueue_t`, a program counter per
`rx_chain` thread (`rpc`) and one for the forwarder (`fpc`). The actions are the
parts of the code between two points where another thread can matter: taking
and releasing the mutex, each operation on the heap, each `send()`.
`Receive` reads one packet; the partial reads inside it touch only the thread's
own buffer. The heap is the set of packets in it, which `PQueue` justifies.

* **The mutex.** `forward_loop` locks the pool's mutex once before its loop,
  unlocks it in every round, and calls `pthread_cond_timedwait` in every round.
  From the second round on it does not own the mutex then. POSIX leaves that
  undefined; glibc's default mutex keeps no owner check, so the wait releases
  whatever lock there is and takes it again afterwards. `TimedWait` does the
  same, and `stolen` records that it happened to somebody else's lock.
  The deadline (`clock_gettime` overwrites the field that was set just before,
  and `sleep` follows) has always passed, so the wait never waits for a signal.
* **Undefined behaviour.** A heap operation while another thread is inside one
  adds `"race"` to `ub`, a store past `fq->buffer` adds `"overrun"`. After that
  a heap operation may leave, and return, any node ever inserted. Properties of
  the data are stated for `ub = {}`; whether `ub` stays empty is what
  `PoolExclusive` and `BufferInBounds` ask.
* **Input.** `LinkInit` puts the blocks on the connections in every way in which
  each block travels once and each connection carries rising numbers. That is
  what `TxProxy!EachBlockOnce` shows of the transmitter. All packets are under
  way from the start: one that is sent later is one that is received later.
* **Failures.** `CutConns` may break off at a packet boundary (`Complete`) or
  inside a packet (`ReceiveCut`); the ghost `lost` keeps what was under way.
  `ShortSends` lets
  `send()` to the destination take any part of what it is given; `wire` keeps
  the offsets that really went out. A crash, a failed assertion or a SIGPIPE is
  the process stopping, which every prefix of a behaviour already is.

### TxProxy

Bytes are offsets in the source's stream, so the model sees where each one ends
up; 0 is the `'\0'` of the padding and -1 what `malloc` left. `add2buff` is four
steps inside the mutex, so that a missing lock would show. `Faults` selects the
calls that may fail. `Exit` is `LOG_ASSERT` with a false argument, or `exit(0)`.

The queuer thread is an actor of its own: netfilter hands it the SYN of the
source (external: the kernel drops it while no handler is bound, and the source
repeats it), `nfqueue_get_syn` gives the verdict, and the SYN then finds the
getter listening or not. Nothing in the code makes the one wait for the other.

`AssertAcceptFails` is TRUE for the code as it stands: `split.c:504` asserts
`sockfd==-1` after `accept()`, so the process exits as soon as a source
connects (run `TxAccept`). With it the rest of the transmitter is unreachable;
the passing run sets the constant FALSE, the condition all other accepts of the
repository assert, to check the code behind it.

### PQueue

The array without its unused slot 0, `size` and `avail` as in the code, `pri`
and `pos` as functions of the node. `bubble_up` and `percolate_down` share the
shape "shift a node, move on; at the end put the moving node down": the actions
`BubbleUp`, `PercolateDown` and `Place`. Calls do not overlap; the overlap the
receiver really has is the `"race"` of `RxProxy`. `PriorityQueue` is the
abstract queue; in the mapping the moving node counts as being in the slot the
loop has come to, so a call takes effect with its first step and the sift steps
are stutters. `subtree_is_valid` is a recursive function, with the 1 and 0 of
the code.

`PQPrint` is `pqueue_print`, which empties a copy that shares its nodes with the
queue and leaves all of them with position 1. `pqueue_remove` and
`pqueue_change_priority` go where the node's `pos` says, so after it they may work
on another node; the model lets the caller make every call at any time and
follows what the code then does. Two history variables tell the cases apart:
`printed`, that `pqueue_print` was called, and `misled`, that a call has used the
slot of another node (`WrongPos`). `PriorityQueue` has a variable `void`, mapped to
`misled`: from then on nothing is promised (`Break`). Only the obligations of
pqueue.h's "the entry" are left to the caller: it inserts a node that is not in
the queue and removes or changes one that is. A misled `pqueue_remove` takes out
another node than the caller believes, so from then on this caller is one that
looks into the queue; what is checked after that (`TypeOK`, `NodesOnce`,
`SiftsEnd`, `CheckAgrees`) is about the array and not about what the caller
meant.

### PairProxy and BytePipe

`Tx` and `Rx` are instances of the two modules. Every action of the composition
is an action of one of them plus what it does to the connections: `Send`
appends to the link, `rx_chain` takes from it. The constants of the instances
that stand for faults of the environment are switched off, since here the
environment is present: `Cut` breaks a connection, at or inside a packet;
`ResetArrives` tells the sender, whose next `send()` then ends the process
(`SendFails`); a process that ends may leave the beginning of a packet on any of
its connections (`LastWords`); `RxDies` is the receiver proxy sending to a
destination that has gone. The receiver proxy may
also not run at all, so that the first `connect()` fails (`ConnectFails`). One such
fault happens in a behaviour, everything else follows from it. `conn` is shared: it is the state of the connection both
sides see.

`BytePipe` has four variables: bytes taken, source closed, bytes put out, and
`void`. The refinement mapping computes the bytes put out from the packets
`forward_data` has sent and the payloads `tx_chain` gave them, so a block in the
wrong place, a padding byte in the middle or a missing one shows. `void` is the
state after undefined behaviour in the receiver proxy, and after a torn packet
has been queued: `rx_chain` queues whatever it has read when the connection
ends, and what it has not read is undefined (`link_receptor.c:72`). The pipe
promises nothing from then on, which is as much as can be said of the code.

### EndPrograms

A byte is its offset in the file, so the output file shows which byte went
where; its kind is `'\0'`, `0xff` or text, which is what `receive` tells apart:
`fprintf("%s")` stops at the first `'\0'` of a block and, if there is none, runs
over the end of the buffer (`OverRead`); the residue after the connection has
closed is written byte by byte (`WriteByte`) and loses its `0xff`
(`buffer[i] != EOF` with a char). What a copy should hold is stated apart from
the steps of `receive`: `IsCopied` says of each byte of the file whether printf
keeps it. `via` selects what is
between the programs: a TCP connection, which may be reset, or `BytePipe`. The
proxy never closes its connection to `receive`, so only in the first case does
`receive` end.

### Startup

Each program is a small process: `main` reads three words with `argv_reader`,
or the config file, or gives up; looks its three options up; then listens for
the next program and connects to the one before. `how` ranges over every
sequence of three words of the form `--option=value`, `--option`, a word that is
no option or an unknown option, and over the states of the config file. A value
nobody set (`malloc` without initialisation) is `Unset`, and the assertion on it
goes either way.

## 3. Runs

| Run | Instance | Result | What it shows |
|---|---|---|---|
| RxOrder | 2 connections, 3 blocks, any split, one connection may break off | passes | order, no loss but with the connection, no duplication, counters in step, exclusion until the lock is stolen, and every block forwarded unless one is lost |
| TxRelay | 3 connections, 7 bytes, 2-byte blocks, all faults | passes | blocks are the stream cut in order, taken once; growth of the array is in time; connections close when drained; the stream gets through |
| PQHeap | 4 nodes, 2 priorities, array grown from 3 slots | passes | the heap implements `PriorityQueue` and is in order until a call is misled by a wrong position, which takes a `pqueue_print`; misled or not, no node is lost or doubled, every sift ends, and `pqueue_is_valid` says whether the heap is in order |
| Pair | 1 connection, 3 bytes, 2-byte blocks, the connection cut, destination gone | passes | the pair implements `BytePipe`; all is delivered without a fault; the end of the receiver proxy spreads to the transmitter proxy |
| Ends | all files of up to 5 bytes, 2-byte blocks | passes | what `receive` writes of a file, that it is in order, and that all of it is written |
| Startup | 4 programs, 8 words for each of 3 places | passes | options in any order; where a program runs on values nobody set; all come up |
| RxMutex | 2 connections, 2 blocks | violated | two threads in the pool at once (`forward.c:102`) |
| RxWrap | 3 blocks, 2 sequence numbers | violated | forwarding stops when the 16-bit number wraps (`forward.c:169`) |
| RxBuffer | 7 packets, a fresh buffer holds 2 pointers | violated | `fill_queue` writes past its buffer (`forward.c:188`) |
| RxShortSend | one 2-byte block | violated | a short `send()` repeats the start of the block (`forward.c:129`) |
| TxAccept | nothing fails | violated | the process exits on a successful `accept()` (`split.c:504`) |
| PQPrinted | 3 nodes, 3 priorities | violated | after `pqueue_print` and `pqueue_change_priority` a pop returns the wrong node (`pqueue.c:286`) |

The six violations are behaviours of the code against its own comments and, for
PQPrinted, against the output recorded in `sample-multiattr.c:182-202`;
PROJECT.json quotes the lines. The five of the proxies lose or corrupt data or
stop the program; the proxies themselves call neither `pqueue_print` nor the
operations it misleads.

Smaller observations made on the way, which no run is devoted to:

* `link_receptor.c:105` signals for the packet after the next one in order, not
  for the next one as its comment says; the waiter never waits, so nothing
  follows from it (`WantsSignal`).
* `link_receptor.c:72` queues what there is of a packet the connection broke off
  in; the model has it as `void` of the pipe.
* `split.c:84` does not look at the result of `argv_reader`, the other three
  programs do (`AfterError`).
* `receive.c:175` prints blocks with `"%s"`: bytes after a `'\0'` are lost and
  a block without one is read past its end (`UpToNul`, `OverRead`); at the close
  `receive.c:185` counts the residue twice in the log.

**Bounds.** `NBlocks = 3` on two connections is the least that has a gap, a late
packet that fills it and a run of more than one packet. `SEQ_MOD` stands for
2^16: RxOrder takes it equal to the number of blocks, so that no number is used
twice but the wrap is next; RxWrap takes one less. In TxRelay the numbers do
wrap, since the transmitter alone is indifferent to it. `INITIAL_CAPACITY = 1`
and `PTR_SIZE = 1` make the array of the transmitter grow twice. RxBuffer
scales 10 * BLOCKSIZE, the pointer size and the initial capacity so that the
buffer holds two pointers and not 1250; the real values (10000, 8 and 8000)
give the same sequence of tests, since 8000 < 10000 makes the first test true
and the capacity then only doubles. Four nodes are the least
with a grandchild of the root; two priorities give every comparison both answers
and ties (with three the run passes too, but takes six times as long), and any
priorities are in the proofs. A removal in one subtree that brings a
node of another which has to go up needs six nodes, where the proofs take over.
Pair has two blocks, the second of them padded, either of which can be lost or
torn; its two sequence numbers are as many as its blocks. It has one connection
because with fairness the state graph of two takes TLC too long: blocks that
overtake each other are the business of RxOrder (two connections) and TxRelay
(three), and that the pair is a pipe with any number of connections is the
theorem `ProxiesArePipe`. Five bytes in blocks of two make two full
blocks and a residue in Ends; `OverRead` is none or one byte. In Startup at most
one program is called in an unusual way: what it makes of its words does not
depend on the others.

**Fairness.** Every thread that can take a step does (weak fairness: the
scheduler of the operating system). Waiting for a mutex is strongly fair: a
thread that has just released one of these mutexes sleeps, sends or receives
before it asks again, so a waiter is not passed by for ever. The source repeats
its SYN, sends its stream and closes. No fault is under fairness: a call may
fail, it need not; only the reset that answers a `send()` on a cut connection
arrives in the end, as TCP has it (`ResetArrives`). In Ends both programs and
the proxies go on while they can; in Startup the user starts every program.

**Deadlock** is checked in the receiver's runs: the forwarder always goes on.
Elsewhere the programs really may stop: the transmitter proxy ends or exits, a
queue need not be used again, `stream` and `receive` end, and with the programs
up Startup has nothing more to do.

## 4. Proofs

`RxProxyProofs` proves, for any number of connections, blocks and sequence
numbers, with cuts, short sends and undefined behaviour left in:

* `TypeCorrect`: `TypeOK`. It is inductive as it stands because it also says
  that `pack_cnt` is the length of the buffer while the forwarder fills or sends
  it, and that `count` is 0 when it does not send.
* `MutexUntilStolen`: `ExclusiveUntilStolen`. Mutual exclusion itself is false, so
  the invariant (`LockInv`) is conditional: as long as nothing was stolen, every
  thread in a critical section owns the mutex; two threads are then the same,
  and no step can race. The one step that breaks it is `TimedWait`, and it sets
  `stolen` whenever it does.
* `CountersCorrect`: `SentCounters`, inductive given the types.
* `InPlace`: `BlocksInPlace`, from the assumption `NBlocks <= SEQ_MOD`, which the
  code needs (run RxWrap) and does not check. `LabelInv` says of every copy of a
  whole packet, on a link, in hand, in the heap, in the buffer or sent, that its
  number is that of its block; `RunInv` says that the buffer continues the
  numbers sent one by one and that the k-th packet sent has number k - 1. Both
  survive undefined behaviour of the heap, because it can return only nodes that
  were inserted: the order is guaranteed by `fill_queue`'s comparison alone.
* `ShortRunsFit` is the other side of a violation: a step that writes past
  `fq->buffer` takes a run beyond what a fresh buffer has room for. `AllocInv` says
  that `byte_capacity` never falls below its first value, so an extension, however
  wrong its test, never makes the buffer smaller than `10 * BLOCKSIZE` as long as
  `10 * BLOCKSIZE <= 2 * INIT_QUEUE_SIZE`, which holds in the code (10000 and
  16000). Up to 1250 consecutive packets are safe.

`RxPlaceProofs` goes on from there with the places a block can be in: on its
connection, in the hands of its `rx_chain`, in the heap, in the buffer not yet
sent, at the destination.

* `BlockInOnePlace`: `NothingTwice`. `PlacesDisjoint` says that no block is in two
  of these places and `PlacesOnce` that it is in none of them twice. Each step
  that moves a packet takes it out of one place and puts it into the next, and
  all the others (`Quiet`) leave the places alone. It is conditional on `ub = {}`:
  a heap after a data race may hold any node.
* `BlockSomewhere`: `NothingLost`, along the same steps: what leaves a place is in
  the next one, or in `lost` when its connection broke off.
* `NoStalePackets`: `NoStaleHead`, from `NBlocks <= SEQ_MOD`. By `LabelInv` and
  `RunInv` a packet in the heap with a number that is already passed would be a
  block that is in the buffer or at the destination too, which
  `BlockInOnePlace` excludes.

`TxProxyProofs` proves the invariants of run TxRelay, for any number of
connections, sizes of blocks, of the array and of the stream, and every fault:

* `TxTypeCorrect` (`TypeOK`), `SlotsInBounds` (`SlotInBounds`). The types alone are
  not inductive: that a slot is there when it is used needs `Owners` (who is
  inside the critical section owns the mutex), `Slots` (in the steps between the
  growth of the array and the store there is room, and a block is there when
  `get_ind` moves) and `Started`.
* `PacketsFromStream` (`PacketsCutStream`). `StreamInv` accounts for the bytes
  taken: blocks added, and the part of one in hand, in each of the getter's
  steps; `BufferInv` says that each slot in use holds its block, the one being
  stored excepted; `PacketInv` that every packet, in hand or sent, carries the
  block of its number. A packet stays right although the getter goes on, since a
  whole block does not change when more bytes come.
* `BlocksSharedOut` (`EachBlockOnce`). `Shared` says that the sets of blocks the
  `tx_chain`s have taken are disjoint and make up all blocks below `get_ind`,
  `Rising` that each connection's numbers rise.
* `ClosesAtTheEnd` (`CloseOnlyDrained`): who closes has seen `fin_flag`, and
  nothing is added after that.

`EndProgramsProofs` proves of `stream` and `receive`, for any file, any size of the
blocks and any sizes of reads and writes, directly or through the proxies, with
resets:

* `EndTypeCorrect` (`TypeOK`). The output's type says that no padding gets into
  it, so it needs to be known what is in the buffer: `StreamInv` (`stream` has
  written the bytes of the file up to where it is), `PipeInv` (the proxies put
  out the bytes in order, and padding only behind the end) and `RecvInv` (the
  buffer holds the last bytes received) say so.
* `TextArrivesIntact` (`TextIntact`): `TextInv` gives the length of the output as the
  number of bytes `receive` is through with (`Passed`), without padding.
* `OutputInOrder` (`WrittenInOrder`): for files of any bytes the output is in the
  order of the file, no byte twice (`WrtInv`), and until a reset it holds exactly
  the bytes printf keeps among those `receive` is through with (`KeptInv`). The
  second part needs `PlaceInv`: what printf keeps depends on where `receive` cuts
  its blocks, so they have to be cut at multiples of `BLOCKSIZE` whatever the sizes
  of the reads, and the residue has to be the file's own last block, which it is
  because `stream` closes only when it has written the whole file and `receive`
  gets there only when it has read all of it.

`StartupProofs` proves, for every way to call the programs and every order of
their steps: `StartupTypeCorrect` (`TypeOK`), `OptionsInAnyOrder` (`AnyOrder`) and
`JunkHasACause` (`JunkExplained`). `ReadInv` says what `main` has when it looks the
values up, `GivenInv` that a program with all its options has read each word
into its entry and stops only at a failed call, `UpInv` that under a patient user
the program before is up.

`PQueueProofs` proves for any set of nodes, any priorities and any initial size,
with `pqueue_print` and misled calls among the others: `HeapTypeCorrect`
(`TypeOK`), `NeverOverfull` (`FitsAvail`), `NoneLostOrDoubled` (`NodesOnce`),
`HeapOrdered` (`HeapOrder`), `CheckIsRight` (`CheckAgrees`), `OnlyPrintMisleads`
(`MisledByPrint`), `SiftsTerminate` (`SiftsEnd`) and `Implements` (`IsPriorityQueue`,
the refinement). `HeapOrdered` and `Implements` hold until a call is misled, and
`OnlyPrintMisleads` says that this takes a `pqueue_print`. All rest on an invariant
`Inv` that has to hold in the middle of a sift too. Its first part, `HeapInv`, holds
whatever the positions are; order (`OrderInv`) is there while nothing was misled.
They say

* that the slot of the moving node exists (`SlotInv`: in `percolate_down` it may
  be the slot just given up, one past the used ones);
* that with the moving node counted in that slot no node occurs twice, nor does
  the moving node elsewhere (`OnceInv`);
* that every other node knows its slot or, after `pqueue_print`, has 1 for it
  (`PosInv`), so that a call by position always ends up in a used slot;
* that heap order holds except above (`bubble_up`) or below (`percolate_down`)
  the moving node, and that the parent of its slot precedes the slot's children
  (`OrderInv`); the last part is what keeps order when a node is shifted across.

Each action has a lemma that it keeps `HeapInv`, that it keeps `OrderInv` if it
was not misled, and how it changes the nodes held; the refinement combines these with `RootLeast`, that a heap's root
is least. That needs an induction over slots, done as an argument about the
least counterexample with the library's `WFMin` and `NatLessThanWellFounded`.
`CheckIsRight` uses the same argument twice, downwards from the last slot
(`ValidBelow`) and upwards from the first (`ValidSound`). That the recursion of
`subtree_is_valid` defines anything has to be shown first (`ValidDefined`): it is
solved, for any contents of the array, by the function that is 0 on the least
set of slots which has every slot with a child out of order or in the set.

`PairProxyProofs` proves `ProxiesArePipe` (`IsPipe`): both proxies with all their
threads, joined by any number of connections, implement `BytePipe`, for every
stream of at most `SEQ_MOD` blocks, with cuts at and inside packets, processes
that end and a destination that goes. The argument is in three parts.

* *Each side keeps its own invariants.* Every step of the pair is a step of
  `TxProxy`, a step of `RxProxy`, or one of the environment's that changes only
  the connections. `TxInv` and `RxInv` are the inductive invariants of
  `TxProxyProofs` and `RxProxyProofs` for the instances; `TxInvStep` and `RxInvStep`
  carry them over a step of that side by citing the lemmas proved there. Nothing
  about a side is proved again.
* *What ties them together.* `OriginInv` says that every whole packet on a
  connection or anywhere in the receiver (`Held` of `RxProxyProofs`) is one that a
  `tx_chain` has sent, with the number of its block. `Send` establishes it, a
  packet torn by `Cut` or `LastWords` is not whole, and inside the receiver packets
  only move (`HeldNext`).
* *The mapping.* From these, `InStep`: unless the promise is void, the bytes put
  out are those of the blocks 0, 1, 2, ... in turn, cut from the bytes taken, and
  the padding comes only when the source has closed. `PipeStep` then shows each
  step to be one of the pipe: `RecvSome` is `Take`, `RecvEnd` is `End`, the last
  `send()` of a packet is `Deliver`, a step that voids the promise is `Break`, and
  all others leave the pipe as it is.

**Only model-checked:** the liveness properties (`AllForwarded`, `AllRelayed`,
`AllDelivered`, `StopSpreads`, `AllWritten`, `AllUp`), since fairness is beyond the
prover. That every sift ends is proved as an action property (`SiftsEnd`: the slot
moves strictly towards the end of the loop), which is safety. Every safety
property that a passing run checks is stated by a theorem.

**Assumptions.** Beside the types of the constants, which the modules state as
ASSUME and the runs evaluate, the theorems assume only `NBlocks <= SEQ_MOD`
(`InPlace`, `NoStalePackets`, `ProxiesArePipe`), which the code needs and does not
check, and `10 * BLOCKSIZE <= 2 * INIT_QUEUE_SIZE` (`ShortRunsFit`), which the code
meets. In `PairProxy` the destination's `send()` takes whole blocks (`ShortSends` of
its receiver is FALSE); RxShortSend shows what a short one does.
`PairConstants` repeats the assumptions of the two sides for their instances.

## 5. Not modelled

* `pqueue_dump`, `pqueue_size`, `pqueue_free`: no change of a queue in use. The
  samples of libpqueue: not part of the programs (PQPrinted is held against the
  calls of one of them).
* `set_tx_sock` of `split.c`: nothing calls it. `sigchld_handler`: no program
  has children.
* `print_argvs` and the demonstration `main` of `argv_read.c`: output only.
* Address formatting, log texts, the log of amounts in `receive`, the result of
  `add2buff` (computed after the unlock and only added to a printed total).
* `rx_byte`, `tx_byte`, `fq->state`, the lists in `struct link`: written at most.
* Failing `malloc` and `pthread_create`; a second source connection, which the
  getter never accepts; a file that changes while `stream` reads it.
* The words behind the end of `long_options`, which `argv_reader` and
  `getopt_long` look at: taken to be zero.

## 6. Plan

1. Done: receiver, transmitter with its queuer, heap with `pqueue_print` and what
   follows from it, the pair as a pipe, the end programs, the start of all four.
2. Done: every safety property of the passing runs proved, for `RxProxy`,
   `TxProxy`, `PQueue`, `EndPrograms`, `Startup` and the pair, with the refinements
   of `PriorityQueue` and `BytePipe`.
3. Left: liveness, which needs a prover for fairness. The short `send()` to the
   destination is modelled in `RxProxy` only; in the pair it
   would break the promise of the pipe at once.
