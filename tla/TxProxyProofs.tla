--------------------------- MODULE TxProxyProofs ---------------------------
(* Theorems about the transmitter proxy, for any number of connections, any *)
(* sizes of blocks and buffers, and any stream, with every fault.          *)
EXTENDS TxProxy, TLAPS

-----------------------------------------------------------------------------
(* The inductive invariants                                                *)

\* Who is between lock and unlock of proxy_buff owns the mutex.
Owners ==
    /\ \A c \in Conns : tpc[c] \in {"locked", "advance"} => lock = c
    /\ gpc \in {"extend", "setind", "store"} => lock = Getter

\* The indices of proxy_buff: add2buff has made room before it moves set_ind,
\* and a tx_chain moves get_ind only over a block.
Slots ==
    /\ SlotInBounds /\ capacity > 0
    /\ gpc = "setind" => set_ind + 1 < capacity
    /\ \A c \in Conns : tpc[c] = "advance" => get_ind <= set_ind

\* A tx_chain runs when run_controller has started it, and the process ends
\* as a whole.
Started ==
    /\ cpc = "create" => i \in Conns
    /\ gpc # "exit" => \A c \in Conns : i <= c => tpc[c] = "none"
    /\ gpc = "exit" => /\ cpc = "exit"
                       /\ \A c \in Conns : tpc[c] = "exit"

\* What recv() has put into raw_buf are the last bytes taken.
Received == \A k \in 1 .. recv_count : raw_buf[k] = taken - recv_count + k

\* How far the getter is: the blocks it has added and the one in its hands
\* are what it has taken.
StreamInv ==
    /\ gpc \in {"setup", "accept", "poll", "stuck"} =>
          ~closing /\ taken = (set_ind + 1) * BLOCKSIZE
    /\ gpc = "recv" => ~closing /\ recv_count < BLOCKSIZE
    /\ gpc \in {"recv", "add", "extend", "setind"} =>
          taken = (set_ind + 1) * BLOCKSIZE + recv_count
    /\ gpc \in {"recv", "add"} => Received
    /\ gpc \in {"extend", "setind"} => raw_buf = BlockOf(set_ind + 1, taken)
    /\ gpc = "store" => /\ taken = set_ind * BLOCKSIZE + recv_count
                        /\ raw_buf = BlockOf(set_ind, taken)
    /\ gpc \in {"add", "extend", "setind", "store"} =>
          recv_count > 0 /\ (~closing => recv_count = BLOCKSIZE)
    /\ gpc \in {"fin", "done"} => closing /\ taken <= (set_ind + 1) * BLOCKSIZE
    /\ closing /\ ~failed => taken = StreamLen
    /\ fin_flag => gpc \in {"done", "exit"}

\* The data are block b of a stream of which n bytes are known, a whole one as
\* long as more may come.
CutFrom(data, b, n, ended) ==
    /\ b \in Nat /\ b * BLOCKSIZE < n
    /\ ~ended => (b + 1) * BLOCKSIZE <= n
    /\ data = BlockOf(b, n)

IsBlock(data, b) == CutFrom(data, b, taken, closing)

\* Every slot of proxy_buff that is in use holds its block; the one add2buff
\* is about to store into does not yet.
BufferInv ==
    gpc # "exit" => \A b \in 0 .. set_ind :
                        (gpc = "store" /\ b = set_ind) \/ IsBlock(buffer[b], b)

\* Every packet carries the block its number says.
PacketOf(p, n, ended) ==
    CutFrom(p.data, BlkNum(p), n, ended) /\ p.seq = BlkNum(p) % SEQ_MOD

IsPacket(p) == PacketOf(p, taken, closing)

PacketInv ==
    \A c \in Conns :
        /\ \A k \in 1 .. Len(link[c]) : IsPacket(link[c][k])
        /\ tpc[c] \in {"advance", "send"} => IsPacket(packet[c])

\* The blocks tx_chain c has passed get_ind over.
Nums(c) == {BlkNum(link[c][k]) : k \in 1 .. Len(link[c])}
             \cup (IF tpc[c] = "send" THEN {BlkNum(packet[c])} ELSE {})

\* The tx_chains share out the blocks below get_ind.
Shared ==
    /\ \A c, d \in Conns : c # d => Nums(c) \cap Nums(d) = {}
    /\ \A c \in Conns : \A b \in Nums(c) : b \in Nat /\ b < get_ind
    /\ \A b \in Nat : b < get_ind => \E c \in Conns : b \in Nums(c)
    /\ \A c \in Conns : tpc[c] = "advance" => BlkNum(packet[c]) = get_ind

\* Each tx_chain takes its blocks in rising order, so the k-th of them is not
\* before block k - 1.
Rising ==
    \A c \in Conns :
        /\ \A k \in 1 .. Len(link[c]) : k - 1 <= BlkNum(link[c][k])
        /\ \A k, m \in 1 .. Len(link[c]) :
              k < m => BlkNum(link[c][k]) < BlkNum(link[c][m])
        /\ tpc[c] = "send" => \A k \in 1 .. Len(link[c]) :
                                  BlkNum(link[c][k]) < BlkNum(packet[c])

ShareInv == gpc # "exit" => Shared /\ Rising

\* Who closes a connection has seen the end.
CloseInv ==
    \A c \in Conns : tpc[c] \in {"close", "done"} =>
        fin_flag /\ get_ind = set_ind + 1

-----------------------------------------------------------------------------
(* The kinds of steps                                                      *)

\* A step of the queuer: only the SYN is concerned.
SynStep ==
    /\ UNCHANGED <<getVars, lock, buffVars, cntrlVars, chainVars, conn>>
    /\ qpc' \in {"recv", "closed"}
    /\ syn' \in {syn, "sent", "queued", "accepted", "refused"}
    /\ failed' \in {failed, TRUE}

\* A step that ends the process: a failed call is the cause, unless the
\* assertion after accept() is the wrong way round.
ExitStep == Exit /\ (failed' = TRUE \/ (AssertAcceptFails /\ UNCHANGED failed))

\* The getter goes on without touching proxy_buff: it listens, accepts or
\* gives up.
GetterMoves ==
    /\ \/ gpc = "setup" /\ gpc' = "accept" /\ UNCHANGED <<closing, failed>>
       \/ gpc = "accept" /\ gpc' = "poll" /\ UNCHANGED <<closing, failed>>
       \/ /\ gpc \in {"accept", "poll"} /\ gpc' = "stuck"
          /\ UNCHANGED closing /\ failed' = TRUE
       \/ gpc = "poll" /\ gpc' = "fin" /\ closing' = TRUE /\ failed' = TRUE
    /\ recv_count' \in {recv_count, 0}
    /\ UNCHANGED <<synVars, taken, raw_buf, lock, buffVars, cntrlVars,
                   chainVars, conn>>

\* Every step of the transmitter proxy is one of these.
Step ==
    \/ SynStep \/ ExitStep \/ GetterMoves
    \/ PollIn \/ RecvSome \/ RecvEnd
    \/ AddLock \/ AddExtend \/ AddSetInd \/ AddStore \/ SetFin
    \/ SetLink \/ CreateChain \/ Join
    \/ \E c \in Conns : TxChain(c)
    \/ UNCHANGED vars

\* Next is made of them.
LEMMA Steps == [Next]_vars => Step
<1> SUFFICES ASSUME [Next]_vars PROVE Step
  OBVIOUS
<1>1. CASE QueuerSetup \/ SynQueued \/ GetSyn \/ GetSynFails \/ QueuerFails
  <2>1. SynStep
    BY <1>1 DEF QueuerSetup, SynQueued, GetSyn, GetSynFails, QueuerFails, Verdict,
                SynStep
  <2> QED
    BY <2>1 DEF Step
<1>2. CASE \/ QueuerSetupFails \/ GetterSetupFails \/ SetLinkFails
           \/ (\E c \in Conns : TxSendFails(c))
           \/ (Accept /\ AssertAcceptFails) \/ (AcceptFails /\ ~AssertAcceptFails)
  <2>1. ExitStep
    BY <1>2 DEF QueuerSetupFails, GetterSetupFails, SetLinkFails, TxSendFails,
                Accept, AcceptFails, ExitStep
  <2> QED
    BY <2>1 DEF Step
<1>3. CASE \/ GetterSetup \/ PollErr \/ PollReset
           \/ (Accept /\ ~AssertAcceptFails) \/ (AcceptFails /\ AssertAcceptFails)
  <2>1. GetterMoves
    BY <1>3 DEF GetterSetup, PollErr, PollReset, Accept, AcceptFails, GetterMoves
  <2> QED
    BY <2>1 DEF Step
<1> QED
  BY <1>1, <1>2, <1>3
     DEF Next, QueuerLoop, GetPayload, RunController, Fault, Step

-----------------------------------------------------------------------------
(* Types, the mutex of proxy_buff, and its indices                         *)

\* A block of the stream is a block of memory.
LEMMA BlockOfType ==
  \A b \in Nat, n \in 0 .. StreamLen : BlockOf(b, n) \in Bytes
  BY TxConstants DEF BlockOf, Bytes

\* Every step of the proxy keeps the types.
LEMMA TypeNext == TypeOK /\ Slots /\ Started /\ [Next]_vars => TypeOK'
<1> SUFFICES ASSUME TypeOK, Slots, Started, [Next]_vars PROVE TypeOK'
  OBVIOUS
<1> USE TxConstants DEF TypeOK, synVars, getVars, buffVars, cntrlVars, chainVars
<1>g. Garbage \in Bytes
  BY DEF Garbage, Bytes
<1>1. CASE SynStep
  <2>1. SynTypeOK'
    BY <1>1 DEF SynStep, SynTypeOK
  <2>2. GetTypeOK' /\ BuffTypeOK' /\ ChainTypeOK'
    BY <1>1 DEF SynStep, GetTypeOK, BuffTypeOK, ChainTypeOK
  <2> QED
    BY <2>1, <2>2
<1>2. CASE ExitStep
  <2>1. SynTypeOK'
    BY <1>2 DEF ExitStep, Exit, SynTypeOK
  <2>2. GetTypeOK' /\ BuffTypeOK'
    BY <1>2 DEF ExitStep, Exit, GetTypeOK, BuffTypeOK, GetterStates
  <2>3. ChainTypeOK'
    BY <1>2 DEF ExitStep, Exit, ChainTypeOK, ChainStates
  <2> QED
    BY <2>1, <2>2, <2>3
<1>3. CASE GetterMoves
  <2>1. SynTypeOK'
    BY <1>3 DEF GetterMoves, SynTypeOK
  <2>2. GetTypeOK'
    <3>1. closing' \in BOOLEAN
      BY <1>3, Zenon DEF GetterMoves, GetTypeOK
    <3>2. gpc' \in GetterStates /\ recv_count' \in 0 .. BLOCKSIZE
      BY <1>3 DEF GetterMoves, GetTypeOK, GetterStates
    <3> QED
      BY <1>3, <3>1, <3>2 DEF GetterMoves, GetTypeOK
  <2>3. BuffTypeOK' /\ ChainTypeOK'
    BY <1>3 DEF GetterMoves, BuffTypeOK, ChainTypeOK
  <2> QED
    BY <2>1, <2>2, <2>3
<1>4. CASE PollIn
  <2>1. GetTypeOK'
    BY <1>4, <1>g DEF PollIn, GetTypeOK, GetterStates
  <2>2. SynTypeOK' /\ BuffTypeOK' /\ ChainTypeOK'
    BY <1>4 DEF PollIn, SynTypeOK, BuffTypeOK, ChainTypeOK
  <2> QED
    BY <2>1, <2>2
<1>5. CASE RecvSome
  <2>1. PICK n \in RecvSizes :
          /\ taken + n <= StreamLen
          /\ raw_buf' = [k \in 1 .. BLOCKSIZE |->
                            IF k \in recv_count + 1 .. recv_count + n
                            THEN taken + k - recv_count ELSE raw_buf[k]]
          /\ recv_count' = recv_count + n
          /\ taken' = taken + n
          /\ gpc' = IF recv_count + n = BLOCKSIZE THEN "add" ELSE "recv"
    BY <1>5 DEF RecvSome
  <2>2. recv_count' \in 0 .. BLOCKSIZE /\ taken' \in 0 .. StreamLen
    BY <2>1 DEF RecvSizes, GetTypeOK
  <2>3. raw_buf' \in Bytes
    <3>1. \A k \in 1 .. BLOCKSIZE :
             (IF k \in recv_count + 1 .. recv_count + n
              THEN taken + k - recv_count ELSE raw_buf[k]) \in -1 .. StreamLen
      BY <2>1 DEF RecvSizes, GetTypeOK, Bytes
    <3> QED
      BY <2>1, <3>1 DEF Bytes
  <2>4. GetTypeOK'
    BY <1>5, <2>1, <2>2, <2>3 DEF RecvSome, GetTypeOK, GetterStates
  <2>5. SynTypeOK' /\ BuffTypeOK' /\ ChainTypeOK'
    BY <1>5 DEF RecvSome, SynTypeOK, BuffTypeOK, ChainTypeOK
  <2> QED
    BY <2>4, <2>5
<1>6. CASE RecvEnd
  <2>1. SynTypeOK'
    BY <1>6 DEF RecvEnd, SynTypeOK
  <2>2. GetTypeOK'
    BY <1>6 DEF RecvEnd, GetTypeOK, GetterStates
  <2>3. BuffTypeOK' /\ ChainTypeOK'
    BY <1>6 DEF RecvEnd, BuffTypeOK, ChainTypeOK
  <2> QED
    BY <2>1, <2>2, <2>3
<1>7. CASE AddLock
  <2>1. raw_buf' \in Bytes
    BY <1>7 DEF AddLock, Padded, GetTypeOK, Bytes
  <2>2. GetTypeOK' /\ BuffTypeOK'
    BY <1>7, <2>1 DEF AddLock, GetTypeOK, BuffTypeOK, GetterStates
  <2>3. SynTypeOK' /\ ChainTypeOK'
    BY <1>7 DEF AddLock, SynTypeOK, ChainTypeOK
  <2> QED
    BY <2>2, <2>3
<1>8. CASE AddExtend
  <2>1. capacity' \in Nat /\ buffer' \in [0 .. capacity' - 1 -> Bytes]
    <3>1. CASE RemainsTooLittle
      BY <1>8, <1>g, <3>1 DEF AddExtend, BuffTypeOK
    <3>2. CASE ~RemainsTooLittle
      BY <1>8, <3>2 DEF AddExtend, BuffTypeOK
    <3> QED
      BY <3>1, <3>2
  <2>2. /\ gpc' = "setind"
        /\ UNCHANGED <<synVars, taken, raw_buf, recv_count, closing, lock,
                       set_ind, get_ind, fin_flag, cntrlVars, chainVars, conn,
                       failed>>
    BY <1>8 DEF AddExtend
  <2>3. BuffTypeOK'
    BY <2>1, <2>2 DEF BuffTypeOK
  <2>4. SynTypeOK' /\ GetTypeOK' /\ ChainTypeOK'
    BY <2>2 DEF SynTypeOK, GetTypeOK, ChainTypeOK, GetterStates
  <2> QED
    BY <2>3, <2>4
<1>9. CASE AddSetInd
  <2>1. GetTypeOK' /\ BuffTypeOK'
    BY <1>9 DEF AddSetInd, GetTypeOK, BuffTypeOK, GetterStates
  <2>2. SynTypeOK' /\ ChainTypeOK'
    BY <1>9 DEF AddSetInd, SynTypeOK, ChainTypeOK
  <2> QED
    BY <2>1, <2>2
<1>10. CASE AddStore
  <2>1. buffer' \in [0 .. capacity - 1 -> Bytes]
    BY <1>10 DEF AddStore, GetTypeOK, BuffTypeOK
  <2>2. GetTypeOK' /\ BuffTypeOK'
    BY <1>10, <2>1 DEF AddStore, GetTypeOK, BuffTypeOK, GetterStates
  <2>3. SynTypeOK' /\ ChainTypeOK'
    BY <1>10 DEF AddStore, SynTypeOK, ChainTypeOK
  <2> QED
    BY <2>2, <2>3
<1>11. CASE SetFin
  <2>1. GetTypeOK' /\ BuffTypeOK'
    BY <1>11 DEF SetFin, GetTypeOK, BuffTypeOK, GetterStates
  <2>2. SynTypeOK' /\ ChainTypeOK'
    BY <1>11 DEF SetFin, SynTypeOK, ChainTypeOK
  <2> QED
    BY <2>1, <2>2
<1>12. CASE SetLink \/ CreateChain \/ Join
  <2>1. i' \in 1 .. CONN_NUMBER + 1
    BY <1>12 DEF SetLink, CreateChain, Join, Started, Conns, ChainTypeOK
  <2>2. tpc' \in [Conns -> ChainStates]
    BY <1>12 DEF SetLink, CreateChain, Join, ChainTypeOK, ChainStates
  <2>3. conn' \in [Conns -> {"none", "open", "fin"}]
    BY <1>12 DEF SetLink, CreateChain, Join, ChainTypeOK
  <2>4. ChainTypeOK'
    BY <1>12, <2>1, <2>2, <2>3 DEF SetLink, CreateChain, Join, ChainTypeOK
  <2>5. SynTypeOK' /\ GetTypeOK' /\ BuffTypeOK'
    BY <1>12 DEF SetLink, CreateChain, Join, SynTypeOK, GetTypeOK, BuffTypeOK
  <2> QED
    BY <2>4, <2>5
<1>13. ASSUME NEW c \in Conns, TxLock(c) \/ TxAdvance(c) \/ TxEmpty(c) \/ TxClose(c)
       PROVE  TypeOK'
  <2>1. ChainTypeOK'
    BY <1>13 DEF TxLock, TxAdvance, TxEmpty, TxClose, AfterEmpty, ChainTypeOK,
                 ChainStates
  <2>2. BuffTypeOK'
    BY <1>13 DEF TxLock, TxAdvance, TxEmpty, TxClose, BuffTypeOK
  <2>3. SynTypeOK' /\ GetTypeOK'
    BY <1>13 DEF TxLock, TxAdvance, TxEmpty, TxClose, SynTypeOK, GetTypeOK
  <2> QED
    BY <2>1, <2>2, <2>3
<1>14. ASSUME NEW c \in Conns, TxCopy(c) PROVE TypeOK'
  <2>1. get_ind \in 0 .. capacity - 1
    BY <1>14 DEF TxCopy, HasBlock, Slots, SlotInBounds, BuffTypeOK
  <2>2. [seq |-> get_ind % SEQ_MOD, data |-> buffer[get_ind]] \in Packet
    BY <2>1 DEF BuffTypeOK, Packet
  <2>3. ChainTypeOK'
    BY <1>14, <2>2 DEF TxCopy, ChainTypeOK, ChainStates
  <2>4. SynTypeOK' /\ GetTypeOK' /\ BuffTypeOK'
    BY <1>14 DEF TxCopy, SynTypeOK, GetTypeOK, BuffTypeOK
  <2> QED
    BY <2>3, <2>4
<1>15. ASSUME NEW c \in Conns, TxSend(c) PROVE TypeOK'
  <2>1. Append(link[c], packet[c]) \in Seq(Packet)
    BY DEF ChainTypeOK
  <2>2. link' \in [Conns -> Seq(Packet)] /\ tpc' \in [Conns -> ChainStates]
    BY <1>15, <2>1 DEF TxSend, ChainTypeOK, ChainStates
  <2>3. ChainTypeOK'
    BY <1>15, <2>2 DEF TxSend, ChainTypeOK
  <2>4. SynTypeOK' /\ GetTypeOK' /\ BuffTypeOK'
    BY <1>15 DEF TxSend, SynTypeOK, GetTypeOK, BuffTypeOK
  <2> QED
    BY <2>3, <2>4
<1>16. CASE UNCHANGED vars
  BY <1>16 DEF vars, SynTypeOK, GetTypeOK, BuffTypeOK, ChainTypeOK
<1> QED
  BY <1>1, <1>2, <1>3, <1>4, <1>5, <1>6, <1>7, <1>8, <1>9, <1>10, <1>11, <1>12,
     <1>13, <1>14, <1>15, <1>16, Steps DEF Step, TxChain

\* Each step that locks proxy_buff finds the mutex free, and nobody works on
\* it without.
LEMMA OwnersNext == TypeOK /\ Owners /\ [Next]_vars => Owners'
<1> SUFFICES ASSUME TypeOK, Owners, [Next]_vars PROVE Owners'
  OBVIOUS
<1>t. tpc \in [Conns -> ChainStates]
  BY DEF TypeOK, ChainTypeOK
<1>n. Getter \notin Conns /\ NoOwner \notin Conns /\ NoOwner # Getter
  BY TxConstants DEF Conns
<1> USE <1>t, <1>n DEF Owners, synVars, getVars, buffVars, cntrlVars, chainVars
<1>1. CASE SynStep \/ GetterMoves
  BY <1>1 DEF SynStep, GetterMoves
<1>2. CASE ExitStep
  BY <1>2 DEF ExitStep, Exit
<1>3. CASE PollIn \/ RecvSome \/ RecvEnd
  BY <1>3 DEF PollIn, RecvSome, RecvEnd
<1>4. CASE AddLock \/ AddExtend \/ AddSetInd \/ AddStore \/ SetFin
  BY <1>4 DEF AddLock, AddExtend, AddSetInd, AddStore, SetFin
<1>5. CASE SetLink \/ CreateChain \/ Join
  BY <1>5 DEF SetLink, CreateChain, Join
<1>6. ASSUME NEW c \in Conns, TxChain(c) PROVE Owners'
  BY <1>6 DEF TxChain, TxLock, TxCopy, TxAdvance, TxSend, TxEmpty, TxClose,
              AfterEmpty
<1>7. CASE UNCHANGED vars
  BY <1>7 DEF vars
<1> QED
  BY <1>1, <1>2, <1>3, <1>4, <1>5, <1>6, <1>7, Steps DEF Step

\* add2buff stores inside what it has allocated, and no tx_chain passes it.
LEMMA SlotsNext == TypeOK /\ Owners /\ Slots /\ [Next]_vars => Slots'
<1> SUFFICES ASSUME TypeOK, Owners, Slots, [Next]_vars PROVE Slots'
  OBVIOUS
<1>t. /\ tpc \in [Conns -> ChainStates]
      /\ set_ind \in Nat \cup {-1} /\ get_ind \in Nat /\ capacity \in Nat
  BY DEF TypeOK, ChainTypeOK, BuffTypeOK
<1>n. Getter \notin Conns /\ NoOwner \notin Conns /\ NoOwner # Getter
  BY TxConstants DEF Conns
<1> USE <1>t, <1>n DEF Slots, SlotInBounds, synVars, getVars, buffVars, cntrlVars,
                      chainVars
<1>1. CASE SynStep \/ GetterMoves
  BY <1>1 DEF SynStep, GetterMoves
<1>2. CASE ExitStep
  BY <1>2 DEF ExitStep, Exit
<1>3. CASE PollIn \/ RecvSome \/ RecvEnd
  BY <1>3 DEF PollIn, RecvSome, RecvEnd
<1>4. CASE AddLock \/ AddStore \/ SetFin
  BY <1>4 DEF AddLock, AddStore, SetFin
<1>5. CASE AddExtend
  <2>1. set_ind + 1 < capacity' /\ set_ind < capacity' /\ capacity' > 0
    <3>1. CASE RemainsTooLittle
      <4>1. capacity' = 2 * capacity
        BY <1>5, <3>1 DEF AddExtend
      <4> QED
        BY <4>1
    <3>2. CASE ~RemainsTooLittle
      <4>1. capacity' = capacity
        BY <1>5, <3>2 DEF AddExtend
      <4>2. 2 <= 2 * PTR_SIZE /\ 2 * PTR_SIZE \in Nat
        BY TxConstants
      <4> QED
        BY <3>2, <4>1, <4>2 DEF RemainsTooLittle
    <3> QED
      BY <3>1, <3>2
  <2> QED
    BY <1>5, <2>1 DEF AddExtend
<1>6. CASE AddSetInd
  BY <1>6 DEF AddSetInd, Owners
<1>7. CASE SetLink \/ CreateChain \/ Join
  BY <1>7 DEF SetLink, CreateChain, Join
<1>8. ASSUME NEW c \in Conns, TxLock(c) \/ TxCopy(c) \/ TxSend(c) \/ TxEmpty(c)
                                  \/ TxClose(c)
      PROVE  Slots'
  BY <1>8 DEF TxLock, TxCopy, TxSend, TxEmpty, TxClose, HasBlock, AfterEmpty
<1>9. ASSUME NEW c \in Conns, TxAdvance(c) PROVE Slots'
  <2>1. \A e \in Conns : tpc'[e] # "advance"
    BY <1>9 DEF TxAdvance, Owners
  <2> QED
    BY <1>9, <2>1 DEF TxAdvance
<1>10. CASE UNCHANGED vars
  BY <1>10 DEF vars
<1> QED
  BY <1>1, <1>2, <1>3, <1>4, <1>5, <1>6, <1>7, <1>8, <1>9, <1>10, Steps
     DEF Step, TxChain

\* run_controller starts the tx_chains one after the other.
LEMMA StartedNext == TypeOK /\ Started /\ [Next]_vars => Started'
<1> SUFFICES ASSUME TypeOK, Started, [Next]_vars PROVE Started'
  OBVIOUS
<1>t. tpc \in [Conns -> ChainStates] /\ i \in 1 .. CONN_NUMBER + 1
  BY DEF TypeOK, ChainTypeOK
<1> USE <1>t, TxConstants DEF Started, synVars, getVars, buffVars, cntrlVars,
                              chainVars
<1>1. CASE SynStep \/ GetterMoves
  BY <1>1 DEF SynStep, GetterMoves
<1>2. CASE ExitStep
  BY <1>2 DEF ExitStep, Exit
<1>3. CASE PollIn \/ RecvSome \/ RecvEnd
  BY <1>3 DEF PollIn, RecvSome, RecvEnd
<1>4. CASE AddLock \/ AddExtend \/ AddSetInd \/ AddStore \/ SetFin
  BY <1>4 DEF AddLock, AddExtend, AddSetInd, AddStore, SetFin
<1>5. CASE SetLink \/ Join
  BY <1>5 DEF SetLink, Join
<1>6. CASE CreateChain
  BY <1>6 DEF CreateChain, Conns
<1>7. ASSUME NEW c \in Conns, TxChain(c) PROVE Started'
  <2>1. /\ tpc[c] \notin {"none", "exit"} /\ UNCHANGED <<gpc, cntrlVars>>
        /\ \A e \in Conns \ {c} : tpc'[e] = tpc[e]
    BY <1>7 DEF TxChain, TxLock, TxCopy, TxAdvance, TxSend, TxEmpty, TxClose
  <2> QED
    BY <2>1
<1>8. CASE UNCHANGED vars
  BY <1>8 DEF vars
<1> QED
  BY <1>1, <1>2, <1>3, <1>4, <1>5, <1>6, <1>7, <1>8, Steps DEF Step

\* set_split_args and set_controller_args.
LEMMA BaseInit == Init => TypeOK /\ Owners /\ Slots /\ Started
<1> SUFFICES ASSUME Init PROVE TypeOK /\ Owners /\ Slots /\ Started
  OBVIOUS
<1> USE TxConstants
<1>1. Garbage \in Bytes
  BY DEF Garbage, Bytes
<1>2. SynTypeOK /\ GetTypeOK
  <2>1. closing \in BOOLEAN /\ failed \in BOOLEAN
    BY Zenon DEF Init
  <2> QED
    BY <1>1, <2>1 DEF Init, SynTypeOK, GetTypeOK, GetterStates
<1>3. BuffTypeOK
  BY <1>1 DEF Init, BuffTypeOK
<1>4. [seq |-> 0, data |-> Garbage] \in Packet
  BY <1>1 DEF Packet
<1>5. ChainTypeOK
  BY <1>4 DEF Init, ChainTypeOK, ChainStates
<1>6. Owners /\ Slots /\ Started
  BY DEF Init, Owners, Slots, SlotInBounds, Started
<1> QED
  BY <1>2, <1>3, <1>5, <1>6 DEF TypeOK

\* The state of the transmitter proxy is well typed, its mutex works, and the
\* indices of proxy_buff are in order.
LEMMA BaseCorrect == Spec => [](TypeOK /\ Owners /\ Slots /\ Started)
  BY BaseInit, TypeNext, OwnersNext, SlotsNext, StartedNext, PTL DEF Spec

\* Every state of the transmitter proxy is well typed, whichever call fails
\* and however its threads interleave.
THEOREM TxTypeCorrect == Spec => []TypeOK
  BY BaseCorrect, PTL

\* add2buff never stores outside proxy_buff, and no tx_chain reads a slot that
\* holds no block, for every initial capacity and size of a pointer.
THEOREM SlotsInBounds == Spec => []SlotInBounds
<1>1. Slots => SlotInBounds
  BY DEF Slots
<1> QED
  BY <1>1, BaseCorrect, PTL

-----------------------------------------------------------------------------
(* The getter cuts the stream                                              *)

\* The steps that do not concern the getter.
LEMMA GetterIdle ==
  ASSUME SetLink \/ CreateChain \/ Join \/ (\E c \in Conns : TxChain(c))
  PROVE  UNCHANGED <<getVars, set_ind, capacity, buffer, fin_flag, failed>>
  BY DEF SetLink, CreateChain, Join, TxChain, TxLock, TxCopy, TxAdvance, TxSend,
         TxEmpty, TxClose, buffVars

\* A block more is BLOCKSIZE bytes more.
LEMMA OneMore ==
  \A b \in Int : /\ b * BLOCKSIZE \in Int /\ (b + 1) * BLOCKSIZE \in Int
                 /\ (b + 1) * BLOCKSIZE = b * BLOCKSIZE + BLOCKSIZE
  BY TxConstants

\* recv() fills raw_buf from left to right.
LEMMA ReceivedNext ==
  ASSUME TypeOK, StreamInv, RecvSome
  PROVE  /\ Received'
         /\ taken' - recv_count' = taken - recv_count
         /\ recv_count' \in 1 .. BLOCKSIZE
         /\ gpc' = IF recv_count' = BLOCKSIZE THEN "add" ELSE "recv"
<1>1. PICK n \in RecvSizes :
        /\ raw_buf' = [k \in 1 .. BLOCKSIZE |->
                          IF k \in recv_count + 1 .. recv_count + n
                          THEN taken + k - recv_count ELSE raw_buf[k]]
        /\ recv_count' = recv_count + n
        /\ taken' = taken + n
        /\ gpc' = IF recv_count + n = BLOCKSIZE THEN "add" ELSE "recv"
  BY DEF RecvSome
<1>2. /\ recv_count \in 0 .. BLOCKSIZE /\ taken \in Nat /\ BLOCKSIZE \in Nat
      /\ n \in 1 .. BLOCKSIZE - recv_count
  BY TxConstants DEF TypeOK, GetTypeOK, RecvSizes
<1>3. \A k \in 1 .. recv_count : raw_buf[k] = taken - recv_count + k
  BY DEF StreamInv, Received, RecvSome
<1>4. \A k \in 1 .. recv_count' : raw_buf'[k] = taken' - recv_count' + k
  <2> SUFFICES ASSUME NEW k \in 1 .. recv_count + n
               PROVE  raw_buf'[k] = taken - recv_count + k
    BY <1>1, <1>2
  <2>1. raw_buf'[k] = IF k \in recv_count + 1 .. recv_count + n
                      THEN taken + k - recv_count ELSE raw_buf[k]
    BY <1>1, <1>2
  <2> QED
    BY <1>2, <1>3, <2>1
<1>5. /\ taken' - recv_count' = taken - recv_count
      /\ recv_count' \in 1 .. BLOCKSIZE
  BY <1>1, <1>2
<1>6. gpc' = IF recv_count' = BLOCKSIZE THEN "add" ELSE "recv"
  BY <1>1
<1>7. Received'
  BY <1>4 DEF Received
<1> QED
  BY <1>5, <1>6, <1>7

\* Padding makes a block of what was received.
LEMMA PaddedBlock ==
  ASSUME TypeOK, StreamInv, gpc = "add"
  PROVE  Padded = BlockOf(set_ind + 1, taken)
<1> DEFINE first == (set_ind + 1) * BLOCKSIZE
<1>1. /\ recv_count \in 0 .. BLOCKSIZE /\ taken \in Nat /\ BLOCKSIZE \in Nat
      /\ set_ind + 1 \in Int
  BY TxConstants DEF TypeOK, GetTypeOK, BuffTypeOK
<1>2. first \in Int /\ taken = first + recv_count
  BY <1>1 DEF StreamInv
<1>3. \A k \in 1 .. recv_count : raw_buf[k] = first + k
  BY <1>1, <1>2 DEF StreamInv, Received
<1> HIDE DEF first
<1>4. \A k \in 1 .. BLOCKSIZE :
         (IF k > recv_count THEN 0 ELSE raw_buf[k])
            = (IF first + k <= taken THEN first + k ELSE 0)
  BY <1>1, <1>2, <1>3
<1>5. BlockOf(set_ind + 1, taken)
         = [k \in 1 .. BLOCKSIZE |-> IF first + k <= taken THEN first + k ELSE 0]
  BY DEF BlockOf, first
<1> QED
  BY <1>4, <1>5 DEF Padded

\* The getter loses no byte and takes none twice.
LEMMA StreamNext ==
  TypeOK /\ StreamInv /\ [Next]_vars => StreamInv'
<1> SUFFICES ASSUME TypeOK, StreamInv, [Next]_vars PROVE StreamInv'
  OBVIOUS
<1>t. /\ recv_count \in 0 .. BLOCKSIZE /\ taken \in 0 .. StreamLen
      /\ BLOCKSIZE \in Nat \ {0} /\ set_ind \in Int /\ set_ind + 1 \in Int
      /\ StreamLen \in Nat
  BY TxConstants DEF TypeOK, GetTypeOK, BuffTypeOK
<1>a. /\ set_ind * BLOCKSIZE \in Int /\ (set_ind + 1) * BLOCKSIZE \in Int
      /\ (set_ind + 1) * BLOCKSIZE = set_ind * BLOCKSIZE + BLOCKSIZE
  BY <1>t, OneMore
<1> USE DEF synVars, getVars, buffVars, cntrlVars, chainVars
<1>1. CASE SynStep
  <2>1. failed => failed'
    BY <1>1, Zenon DEF SynStep
  <2>2. UNCHANGED <<getVars, set_ind, fin_flag>>
    BY <1>1 DEF SynStep
  <2> QED
    BY <2>1, <2>2 DEF StreamInv, Received, BlockOf
<1>2. CASE ExitStep
  BY <1>2 DEF ExitStep, Exit, StreamInv
<1>3. CASE GetterMoves
  <2>1. /\ UNCHANGED <<taken, set_ind, fin_flag>>
        /\ gpc \in {"setup", "accept", "poll"}
        /\ gpc' \in {"accept", "poll", "stuck", "fin"}
        /\ gpc' = "fin" => closing' /\ failed'
        /\ gpc' # "fin" => closing' = closing
    BY <1>3 DEF GetterMoves
  <2>2. ~closing /\ ~fin_flag /\ taken = (set_ind + 1) * BLOCKSIZE
    BY <2>1 DEF StreamInv
  <2> QED
    BY <1>t, <1>a, <2>1, <2>2 DEF StreamInv
<1>4. CASE PollIn
  <2>1. /\ UNCHANGED <<taken, closing, set_ind, fin_flag, failed>>
        /\ gpc = "poll" /\ gpc' = "recv" /\ recv_count' = 0
    BY <1>4 DEF PollIn
  <2>2. ~closing /\ ~fin_flag /\ taken = (set_ind + 1) * BLOCKSIZE
    BY <2>1 DEF StreamInv
  <2>3. Received'
    BY <2>1 DEF Received
  <2> QED
    BY <1>t, <1>a, <2>1, <2>2, <2>3 DEF StreamInv
<1>5. CASE RecvSome
  <2>1. /\ UNCHANGED <<closing, set_ind, fin_flag, failed>> /\ gpc = "recv"
        /\ taken' \in Int
    BY <1>5, <1>t DEF RecvSome, RecvSizes
  <2>2. ~closing /\ ~fin_flag /\ taken = (set_ind + 1) * BLOCKSIZE + recv_count
    BY <2>1 DEF StreamInv
  <2>3. taken' = (set_ind + 1) * BLOCKSIZE + recv_count'
    BY <1>5, <1>t, <1>a, <2>1, <2>2, ReceivedNext
  <2> QED
    BY <1>5, <1>t, <1>a, <2>1, <2>2, <2>3, ReceivedNext DEF StreamInv
<1>6. CASE RecvEnd
  <2>1. /\ UNCHANGED <<taken, raw_buf, recv_count, set_ind, fin_flag>>
        /\ gpc = "recv" /\ closing' = TRUE
        /\ gpc' = IF recv_count > 0 THEN "add" ELSE "fin"
        /\ taken = StreamLen \/ failed'
    BY <1>6 DEF RecvEnd
  <2> QED
    BY <1>t, <1>a, <2>1 DEF StreamInv, Received
<1>7. CASE AddLock
  <2>1. /\ UNCHANGED <<taken, recv_count, closing, set_ind, fin_flag, failed>>
        /\ gpc = "add" /\ gpc' = "extend"
        /\ raw_buf' = BlockOf(set_ind + 1, taken)
    BY <1>7, PaddedBlock DEF AddLock
  <2> QED
    BY <2>1 DEF StreamInv, BlockOf
<1>8. CASE AddExtend
  <2>1. /\ UNCHANGED <<taken, raw_buf, recv_count, closing, set_ind, fin_flag,
                       failed>>
        /\ gpc = "extend" /\ gpc' = "setind"
    BY <1>8 DEF AddExtend
  <2> QED
    BY <2>1 DEF StreamInv, BlockOf
<1>9. CASE AddSetInd
  <2>1. /\ UNCHANGED <<taken, raw_buf, recv_count, closing, fin_flag, failed>>
        /\ gpc = "setind" /\ gpc' = "store" /\ set_ind' = set_ind + 1
    BY <1>9 DEF AddSetInd
  <2> QED
    BY <2>1 DEF StreamInv, BlockOf
<1>10. CASE AddStore
  <2>1. /\ UNCHANGED <<taken, recv_count, closing, set_ind, fin_flag, failed>>
        /\ gpc = "store" /\ gpc' = IF closing THEN "fin" ELSE "poll"
    BY <1>10 DEF AddStore
  <2> QED
    BY <1>t, <1>a, <2>1 DEF StreamInv
<1>11. CASE SetFin
  BY <1>11 DEF SetFin, StreamInv
<1>12. CASE SetLink \/ CreateChain \/ Join \/ (\E c \in Conns : TxChain(c))
  BY <1>12, GetterIdle DEF StreamInv, Received, BlockOf
<1>13. CASE UNCHANGED vars
  BY <1>13 DEF vars, StreamInv, Received, BlockOf
<1> QED
  BY <1>1, <1>2, <1>3, <1>4, <1>5, <1>6, <1>7, <1>8, <1>9, <1>10, <1>11, <1>12,
     <1>13, Steps DEF Step

\* A block stays what it is when more of the stream comes in.
LEMMA WholeBlockKept ==
  ASSUME NEW b \in Nat, NEW n \in Nat, NEW m \in Nat, n <= m,
         (b + 1) * BLOCKSIZE <= n
  PROVE  BlockOf(b, n) = BlockOf(b, m)
<1> DEFINE first == b * BLOCKSIZE
<1>1. first \in Int /\ (b + 1) * BLOCKSIZE = first + BLOCKSIZE /\ BLOCKSIZE \in Nat
  BY OneMore, TxConstants
<1>2. /\ BlockOf(b, n) = [k \in 1 .. BLOCKSIZE |->
                            IF first + k <= n THEN first + k ELSE 0]
      /\ BlockOf(b, m) = [k \in 1 .. BLOCKSIZE |->
                            IF first + k <= m THEN first + k ELSE 0]
  BY DEF BlockOf
<1>3. first + BLOCKSIZE <= n
  BY <1>1
<1> HIDE DEF first
<1>4. \A k \in 1 .. BLOCKSIZE : first + k <= n /\ first + k <= m
  BY <1>1, <1>3
<1> QED
  BY <1>2, <1>4

\* No step of the proxy makes a block another one.
LEMMA BlockKept ==
  ASSUME TypeOK, StreamInv, [Next]_vars, NEW data, NEW b,
         CutFrom(data, b, taken, closing)
  PROVE  CutFrom(data, b, taken', closing')
<1>1. CASE UNCHANGED <<taken, closing>>
  BY <1>1
<1>2. CASE UNCHANGED taken /\ closing'
  BY <1>2 DEF CutFrom
<1>3. CASE RecvSome
  <2>1. ~closing /\ closing' = closing
    BY <1>3 DEF RecvSome, StreamInv
  <2>2. PICK n \in RecvSizes : taken' = taken + n
    BY <1>3 DEF RecvSome
  <2>3. /\ taken \in Nat /\ taken' \in Nat /\ taken <= taken'
        /\ b \in Nat /\ b * BLOCKSIZE \in Int /\ (b + 1) * BLOCKSIZE \in Int
    BY <2>2, OneMore, TxConstants
       DEF TypeOK, GetTypeOK, RecvSizes, CutFrom
  <2>4. (b + 1) * BLOCKSIZE <= taken /\ b * BLOCKSIZE < taken
    BY <2>1 DEF CutFrom
  <2>5. BlockOf(b, taken) = BlockOf(b, taken')
    BY <2>3, <2>4, WholeBlockKept
  <2> QED
    BY <2>1, <2>3, <2>4, <2>5 DEF CutFrom
<1>4. \/ UNCHANGED <<taken, closing>> \/ (UNCHANGED taken /\ closing') \/ RecvSome
  <2> USE DEF synVars, getVars, buffVars
  <2>1. CASE SynStep \/ ExitStep \/ PollIn
    BY <2>1 DEF SynStep, ExitStep, Exit, PollIn
  <2>2. CASE GetterMoves
    BY <2>2 DEF GetterMoves
  <2>3. CASE RecvEnd
    BY <2>3 DEF RecvEnd
  <2>4. CASE AddLock \/ AddExtend \/ AddSetInd \/ AddStore \/ SetFin
    BY <2>4 DEF AddLock, AddExtend, AddSetInd, AddStore, SetFin
  <2>5. CASE SetLink \/ CreateChain \/ Join \/ (\E c \in Conns : TxChain(c))
    BY <2>5, GetterIdle
  <2>6. CASE UNCHANGED vars
    BY <2>6 DEF vars
  <2> QED
    BY <2>1, <2>2, <2>3, <2>4, <2>5, <2>6, Steps DEF Step
<1> QED
  BY <1>1, <1>2, <1>3, <1>4

\* What the getter is about to store is the next block.
LEMMA StoredBlock ==
  ASSUME TypeOK, Slots, StreamInv, gpc = "store", set_ind \in Nat
  PROVE  CutFrom(raw_buf, set_ind, taken, closing)
<1>1. /\ set_ind * BLOCKSIZE \in Int /\ BLOCKSIZE \in Nat
      /\ (set_ind + 1) * BLOCKSIZE = set_ind * BLOCKSIZE + BLOCKSIZE
      /\ recv_count \in Nat /\ taken \in Nat
  BY OneMore, TxConstants DEF TypeOK, GetTypeOK
<1>2. /\ taken = set_ind * BLOCKSIZE + recv_count /\ recv_count > 0
      /\ ~closing => recv_count = BLOCKSIZE
      /\ raw_buf = BlockOf(set_ind, taken)
  BY DEF StreamInv
<1>3. set_ind * BLOCKSIZE < taken /\ (~closing => (set_ind + 1) * BLOCKSIZE <= taken)
  BY <1>1, <1>2
<1> QED
  BY <1>2, <1>3 DEF CutFrom

\* A slot of proxy_buff keeps its block when the buffer grows.
LEMMA BufferNext ==
  TypeOK /\ Slots /\ Started /\ StreamInv /\ BufferInv /\ [Next]_vars => BufferInv'
<1> SUFFICES ASSUME TypeOK, Slots, Started, StreamInv, BufferInv, [Next]_vars,
                    gpc' # "exit", NEW b \in 0 .. set_ind',
                    ~(gpc' = "store" /\ b = set_ind')
             PROVE  CutFrom(buffer'[b], b, taken', closing')
  BY DEF BufferInv, IsBlock
<1>t. /\ set_ind \in Nat \cup {-1} /\ capacity \in Nat /\ set_ind < capacity
      /\ buffer \in [0 .. capacity - 1 -> Bytes]
  BY DEF TypeOK, BuffTypeOK, Slots, SlotInBounds
<1>k. ASSUME gpc # "exit", b \in 0 .. set_ind, ~(gpc = "store" /\ b = set_ind),
             buffer'[b] = buffer[b]
      PROVE  CutFrom(buffer'[b], b, taken', closing')
  BY <1>k, BlockKept DEF BufferInv, IsBlock
<1> USE DEF synVars, getVars, buffVars, cntrlVars, chainVars
<1>1. CASE SynStep
  BY <1>1, <1>k DEF SynStep
<1>2. CASE ExitStep
  BY <1>2 DEF ExitStep, Exit
<1>3. CASE GetterMoves \/ PollIn \/ RecvSome \/ RecvEnd
  <2>1. /\ UNCHANGED <<set_ind, buffer>>
        /\ gpc \in {"setup", "accept", "poll", "recv"}
    BY <1>3 DEF GetterMoves, PollIn, RecvSome, RecvEnd
  <2> QED
    BY <1>k, <2>1
<1>4. CASE AddLock \/ SetFin
  BY <1>4, <1>k DEF AddLock, SetFin
<1>5. CASE AddExtend
  <2>1. b \in 0 .. set_ind /\ gpc = "extend"
    BY <1>5 DEF AddExtend
  <2>2. buffer'[b] = buffer[b]
    <3>1. CASE RemainsTooLittle
      <4>1. buffer' = [k \in 0 .. 2 * capacity - 1 |->
                          IF k < capacity THEN buffer[k] ELSE Garbage]
        BY <1>5, <3>1 DEF AddExtend
      <4> QED
        BY <1>t, <2>1, <4>1
    <3>2. CASE ~RemainsTooLittle
      BY <1>5, <3>2 DEF AddExtend
    <3> QED
      BY <3>1, <3>2
  <2> QED
    BY <1>k, <2>1, <2>2
<1>6. CASE AddSetInd
  <2>1. /\ gpc = "setind" /\ gpc' = "store" /\ set_ind' = set_ind + 1
        /\ buffer' = buffer
    BY <1>6 DEF AddSetInd
  <2>2. b \in 0 .. set_ind
    BY <1>t, <2>1
  <2> QED
    BY <1>k, <2>1, <2>2
<1>7. CASE AddStore
  <2>1. /\ gpc = "store" /\ UNCHANGED <<set_ind, taken, closing>>
        /\ buffer' = [buffer EXCEPT ![set_ind] = raw_buf]
    BY <1>7 DEF AddStore
  <2>2. b \in 0 .. set_ind /\ b \in 0 .. capacity - 1
    BY <1>t, <2>1
  <2>3. CASE b = set_ind
    <3>1. buffer'[b] = raw_buf /\ set_ind \in Nat
      BY <1>t, <2>1, <2>2, <2>3
    <3> QED
      BY <2>1, <2>3, <3>1, StoredBlock
  <2>4. CASE b # set_ind
    <3>1. buffer'[b] = buffer[b]
      BY <1>t, <2>1, <2>2, <2>4
    <3> QED
      BY <1>k, <2>1, <2>2, <2>4, <3>1
  <2> QED
    BY <2>3, <2>4
<1>8. CASE SetLink \/ CreateChain \/ Join \/ (\E c \in Conns : TxChain(c))
  BY <1>8, <1>k, GetterIdle
<1>9. CASE UNCHANGED vars
  BY <1>9, <1>k DEF vars
<1> QED
  BY <1>1, <1>2, <1>3, <1>4, <1>5, <1>6, <1>7, <1>8, <1>9, Steps DEF Step

-----------------------------------------------------------------------------
(* The packets                                                             *)

\* The number of a block can be read off its first byte.
LEMMA NumberOfBlock ==
  ASSUME NEW b \in Nat, NEW n \in Nat, b * BLOCKSIZE < n, NEW p,
         p.data = BlockOf(b, n)
  PROVE  BlkNum(p) = b
<1>1. BLOCKSIZE \in Nat \ {0} /\ 1 \in 1 .. BLOCKSIZE /\ b * BLOCKSIZE \in Nat
  BY TxConstants
<1>2. p.data[1] = b * BLOCKSIZE + 1
  BY <1>1 DEF BlockOf
<1>3. (b * BLOCKSIZE) \div BLOCKSIZE = b
  BY <1>1
<1> QED
  BY <1>1, <1>2, <1>3 DEF BlkNum

\* A packet stays what it is.
LEMMA PacketKept ==
  ASSUME TypeOK, StreamInv, [Next]_vars, NEW p, PacketOf(p, taken, closing)
  PROVE  PacketOf(p, taken', closing')
  BY BlockKept DEF PacketOf

\* What Append does to the packets on a link.
LEMMA AppendPacket ==
  ASSUME NEW s \in Seq(Packet), NEW p \in Packet
  PROVE  /\ Len(Append(s, p)) = Len(s) + 1 /\ Append(s, p)[Len(s) + 1] = p
         /\ \A k \in 1 .. Len(s) : Append(s, p)[k] = s[k]
         /\ Len(s) \in Nat
         /\ \A k : k \in 1 .. Len(s) + 1 <=> k \in 1 .. Len(s) \/ k = Len(s) + 1
  OBVIOUS

\* The steps that neither copy a block nor send it.
LEMMA ChainKept ==
  ASSUME TypeOK, Step
  PROVE  \/ \E c \in Conns : TxCopy(c) \/ TxSend(c)
         \/ /\ UNCHANGED <<link, packet>>
            /\ \A c \in Conns : tpc'[c] \in {"advance", "send"} =>
                                    tpc[c] \in {"advance", "send"}
<1>t. tpc \in [Conns -> ChainStates]
  BY DEF TypeOK, ChainTypeOK
<1> USE DEF synVars, getVars, buffVars, cntrlVars, chainVars
<1>1. CASE \/ SynStep \/ GetterMoves \/ PollIn \/ RecvSome \/ RecvEnd
           \/ AddLock \/ AddExtend \/ AddSetInd \/ AddStore \/ SetFin
  BY <1>1 DEF SynStep, GetterMoves, PollIn, RecvSome, RecvEnd, AddLock, AddExtend,
              AddSetInd, AddStore, SetFin
<1>2. CASE ExitStep
  BY <1>2 DEF ExitStep, Exit
<1>3. CASE SetLink \/ CreateChain \/ Join
  BY <1>3, <1>t DEF SetLink, CreateChain, Join
<1>4. ASSUME NEW c \in Conns, TxLock(c) \/ TxAdvance(c) \/ TxEmpty(c) \/ TxClose(c)
      PROVE  /\ UNCHANGED <<link, packet>>
             /\ \A e \in Conns : tpc'[e] \in {"advance", "send"} =>
                                     tpc[e] \in {"advance", "send"}
  BY <1>4, <1>t DEF TxLock, TxAdvance, TxEmpty, TxClose, AfterEmpty
<1>5. CASE UNCHANGED vars
  BY <1>5 DEF vars
<1> QED
  BY <1>1, <1>2, <1>3, <1>4, <1>5 DEF Step, TxChain

\* The packet a tx_chain fills is block get_ind.
LEMMA CopiedPacket ==
  ASSUME TypeOK, Owners, Slots, Started, BufferInv, NEW c \in Conns, TxCopy(c)
  PROVE  /\ UNCHANGED <<link, taken, closing, gpc, get_ind>>
         /\ tpc[c] = "locked" /\ tpc'[c] = "advance" /\ get_ind <= set_ind
         /\ \A e \in Conns \ {c} : packet'[e] = packet[e] /\ tpc'[e] = tpc[e]
         /\ PacketOf(packet'[c], taken, closing) /\ BlkNum(packet'[c]) = get_ind
<1>t. /\ tpc \in [Conns -> ChainStates] /\ packet \in [Conns -> Packet]
      /\ set_ind \in Nat \cup {-1} /\ get_ind \in Nat /\ taken \in Nat
      /\ Getter \notin Conns
  BY TxConstants DEF TypeOK, ChainTypeOK, BuffTypeOK, GetTypeOK, Conns
<1> DEFINE p == [seq |-> get_ind % SEQ_MOD, data |-> buffer[get_ind]]
<1>1. /\ UNCHANGED <<link, taken, closing, gpc, get_ind>>
      /\ tpc[c] = "locked" /\ tpc'[c] = "advance"
      /\ \A e \in Conns \ {c} : packet'[e] = packet[e] /\ tpc'[e] = tpc[e]
      /\ packet'[c] = p /\ get_ind <= set_ind
  BY <1>t DEF TxCopy, HasBlock, getVars, buffVars
<1>2. gpc # "exit" /\ gpc # "store" /\ get_ind \in 0 .. set_ind
  BY <1>t, <1>1 DEF Started, Owners
<1>3. CutFrom(p.data, get_ind, taken, closing)
  BY <1>2 DEF BufferInv, IsBlock
<1>4. BlkNum(p) = get_ind
  <2>1. get_ind * BLOCKSIZE < taken /\ p.data = BlockOf(get_ind, taken)
    BY <1>3 DEF CutFrom
  <2> HIDE DEF p
  <2> QED
    BY <1>t, <2>1, NumberOfBlock
<1>5. PacketOf(p, taken, closing)
  BY <1>3, <1>4 DEF PacketOf
<1> QED
  BY <1>1, <1>4, <1>5

\* What a tx_chain sends is what it has taken.
LEMMA SentPacket ==
  ASSUME TypeOK, NEW c \in Conns, TxSend(c)
  PROVE  /\ UNCHANGED <<packet, taken, closing, gpc, get_ind, set_ind>>
         /\ tpc[c] = "send" /\ tpc'[c] = "lock"
         /\ \A e \in Conns \ {c} : link'[e] = link[e] /\ tpc'[e] = tpc[e]
         /\ Len(link'[c]) = Len(link[c]) + 1
         /\ link'[c][Len(link[c]) + 1] = packet[c]
         /\ \A k \in 1 .. Len(link[c]) : link'[c][k] = link[c][k]
         /\ Len(link[c]) \in Nat
         /\ \A k : k \in 1 .. Len(link'[c]) <=>
                      k \in 1 .. Len(link[c]) \/ k = Len(link[c]) + 1
<1>1. /\ link[c] \in Seq(Packet) /\ packet[c] \in Packet
      /\ tpc \in [Conns -> ChainStates] /\ link \in [Conns -> Seq(Packet)]
  BY DEF TypeOK, ChainTypeOK
<1>2. /\ UNCHANGED <<packet, taken, closing, gpc, get_ind, set_ind>>
      /\ tpc[c] = "send" /\ tpc'[c] = "lock"
      /\ \A e \in Conns \ {c} : link'[e] = link[e] /\ tpc'[e] = tpc[e]
      /\ link'[c] = Append(link[c], packet[c])
  BY <1>1 DEF TxSend, getVars, buffVars
<1> QED
  BY <1>1, <1>2, AppendPacket

\* Every packet a tx_chain has taken, sent or not, is right.
LEMMA PacketNext ==
  /\ TypeOK /\ Owners /\ Slots /\ Started /\ StreamInv /\ BufferInv
  /\ PacketInv /\ [Next]_vars
  => PacketInv'
<1> SUFFICES ASSUME TypeOK, Owners, Slots, Started, StreamInv, BufferInv,
                    PacketInv, [Next]_vars, NEW c \in Conns
             PROVE  /\ \A k \in 1 .. Len(link'[c]) :
                           PacketOf(link'[c][k], taken', closing')
                    /\ tpc'[c] \in {"advance", "send"} =>
                           PacketOf(packet'[c], taken', closing')
  BY DEF PacketInv, IsPacket
<1>1. /\ \A k \in 1 .. Len(link[c]) : PacketOf(link[c][k], taken', closing')
      /\ tpc[c] \in {"advance", "send"} => PacketOf(packet[c], taken', closing')
  BY PacketKept DEF PacketInv, IsPacket
<1>2. ASSUME NEW e \in Conns, TxCopy(e)
      PROVE  /\ \A k \in 1 .. Len(link'[c]) :
                    PacketOf(link'[c][k], taken', closing')
             /\ tpc'[c] \in {"advance", "send"} =>
                    PacketOf(packet'[c], taken', closing')
  BY <1>1, <1>2, CopiedPacket
<1>3. ASSUME NEW e \in Conns, TxSend(e)
      PROVE  /\ \A k \in 1 .. Len(link'[c]) :
                    PacketOf(link'[c][k], taken', closing')
             /\ tpc'[c] \in {"advance", "send"} =>
                    PacketOf(packet'[c], taken', closing')
  <2>1. CASE e = c
    BY <1>1, <1>3, <2>1, SentPacket
  <2>2. CASE e # c
    BY <1>1, <1>3, <2>2, SentPacket
  <2> QED
    BY <2>1, <2>2
<1> QED
  BY <1>1, <1>2, <1>3, Steps, ChainKept

\* A step in which no tx_chain takes or sends a block.
Still ==
    /\ UNCHANGED <<link, packet, get_ind>>
    /\ \A c \in Conns : /\ tpc'[c] = "send" <=> tpc[c] = "send"
                        /\ tpc'[c] = "advance" => tpc[c] = "advance"

\* Most steps are.
LEMMA StillSteps ==
  ASSUME TypeOK, Started, Step, gpc' # "exit"
  PROVE  Still \/ \E c \in Conns : TxCopy(c) \/ TxAdvance(c) \/ TxSend(c)
<1>t. tpc \in [Conns -> ChainStates] /\ i \in 1 .. CONN_NUMBER + 1
  BY DEF TypeOK, ChainTypeOK
<1> USE DEF Still, synVars, getVars, buffVars, cntrlVars, chainVars
<1>1. CASE \/ SynStep \/ GetterMoves \/ PollIn \/ RecvSome \/ RecvEnd
           \/ AddLock \/ AddExtend \/ AddSetInd \/ AddStore \/ SetFin
  BY <1>1 DEF SynStep, GetterMoves, PollIn, RecvSome, RecvEnd, AddLock, AddExtend,
              AddSetInd, AddStore, SetFin
<1>2. CASE ExitStep
  BY <1>2 DEF ExitStep, Exit
<1>3. CASE SetLink \/ Join
  BY <1>3 DEF SetLink, Join
<1>4. CASE CreateChain
  <2>1. i \in Conns /\ tpc[i] = "none"
    BY <1>4, <1>t DEF CreateChain, Started
  <2> QED
    BY <1>4, <1>t, <2>1 DEF CreateChain
<1>5. ASSUME NEW c \in Conns, TxLock(c) \/ TxEmpty(c) \/ TxClose(c)
      PROVE  Still
  BY <1>5, <1>t DEF TxLock, TxEmpty, TxClose, AfterEmpty
<1>6. CASE UNCHANGED vars
  BY <1>6 DEF vars
<1> QED
  BY <1>1, <1>2, <1>3, <1>4, <1>5, <1>6 DEF Step, TxChain

\* They leave the blocks with the tx_chains that have them.
LEMMA StillShared ==
  ASSUME Shared, Rising, Still
  PROVE  Shared' /\ Rising'
<1>1. \A c \in Conns : Nums(c)' = Nums(c)
  BY DEF Still, Nums
<1>2. Shared'
  <2>1. /\ \A c, d \in Conns : c # d => Nums(c)' \cap Nums(d)' = {}
        /\ \A c \in Conns : \A b \in Nums(c)' : b \in Nat /\ b < get_ind'
        /\ \A b \in Nat : b < get_ind' => \E c \in Conns : b \in Nums(c)'
    BY <1>1 DEF Shared, Still
  <2>2. \A c \in Conns : tpc'[c] = "advance" => BlkNum(packet'[c]) = get_ind'
    BY DEF Shared, Still
  <2>3. \A c \in Conns : BlkNum(packet[c])' = BlkNum(packet'[c])
    BY DEF BlkNum
  <2> QED
    BY <2>1, <2>2, <2>3 DEF Shared
<1>3. Rising'
  BY DEF Rising, Still, BlkNum
<1> QED
  BY <1>2, <1>3

\* A copied block is not passed yet.
LEMMA CopyShared ==
  ASSUME TypeOK, Owners, Slots, Started, BufferInv, Shared, Rising,
         NEW c \in Conns, TxCopy(c)
  PROVE  Shared' /\ Rising'
<1>1. /\ UNCHANGED <<link, get_ind>>
      /\ tpc[c] = "locked" /\ tpc'[c] = "advance"
      /\ \A e \in Conns \ {c} : packet'[e] = packet[e] /\ tpc'[e] = tpc[e]
      /\ BlkNum(packet'[c]) = get_ind
  BY CopiedPacket
<1>2. \A e \in Conns : Nums(e)' = Nums(e)
  <2> SUFFICES ASSUME NEW e \in Conns PROVE Nums(e)' = Nums(e)
    OBVIOUS
  <2>1. CASE e = c
    BY <1>1, <2>1 DEF Nums, BlkNum
  <2>2. CASE e # c
    BY <1>1, <2>2 DEF Nums, BlkNum
  <2> QED
    BY <2>1, <2>2
<1>3. Shared'
  <2>1. /\ \A e, d \in Conns : e # d => Nums(e)' \cap Nums(d)' = {}
        /\ \A e \in Conns : \A b \in Nums(e)' : b \in Nat /\ b < get_ind'
        /\ \A b \in Nat : b < get_ind' => \E e \in Conns : b \in Nums(e)'
    BY <1>1, <1>2 DEF Shared
  <2>2. \A e \in Conns : tpc'[e] = "advance" => BlkNum(packet'[e]) = get_ind'
    BY <1>1 DEF Shared
  <2> QED
    BY <2>1, <2>2 DEF Shared, BlkNum
<1>4. Rising'
  <2> SUFFICES ASSUME NEW e \in Conns
               PROVE  tpc'[e] = "send" => \A k \in 1 .. Len(link'[e]) :
                                    BlkNum(link'[e][k]) < BlkNum(packet'[e])
    BY <1>1 DEF Rising, BlkNum
  <2> QED
    BY <1>1 DEF Rising
<1> QED
  BY <1>3, <1>4

\* The tx_chain that moves get_ind gets the block it passes.
LEMMA AdvanceShared ==
  ASSUME TypeOK, Owners, Shared, Rising, NEW c \in Conns, TxAdvance(c)
  PROVE  Shared' /\ Rising'
<1>t. tpc \in [Conns -> ChainStates] /\ get_ind \in Nat
  BY DEF TypeOK, ChainTypeOK, BuffTypeOK
<1>1. /\ UNCHANGED <<link, packet>> /\ get_ind' = get_ind + 1
      /\ tpc[c] = "advance" /\ tpc'[c] = "send"
      /\ \A e \in Conns \ {c} : tpc'[e] = tpc[e]
  BY <1>t DEF TxAdvance
<1>2. BlkNum(packet[c]) = get_ind /\ \A e \in Conns : tpc'[e] # "advance"
  BY <1>1 DEF Shared, Owners
<1>3. Nums(c)' = Nums(c) \cup {get_ind}
  BY <1>1, <1>2 DEF Nums, BlkNum
<1>4. \A e \in Conns \ {c} : Nums(e)' = Nums(e)
  BY <1>1 DEF Nums, BlkNum
<1>5. \A e \in Conns : get_ind \notin Nums(e)
  BY <1>t DEF Shared
<1>6. Shared'
  <2>1. \A e, d \in Conns : e # d => Nums(e)' \cap Nums(d)' = {}
    BY <1>3, <1>4, <1>5 DEF Shared
  <2>2. \A e \in Conns : \A b \in Nums(e)' : b \in Nat /\ b < get_ind'
    BY <1>t, <1>1, <1>3, <1>4 DEF Shared
  <2>3. \A b \in Nat : b < get_ind' => \E e \in Conns : b \in Nums(e)'
    <3> SUFFICES ASSUME NEW b \in Nat, b < get_ind'
                 PROVE  \E e \in Conns : b \in Nums(e)'
      OBVIOUS
    <3>1. CASE b = get_ind
      BY <1>3, <3>1
    <3>2. CASE b < get_ind
      BY <1>3, <1>4, <3>2 DEF Shared
    <3> QED
      BY <1>t, <1>1, <3>1, <3>2
  <2> QED
    BY <1>2, <2>1, <2>2, <2>3 DEF Shared
<1>7. Rising'
  <2>1. \A k \in 1 .. Len(link[c]) : BlkNum(link[c][k]) < BlkNum(packet[c])
    BY <1>2 DEF Shared, Nums
  <2> QED
    BY <1>1, <2>1 DEF Rising, BlkNum
<1> QED
  BY <1>6, <1>7

\* A packet that is sent was the last its tx_chain had taken.
LEMMA SendShared ==
  ASSUME TypeOK, Shared, Rising, NEW c \in Conns, TxSend(c)
  PROVE  Shared' /\ Rising'
<1> DEFINE n == Len(link[c])
<1>1. /\ UNCHANGED <<packet, get_ind>> /\ tpc[c] = "send" /\ tpc'[c] = "lock"
      /\ \A e \in Conns \ {c} : link'[e] = link[e] /\ tpc'[e] = tpc[e]
      /\ n \in Nat /\ Len(link'[c]) = n + 1 /\ link'[c][n + 1] = packet[c]
      /\ \A k \in 1 .. n : link'[c][k] = link[c][k]
      /\ \A k : k \in 1 .. Len(link'[c]) <=> k \in 1 .. n \/ k = n + 1
  BY SentPacket
<1> DEFINE p == packet[c]
<1>2. Nums(c) = {BlkNum(link[c][k]) : k \in 1 .. n} \cup {BlkNum(p)}
  BY <1>1 DEF Nums
<1>3. Nums(c)' = {BlkNum(link'[c][k]) : k \in 1 .. Len(link'[c])}
  BY <1>1 DEF Nums, BlkNum
<1>4. Nums(c)' = Nums(c)
  <2> HIDE DEF n, p
  <2> QED
    BY <1>1, <1>2, <1>3 DEF p
<1>5. \A e \in Conns : Nums(e)' = Nums(e)
  <2>1. \A e \in Conns \ {c} : Nums(e)' = Nums(e)
    BY <1>1 DEF Nums, BlkNum
  <2> QED
    BY <1>4, <2>1
<1>6. Shared'
  <2>1. /\ \A e, d \in Conns : e # d => Nums(e)' \cap Nums(d)' = {}
        /\ \A e \in Conns : \A b \in Nums(e)' : b \in Nat /\ b < get_ind'
        /\ \A b \in Nat : b < get_ind' => \E e \in Conns : b \in Nums(e)'
    BY <1>1, <1>5 DEF Shared
  <2>2. \A e \in Conns : tpc'[e] = "advance" => BlkNum(packet'[e]) = get_ind'
    BY <1>1 DEF Shared
  <2> QED
    BY <2>1, <2>2 DEF Shared, BlkNum
<1>7. /\ \A k \in 1 .. n : BlkNum(link[c][k]) < BlkNum(p)
      /\ \A k \in 1 .. n : k - 1 <= BlkNum(link[c][k])
      /\ \A k, m \in 1 .. n : k < m => BlkNum(link[c][k]) < BlkNum(link[c][m])
      /\ BlkNum(p) \in Nat /\ \A k \in 1 .. n : BlkNum(link[c][k]) \in Nat
  BY <1>1, <1>2 DEF Rising, Shared
<1>8. n <= BlkNum(p)
  <2>1. CASE n = 0
    BY <1>7, <2>1
  <2>2. CASE n # 0
    <3>1. n \in 1 .. n
      BY <1>1, <2>2
    <3> HIDE DEF n, p
    <3> QED
      BY <1>1, <1>7, <3>1
  <2> QED
    BY <2>1, <2>2
<1>9. /\ \A k \in 1 .. n + 1 : k - 1 <= BlkNum(link'[c][k])
      /\ \A k, m \in 1 .. n + 1 : k < m => BlkNum(link'[c][k]) < BlkNum(link'[c][m])
  <2> HIDE DEF n, p
  <2>1. \A k \in 1 .. n + 1 : k \in 1 .. n \/ k = n + 1
    BY <1>1
  <2>2. BlkNum(link'[c][n + 1]) = BlkNum(p)
    BY <1>1 DEF p
  <2>3. \A k \in 1 .. n + 1 : k - 1 <= BlkNum(link'[c][k])
    BY <1>1, <1>7, <1>8, <2>1, <2>2
  <2>4. \A k, m \in 1 .. n + 1 : k < m => k \in 1 .. n
    BY <1>1
  <2>5. \A k, m \in 1 .. n + 1 : k < m => BlkNum(link'[c][k]) < BlkNum(link'[c][m])
    BY <1>1, <1>7, <2>1, <2>2, <2>4
  <2> QED
    BY <2>3, <2>5
<1>10. Rising'
  <2> SUFFICES ASSUME NEW e \in Conns
               PROVE  /\ \A k \in 1 .. Len(link'[e]) : k - 1 <= BlkNum(link'[e][k])
                      /\ \A k, m \in 1 .. Len(link'[e]) :
                            k < m => BlkNum(link'[e][k]) < BlkNum(link'[e][m])
                      /\ tpc'[e] = "send" => \A k \in 1 .. Len(link'[e]) :
                            BlkNum(link'[e][k]) < BlkNum(packet'[e])
    BY DEF Rising, BlkNum
  <2>1. CASE e = c
    BY <1>1, <1>9, <2>1
  <2>2. CASE e # c
    BY <1>1, <2>2 DEF Rising
  <2> QED
    BY <2>1, <2>2
<1> QED
  BY <1>6, <1>10

\* As long as the process lives its tx_chains share the blocks out.
LEMMA ShareNext ==
  /\ TypeOK /\ Owners /\ Slots /\ Started /\ BufferInv /\ ShareInv /\ [Next]_vars
  => ShareInv'
<1> SUFFICES ASSUME TypeOK, Owners, Slots, Started, BufferInv, ShareInv,
                    [Next]_vars, gpc' # "exit"
             PROVE  Shared' /\ Rising'
  BY DEF ShareInv
<1>1. gpc # "exit"
  <2> SUFFICES ASSUME gpc = "exit" PROVE FALSE
    OBVIOUS
  <2>1. cpc = "exit" /\ \A c \in Conns : tpc[c] = "exit"
    BY DEF Started
  <2>2. gpc' = gpc
    BY <2>1, Steps
       DEF Step, SynStep, ExitStep, Exit, GetterMoves, PollIn, RecvSome, RecvEnd,
           AddLock, AddExtend, AddSetInd, AddStore, SetFin, SetLink, CreateChain,
           Join, TxChain, TxLock, TxCopy, TxAdvance, TxSend, TxEmpty, TxClose,
           vars, getVars
  <2> QED
    BY <2>2
<1>2. Shared /\ Rising
  BY <1>1 DEF ShareInv
<1> QED
  BY <1>2, Steps, StillSteps, StillShared, CopyShared, AdvanceShared, SendShared

\* Who closes finds nothing behind the end of the stream, and nothing comes.
LEMMA CloseNext ==
  TypeOK /\ Slots /\ StreamInv /\ CloseInv /\ [Next]_vars => CloseInv'
<1> SUFFICES ASSUME TypeOK, Slots, StreamInv, CloseInv, [Next]_vars,
                    NEW c \in Conns, tpc'[c] \in {"close", "done"}
             PROVE  fin_flag' /\ get_ind' = set_ind' + 1
  BY DEF CloseInv
<1>t. /\ tpc \in [Conns -> ChainStates] /\ get_ind \in Nat
      /\ set_ind \in Nat \cup {-1} /\ get_ind <= set_ind + 1
  BY DEF TypeOK, ChainTypeOK, BuffTypeOK, Slots, SlotInBounds
<1>k. CASE UNCHANGED <<set_ind, get_ind, fin_flag>> /\ tpc[c] \in {"close", "done"}
  BY <1>k DEF CloseInv
<1> USE DEF synVars, getVars, buffVars, cntrlVars, chainVars
<1>1. CASE SynStep \/ GetterMoves \/ PollIn \/ RecvSome \/ RecvEnd \/ AddLock
  BY <1>1, <1>k DEF SynStep, GetterMoves, PollIn, RecvSome, RecvEnd, AddLock
<1>2. CASE ExitStep
  BY <1>2 DEF ExitStep, Exit
<1>3. CASE AddExtend \/ AddSetInd \/ AddStore \/ SetFin
  <2>1. tpc[c] \in {"close", "done"} /\ gpc \notin {"done", "exit"}
    BY <1>3 DEF AddExtend, AddSetInd, AddStore, SetFin
  <2> QED
    BY <2>1 DEF CloseInv, StreamInv
<1>4. CASE SetLink \/ CreateChain \/ Join
  BY <1>4, <1>k, <1>t DEF SetLink, CreateChain, Join
<1>5. ASSUME NEW e \in Conns, TxLock(e) \/ TxCopy(e) \/ TxSend(e) \/ TxClose(e)
      PROVE  fin_flag' /\ get_ind' = set_ind' + 1
  BY <1>5, <1>k, <1>t DEF TxLock, TxCopy, TxSend, TxClose
<1>6. ASSUME NEW e \in Conns, TxAdvance(e)
      PROVE  fin_flag' /\ get_ind' = set_ind' + 1
  <2>1. tpc[c] \in {"close", "done"} /\ tpc[e] = "advance"
    BY <1>6, <1>t DEF TxAdvance
  <2> QED
    BY <1>t, <2>1 DEF CloseInv, Slots
<1>7. ASSUME NEW e \in Conns, TxEmpty(e)
      PROVE  fin_flag' /\ get_ind' = set_ind' + 1
  <2>1. UNCHANGED <<set_ind, get_ind, fin_flag>> /\ set_ind - get_ind < 0
    BY <1>7, <1>t DEF TxEmpty, HasBlock
  <2>2. tpc[c] \in {"close", "done"} \/ fin_flag
    BY <1>7, <1>t DEF TxEmpty, AfterEmpty
  <2> QED
    BY <1>k, <1>t, <2>1, <2>2
<1>8. CASE UNCHANGED vars
  BY <1>8, <1>k DEF vars
<1> QED
  BY <1>1, <1>2, <1>3, <1>4, <1>5, <1>6, <1>7, <1>8, Steps DEF Step, TxChain

\* What the proxy has taken, stored and sent is in keeping with the stream.
RelayInv == StreamInv /\ BufferInv /\ PacketInv /\ ShareInv /\ CloseInv

\* At the start nothing is taken.
LEMMA RelayInit == Init => RelayInv
<1> SUFFICES ASSUME Init PROVE RelayInv
  OBVIOUS
<1> USE TxConstants DEF Init
<1>1. StreamInv
  BY DEF StreamInv
<1>2. BufferInv
  BY DEF BufferInv
<1>3. PacketInv
  BY DEF PacketInv
<1>4. \A c \in Conns : Nums(c) = {} /\ Len(link[c]) = 0 /\ tpc[c] = "none"
  BY DEF Nums
<1>5. Shared
  BY <1>4 DEF Shared
<1>6. Rising
  BY <1>4 DEF Rising
<1>7. CloseInv
  BY DEF CloseInv
<1> QED
  BY <1>1, <1>2, <1>3, <1>5, <1>6, <1>7 DEF RelayInv, ShareInv

\* The whole inductive invariant of the transmitter proxy.
LEMMA RelayCorrect == Spec => [](TypeOK /\ Owners /\ Slots /\ Started /\ RelayInv)
<1>1. /\ TypeOK /\ Owners /\ Slots /\ Started /\ RelayInv /\ [Next]_vars
      => RelayInv'
  BY StreamNext, BufferNext, PacketNext, ShareNext, CloseNext DEF RelayInv
<1> QED
  BY <1>1, RelayInit, BaseCorrect, PTL DEF Spec

\* What a tx_chain has taken is what it has sent and the packet it holds.
LEMMA TakenPackets ==
  ASSUME TypeOK, NEW c \in Conns
  PROVE  /\ Len(link[c]) \in Nat
         /\ DOMAIN Taken(c) = 1 .. Len(Taken(c))
         /\ \A k : k \in DOMAIN Taken(c) <=>
               \/ k \in 1 .. Len(link[c])
               \/ tpc[c] \in {"advance", "send"} /\ k = Len(link[c]) + 1
         /\ \A k \in 1 .. Len(link[c]) : Taken(c)[k] = link[c][k]
         /\ tpc[c] \in {"advance", "send"} =>
               Taken(c)[Len(link[c]) + 1] = packet[c]
<1>1. link[c] \in Seq(Packet) /\ packet[c] \in Packet
  BY DEF TypeOK, ChainTypeOK
<1>2. CASE tpc[c] \in {"advance", "send"}
  <2>1. Taken(c) = Append(link[c], packet[c])
    BY <1>2 DEF Taken
  <2>2. DOMAIN Taken(c) = 1 .. Len(Taken(c))
    BY <1>1, <2>1
  <2> QED
    BY <1>1, <1>2, <2>1, <2>2, AppendPacket
<1>3. CASE tpc[c] \notin {"advance", "send"}
  BY <1>1, <1>3 DEF Taken
<1> QED
  BY <1>2, <1>3

\* A whole block ends with a byte of the stream.
LEMMA WholeBlockEnds ==
  ASSUME NEW b \in Nat, NEW n \in Nat, (b + 1) * BLOCKSIZE <= n
  PROVE  BlockOf(b, n)[BLOCKSIZE] # 0
<1> DEFINE first == b * BLOCKSIZE
<1>1. first \in Nat /\ (b + 1) * BLOCKSIZE = first + BLOCKSIZE
      /\ BLOCKSIZE \in Nat \ {0}
  BY OneMore, TxConstants
<1>2. BlockOf(b, n)[BLOCKSIZE] = IF first + BLOCKSIZE <= n THEN first + BLOCKSIZE ELSE 0
  BY <1>1 DEF BlockOf
<1> HIDE DEF first
<1> QED
  BY <1>1, <1>2

\* What the tx_chains put on the links is the stream, cut into blocks: no
\* packet carries a byte that add2buff or a later block has overwritten, none
\* has another block's number, and only the end of the stream is padded.
THEOREM PacketsFromStream == Spec => []PacketsCutStream
<1>1. TypeOK /\ PacketInv => PacketsCutStream
  <2> SUFFICES ASSUME TypeOK, PacketInv, NEW c \in Conns, NEW k \in DOMAIN Taken(c)
               PROVE  LET p == Taken(c)[k] IN
                      /\ p.seq = BlkNum(p) % SEQ_MOD
                      /\ p.data = BlockOf(BlkNum(p), taken)
                      /\ p.data[BLOCKSIZE] = 0 => closing
    BY DEF PacketsCutStream
  <2> DEFINE p == Taken(c)[k]
  <2>1. PacketOf(p, taken, closing)
    BY TakenPackets DEF PacketInv, IsPacket
  <2> HIDE DEF p
  <2>2. /\ BlkNum(p) \in Nat /\ taken \in Nat /\ p.seq = BlkNum(p) % SEQ_MOD
        /\ p.data = BlockOf(BlkNum(p), taken)
        /\ ~closing => (BlkNum(p) + 1) * BLOCKSIZE <= taken
    BY <2>1, TxConstants DEF PacketOf, CutFrom, TypeOK, GetTypeOK
  <2>3. p.data[BLOCKSIZE] = 0 => closing
    BY <2>2, WholeBlockEnds
  <2> QED
    BY <2>2, <2>3 DEF p
<1> QED
  BY <1>1, RelayCorrect, PTL DEF RelayInv

\* With the mutex free, the blocks a tx_chain has passed get_ind over are
\* those it has taken, the k-th not before block k - 1.
LEMMA TakenNums ==
  ASSUME TypeOK, Owners, Shared, Rising, lock = NoOwner, NEW c \in Conns
  PROVE  /\ DOMAIN Taken(c) = 1 .. Len(Taken(c))
         /\ \A k \in DOMAIN Taken(c) :
               /\ k \in Nat /\ BlkNum(Taken(c)[k]) \in Nums(c)
               /\ 1 <= k /\ k <= BlkNum(Taken(c)[k]) + 1
               /\ BlkNum(Taken(c)[k]) \in Nat /\ BlkNum(Taken(c)[k]) < get_ind
         /\ \A b \in Nums(c) : \E k \in DOMAIN Taken(c) : BlkNum(Taken(c)[k]) = b
         /\ \A k, m \in DOMAIN Taken(c) :
               k < m => BlkNum(Taken(c)[k]) < BlkNum(Taken(c)[m])
<1> DEFINE n == Len(link[c])
<1> DEFINE p == packet[c]
<1>1. tpc[c] # "advance"
  BY TxConstants DEF Owners, Conns
<1>2. /\ n \in Nat /\ DOMAIN Taken(c) = 1 .. Len(Taken(c))
      /\ \A k : k \in DOMAIN Taken(c) <=>
            k \in 1 .. n \/ (tpc[c] = "send" /\ k = n + 1)
      /\ \A k \in 1 .. n : Taken(c)[k] = link[c][k]
      /\ tpc[c] = "send" => Taken(c)[n + 1] = p
  BY <1>1, TakenPackets
<1>3. /\ \A k \in 1 .. n : BlkNum(link[c][k]) \in Nums(c)
      /\ tpc[c] = "send" => BlkNum(p) \in Nums(c)
      /\ \A b \in Nums(c) : \/ \E k \in 1 .. n : b = BlkNum(link[c][k])
                            \/ tpc[c] = "send" /\ b = BlkNum(p)
      /\ \A b \in Nums(c) : b \in Nat /\ b < get_ind
  BY DEF Nums, Shared
<1>4. /\ \A k \in 1 .. n : k - 1 <= BlkNum(link[c][k])
      /\ \A k, m \in 1 .. n : k < m => BlkNum(link[c][k]) < BlkNum(link[c][m])
      /\ tpc[c] = "send" => \A k \in 1 .. n : BlkNum(link[c][k]) < BlkNum(p)
  BY DEF Rising
<1> HIDE DEF n, p
<1>5. tpc[c] = "send" => n <= BlkNum(p)
  <2>1. CASE n = 0
    BY <1>3, <2>1
  <2>2. CASE n # 0
    <3>1. n \in 1 .. n
      BY <1>2, <2>2
    <3> QED
      BY <1>2, <1>3, <1>4, <3>1
  <2> QED
    BY <2>1, <2>2
<1>6. \A k \in DOMAIN Taken(c) :
         /\ k \in Nat /\ BlkNum(Taken(c)[k]) \in Nums(c)
         /\ 1 <= k /\ k <= BlkNum(Taken(c)[k]) + 1
  BY <1>2, <1>3, <1>4, <1>5
<1>7. \A b \in Nums(c) : \E k \in DOMAIN Taken(c) : BlkNum(Taken(c)[k]) = b
  BY <1>2, <1>3
<1>8. \A k, m \in DOMAIN Taken(c) :
         k < m => BlkNum(Taken(c)[k]) < BlkNum(Taken(c)[m])
  <2> SUFFICES ASSUME NEW k \in DOMAIN Taken(c), NEW m \in DOMAIN Taken(c), k < m
               PROVE  BlkNum(Taken(c)[k]) < BlkNum(Taken(c)[m])
    OBVIOUS
  <2>1. k \in 1 .. n
    BY <1>2
  <2>2. CASE m \in 1 .. n
    BY <1>2, <1>4, <2>1, <2>2
  <2>3. CASE tpc[c] = "send" /\ m = n + 1
    BY <1>2, <1>4, <2>1, <2>3
  <2> QED
    BY <1>2, <2>2, <2>3
<1> QED
  BY <1>2, <1>3, <1>6, <1>7, <1>8

\* The mutex makes the tx_chains share the stream out: no block is skipped, no
\* block is taken by two of them, and none overtakes another on one link.
THEOREM BlocksSharedOut == Spec => []EachBlockOnce
<1>1. TypeOK /\ Owners /\ ShareInv => EachBlockOnce
  <2> SUFFICES ASSUME TypeOK, Owners, ShareInv, lock = NoOwner, gpc # "exit"
               PROVE  /\ {BlkNum(Taken(x[1])[x[2]]) : x \in
                            {y \in Conns \X (1 .. get_ind) :
                                y[2] <= Len(Taken(y[1]))}} = 0 .. get_ind - 1
                      /\ \A c, d \in Conns :
                            \A k \in DOMAIN Taken(c), m \in DOMAIN Taken(d) :
                               BlkNum(Taken(c)[k]) = BlkNum(Taken(d)[m]) => c = d
                      /\ \A c \in Conns : \A k, m \in DOMAIN Taken(c) :
                            k < m => BlkNum(Taken(c)[k]) < BlkNum(Taken(c)[m])
    BY DEF EachBlockOnce
  <2>1. Shared /\ Rising /\ get_ind \in Nat
    BY DEF ShareInv, TypeOK, BuffTypeOK
  <2>2. \A c \in Conns :
           /\ DOMAIN Taken(c) = 1 .. Len(Taken(c))
           /\ \A k \in DOMAIN Taken(c) :
                 /\ k \in Nat /\ BlkNum(Taken(c)[k]) \in Nums(c)
                 /\ 1 <= k /\ k <= BlkNum(Taken(c)[k]) + 1
                 /\ BlkNum(Taken(c)[k]) \in Nat /\ BlkNum(Taken(c)[k]) < get_ind
           /\ \A b \in Nums(c) : \E k \in DOMAIN Taken(c) :
                                     BlkNum(Taken(c)[k]) = b
           /\ \A k, m \in DOMAIN Taken(c) :
                 k < m => BlkNum(Taken(c)[k]) < BlkNum(Taken(c)[m])
    BY <2>1, TakenNums
  <2>3. \A c, d \in Conns : \A k \in DOMAIN Taken(c), m \in DOMAIN Taken(d) :
           BlkNum(Taken(c)[k]) = BlkNum(Taken(d)[m]) => c = d
    BY <2>1, <2>2 DEF Shared
  <2> DEFINE Places == {y \in Conns \X (1 .. get_ind) : y[2] <= Len(Taken(y[1]))}
  <2>4. \A x \in Places : BlkNum(Taken(x[1])[x[2]]) \in 0 .. get_ind - 1
    <3> SUFFICES ASSUME NEW x \in Places
                 PROVE  BlkNum(Taken(x[1])[x[2]]) \in 0 .. get_ind - 1
      OBVIOUS
    <3>1. /\ x[1] \in Conns /\ x[2] \in 1 .. get_ind
          /\ x[2] <= Len(Taken(x[1]))
      OBVIOUS
    <3>2. x[2] \in DOMAIN Taken(x[1])
      BY <2>1, <2>2, <3>1
    <3> QED
      BY <2>1, <2>2, <3>1, <3>2
  <2>5. \A b \in 0 .. get_ind - 1 :
           \E x \in Places : BlkNum(Taken(x[1])[x[2]]) = b
    <3> SUFFICES ASSUME NEW b \in 0 .. get_ind - 1
                 PROVE  \E x \in Places : BlkNum(Taken(x[1])[x[2]]) = b
      OBVIOUS
    <3>1. PICK c \in Conns : b \in Nums(c)
      BY <2>1 DEF Shared
    <3>2. PICK k \in DOMAIN Taken(c) : BlkNum(Taken(c)[k]) = b
      BY <2>2, <3>1
    <3>3. k \in 1 .. get_ind /\ k <= Len(Taken(c))
      BY <2>1, <2>2, <3>2
    <3>4. <<c, k>> \in Places
      BY <3>3
    <3> QED
      BY <3>2, <3>4
  <2> HIDE DEF Places
  <2>6. {BlkNum(Taken(x[1])[x[2]]) : x \in Places} = 0 .. get_ind - 1
    BY <2>4, <2>5
  <2> QED
    BY <2>2, <2>3, <2>6 DEF Places
<1> QED
  BY <1>1, RelayCorrect, PTL DEF RelayInv

\* fin_flag, read under the mutex by a tx_chain that finds no block, is the
\* end: no tx_chain closes a connection while the getter may still add.
THEOREM ClosesAtTheEnd == Spec => []CloseOnlyDrained
<1>1. TypeOK /\ Started /\ StreamInv /\ CloseInv => CloseOnlyDrained
  <2> SUFFICES ASSUME TypeOK, Started, StreamInv, CloseInv,
                      NEW c \in Conns, tpc[c] \in {"close", "done"}
               PROVE  /\ fin_flag /\ get_ind = set_ind + 1
                      /\ ~failed => get_ind * BLOCKSIZE >= StreamLen
    BY DEF CloseOnlyDrained
  <2>1. fin_flag /\ get_ind = set_ind + 1
    BY DEF CloseInv
  <2>2. gpc = "done"
    BY <2>1 DEF StreamInv, Started
  <2>3. closing /\ taken <= get_ind * BLOCKSIZE /\ (~failed => taken = StreamLen)
    BY <2>1, <2>2 DEF StreamInv
  <2>4. get_ind * BLOCKSIZE \in Int /\ taken \in Int
    BY TxConstants DEF TypeOK, GetTypeOK, BuffTypeOK
  <2> QED
    BY <2>1, <2>3, <2>4
<1> QED
  BY <1>1, RelayCorrect, PTL DEF RelayInv
=============================================================================
