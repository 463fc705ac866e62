---------------------------- MODULE EndPrograms ----------------------------
(***************************************************************************)
(* The programs at the ends: `stream` (stream.c, file_read.c) writes a file*)
(* to a TCP connection, `receive` (receive.c) writes what it gets into its *)
(* output file.  Between them is one TCP connection, or the pair of        *)
(* proxies, as BytePipe describes it (PairProxy shows that it implements   *)
(* that); the receiver proxy never closes its connection to `receive`.     *)
(*                                                                         *)
(* A byte is its offset in the file, from 1; 0 is the '\0' of the padding  *)
(* and -1 what fprintf("%s") found behind a buffer without a '\0'.  The    *)
(* kinds of bytes the program tells apart are '\0', 0xff (which equals EOF *)
(* in a char) and the rest.  The log of the amounts received is left out.  *)
(***************************************************************************)
EXTENDS Integers, Sequences, FiniteSets

CONSTANTS
    BLOCKSIZE,  \* bytes of a buffer, in both programs and in the proxies
    MaxLen,     \* length of the longest file
    OverRead,   \* how many bytes may precede the next '\0' behind the buffer
    MayReset    \* may the direct connection be reset?

Kinds == {"text", "nul", "ff"}
Junk == -1

ASSUME EndConstants ==
    /\ BLOCKSIZE \in Nat \ {0} /\ MaxLen \in Nat
    /\ OverRead \subseteq Nat /\ OverRead # {} /\ MayReset \in BOOLEAN

VARIABLES
    file,        \* the kinds of the bytes of the file
    via,         \* "direct" or "proxies"
    spc,         \* where stream is
    byte_count, temp_count, thr_buff,    \* its locals
    up,          \* the bytes it has written to its connection
    in, ended, out,    \* the proxies (BytePipe); out has positions of `up`
    reset,       \* the direct connection has been reset
    rpc,         \* where receive is
    got,         \* bytes it has received
    buffer, recv_count, i,    \* its locals
    wrt          \* its output file

streamVars == <<spc, byte_count, temp_count, thr_buff, up>>
pipeVars == <<in, ended, out>>
recvVars == <<rpc, got, buffer, recv_count, i, wrt>>
vars == <<file, via, streamVars, pipeVars, reset, recvVars>>

Pipe == INSTANCE BytePipe WITH StreamLen <- MaxLen, void <- FALSE

Zeros == [k \in 1 .. BLOCKSIZE |-> 0]

Init ==
    /\ file \in UNION {[1 .. n -> Kinds] : n \in 0 .. MaxLen}
    /\ via \in {"direct", "proxies"}
    /\ spc = "read" /\ byte_count = 0 /\ temp_count = 0
    /\ thr_buff = << >> /\ up = << >>
    /\ in = 0 /\ ended = FALSE /\ out = << >>
    /\ reset = FALSE
    /\ rpc = "poll" /\ got = 0 /\ buffer = Zeros /\ recv_count = 0
    /\ i = 0 /\ wrt = << >>

-----------------------------------------------------------------------------
(* stream                                                                  *)

\* Mutant: the last block is taken to be full.
BytesToReadBlock == BLOCKSIZE

\* The next block of the file, or the residue.
BytesToRead ==
    IF byte_count + BLOCKSIZE < Len(file) THEN BLOCKSIZE
    ELSE Len(file) - byte_count

\* get_file_size and read_file; at the end of the file the process returns
\* from main, which closes the connection.
ReadFile ==
    /\ spc = "read"
    /\ thr_buff' = [k \in 1 .. BytesToRead |-> byte_count + k]
    /\ spc' = IF BytesToRead = 0 THEN "done" ELSE "write"
    /\ UNCHANGED <<file, via, byte_count, temp_count, up, pipeVars, reset,
                   recvVars>>

\* Mutant: the rest of a block is written from its beginning.
FromBlock(n) == SubSeq(thr_buff, 1, n)

\* thr_buff+temp_count
FromBuffer(n) == SubSeq(thr_buff, temp_count + 1, temp_count + n)

\* write() takes n bytes of what is left of the block.
WriteSome ==
    /\ spc = "write" /\ ~reset
    /\ \E n \in 1 .. Len(thr_buff) - temp_count :
          /\ up' = up \o FromBuffer(n)
          /\ IF temp_count + n < Len(thr_buff)
             THEN /\ temp_count' = temp_count + n
                  /\ UNCHANGED <<spc, byte_count>>
             ELSE /\ temp_count' = 0
                  /\ byte_count' = byte_count + Len(thr_buff)
                  /\ spc' = "read"
    /\ UNCHANGED <<file, via, thr_buff, pipeVars, reset, recvVars>>

\* write() on a connection that was reset raises SIGPIPE.
WriteFails ==
    /\ spc = "write" /\ reset
    /\ spc' = "exit"
    /\ UNCHANGED <<file, via, byte_count, temp_count, thr_buff, up, pipeVars,
                   reset, recvVars>>

-----------------------------------------------------------------------------
(* What is between them                                                    *)

Proxies ==
    /\ via = "proxies"
    /\ \/ Pipe!Take /\ in' <= Len(up)
       \/ Pipe!End /\ in = Len(up) /\ spc = "done"
       \/ Pipe!Deliver
    /\ UNCHANGED <<file, via, streamVars, reset, recvVars>>

ConnectionReset ==
    /\ MayReset /\ via = "direct" /\ ~reset
    /\ reset' = TRUE
    /\ UNCHANGED <<file, via, streamVars, pipeVars, recvVars>>

\* The bytes that have been sent to receive, and that there will be no more.
Sent == IF via = "direct" THEN up
        ELSE [k \in DOMAIN out |-> IF out[k] = 0 THEN 0 ELSE up[out[k]]]
Eof == via = "direct" /\ spc = "done"

-----------------------------------------------------------------------------
(* receive                                                                 *)

\* revents is POLLIN.
PollIn ==
    /\ rpc = "poll" /\ ~reset
    /\ got < Len(Sent) \/ Eof
    /\ buffer' = Zeros /\ recv_count' = 0
    /\ rpc' = "recv"
    /\ UNCHANGED <<file, via, streamVars, pipeVars, reset, got, i, wrt>>

\* After a reset revents is POLLIN | POLLERR | POLLHUP: the loop goes round
\* for ever without doing anything.
PollReset ==
    /\ rpc = "poll" /\ reset
    /\ rpc' = "stuck" /\ recv_count' = 0
    /\ UNCHANGED <<file, via, streamVars, pipeVars, reset, got, buffer, i,
                   wrt>>

Recv ==
    /\ rpc = "recv"
    /\ \E n \in 1 .. BLOCKSIZE - recv_count :
          /\ got + n <= Len(Sent)
          /\ buffer' = [k \in 1 .. BLOCKSIZE |->
                          IF k \in recv_count + 1 .. recv_count + n
                          THEN Sent[got + k - recv_count] ELSE buffer[k]]
          /\ got' = got + n
          /\ recv_count' = recv_count + n
          /\ rpc' = IF recv_count + n = BLOCKSIZE THEN "write" ELSE "recv"
    /\ UNCHANGED <<file, via, streamVars, pipeVars, reset, i, wrt>>

Kind(b) == IF b = 0 THEN "nul" ELSE file[b]

\* Mutant: the buffer is written as a whole.
WholeBuffer(s) == s

\* What "%s" prints of s.
UpToNul(s) ==
    LET nuls == {k \in DOMAIN s : Kind(s[k]) = "nul"}
    IN  IF nuls = {} THEN s
        ELSE SubSeq(s, 1, (CHOOSE k \in nuls : \A m \in nuls : k <= m) - 1)

\* fprintf(wrt_fp, "%s", buffer) of a full buffer; if there is no '\0' in it,
\* bytes behind it are written too.
WriteBlock ==
    /\ rpc = "write"
    /\ \E k \in IF UpToNul(buffer) = buffer THEN OverRead ELSE {0} :
          wrt' = wrt \o UpToNul(buffer) \o [j \in 1 .. k |-> Junk]
    /\ rpc' = "poll"
    /\ UNCHANGED <<file, via, streamVars, pipeVars, reset, got, buffer,
                   recv_count, i>>

\* CLOSE_CONN, after recv() has returned 0: the source has closed, or the
\* connection was reset (recv() then first returns -1, which is ignored).
CloseConn ==
    /\ rpc = "recv"
    /\ (Eof /\ got = Len(Sent)) \/ reset
    /\ rpc' = "residue"
    /\ UNCHANGED <<file, via, streamVars, pipeVars, reset, got, buffer,
                   recv_count, i, wrt>>

\* Mutant: the last byte of the residue stays in the buffer.
ResidueLeftShort == i < recv_count - 1

\* The condition of the loop that writes the residue byte by byte.
ResidueLeft == i < recv_count

\* "buffer[i] != EOF"
WriteByte ==
    /\ rpc = "residue" /\ ResidueLeft
    /\ wrt' = IF Kind(buffer[i + 1]) # "ff" THEN Append(wrt, buffer[i + 1])
              ELSE wrt
    /\ i' = i + 1
    /\ UNCHANGED <<file, via, streamVars, pipeVars, reset, rpc, got, buffer,
                   recv_count>>

CloseFile ==
    /\ rpc = "residue" /\ ~ResidueLeft
    /\ rpc' = "done"
    /\ UNCHANGED <<file, via, streamVars, pipeVars, reset, got, buffer,
                   recv_count, i, wrt>>

-----------------------------------------------------------------------------
Stream == ReadFile \/ WriteSome \/ WriteFails
Receive ==
    \/ PollIn \/ PollReset \/ Recv \/ WriteBlock
    \/ CloseConn \/ WriteByte \/ CloseFile

Next == Stream \/ Receive \/ Proxies \/ ConnectionReset

Spec == Init /\ [][Next]_vars

\* Both programs and the proxies go on as long as they can.
FairSpec == Spec /\ WF_vars(Stream) /\ WF_vars(Receive) /\ WF_vars(Proxies)

-----------------------------------------------------------------------------
(* Properties                                                              *)

StreamTypeOK ==
    /\ spc \in {"read", "write", "done", "exit"}
    /\ byte_count \in 0 .. Len(file) /\ temp_count \in 0 .. BLOCKSIZE - 1
    /\ thr_buff \in Seq(DOMAIN file) /\ up \in Seq(DOMAIN file)

PipeTypeOK ==
    in \in 0 .. Len(up) /\ ended \in BOOLEAN /\ out \in Seq(0 .. Len(file))

RecvTypeOK ==
    /\ rpc \in {"poll", "recv", "write", "residue", "done", "stuck"}
    /\ got \in 0 .. Len(Sent) /\ recv_count \in 0 .. BLOCKSIZE
    /\ i \in 0 .. BLOCKSIZE
    /\ buffer \in [1 .. BLOCKSIZE -> 0 .. Len(file)]
    /\ wrt \in Seq(DOMAIN file \cup {Junk})

\* The types of the locals of the two programs.
TypeOK == StreamTypeOK /\ PipeTypeOK /\ RecvTypeOK

\* How many bytes of the file precede the block that byte x is in.
BlockStart(x) == ((x - 1) \div BLOCKSIZE) * BLOCKSIZE

\* Does a copy by way of printf keep byte x of the file?  It keeps each block
\* up to its first '\0', and of a last, shorter block that came without the
\* padding of the proxies all but the bytes 0xff.
IsCopied(x) ==
    IF via = "direct" /\ Len(file) < BlockStart(x) + BLOCKSIZE
    THEN file[x] # "ff"
    ELSE \A y \in BlockStart(x) + 1 .. x : file[y] # "nul"

Copied == {x \in DOMAIN file : IsCopied(x)}
Written == {wrt[k] : k \in DOMAIN wrt} \ {Junk}

\* What is in the output file is in the order of the file.
OutputRising ==
    \A j, k \in DOMAIN wrt :
        j < k /\ wrt[j] # Junk /\ wrt[k] # Junk => wrt[j] < wrt[k]

\* Whatever the sizes of writes and reads and wherever the blocks of the two
\* programs and of the proxies are cut, receive writes the bytes of the file
\* in order, none twice; and, while the connection holds, every byte up to the
\* last one written except those that printf leaves out.
WrittenInOrder ==
    /\ OutputRising
    /\ ~reset => Written = {x \in Copied : \E y \in Written : x <= y}

\* A file of text is copied as it is, the padding of the proxies leaves no
\* trace in it; unless fprintf ran over the end of the buffer.
TextIntact ==
    /\ \A k \in DOMAIN file : file[k] = "text"
    /\ \A k \in DOMAIN wrt : wrt[k] # Junk
    => \A k \in DOMAIN wrt : wrt[k] = k

\* In the end everything that is ever written has been, and without proxies
\* receive ends; a connection that was reset leaves it done or spinning.
AllWritten ==
    <>[](IF reset THEN rpc \in {"done", "stuck"}
         ELSE Written = Copied /\ (via = "direct" => rpc = "done"))
=============================================================================
