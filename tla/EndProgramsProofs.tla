------------------------- MODULE EndProgramsProofs -------------------------
(* Theorems about the programs at the ends, for any file, any size of blocks *)
(* and any sizes of reads and writes.                                       *)
EXTENDS EndPrograms, WellFoundedInduction, TLAPS

-----------------------------------------------------------------------------
(* The inductive invariants                                                *)

FileOK ==
    /\ file \in Seq(Kinds) /\ via \in {"direct", "proxies"}
    /\ reset \in BOOLEAN /\ (reset => via = "direct")

\* The block of the file in thr_buff, of which a part has been written.
BlockRead ==
    /\ \A k \in 1 .. Len(thr_buff) : thr_buff[k] = byte_count + k
    /\ temp_count < Len(thr_buff) /\ Len(thr_buff) <= BLOCKSIZE
    /\ byte_count + Len(thr_buff) <= Len(file)

\* stream has written the bytes of the file up to where it is.
StreamInv ==
    /\ Len(up) = byte_count + temp_count
    /\ \A k \in 1 .. Len(up) : up[k] = k
    /\ IF spc \in {"write", "exit"} THEN BlockRead ELSE temp_count = 0

\* The proxies have put out the bytes in order, and padding behind the end.
PipeInv ==
    /\ \A k \in 1 .. Len(out) : out[k] = IF k <= in THEN k ELSE 0
    /\ Len(out) > in => ended
    /\ ended => in = Len(up) /\ spc = "done"

\* The k-th byte that comes to receive, and how many have come.
ByteAt(k) == IF via = "direct" \/ k <= in THEN k ELSE 0
SentLen == IF via = "direct" THEN Len(up) ELSE Len(out)

\* The buffer of receive holds the last bytes it got.
BufferIs(n) ==
    \A k \in 1 .. BLOCKSIZE :
        buffer[k] = IF k <= n THEN ByteAt(got - n + k) ELSE 0

RecvInv ==
    /\ rpc \in {"recv", "write", "residue"} =>
          recv_count <= got /\ BufferIs(recv_count)
    /\ rpc = "write" => recv_count = BLOCKSIZE
    /\ rpc = "recv" => recv_count < BLOCKSIZE
    /\ rpc \in {"residue", "done"} => via = "direct"
    /\ rpc \notin {"residue", "done"} => i = 0
    /\ rpc = "residue" => i <= recv_count

\* The bytes receive is through with.
Passed == IF rpc \in {"recv", "write"} THEN got - recv_count
          ELSE IF rpc = "residue" THEN got - recv_count + i ELSE got

\* What is in the output file came before, in the order of the file.
WrtInv ==
    /\ \A k \in DOMAIN wrt : wrt[k] # Junk => wrt[k] <= Passed
    /\ OutputRising

\* Of a file of text everything that is not padding is in the output.
AllText == \A k \in DOMAIN file : file[k] = "text"
NoJunk == \A k \in DOMAIN wrt : wrt[k] # Junk
TextInv ==
    AllText /\ NoJunk =>
        /\ Len(wrt) = IF via = "proxies" /\ Passed > in THEN in ELSE Passed
        /\ \A k \in DOMAIN wrt : wrt[k] = k

\* receive cuts what comes where the blocks of the file are cut; stream is done
\* when it has read the whole file, and receive gets to the residue, while the
\* connection holds, when it has got all of it.
Aligned(n) == \E b \in Nat : n = b * BLOCKSIZE
PlaceInv ==
    /\ spc = "done" => byte_count = Len(file)
    /\ rpc \in {"poll", "recv", "write"} => Aligned(Passed)
    /\ rpc = "residue" => Aligned(got - recv_count) /\ recv_count < BLOCKSIZE
    /\ rpc = "residue" /\ ~reset => got = Len(file)

\* Of the bytes receive is through with, the output holds what printf keeps.
Holds(s, x) == \E k \in DOMAIN s : s[k] = x
KeptInv ==
    ~reset => \A x \in DOMAIN file : Holds(wrt, x) <=> x <= Passed /\ IsCopied(x)

-----------------------------------------------------------------------------
(* Sequences                                                               *)

\* What concatenation does.
LEMMA Concat ==
  ASSUME NEW S, NEW s \in Seq(S), NEW t \in Seq(S)
  PROVE  /\ s \o t \in Seq(S)
         /\ Len(s \o t) = Len(s) + Len(t) /\ Len(s) \in Nat /\ Len(t) \in Nat
         /\ \A k \in 1 .. Len(s) : (s \o t)[k] = s[k]
         /\ \A k \in 1 .. Len(t) : (s \o t)[Len(s) + k] = t[k]
         /\ DOMAIN (s \o t) = 1 .. Len(s) + Len(t)
  OBVIOUS

\* A function on 1 .. n is a sequence of n elements.
LEMMA FunIsSeq ==
  ASSUME NEW S, NEW n \in Nat, NEW f \in [1 .. n -> S]
  PROVE  f \in Seq(S) /\ Len(f) = n
  OBVIOUS

\* A part of a sequence.
LEMMA PartOf ==
  ASSUME NEW S, NEW s \in Seq(S), NEW m \in Nat, NEW n \in Nat,
         m + n <= Len(s)
  PROVE  /\ SubSeq(s, m + 1, m + n) \in Seq(S)
         /\ Len(SubSeq(s, m + 1, m + n)) = n
         /\ \A k \in 1 .. n : SubSeq(s, m + 1, m + n)[k] = s[m + k]
  OBVIOUS

-----------------------------------------------------------------------------
(* stream                                                                  *)

\* The file and the stream's variables stay as they are.
SameStream == UNCHANGED <<file, via, streamVars>>

\* stream reads its file block by block and writes each to its end.
LEMMA StreamNext ==
  FileOK /\ StreamTypeOK /\ StreamInv /\ [Next]_vars =>
      StreamTypeOK' /\ StreamInv' /\ Len(up) <= Len(up')
<1> SUFFICES ASSUME FileOK, StreamTypeOK, StreamInv, [Next]_vars
             PROVE  StreamTypeOK' /\ StreamInv' /\ Len(up) <= Len(up')
  OBVIOUS
<1> USE EndConstants
<1>t. /\ Len(file) \in Nat /\ DOMAIN file = 1 .. Len(file)
      /\ byte_count \in 0 .. Len(file) /\ temp_count \in 0 .. BLOCKSIZE - 1
      /\ thr_buff \in Seq(DOMAIN file) /\ up \in Seq(DOMAIN file)
      /\ Len(thr_buff) \in Nat /\ Len(up) \in Nat
  BY DEF FileOK, StreamTypeOK
<1>1. CASE ReadFile
  <2> DEFINE n == BytesToRead
  <2>1. n \in 0 .. BLOCKSIZE /\ byte_count + n <= Len(file)
    BY <1>t DEF BytesToRead
  <2>2. /\ thr_buff' = [k \in 1 .. n |-> byte_count + k]
        /\ spc' = IF n = 0 THEN "done" ELSE "write"
        /\ UNCHANGED <<file, via, byte_count, temp_count, up>>
        /\ temp_count = 0
    BY <1>1 DEF ReadFile, StreamInv
  <2> HIDE DEF n
  <2>3. [k \in 1 .. n |-> byte_count + k] \in [1 .. n -> DOMAIN file]
    BY <1>t, <2>1
  <2>4. /\ thr_buff' \in Seq(DOMAIN file) /\ Len(thr_buff') = n
        /\ \A k \in 1 .. n : thr_buff'[k] = byte_count + k
    <3>1. n \in Nat
      BY <2>1
    <3>2. thr_buff' \in [1 .. n -> DOMAIN file]
      BY <2>2, <2>3
    <3>3. thr_buff' \in Seq(DOMAIN file) /\ Len(thr_buff') = n
      BY <3>1, <3>2, FunIsSeq, Zenon
    <3> QED
      BY <2>2, <3>3
  <2>5. StreamTypeOK'
    BY <2>2, <2>4 DEF StreamTypeOK
  <2>6. spc' = "write" => BlockRead'
    BY <2>1, <2>2, <2>4 DEF BlockRead
  <2> QED
    BY <1>t, <2>2, <2>5, <2>6 DEF StreamInv
<1>2. CASE WriteSome
  <2>1. BlockRead /\ spc = "write"
    BY <1>2 DEF WriteSome, StreamInv
  <2>2. PICK n \in 1 .. Len(thr_buff) - temp_count :
          /\ up' = up \o FromBuffer(n)
          /\ IF temp_count + n < Len(thr_buff)
             THEN /\ temp_count' = temp_count + n
                  /\ UNCHANGED <<spc, byte_count>>
             ELSE /\ temp_count' = 0
                  /\ byte_count' = byte_count + Len(thr_buff)
                  /\ spc' = "read"
    BY <1>2 DEF WriteSome
  <2>3. /\ FromBuffer(n) \in Seq(DOMAIN file) /\ Len(FromBuffer(n)) = n
        /\ \A k \in 1 .. n : FromBuffer(n)[k] = thr_buff[temp_count + k]
    <3>1. n \in Nat /\ temp_count \in Nat /\ temp_count + n <= Len(thr_buff)
      BY <1>t
    <3> QED
      BY <1>t, <3>1, PartOf DEF FromBuffer
  <2>4. \A k \in 1 .. n : FromBuffer(n)[k] = Len(up) + k
    <3>1. \A k \in 1 .. n : temp_count + k \in 1 .. Len(thr_buff)
      BY <1>t
    <3>2. \A k \in 1 .. n : thr_buff[temp_count + k] = byte_count + (temp_count + k)
      BY <2>1, <3>1 DEF BlockRead
    <3>3. Len(up) = byte_count + temp_count
      BY DEF StreamInv
    <3>4. \A k \in 1 .. n : byte_count + (temp_count + k) = Len(up) + k
      BY <1>t, <3>3
    <3> QED
      BY <2>3, <3>2, <3>4
  <2>5. /\ up' \in Seq(DOMAIN file) /\ Len(up') = Len(up) + n
        /\ \A k \in 1 .. Len(up) : up'[k] = k
        /\ \A k \in 1 .. n : up'[Len(up) + k] = Len(up) + k
    <3> DEFINE part == FromBuffer(n)
    <3> HIDE DEF part
    <3>1. part \in Seq(DOMAIN file) /\ Len(part) = n /\ up' = up \o part
      BY <2>2, <2>3 DEF part
    <3>2. \A k \in 1 .. n : part[k] = Len(up) + k
      BY <2>4 DEF part
    <3>3. /\ up \o part \in Seq(DOMAIN file)
          /\ Len(up \o part) = Len(up) + Len(part)
          /\ \A k \in 1 .. Len(up) : (up \o part)[k] = up[k]
          /\ \A k \in 1 .. Len(part) : (up \o part)[Len(up) + k] = part[k]
      <4> DEFINE S == DOMAIN file
      <4> HIDE DEF S
      <4>1. up \in Seq(S) /\ part \in Seq(S)
        BY <1>t, <3>1 DEF S
      <4>2. /\ up \o part \in Seq(S)
            /\ Len(up \o part) = Len(up) + Len(part)
            /\ \A k \in 1 .. Len(up) : (up \o part)[k] = up[k]
            /\ \A k \in 1 .. Len(part) : (up \o part)[Len(up) + k] = part[k]
        BY <4>1, Concat
      <4> QED
        BY <4>2 DEF S
    <3>4. \A k \in 1 .. Len(up) : up[k] = k
      BY DEF StreamInv
    <3> QED
      BY <3>1, <3>2, <3>3, <3>4
  <2>6. \A k \in 1 .. Len(up') : up'[k] = k
    <3>1. ASSUME NEW k \in 1 .. Len(up'), k > Len(up) PROVE up'[k] = k
      <4>1. k - Len(up) \in 1 .. n /\ Len(up) + (k - Len(up)) = k
        BY <1>t, <2>5, <3>1
      <4> QED
        BY <2>5, <4>1
    <3> QED
      BY <1>t, <2>5, <3>1
  <2>7. UNCHANGED <<file, thr_buff>>
    BY <1>2 DEF WriteSome
  <2>8. CASE temp_count + n < Len(thr_buff)
    <3>1. /\ temp_count' = temp_count + n /\ UNCHANGED <<spc, byte_count>>
      BY <2>2, <2>8
    <3>2. BlockRead'
      BY <2>1, <2>7, <2>8, <3>1 DEF BlockRead
    <3>3. StreamTypeOK'
      BY <1>t, <2>1, <2>5, <2>7, <2>8, <3>1 DEF StreamTypeOK, BlockRead
    <3>4. Len(up') = byte_count' + temp_count'
      BY <1>t, <2>5, <3>1 DEF StreamInv
    <3> QED
      BY <1>t, <2>1, <2>5, <2>6, <3>1, <3>2, <3>3, <3>4 DEF StreamInv
  <2>9. CASE ~(temp_count + n < Len(thr_buff))
    <3>1. /\ temp_count' = 0 /\ byte_count' = byte_count + Len(thr_buff)
          /\ spc' = "read" /\ n = Len(thr_buff) - temp_count
      BY <1>t, <2>2, <2>9
    <3>2. StreamTypeOK'
      BY <1>t, <2>1, <2>5, <2>7, <3>1 DEF StreamTypeOK, BlockRead
    <3>3. Len(up') = byte_count' + temp_count'
      BY <1>t, <2>5, <3>1 DEF StreamInv
    <3> QED
      BY <1>t, <2>5, <2>6, <3>1, <3>2, <3>3 DEF StreamInv
  <2> QED
    BY <2>8, <2>9
<1>3. CASE WriteFails
  <2>1. /\ spc = "write" /\ spc' = "exit"
        /\ UNCHANGED <<file, byte_count, temp_count, thr_buff, up>>
    BY <1>3 DEF WriteFails
  <2> QED
    BY <1>t, <2>1 DEF StreamTypeOK, StreamInv, BlockRead
<1>4. CASE SameStream
  BY <1>t, <1>4 DEF SameStream, streamVars, StreamTypeOK, StreamInv, BlockRead
<1> QED
  BY <1>1, <1>2, <1>3, <1>4
     DEF Next, Stream, Receive, Proxies, ConnectionReset, PollIn, PollReset, Recv,
         WriteBlock, CloseConn, WriteByte, CloseFile, vars, SameStream

-----------------------------------------------------------------------------
(* What is between the programs                                            *)

\* The file and the way it takes stay as they are; a direct connection only
\* can be reset.
LEMMA FileNext ==
  FileOK /\ [Next]_vars =>
      /\ FileOK' /\ UNCHANGED <<file, via>>
      /\ (reset => reset')
<1> SUFFICES ASSUME FileOK, [Next]_vars
             PROVE  FileOK' /\ UNCHANGED <<file, via>> /\ (reset => reset')
  OBVIOUS
<1>1. UNCHANGED <<file, via>>
  BY DEF Next, Stream, Receive, Proxies, ConnectionReset, PollIn, PollReset,
         Recv, WriteBlock, CloseConn, WriteByte, CloseFile, ReadFile, WriteSome,
         WriteFails, vars
<1>2. ConnectionReset \/ UNCHANGED reset
  BY DEF Next, Stream, Receive, Proxies, PollIn, PollReset,
         Recv, WriteBlock, CloseConn, WriteByte, CloseFile, ReadFile, WriteSome,
         WriteFails, vars
<1>3. (reset' = TRUE /\ via = "direct") \/ UNCHANGED reset
  BY <1>2 DEF ConnectionReset
<1>4. reset' \in BOOLEAN /\ (reset' => via' = "direct") /\ (reset => reset')
  <2>1. CASE reset' = TRUE /\ via = "direct"
    BY <1>1, <2>1
  <2>2. CASE UNCHANGED reset
    BY <1>1, <2>2, Zenon DEF FileOK
  <2> QED
    BY <1>3, <2>1, <2>2
<1>5. file' \in Seq(Kinds) /\ via' \in {"direct", "proxies"}
  BY <1>1 DEF FileOK
<1> QED
  BY <1>1, <1>4, <1>5, Zenon DEF FileOK

\* The proxies put out the bytes in order; what they have put out stays.
LEMMA PipeNext ==
  FileOK /\ StreamTypeOK /\ StreamInv /\ PipeTypeOK /\ PipeInv /\ [Next]_vars =>
      /\ PipeTypeOK' /\ PipeInv'
      /\ SentLen <= SentLen'
      /\ \A k \in 1 .. SentLen : ByteAt(k)' = ByteAt(k)
<1> SUFFICES ASSUME FileOK, StreamTypeOK, StreamInv, PipeTypeOK, PipeInv,
                    [Next]_vars
             PROVE  /\ PipeTypeOK' /\ PipeInv'
                    /\ SentLen <= SentLen'
                    /\ \A k \in 1 .. SentLen : ByteAt(k)' = ByteAt(k)
  OBVIOUS
<1> USE EndConstants
<1>t. /\ Len(file) \in Nat /\ Len(up) \in Nat /\ Len(out) \in Nat /\ in \in Nat
      /\ in <= Len(up) /\ out \in Seq(0 .. Len(file))
  BY DEF FileOK, StreamTypeOK, PipeTypeOK
<1>s. /\ UNCHANGED <<file, via>> /\ Len(up) <= Len(up') /\ Len(up') \in Nat
  BY FileNext, StreamNext DEF StreamTypeOK
<1>u. Len(up) <= Len(file) /\ Len(up') <= Len(file)
  <2>1. StreamTypeOK' /\ StreamInv'
    BY StreamNext
  <2>2. Len(up) <= Len(file)
    BY <1>t DEF StreamTypeOK, StreamInv, BlockRead
  <2>3. Len(up') <= Len(file')
    <3>1. /\ Len(up') = byte_count' + temp_count'
          /\ byte_count' \in 0 .. Len(file) /\ temp_count' \in Nat
      BY <1>s, <2>1 DEF StreamTypeOK, StreamInv
    <3>2. temp_count' = 0 \/ BlockRead'
      BY <2>1 DEF StreamInv
    <3>3. Len(thr_buff') \in Nat
      BY <2>1 DEF StreamTypeOK
    <3>4. BlockRead' => temp_count' < Len(thr_buff')
                          /\ byte_count' + Len(thr_buff') <= Len(file)
      BY <1>s DEF BlockRead
    <3>5. temp_count' = 0 \/ byte_count' + temp_count' < Len(file)
      BY <1>t, <3>1, <3>2, <3>3, <3>4
    <3> QED
      BY <1>t, <1>s, <3>1, <3>5
  <2> QED
    BY <1>s, <2>2, <2>3
<1>1. CASE UNCHANGED pipeVars
  <2>1. UNCHANGED <<in, ended, out>>
    BY <1>1 DEF pipeVars
  <2>2. ended => UNCHANGED <<spc, up>>
    <3>1. ended => spc = "done"
      BY DEF PipeInv
    <3>2. spc = "done" => UNCHANGED <<spc, up>>
      BY DEF Next, Stream, Receive, Proxies, ConnectionReset, PollIn, PollReset,
             Recv, WriteBlock, CloseConn, WriteByte, CloseFile, ReadFile,
             WriteSome, WriteFails, vars, streamVars
    <3> QED
      BY <3>1, <3>2
  <2>3. PipeTypeOK'
    BY <1>t, <1>s, <2>1 DEF PipeTypeOK
  <2>4. PipeInv'
    BY <2>1, <2>2 DEF PipeInv
  <2> QED
    BY <1>t, <1>s, <2>1, <2>3, <2>4 DEF SentLen, ByteAt
<1>2. CASE Proxies
  <2>1. UNCHANGED <<file, via, spc, up>> /\ via = "proxies"
    BY <1>2 DEF Proxies, streamVars
  <2>2. CASE Pipe!Take /\ in' <= Len(up)
    <3>1. ~ended /\ in' \in in + 1 .. MaxLen /\ UNCHANGED <<ended, out>>
      BY <2>2 DEF Pipe!Take
    <3>2. Len(out) <= in /\ ~ended'
      BY <1>t, <3>1 DEF PipeInv
    <3>3. PipeTypeOK'
      BY <1>t, <2>1, <2>2, <3>1 DEF PipeTypeOK
    <3>4. PipeInv'
      BY <1>t, <2>1, <3>1, <3>2 DEF PipeInv
    <3> QED
      BY <1>t, <2>1, <3>1, <3>2, <3>3, <3>4 DEF SentLen, ByteAt
  <2>3. CASE Pipe!End /\ in = Len(up) /\ spc = "done"
    <3>1. ended' = TRUE /\ UNCHANGED <<in, out>>
      BY <2>3 DEF Pipe!End
    <3>2. PipeTypeOK'
      BY <1>t, <2>1, <2>3, <3>1 DEF PipeTypeOK
    <3>3. PipeInv'
      BY <1>t, <2>1, <2>3, <3>1 DEF PipeInv
    <3> QED
      BY <1>t, <2>1, <3>1, <3>2, <3>3 DEF SentLen, ByteAt
  <2>4. CASE Pipe!Deliver
    <3> DEFINE T == 0 .. Len(file)
               block == Pipe!NextBlock
    <3>1. /\ Len(out) + BLOCKSIZE <= in \/ (ended /\ Len(out) < in)
          /\ out' = out \o block
          /\ UNCHANGED <<in, ended>>
      BY <2>4 DEF Pipe!Deliver
    <3>2. block = [k \in 1 .. BLOCKSIZE |->
                     IF Len(out) + k <= in THEN Len(out) + k ELSE 0]
      BY DEF Pipe!NextBlock
    <3> HIDE DEF block
    <3>3. block \in [1 .. BLOCKSIZE -> T]
      BY <1>t, <1>u, <3>2
    <3> HIDE DEF T
    <3>4. block \in Seq(T) /\ Len(block) = BLOCKSIZE
      <4>1. BLOCKSIZE \in Nat
        OBVIOUS
      <4> QED
        BY <3>3, <4>1, FunIsSeq, Zenon
    <3>5. out \in Seq(T)
      BY <1>t DEF T
    <3>6. /\ out' \in Seq(T) /\ Len(out') = Len(out) + BLOCKSIZE
          /\ \A k \in 1 .. Len(out) : out'[k] = out[k]
          /\ \A k \in 1 .. BLOCKSIZE : out'[Len(out) + k] = block[k]
      <4>1. /\ out \o block \in Seq(T)
            /\ Len(out \o block) = Len(out) + Len(block)
            /\ \A k \in 1 .. Len(out) : (out \o block)[k] = out[k]
            /\ \A k \in 1 .. Len(block) : (out \o block)[Len(out) + k] = block[k]
        <5>1. out \in Seq(T) /\ block \in Seq(T)
          BY <3>4, <3>5
        <5> QED
          BY <5>1, Concat
      <4> QED
        BY <3>1, <3>4, <4>1
    <3>7. PipeTypeOK'
      BY <1>t, <2>1, <3>1, <3>6 DEF PipeTypeOK, T
    <3>8. \A k \in 1 .. Len(out') : out'[k] = IF k <= in THEN k ELSE 0
      <4> SUFFICES ASSUME NEW k \in 1 .. Len(out')
                   PROVE  out'[k] = IF k <= in THEN k ELSE 0
        OBVIOUS
      <4>1. CASE k <= Len(out)
        BY <1>t, <3>6, <4>1 DEF PipeInv
      <4>2. CASE k > Len(out)
        <5>1. k - Len(out) \in 1 .. BLOCKSIZE /\ Len(out) + (k - Len(out)) = k
          BY <1>t, <3>6, <4>2
        <5>2. out'[k] = block[k - Len(out)]
          BY <3>6, <5>1
        <5> QED
          BY <3>2, <5>1, <5>2
      <4> QED
        BY <1>t, <3>6, <4>1, <4>2
    <3>9. PipeInv'
      <4>1. Len(out') > in' => ended'
        BY <1>t, <3>1, <3>6
      <4> QED
        BY <2>1, <3>1, <3>8, <4>1 DEF PipeInv
    <3> QED
      BY <1>t, <2>1, <3>1, <3>6, <3>7, <3>9 DEF SentLen, ByteAt
  <2> QED
    BY <1>2, <2>2, <2>3, <2>4 DEF Proxies
<1> QED
  BY <1>1, <1>2
     DEF Next, Stream, Receive, ConnectionReset, PollIn, PollReset, Recv,
         WriteBlock, CloseConn, WriteByte, CloseFile, ReadFile, WriteSome,
         WriteFails, vars

\* Everything up to what comes to receive.
SourceInv == FileOK /\ StreamTypeOK /\ StreamInv /\ PipeTypeOK /\ PipeInv

\* What comes to receive, byte by byte.
SentOK ==
    /\ Len(Sent) = SentLen /\ SentLen \in Nat /\ SentLen >= 0
    /\ \A k \in 1 .. SentLen : Sent[k] = ByteAt(k) /\ ByteAt(k) \in 0 .. Len(file)
    /\ via = "direct" => SentLen <= Len(file)
    /\ via = "proxies" => in <= Len(file) /\ in \in Nat

\* Sent is the sequence of the bytes ByteAt.
LEMMA SentIs == SourceInv => SentOK
<1> SUFFICES ASSUME SourceInv PROVE SentOK
  OBVIOUS
<1> USE EndConstants
<1>t. /\ Len(file) \in Nat /\ Len(up) \in Nat /\ Len(out) \in Nat /\ in \in Nat
      /\ in <= Len(up) /\ DOMAIN up = 1 .. Len(up) /\ DOMAIN out = 1 .. Len(out)
      /\ via \in {"direct", "proxies"}
  BY DEF SourceInv, FileOK, StreamTypeOK, PipeTypeOK
<1>u. Len(up) <= Len(file)
  BY <1>t DEF SourceInv, StreamTypeOK, StreamInv, BlockRead
<1>b. \A k \in 1 .. Len(up) : up[k] = k
  BY DEF SourceInv, StreamInv
<1>1. CASE via = "direct"
  <2>1. Sent = up
    BY <1>1 DEF Sent
  <2>2. /\ SentLen = Len(up)
        /\ \A k \in 1 .. Len(up) : Sent[k] = ByteAt(k) /\ ByteAt(k) \in 0 .. Len(file)
    BY <1>1, <1>b, <1>t, <1>u, <2>1 DEF SentLen, ByteAt
  <2> QED
    BY <1>1, <1>t, <1>u, <2>1, <2>2 DEF SentOK
<1>2. CASE via = "proxies"
  <2>1. Sent = [k \in 1 .. Len(out) |-> IF out[k] = 0 THEN 0 ELSE up[out[k]]]
    BY <1>2, <1>t DEF Sent
  <2>2. SentLen = Len(out)
    BY <1>2 DEF SentLen
  <2>3. ASSUME NEW k \in 1 .. Len(out)
        PROVE  Sent[k] = ByteAt(k) /\ ByteAt(k) \in 0 .. Len(file)
    <3>1. out[k] = ByteAt(k)
      BY <1>2, <1>t DEF SourceInv, PipeInv, ByteAt
    <3>2. Sent[k] = IF ByteAt(k) = 0 THEN 0 ELSE up[ByteAt(k)]
      BY <2>1, <3>1
    <3>3. CASE k <= in
      BY <1>2, <1>t, <1>u, <1>b, <3>2, <3>3 DEF ByteAt
    <3>4. CASE ~(k <= in)
      BY <1>2, <1>t, <1>u, <1>b, <3>2, <3>4 DEF ByteAt
    <3> QED
      BY <3>3, <3>4
  <2>4. Sent \in [1 .. Len(out) -> 0 .. Len(file)]
    BY <2>1, <2>3
  <2>5. Len(Sent) = Len(out)
    BY <1>t, <2>4, FunIsSeq
  <2> QED
    BY <1>2, <1>t, <1>u, <2>2, <2>3, <2>5 DEF SentOK
<1> QED
  BY <1>t, <1>1, <1>2

\* What has been sent stays, and the padding comes last.
Grows ==
    /\ UNCHANGED <<file, via>>
    /\ SentLen <= SentLen'
    /\ \A k \in 1 .. SentLen : ByteAt(k)' = ByteAt(k)
    /\ UNCHANGED in \/ (SentLen <= in /\ in <= in')

\* The source's side of a step.
LEMMA SourceNext == SourceInv /\ [Next]_vars => SourceInv' /\ Grows /\ SentOK'
<1>1. SourceInv /\ [Next]_vars => SourceInv'
  BY FileNext, StreamNext, PipeNext, Zenon DEF SourceInv
<1>2. SourceInv' => SentOK'
  BY SentIs, PTL
<1>3. ASSUME SourceInv, [Next]_vars PROVE Grows
  <2>1. /\ UNCHANGED <<file, via>> /\ SentLen <= SentLen'
        /\ \A k \in 1 .. SentLen : ByteAt(k)' = ByteAt(k)
    BY <1>3, FileNext, PipeNext, Zenon DEF SourceInv
  <2>2. UNCHANGED in \/ (Pipe!Take /\ via = "proxies")
    BY <1>3 DEF Next, Stream, Receive, Proxies, ConnectionReset, PollIn,
         PollReset, Recv, WriteBlock, CloseConn, WriteByte, CloseFile, ReadFile,
         WriteSome, WriteFails, vars, pipeVars, Pipe!End, Pipe!Deliver
  <2>3. UNCHANGED in \/ (~ended /\ in' \in in + 1 .. MaxLen /\ via = "proxies")
    BY <2>2 DEF Pipe!Take
  <2>4. UNCHANGED in \/ (SentLen <= in /\ in <= in')
    BY <1>3, <2>3, EndConstants
       DEF SourceInv, StreamTypeOK, PipeTypeOK, PipeInv, SentLen
  <2> QED
    BY <2>1, <2>4 DEF Grows
<1> QED
  BY <1>1, <1>2, <1>3

-----------------------------------------------------------------------------
(* receive                                                                 *)

\* A set of numbers that is not empty has a least one.
LEMMA LeastOf ==
  ASSUME NEW T \in SUBSET Nat, T # {}
  PROVE  \E x \in T : \A y \in T : x <= y
<1> DEFINE R == OpToRel(<, Nat)
<1>1. IsWellFoundedOn(R, Nat)
  BY NatLessThanWellFounded
<1>2. \A x, y \in Nat : x < y => <<x, y>> \in R
  BY DEF OpToRel
<1> HIDE DEF R
<1>3. PICK x \in T : \A y \in T : <<y, x>> \notin R
  BY <1>1, WFMin
<1>4. ASSUME NEW y \in T PROVE x <= y
  <2>1. x \in Nat /\ y \in Nat
    OBVIOUS
  <2>2. ~(y < x)
    BY <1>2, <1>3, <2>1
  <2> QED
    BY <2>1, <2>2
<1> QED
  BY <1>4

\* n bytes of the buffer come before the first '\0' or are all of it.
TextOf(n) ==
    /\ \A k \in 1 .. n : Kind(buffer[k]) # "nul"
    /\ n < BLOCKSIZE => Kind(buffer[n + 1]) = "nul"

\* "%s" takes what is before the first '\0' of the buffer.
LEMMA CutOff ==
  ASSUME buffer \in [1 .. BLOCKSIZE -> 0 .. Len(file)], Len(file) \in Nat
  PROVE  \E n \in 0 .. BLOCKSIZE :
            /\ TextOf(n)
            /\ UpToNul(buffer) \in [1 .. n -> 1 .. Len(file)]
            /\ \A k \in 1 .. n : UpToNul(buffer)[k] = buffer[k]
<1> USE EndConstants
<1> DEFINE nuls == {k \in 1 .. BLOCKSIZE : Kind(buffer[k]) = "nul"}
<1>1. DOMAIN buffer = 1 .. BLOCKSIZE
  OBVIOUS
<1>2. UpToNul(buffer) =
        IF nuls = {} THEN buffer
        ELSE SubSeq(buffer, 1, (CHOOSE k \in nuls : \A m \in nuls : k <= m) - 1)
  BY <1>1 DEF UpToNul
<1>3. \A k \in 1 .. BLOCKSIZE :
        Kind(buffer[k]) # "nul" => buffer[k] \in 1 .. Len(file)
  <2> SUFFICES ASSUME NEW k \in 1 .. BLOCKSIZE, Kind(buffer[k]) # "nul"
               PROVE  buffer[k] \in 1 .. Len(file)
    OBVIOUS
  <2>1. buffer[k] \in 0 .. Len(file)
    OBVIOUS
  <2>2. buffer[k] # 0
    BY DEF Kind
  <2> QED
    BY <2>1, <2>2
<1>4. CASE nuls = {}
  <2>1. \A k \in 1 .. BLOCKSIZE : Kind(buffer[k]) # "nul"
    BY <1>4
  <2>2. UpToNul(buffer) = buffer
    BY <1>2, <1>4
  <2>3. buffer \in [1 .. BLOCKSIZE -> 1 .. Len(file)]
    BY <1>3, <2>1
  <2>4. BLOCKSIZE \in 0 .. BLOCKSIZE /\ TextOf(BLOCKSIZE)
    BY <2>1 DEF TextOf
  <2> QED
    BY <2>2, <2>3, <2>4
<1>5. CASE nuls # {}
  <2> DEFINE x == CHOOSE k \in nuls : \A m \in nuls : k <= m
  <2>1. \E k \in nuls : \A m \in nuls : k <= m
    <3>1. nuls \in SUBSET Nat
      OBVIOUS
    <3> HIDE DEF nuls
    <3> QED
      BY <1>5, <3>1, LeastOf
  <2>2. x \in nuls /\ \A m \in nuls : x <= m
    <3> HIDE DEF nuls
    <3> QED
      BY <2>1
  <2>3. UpToNul(buffer) = SubSeq(buffer, 1, x - 1)
    BY <1>2, <1>5
  <2> HIDE DEF x
  <2>4. x \in 1 .. BLOCKSIZE /\ Kind(buffer[x]) = "nul"
    BY <2>2
  <2>5. \A k \in 1 .. x - 1 : k \in 1 .. BLOCKSIZE /\ Kind(buffer[k]) # "nul"
    <3>1. \A k \in 1 .. x - 1 : k \in 1 .. BLOCKSIZE /\ ~(x <= k)
      BY <2>4
    <3>2. \A k \in 1 .. BLOCKSIZE : Kind(buffer[k]) = "nul" => x <= k
      BY <2>2
    <3> QED
      BY <3>1, <3>2
  <2>6. TextOf(x - 1) /\ x - 1 \in 0 .. BLOCKSIZE
    <3>1. (x - 1) + 1 = x
      BY <2>4
    <3> QED
      BY <2>4, <2>5, <3>1 DEF TextOf
  <2>7. /\ SubSeq(buffer, 1, x - 1) = [k \in 1 .. x - 1 |-> buffer[k]]
    <3>1. buffer \in Seq(0 .. Len(file)) /\ Len(buffer) = BLOCKSIZE
      BY FunIsSeq
    <3> QED
      BY <2>4, <3>1
  <2>8. [k \in 1 .. x - 1 |-> buffer[k]] \in [1 .. x - 1 -> 1 .. Len(file)]
    BY <1>3, <2>5
  <2> QED
    BY <2>3, <2>6, <2>7, <2>8
<1> QED
  BY <1>4, <1>5

\* The bytes in the buffer while they are written.
LEMMA BufferBytes ==
  ASSUME SourceInv, RecvTypeOK, RecvInv,
         rpc \in {"recv", "write", "residue"},
         NEW k \in 1 .. recv_count
  PROVE  /\ buffer[k] = ByteAt(got - recv_count + k)
         /\ got - recv_count + k \in 1 .. SentLen
<1> USE EndConstants
<1>1. SentLen \in Nat /\ got \in 0 .. SentLen /\ recv_count \in 0 .. BLOCKSIZE
  BY SentIs DEF SentOK, RecvTypeOK
<1>2. recv_count <= got /\ BufferIs(recv_count)
  BY DEF RecvInv
<1>3. k \in 1 .. BLOCKSIZE /\ k <= recv_count
  BY <1>1
<1>4. buffer[k] = ByteAt(got - recv_count + k)
  BY <1>2, <1>3 DEF BufferIs
<1> QED
  BY <1>1, <1>2, <1>3, <1>4

\* A full buffer is written: its bytes up to the first '\0', in their places,
\* and possibly what fprintf finds behind it.
LEMMA BlockWritten ==
  ASSUME SourceInv, RecvTypeOK, RecvInv, WriteBlock
  PROVE  \E n \in 0 .. BLOCKSIZE, j \in Nat :
            /\ TextOf(n)
            /\ wrt' \in Seq(DOMAIN file \cup {Junk})
            /\ Len(wrt') = Len(wrt) + n + j /\ Len(wrt) \in Nat
            /\ \A k \in 1 .. Len(wrt) : wrt'[k] = wrt[k]
            /\ \A k \in 1 .. n : wrt'[Len(wrt) + k] = got - BLOCKSIZE + k
            /\ \A k \in 1 .. j : wrt'[Len(wrt) + n + k] = Junk
<1> USE EndConstants
<1>t. /\ buffer \in [1 .. BLOCKSIZE -> 0 .. Len(file)] /\ Len(file) \in Nat
      /\ got \in Nat /\ DOMAIN file = 1 .. Len(file)
      /\ wrt \in Seq(1 .. Len(file) \cup {Junk})
  <2>1. Len(file) \in Nat /\ DOMAIN file = 1 .. Len(file)
    BY DEF SourceInv, FileOK
  <2>2. SentLen \in Nat /\ Len(Sent) = SentLen
    BY SentIs DEF SentOK
  <2>3. got \in Nat
    BY <2>2 DEF RecvTypeOK
  <2>4. /\ buffer \in [1 .. BLOCKSIZE -> 0 .. Len(file)]
        /\ wrt \in Seq(DOMAIN file \cup {Junk})
    BY DEF RecvTypeOK
  <2>5. wrt \in Seq(1 .. Len(file) \cup {Junk})
    BY <2>1, <2>4
  <2> QED
    BY <2>1, <2>3, <2>4, <2>5
<1>w. rpc = "write" /\ recv_count = BLOCKSIZE
  BY DEF WriteBlock, RecvInv
<1> DEFINE S == 1 .. Len(file) \cup {Junk}
<1>1. PICK n \in 0 .. BLOCKSIZE :
            /\ TextOf(n)
            /\ UpToNul(buffer) \in [1 .. n -> 1 .. Len(file)]
            /\ \A k \in 1 .. n : UpToNul(buffer)[k] = buffer[k]
  BY <1>t, CutOff
<1>2. PICK j \in Nat : wrt' = wrt \o UpToNul(buffer) \o [m \in 1 .. j |-> Junk]
  BY DEF WriteBlock
<1>3. ASSUME NEW k \in 1 .. n PROVE buffer[k] = got - BLOCKSIZE + k
  <2>1. k \in 1 .. recv_count
    BY <1>w
  <2>2. buffer[k] = ByteAt(got - BLOCKSIZE + k)
    BY <1>w, <2>1, BufferBytes
  <2>3. buffer[k] # 0
    BY <1>1 DEF TextOf, Kind
  <2> QED
    BY <2>2, <2>3 DEF ByteAt
<1> DEFINE text == UpToNul(buffer)
           junk == [m \in 1 .. j |-> Junk]
<1>4. text \in [1 .. n -> S] /\ junk \in [1 .. j -> S]
  BY <1>1
<1>5. wrt' = (wrt \o text) \o junk /\ wrt \in Seq(S)
  BY <1>2, <1>t
<1>6. \A k \in 1 .. n : text[k] = got - BLOCKSIZE + k
  BY <1>1, <1>3
<1>7. \A k \in 1 .. j : junk[k] = Junk
  OBVIOUS
<1>s. S = DOMAIN file \cup {Junk}
  BY <1>t
<1> HIDE DEF text, junk, S
<1>8. n \in Nat
  OBVIOUS
<1>9. /\ text \in Seq(S) /\ Len(text) = n
  BY <1>4, <1>8, FunIsSeq, Zenon
<1>10. junk \in Seq(S) /\ Len(junk) = j
  BY <1>4, FunIsSeq, Zenon
<1>11. /\ wrt \o text \in Seq(S)
       /\ Len(wrt \o text) = Len(wrt) + Len(text) /\ Len(wrt) \in Nat
       /\ \A k \in 1 .. Len(wrt) : (wrt \o text)[k] = wrt[k]
       /\ \A k \in 1 .. Len(text) : (wrt \o text)[Len(wrt) + k] = text[k]
  <2>1. wrt \in Seq(S) /\ text \in Seq(S)
    BY <1>5, <1>9
  <2> QED
    BY <2>1, Concat
<1> DEFINE head == wrt \o text
<1> HIDE DEF head
<1>12. /\ head \o junk \in Seq(S)
       /\ Len(head \o junk) = Len(head) + Len(junk)
       /\ \A k \in 1 .. Len(head) : (head \o junk)[k] = head[k]
       /\ \A k \in 1 .. Len(junk) : (head \o junk)[Len(head) + k] = junk[k]
  <2>1. head \in Seq(S) /\ junk \in Seq(S)
    BY <1>10, <1>11 DEF head
  <2> QED
    BY <2>1, Concat
<1>13. /\ wrt' = head \o junk /\ Len(head) = Len(wrt) + n
       /\ \A k \in 1 .. Len(wrt) : head[k] = wrt[k]
       /\ \A k \in 1 .. n : head[Len(wrt) + k] = text[k]
  BY <1>5, <1>9, <1>11 DEF head
<1>14. /\ wrt' \in Seq(S) /\ Len(wrt') = Len(wrt) + n + j
       /\ \A k \in 1 .. j : wrt'[Len(wrt) + n + k] = Junk
  BY <1>7, <1>10, <1>12, <1>13
<1>15. \A k \in 1 .. Len(wrt) : wrt'[k] = wrt[k]
  <2>1. \A k \in 1 .. Len(wrt) : k \in 1 .. Len(head)
    BY <1>8, <1>11, <1>13
  <2> QED
    BY <1>12, <1>13, <2>1
<1>16. \A k \in 1 .. n : wrt'[Len(wrt) + k] = got - BLOCKSIZE + k
  <2>1. \A k \in 1 .. n : Len(wrt) + k \in 1 .. Len(head)
    BY <1>8, <1>11, <1>13
  <2>2. \A k \in 1 .. n : wrt'[Len(wrt) + k] = text[k]
    BY <1>12, <1>13, <2>1
  <2> QED
    BY <1>6, <2>2
<1> QED
  BY <1>1, <1>11, <1>14, <1>15, <1>16, <1>s

\* A byte of the residue is written, or left out if it is 0xff.
LEMMA ByteWritten ==
  ASSUME SourceInv, RecvTypeOK, RecvInv, WriteByte
  PROVE  LET b == got - recv_count + i + 1
         IN  /\ b \in DOMAIN file /\ i < recv_count
             /\ \/ wrt' = Append(wrt, b) /\ file[b] # "ff"
                \/ wrt' = wrt /\ file[b] = "ff"
<1> USE EndConstants
<1> DEFINE b == got - recv_count + i + 1
<1>1. /\ got \in Nat /\ recv_count \in Nat /\ i \in Nat /\ Len(file) \in Nat
      /\ i < recv_count /\ rpc = "residue" /\ via = "direct"
      /\ DOMAIN file = 1 .. Len(file)
  BY SentIs DEF SentOK, RecvTypeOK, SourceInv, FileOK, RecvInv, WriteByte,
                ResidueLeft
<1>2. i + 1 \in 1 .. recv_count
  BY <1>1
<1>3. /\ buffer[i + 1] = ByteAt(got - recv_count + (i + 1))
      /\ got - recv_count + (i + 1) \in 1 .. SentLen
  BY <1>1, <1>2, BufferBytes
<1>4. b = got - recv_count + (i + 1)
  BY <1>1
<1>5. buffer[i + 1] = b
  BY <1>1, <1>3, <1>4 DEF ByteAt
<1>6. b \in 1 .. Len(file)
  <2>1. SentLen <= Len(file) /\ SentLen \in Nat
    BY <1>1, SentIs DEF SentOK
  <2> HIDE DEF b
  <2> QED
    BY <1>1, <1>3, <1>4, <2>1
<1>7. wrt' = IF Kind(b) # "ff" THEN Append(wrt, b) ELSE wrt
  BY <1>5 DEF WriteByte
<1>8. Kind(b) = file[b]
  <2>1. b # 0
    <3> HIDE DEF b
    <3> QED
      BY <1>6, <1>1
  <2> QED
    BY <2>1 DEF Kind
<1> QED
  BY <1>1, <1>6, <1>7, <1>8

\* What a step of receive leaves as it is.
LEMMA ReceiveKeeps ==
  Receive => UNCHANGED <<file, via, in, out, up, SentLen>> /\ Sent' = Sent
                /\ \A k : ByteAt(k)' = ByteAt(k)
<1>1. Receive => UNCHANGED <<file, via, in, out, up>>
  BY DEF Receive, PollIn, PollReset, Recv, WriteBlock, CloseConn, WriteByte,
         CloseFile, streamVars, pipeVars
<1> QED
  BY <1>1 DEF SentLen, ByteAt, Sent

\* receive fills its buffer with what comes next.
LEMMA RecvNext ==
  SourceInv /\ RecvTypeOK /\ RecvInv /\ [Next]_vars => RecvTypeOK' /\ RecvInv'
<1> SUFFICES ASSUME SourceInv, RecvTypeOK, RecvInv, [Next]_vars
             PROVE  RecvTypeOK' /\ RecvInv'
  OBVIOUS
<1> USE EndConstants
<1>t. /\ SentLen \in Nat /\ got \in 0 .. SentLen /\ Len(Sent) = SentLen
      /\ recv_count \in 0 .. BLOCKSIZE /\ i \in 0 .. BLOCKSIZE
      /\ buffer \in [1 .. BLOCKSIZE -> 0 .. Len(file)]
      /\ wrt \in Seq(DOMAIN file \cup {Junk})
      /\ rpc \in {"poll", "recv", "write", "residue", "done", "stuck"}
      /\ Len(file) \in Nat /\ DOMAIN file = 1 .. Len(file)
  BY SentIs DEF SentOK, RecvTypeOK, SourceInv, FileOK
<1>g. SourceInv' /\ Grows /\ SentOK'
  BY SourceNext
<1>n. /\ Len(Sent') = SentLen' /\ SentLen' \in Nat /\ SentLen <= SentLen'
      /\ UNCHANGED <<file, via>>
  BY <1>g DEF SentOK, Grows
<1>1. CASE UNCHANGED recvVars
  <2>1. UNCHANGED <<rpc, got, buffer, recv_count, i, wrt>>
    BY <1>1 DEF recvVars
  <2>2. RecvTypeOK'
    BY <1>t, <1>n, <2>1 DEF RecvTypeOK
  <2>3. ASSUME BufferIs(recv_count), recv_count <= got PROVE BufferIs(recv_count)'
    <3>1. ASSUME NEW k \in 1 .. BLOCKSIZE, k <= recv_count
          PROVE  ByteAt(got - recv_count + k)' = ByteAt(got - recv_count + k)
      <4>1. got - recv_count + k \in 1 .. SentLen
        BY <1>t, <2>3, <3>1
      <4>2. \A m \in 1 .. SentLen : ByteAt(m)' = ByteAt(m)
        BY <1>g DEF Grows
      <4> QED
        BY <2>1, <4>1, <4>2 DEF ByteAt
    <3> QED
      BY <2>1, <2>3, <3>1 DEF BufferIs
  <2>4. RecvInv'
    BY <1>n, <2>1, <2>3 DEF RecvInv
  <2> QED
    BY <2>2, <2>4
<1>2. CASE Receive
  <2>k. UNCHANGED <<file, via, SentLen>> /\ \A k : ByteAt(k)' = ByteAt(k)
    BY <1>2, ReceiveKeeps
  <2>1. CASE PollIn
    <3>1. /\ buffer' = Zeros /\ recv_count' = 0 /\ rpc' = "recv" /\ rpc = "poll"
          /\ UNCHANGED <<got, i, wrt>>
      BY <2>1 DEF PollIn
    <3>2. buffer' \in [1 .. BLOCKSIZE -> 0 .. Len(file)]
          /\ \A k \in 1 .. BLOCKSIZE : buffer'[k] = 0
      BY <1>t, <3>1 DEF Zeros
    <3>3. RecvTypeOK'
      BY <1>t, <1>n, <2>k, <3>1, <3>2 DEF RecvTypeOK
    <3>4. BufferIs(recv_count)'
      BY <3>1, <3>2 DEF BufferIs
    <3> QED
      BY <1>t, <3>1, <3>3, <3>4 DEF RecvInv
  <2>2. CASE PollReset
    <3>1. /\ rpc' = "stuck" /\ recv_count' = 0 /\ rpc = "poll"
          /\ UNCHANGED <<got, buffer, i, wrt>>
      BY <2>2 DEF PollReset
    <3>2. RecvTypeOK'
      BY <1>t, <1>n, <2>k, <3>1 DEF RecvTypeOK
    <3> QED
      BY <3>1, <3>2 DEF RecvInv
  <2>3. CASE Recv
    <3>1. PICK n \in 1 .. BLOCKSIZE - recv_count :
            /\ got + n <= Len(Sent)
            /\ buffer' = [k \in 1 .. BLOCKSIZE |->
                            IF k \in recv_count + 1 .. recv_count + n
                            THEN Sent[got + k - recv_count] ELSE buffer[k]]
            /\ got' = got + n
            /\ recv_count' = recv_count + n
            /\ rpc' = IF recv_count + n = BLOCKSIZE THEN "write" ELSE "recv"
      BY <2>3 DEF Recv
    <3>2. rpc = "recv" /\ UNCHANGED <<i, wrt>>
      BY <2>3 DEF Recv
    <3>3. recv_count <= got /\ BufferIs(recv_count)
      BY <3>2 DEF RecvInv
    <3>4. \A k \in 1 .. SentLen : Sent[k] = ByteAt(k) /\ ByteAt(k) \in 0 .. Len(file)
      BY SentIs DEF SentOK
    <3>5. ASSUME NEW k \in 1 .. BLOCKSIZE
          PROVE  /\ buffer'[k] \in 0 .. Len(file)
                 /\ buffer'[k] = IF k <= recv_count + n
                                 THEN ByteAt(got - recv_count + k) ELSE 0
      <4>1. CASE k \in recv_count + 1 .. recv_count + n
        <5>1. got + k - recv_count \in 1 .. SentLen
              /\ got + k - recv_count = got - recv_count + k
          BY <1>t, <3>1, <3>3, <4>1
        <5>2. buffer'[k] = Sent[got + k - recv_count]
          BY <3>1, <4>1
        <5>3. k <= recv_count + n
          BY <1>t, <4>1
        <5> QED
          BY <3>4, <5>1, <5>2, <5>3
      <4>2. CASE k \notin recv_count + 1 .. recv_count + n
        <5>1. buffer'[k] = buffer[k]
          BY <3>1, <4>2
        <5>2. (k <= recv_count + n) <=> (k <= recv_count)
          BY <1>t, <3>1, <4>2
        <5> QED
          BY <1>t, <3>3, <5>1, <5>2 DEF BufferIs
      <4> QED
        BY <4>1, <4>2
    <3>6. buffer' \in [1 .. BLOCKSIZE -> 0 .. Len(file)]
      BY <3>1, <3>5
    <3>7. got' \in 0 .. SentLen /\ recv_count' \in 0 .. BLOCKSIZE
          /\ got' - recv_count' = got - recv_count /\ recv_count' <= got'
      BY <1>t, <3>1, <3>3
    <3>8. RecvTypeOK'
      BY <1>t, <1>n, <2>k, <3>1, <3>2, <3>6, <3>7 DEF RecvTypeOK
    <3>9. BufferIs(recv_count)'
      <4>1. \A k : ByteAt(got - recv_count + k)' = ByteAt(got - recv_count + k)
        BY <2>k, <3>7 DEF ByteAt
      <4> QED
        BY <3>1, <3>5, <4>1 DEF BufferIs
    <3>10. rpc' = "recv" => recv_count' < BLOCKSIZE
      BY <1>t, <3>1
    <3>11. i' = 0 /\ rpc' \in {"recv", "write"}
      BY <3>1, <3>2 DEF RecvInv
    <3> QED
      BY <3>1, <3>7, <3>8, <3>9, <3>10, <3>11 DEF RecvInv
  <2>4. CASE WriteBlock
    <3>1. rpc = "write" /\ rpc' = "poll" /\ UNCHANGED <<got, buffer, recv_count, i>>
      BY <2>4 DEF WriteBlock
    <3>2. wrt' \in Seq(DOMAIN file \cup {Junk})
      BY <2>4, BlockWritten
    <3>3. RecvTypeOK'
      BY <1>t, <1>n, <2>k, <3>1, <3>2 DEF RecvTypeOK
    <3> QED
      BY <3>1, <3>3 DEF RecvInv
  <2>5. CASE CloseConn
    <3>1. rpc = "recv" /\ rpc' = "residue"
          /\ UNCHANGED <<got, buffer, recv_count, i, wrt>>
      BY <2>5 DEF CloseConn
    <3>2. via = "direct"
      BY <2>5 DEF CloseConn, Eof, SourceInv, FileOK
    <3>3. RecvTypeOK'
      BY <1>t, <1>n, <2>k, <3>1 DEF RecvTypeOK
    <3>4. recv_count <= got /\ BufferIs(recv_count) /\ i = 0
      BY <3>1 DEF RecvInv
    <3>5. BufferIs(recv_count)'
      BY <2>k, <3>1, <3>4 DEF BufferIs, ByteAt
    <3> QED
      BY <1>t, <2>k, <3>1, <3>2, <3>3, <3>4, <3>5 DEF RecvInv
  <2>6. CASE WriteByte
    <3>1. rpc = "residue" /\ i' = i + 1
          /\ UNCHANGED <<rpc, got, buffer, recv_count>>
      BY <2>6 DEF WriteByte
    <3>2. via = "direct" /\ recv_count <= got /\ BufferIs(recv_count)
      BY <3>1 DEF RecvInv
    <3>3. i < recv_count
      BY <2>6 DEF WriteByte, ResidueLeft
    <3>4. wrt' \in Seq(DOMAIN file \cup {Junk})
      <4> DEFINE b == got - recv_count + i + 1
      <4>1. b \in DOMAIN file /\ (wrt' = Append(wrt, b) \/ wrt' = wrt)
        BY <2>6, ByteWritten
      <4> DEFINE S == DOMAIN file \cup {Junk}
      <4>2. b \in S /\ wrt \in Seq(S)
        BY <1>t, <4>1
      <4> HIDE DEF b, S
      <4>3. Append(wrt, b) \in Seq(S)
        BY <4>2
      <4>4. wrt' \in Seq(S)
        BY <4>1, <4>2, <4>3
      <4> QED
        BY <4>4 DEF S
    <3>5. RecvTypeOK'
      BY <1>t, <1>n, <2>k, <3>1, <3>3, <3>4 DEF RecvTypeOK
    <3>6. BufferIs(recv_count)'
      BY <2>k, <3>1, <3>2 DEF BufferIs, ByteAt
    <3> QED
      BY <1>t, <2>k, <3>1, <3>2, <3>3, <3>5, <3>6 DEF RecvInv
  <2>7. CASE CloseFile
    <3>1. rpc = "residue" /\ rpc' = "done"
          /\ UNCHANGED <<got, buffer, recv_count, i, wrt>>
      BY <2>7 DEF CloseFile
    <3>2. RecvTypeOK'
      BY <1>t, <1>n, <2>k, <3>1 DEF RecvTypeOK
    <3> QED
      BY <2>k, <3>1, <3>2 DEF RecvInv
  <2> QED
    BY <1>2, <2>1, <2>2, <2>3, <2>4, <2>5, <2>6, <2>7 DEF Receive
<1> QED
  BY <1>1, <1>2
     DEF Next, Stream, Proxies, ConnectionReset, ReadFile, WriteSome,
         WriteFails, vars

-----------------------------------------------------------------------------
(* The output file                                                         *)

\* Only the two ways to write move on in what has been received.
LEMMA PassedNext ==
  SourceInv /\ RecvTypeOK /\ RecvInv /\ [Next]_vars =>
      /\ Passed \in 0 .. SentLen
      /\ WriteBlock \/ WriteByte \/ (UNCHANGED wrt /\ Passed' = Passed)
<1> SUFFICES ASSUME SourceInv, RecvTypeOK, RecvInv, [Next]_vars
             PROVE  /\ Passed \in 0 .. SentLen
                    /\ WriteBlock \/ WriteByte \/ (UNCHANGED wrt /\ Passed' = Passed)
  OBVIOUS
<1> USE EndConstants
<1>t. /\ SentLen \in Nat /\ got \in 0 .. SentLen
      /\ recv_count \in 0 .. BLOCKSIZE /\ i \in 0 .. BLOCKSIZE
  BY SentIs DEF SentOK, RecvTypeOK
<1>1. Passed \in 0 .. SentLen
  BY <1>t DEF RecvInv, Passed
<1>2. CASE UNCHANGED recvVars
  BY <1>1, <1>2 DEF recvVars, Passed
<1>3. CASE PollIn
  BY <1>1, <1>3, <1>t DEF PollIn, Passed
<1>4. CASE PollReset
  BY <1>1, <1>4, <1>t DEF PollReset, Passed
<1>5. CASE Recv
  <2>1. PICK n \in 1 .. BLOCKSIZE - recv_count :
            /\ got' = got + n
            /\ recv_count' = recv_count + n
            /\ rpc' = IF recv_count + n = BLOCKSIZE THEN "write" ELSE "recv"
    BY <1>5 DEF Recv
  <2>2. rpc = "recv" /\ UNCHANGED wrt
    BY <1>5 DEF Recv
  <2> QED
    BY <1>1, <1>t, <2>1, <2>2 DEF Passed
<1>6. CASE CloseConn
  <2>1. rpc = "recv" /\ i = 0 /\ rpc' = "residue" /\ UNCHANGED <<got, recv_count, i, wrt>>
    BY <1>6 DEF CloseConn, RecvInv
  <2> QED
    BY <1>1, <1>t, <2>1 DEF Passed
<1>7. CASE CloseFile
  <2>1. /\ rpc = "residue" /\ rpc' = "done" /\ ~(i < recv_count)
        /\ UNCHANGED <<got, recv_count, i, wrt>> /\ i <= recv_count
    BY <1>7 DEF CloseFile, RecvInv, ResidueLeft
  <2> QED
    BY <1>1, <1>t, <2>1 DEF Passed
<1> QED
  BY <1>1, <1>2, <1>3, <1>4, <1>5, <1>6, <1>7
     DEF Next, Receive, Stream, Proxies, ConnectionReset, ReadFile, WriteSome,
         WriteFails, vars

\* The bytes in the output file come in the order of the file.
LEMMA WrtNext ==
  SourceInv /\ RecvTypeOK /\ RecvInv /\ WrtInv /\ [Next]_vars => WrtInv'
<1> SUFFICES ASSUME SourceInv, RecvTypeOK, RecvInv, WrtInv, [Next]_vars
             PROVE  WrtInv'
  OBVIOUS
<1> USE EndConstants
<1>t. /\ SentLen \in Nat /\ got \in 0 .. SentLen
      /\ recv_count \in 0 .. BLOCKSIZE /\ i \in 0 .. BLOCKSIZE
  BY SentIs DEF SentOK, RecvTypeOK
<1>w. wrt \in Seq(DOMAIN file \cup {Junk}) /\ Len(wrt) \in Nat
      /\ DOMAIN wrt = 1 .. Len(wrt)
  BY DEF RecvTypeOK
<1>v. /\ \A k \in 1 .. Len(wrt) : wrt[k] \in Int
      /\ \A k \in 1 .. Len(wrt) : wrt[k] # Junk => wrt[k] <= Passed
      /\ \A j, k \in 1 .. Len(wrt) :
            j < k /\ wrt[j] # Junk /\ wrt[k] # Junk => wrt[j] < wrt[k]
  <2>1. DOMAIN file \cup {Junk} \subseteq Int
    BY DEF SourceInv, FileOK, Junk
  <2> QED
    BY <1>w, <2>1 DEF WrtInv, OutputRising
<1>p. Passed \in 0 .. SentLen
  BY PassedNext
<1>1. CASE WriteBlock
  <2>1. PICK n \in 0 .. BLOCKSIZE, j \in Nat :
            /\ wrt' \in Seq(DOMAIN file \cup {Junk})
            /\ Len(wrt') = Len(wrt) + n + j
            /\ \A k \in 1 .. Len(wrt) : wrt'[k] = wrt[k]
            /\ \A k \in 1 .. n : wrt'[Len(wrt) + k] = got - BLOCKSIZE + k
            /\ \A k \in 1 .. j : wrt'[Len(wrt) + n + k] = Junk
    BY <1>1, BlockWritten
  <2>2. Passed = got - BLOCKSIZE /\ Passed' = got
    BY <1>1 DEF WriteBlock, Passed, RecvInv
  <2>3. DOMAIN wrt' = 1 .. Len(wrt')
    BY <2>1
  <2>4. ASSUME NEW k \in 1 .. Len(wrt')
        PROVE  \/ k \in 1 .. Len(wrt) /\ wrt'[k] = wrt[k]
               \/ /\ k > Len(wrt) /\ k <= Len(wrt) + n
                  /\ wrt'[k] = got - BLOCKSIZE + (k - Len(wrt))
               \/ k > Len(wrt) + n /\ wrt'[k] = Junk
    <3>1. CASE k <= Len(wrt)
      BY <1>w, <2>1, <3>1
    <3>2. CASE k > Len(wrt) /\ k <= Len(wrt) + n
      <4>1. k - Len(wrt) \in 1 .. n /\ Len(wrt) + (k - Len(wrt)) = k
        BY <1>w, <3>2
      <4>2. wrt'[Len(wrt) + (k - Len(wrt))] = got - BLOCKSIZE + (k - Len(wrt))
        BY <2>1, <4>1
      <4> QED
        BY <3>2, <4>1, <4>2
    <3>3. CASE k > Len(wrt) + n
      <4>1. k - (Len(wrt) + n) \in 1 .. j /\ Len(wrt) + n + (k - (Len(wrt) + n)) = k
        BY <1>w, <2>1, <3>3
      <4>2. wrt'[Len(wrt) + n + (k - (Len(wrt) + n))] = Junk
        BY <2>1, <4>1
      <4> QED
        BY <3>3, <4>1, <4>2
    <3> QED
      BY <1>w, <3>1, <3>2, <3>3
  <2>5. \A k \in 1 .. Len(wrt') : wrt'[k] # Junk => wrt'[k] <= Passed'
    BY <1>p, <1>t, <1>v, <1>w, <2>2, <2>4
  <2>6. \A k, m \in 1 .. Len(wrt') :
          k < m /\ wrt'[k] # Junk /\ wrt'[m] # Junk => wrt'[k] < wrt'[m]
    <3> SUFFICES ASSUME NEW k \in 1 .. Len(wrt'), NEW m \in 1 .. Len(wrt'),
                        k < m, wrt'[k] # Junk, wrt'[m] # Junk
                 PROVE  wrt'[k] < wrt'[m]
      OBVIOUS
    <3>1. CASE m \in 1 .. Len(wrt) /\ wrt'[m] = wrt[m]
      <4>1. k \in 1 .. Len(wrt)
        BY <1>w, <3>1, <2>1
      <4>2. wrt'[k] = wrt[k]
        BY <2>1, <4>1
      <4> QED
        BY <1>v, <3>1, <4>1, <4>2
    <3>2. CASE /\ m > Len(wrt) /\ m <= Len(wrt) + n
               /\ wrt'[m] = got - BLOCKSIZE + (m - Len(wrt))
      <4>1. CASE k \in 1 .. Len(wrt) /\ wrt'[k] = wrt[k]
        BY <1>p, <1>t, <1>v, <1>w, <2>2, <3>2, <4>1
      <4>2. CASE wrt'[k] = got - BLOCKSIZE + (k - Len(wrt))
        BY <1>t, <1>w, <2>1, <3>2, <4>2
      <4> QED
        BY <2>4, <4>1, <4>2
    <3> QED
      BY <2>4, <3>1, <3>2
  <2> QED
    BY <2>3, <2>5, <2>6 DEF WrtInv, OutputRising
<1>2. CASE WriteByte
  <2> DEFINE b == got - recv_count + i + 1
  <2>1. wrt' = Append(wrt, b) \/ wrt' = wrt
    BY <1>2, ByteWritten
  <2>2. Passed = got - recv_count + i /\ Passed' = Passed + 1 /\ b = Passed + 1
    BY <1>t, <1>2 DEF WriteByte, Passed
  <2> HIDE DEF b
  <2>3. CASE wrt' = wrt
    BY <1>p, <1>v, <1>w, <2>2, <2>3 DEF WrtInv, OutputRising
  <2>4. CASE wrt' = Append(wrt, b)
    <3> DEFINE L == Len(wrt)
    <3>1. /\ DOMAIN wrt' = 1 .. L + 1 /\ wrt'[L + 1] = b
          /\ \A k \in 1 .. L : wrt'[k] = wrt[k]
      BY <1>w, <2>4
    <3>2. L \in Nat
      BY <1>w
    <3>3. /\ \A k \in 1 .. L : wrt[k] \in Int
          /\ \A k \in 1 .. L : wrt[k] # Junk => wrt[k] <= Passed
          /\ \A j, k \in 1 .. L :
                j < k /\ wrt[j] # Junk /\ wrt[k] # Junk => wrt[j] < wrt[k]
      BY <1>v
    <3> HIDE DEF L
    <3>4. \A k \in 1 .. L + 1 : wrt'[k] # Junk => wrt'[k] <= Passed'
      BY <1>p, <2>2, <3>1, <3>2, <3>3
    <3>5. \A j, k \in 1 .. L + 1 :
            j < k /\ wrt'[j] # Junk /\ wrt'[k] # Junk => wrt'[j] < wrt'[k]
      BY <1>p, <2>2, <3>1, <3>2, <3>3
    <3> QED
      BY <3>1, <3>4, <3>5 DEF WrtInv, OutputRising
  <2> QED
    BY <2>1, <2>3, <2>4
<1>3. CASE UNCHANGED wrt /\ Passed' = Passed
  BY <1>3 DEF WrtInv, OutputRising
<1> QED
  BY <1>1, <1>2, <1>3, PassedNext

\* How much of a file of text is in the output.
Kept == IF via = "proxies" /\ Passed > in THEN in ELSE Passed

\* A file of text is copied byte by byte, the padding is dropped.
LEMMA TextNext ==
  SourceInv /\ RecvTypeOK /\ RecvInv /\ TextInv /\ [Next]_vars => TextInv'
<1> SUFFICES ASSUME SourceInv, RecvTypeOK, RecvInv, TextInv, [Next]_vars,
                    AllText', NoJunk'
             PROVE  /\ Len(wrt') = Kept'
                    /\ \A k \in DOMAIN wrt' : wrt'[k] = k
  BY DEF TextInv, Kept
<1> USE EndConstants
<1>t. /\ SentLen \in Nat /\ got \in 0 .. SentLen /\ via \in {"direct", "proxies"}
      /\ recv_count \in 0 .. BLOCKSIZE /\ i \in 0 .. BLOCKSIZE /\ in \in Nat
  BY SentIs DEF SentOK, RecvTypeOK, SourceInv, FileOK, PipeTypeOK, StreamTypeOK
<1>w. wrt \in Seq(DOMAIN file \cup {Junk}) /\ Len(wrt) \in Nat
      /\ DOMAIN wrt = 1 .. Len(wrt)
  BY DEF RecvTypeOK
<1>p. Passed \in 0 .. SentLen
  BY PassedNext
<1>g. Grows
  BY SourceNext
<1>a. AllText /\ UNCHANGED <<file, via>>
  BY <1>g DEF Grows, AllText
<1>b. NoJunk => Len(wrt) = Kept /\ \A k \in 1 .. Len(wrt) : wrt[k] = k
  BY <1>a, <1>w DEF TextInv, Kept
<1>1. CASE WriteBlock
  <2>1. PICK n \in 0 .. BLOCKSIZE, j \in Nat :
            /\ TextOf(n)
            /\ wrt' \in Seq(DOMAIN file \cup {Junk})
            /\ Len(wrt') = Len(wrt) + n + j
            /\ \A k \in 1 .. Len(wrt) : wrt'[k] = wrt[k]
            /\ \A k \in 1 .. n : wrt'[Len(wrt) + k] = got - BLOCKSIZE + k
            /\ \A k \in 1 .. j : wrt'[Len(wrt) + n + k] = Junk
    BY <1>1, BlockWritten
  <2>2. /\ Passed = got - BLOCKSIZE /\ Passed' = got /\ recv_count = BLOCKSIZE
        /\ rpc = "write"
    BY <1>1 DEF WriteBlock, Passed, RecvInv
  <2>3. DOMAIN wrt' = 1 .. Len(wrt')
    BY <2>1
  <2>4. j = 0
    <3> SUFFICES ASSUME j # 0 PROVE FALSE
      OBVIOUS
    <3>1. 1 \in 1 .. j /\ Len(wrt) + n + 1 \in 1 .. Len(wrt')
      BY <1>w, <2>1
    <3> QED
      BY <2>1, <2>3, <3>1 DEF NoJunk
  <2>5. NoJunk
    <3>1. \A k \in 1 .. Len(wrt) : k \in 1 .. Len(wrt')
      BY <1>w, <2>1
    <3> QED
      BY <1>w, <2>1, <2>3, <3>1 DEF NoJunk
  <2>6. Len(wrt) = Kept /\ \A k \in 1 .. Len(wrt) : wrt[k] = k
    BY <1>b, <2>5
  <2>7. UNCHANGED in
    <3>1. Receive
      BY <1>1 DEF Receive
    <3> QED
      BY <3>1, ReceiveKeeps
  <2>8. ASSUME NEW k \in 1 .. BLOCKSIZE
        PROVE  Kind(buffer[k]) = "nul" <=> (via = "proxies" /\ Passed + k > in)
    <3>1. buffer[k] = ByteAt(Passed + k) /\ Passed + k \in 1 .. SentLen
      <4>1. k \in 1 .. recv_count
        BY <2>2
      <4> QED
        BY <2>2, <4>1, BufferBytes
    <3>2. ByteAt(Passed + k) \in 0 .. Len(file)
      BY <3>1, SentIs DEF SentOK
    <3>3. Kind(buffer[k]) = "nul" <=> ByteAt(Passed + k) = 0
      <4>1. CASE ByteAt(Passed + k) = 0
        BY <3>1, <4>1 DEF Kind
      <4>2. CASE ByteAt(Passed + k) # 0
        <5>1. ByteAt(Passed + k) \in DOMAIN file
          BY <3>2, <4>2 DEF SourceInv, FileOK
        <5>2. Kind(buffer[k]) = "text"
          BY <1>a, <3>1, <4>2, <5>1 DEF Kind, AllText
        <5> QED
          BY <4>2, <5>2
      <4> QED
        BY <4>1, <4>2
    <3> QED
      BY <1>p, <1>t, <3>1, <3>3 DEF ByteAt
  <2>9. /\ \A k \in 1 .. n : ~(via = "proxies" /\ Passed + k > in)
        /\ n < BLOCKSIZE => via = "proxies" /\ Passed + (n + 1) > in
    <3>1. /\ \A k \in 1 .. n : k \in 1 .. BLOCKSIZE
          /\ n < BLOCKSIZE => n + 1 \in 1 .. BLOCKSIZE
      OBVIOUS
    <3> QED
      BY <2>1, <2>8, <3>1 DEF TextOf
  <2>10. n > 0 => ~(via = "proxies" /\ Passed + n > in)
    BY <2>9
  <2>11. n > 0 => Len(wrt) = Passed
    BY <1>p, <1>t, <2>6, <2>10 DEF Kept
  <2>12. Len(wrt') = Kept'
    <3>1. Len(wrt') = Kept + n
      BY <1>w, <2>1, <2>4, <2>6
    <3>2. Kept' = IF via = "proxies" /\ got > in THEN in ELSE got
      BY <1>a, <2>2, <2>7 DEF Kept
    <3>3. CASE via = "direct"
      <4>1. n = BLOCKSIZE /\ Kept = Passed
        BY <2>9, <3>3 DEF Kept
      <4> QED
        BY <1>t, <2>2, <3>1, <3>2, <3>3, <4>1
    <3>4. CASE via = "proxies" /\ n = BLOCKSIZE
      <4>1. Passed + n <= in
        BY <1>p, <1>t, <2>10, <3>4
      <4> QED
        BY <1>p, <1>t, <2>2, <3>1, <3>2, <3>4, <4>1 DEF Kept
    <3>5. CASE via = "proxies" /\ n < BLOCKSIZE
      <4>1. CASE n = 0
        BY <1>p, <1>t, <2>2, <2>9, <3>1, <3>2, <3>5, <4>1 DEF Kept
      <4>2. CASE n > 0
        <5>1. Passed + n = in
          BY <1>p, <1>t, <2>9, <2>10, <3>5, <4>2
        <5>2. Kept = Passed
          BY <2>6, <2>11, <4>2
        <5>3. got > in
          BY <1>p, <1>t, <2>2, <3>5, <5>1
        <5> QED
          BY <3>1, <3>2, <3>5, <5>1, <5>2, <5>3
      <4> QED
        BY <4>1, <4>2
    <3> QED
      BY <1>t, <3>3, <3>4, <3>5
  <2>13. ASSUME NEW k \in 1 .. Len(wrt') PROVE wrt'[k] = k
    <3>1. CASE k <= Len(wrt)
      BY <1>w, <2>1, <2>6, <3>1
    <3>2. CASE k > Len(wrt)
      <4>1. k - Len(wrt) \in 1 .. n /\ Len(wrt) + (k - Len(wrt)) = k /\ n > 0
        BY <1>w, <2>1, <2>4, <3>2
      <4>2. wrt'[Len(wrt) + (k - Len(wrt))] = got - BLOCKSIZE + (k - Len(wrt))
        BY <2>1, <4>1
      <4> QED
        BY <1>t, <1>w, <2>2, <2>11, <4>1, <4>2
    <3> QED
      BY <1>w, <3>1, <3>2
  <2> QED
    BY <2>3, <2>12, <2>13
<1>2. CASE WriteByte
  <2> DEFINE b == got - recv_count + i + 1
  <2>1. b \in DOMAIN file /\ (wrt' = Append(wrt, b) \/ (wrt' = wrt /\ file[b] = "ff"))
    BY <1>2, ByteWritten
  <2>2. wrt' = Append(wrt, b)
    BY <1>a, <2>1 DEF AllText
  <2>3. /\ Passed' = Passed + 1 /\ b = Passed + 1 /\ rpc = "residue"
    BY <1>t, <1>2 DEF WriteByte, Passed
  <2>4. via = "direct"
    BY <2>3 DEF RecvInv
  <2> HIDE DEF b
  <2>5. /\ DOMAIN wrt' = 1 .. Len(wrt) + 1 /\ wrt'[Len(wrt) + 1] = b
        /\ \A k \in 1 .. Len(wrt) : wrt'[k] = wrt[k]
        /\ Len(wrt') = Len(wrt) + 1
    BY <1>w, <2>2
  <2>6. NoJunk
    <3>1. \A k \in 1 .. Len(wrt) : k \in 1 .. Len(wrt) + 1
      BY <1>w
    <3> QED
      BY <1>w, <2>5, <3>1 DEF NoJunk
  <2>7. Len(wrt) = Passed /\ \A k \in 1 .. Len(wrt) : wrt[k] = k
    BY <1>b, <2>4, <2>6 DEF Kept
  <2>8. Kept' = Passed + 1
    BY <1>a, <2>3, <2>4 DEF Kept
  <2>9. \A k \in 1 .. Len(wrt) + 1 : wrt'[k] = k
    BY <1>w, <2>3, <2>5, <2>7
  <2> QED
    BY <2>5, <2>7, <2>8, <2>9
<1>3. CASE UNCHANGED wrt /\ Passed' = Passed
  <2>1. NoJunk
    BY <1>3 DEF NoJunk
  <2>2. Kept' = Kept
    <3>1. UNCHANGED in \/ (Passed <= in /\ Passed <= in')
      <4>1. in' = in \/ (SentLen <= in /\ in <= in')
        BY <1>g DEF Grows
      <4>2. in' \in Int
        BY SourceNext DEF SourceInv, PipeTypeOK
      <4> QED
        BY <1>p, <1>t, <4>1, <4>2
    <3>2. CASE UNCHANGED in
      BY <1>3, <1>a, <3>2 DEF Kept
    <3>3. CASE Passed <= in /\ Passed <= in'
      <4>1. in' \in Int
        BY SourceNext DEF SourceInv, PipeTypeOK
      <4> QED
        BY <1>3, <1>a, <1>p, <1>t, <3>3, <4>1 DEF Kept
    <3> QED
      BY <3>1, <3>2, <3>3
  <2> QED
    BY <1>3, <1>b, <1>w, <2>1, <2>2
<1> QED
  BY <1>1, <1>2, <1>3, PassedNext

-----------------------------------------------------------------------------
(* What printf keeps                                                       *)

\* Where the block of a byte begins.
LEMMA StartOf ==
  ASSUME NEW b \in Nat, NEW k \in 1 .. BLOCKSIZE
  PROVE  BlockStart(b * BLOCKSIZE + k) = b * BLOCKSIZE
<1> USE EndConstants
<1> DEFINE m == b * BLOCKSIZE + k - 1
           q == m \div BLOCKSIZE
           r == m % BLOCKSIZE
<1>1. m \in Nat /\ BLOCKSIZE \in Nat \ {0} /\ b * BLOCKSIZE \in Nat
  OBVIOUS
<1>2. m = b * BLOCKSIZE + (k - 1)
  BY <1>1
<1>3. BlockStart(b * BLOCKSIZE + k) = q * BLOCKSIZE
  BY DEF BlockStart
<1> HIDE DEF m
<1>4. q \in Nat /\ r \in 0 .. BLOCKSIZE - 1 /\ m = q * BLOCKSIZE + r
  BY <1>1
<1> HIDE DEF q, r
<1>5. ASSUME q < b PROVE FALSE
  <2>1. (q + 1) * BLOCKSIZE <= b * BLOCKSIZE
    BY <1>1, <1>4, <1>5
  <2>2. (q + 1) * BLOCKSIZE = q * BLOCKSIZE + BLOCKSIZE
    BY <1>1, <1>4
  <2> QED
    BY <1>1, <1>2, <1>4, <2>1, <2>2
<1>6. ASSUME q > b PROVE FALSE
  <2>1. (b + 1) * BLOCKSIZE <= q * BLOCKSIZE
    BY <1>1, <1>4, <1>6
  <2>2. (b + 1) * BLOCKSIZE = b * BLOCKSIZE + BLOCKSIZE
    BY <1>1, <1>4
  <2> QED
    BY <1>1, <1>2, <1>4, <2>1, <2>2
<1>7. q = b
  BY <1>4, <1>5, <1>6
<1> QED
  BY <1>3, <1>7

\* The next block begins where this one ends.
LEMMA NextAligned ==
  ASSUME NEW n \in Nat, Aligned(n)
  PROVE  Aligned(n + BLOCKSIZE)
<1>1. PICK b \in Nat : n = b * BLOCKSIZE
  BY DEF Aligned
<1>2. n + BLOCKSIZE = (b + 1) * BLOCKSIZE /\ b + 1 \in Nat
  BY <1>1, EndConstants
<1> QED
  BY <1>2 DEF Aligned

\* receive goes on from block to block.
LEMMA PlaceNext ==
  SourceInv /\ RecvTypeOK /\ RecvInv /\ PlaceInv /\ [Next]_vars => PlaceInv'
<1> SUFFICES ASSUME SourceInv, RecvTypeOK, RecvInv, PlaceInv, [Next]_vars
             PROVE  PlaceInv'
  OBVIOUS
<1> USE EndConstants
<1>t. /\ SentLen \in Nat /\ got \in 0 .. SentLen /\ Len(file) \in Nat
      /\ recv_count \in 0 .. BLOCKSIZE /\ i \in 0 .. BLOCKSIZE
      /\ byte_count \in 0 .. Len(file)
  BY SentIs DEF SentOK, RecvTypeOK, SourceInv, FileOK, StreamTypeOK
<1>f. UNCHANGED <<file, via>> /\ (reset => reset')
  BY FileNext DEF SourceInv
<1>s. spc' = "done" => byte_count' = Len(file')
  <2>1. CASE ReadFile
    <3>1. byte_count' = byte_count /\ (spc' = "done" => BytesToRead = 0)
      BY <2>1 DEF ReadFile
    <3> QED
      BY <1>f, <1>t, <3>1 DEF BytesToRead
  <2>2. CASE spc' # "done" \/ UNCHANGED <<spc, byte_count>>
    BY <1>f, <2>2 DEF PlaceInv
  <2> QED
    BY <2>1, <2>2
       DEF Next, Receive, Stream, Proxies, ConnectionReset, WriteSome,
           WriteFails, PollIn, PollReset, Recv, WriteBlock, CloseConn, WriteByte,
           CloseFile, vars, streamVars
<1> DEFINE Rest ==
        /\ rpc' \in {"poll", "recv", "write"} => Aligned(Passed')
        /\ rpc' = "residue" => Aligned(got' - recv_count') /\ recv_count' < BLOCKSIZE
        /\ rpc' = "residue" /\ ~reset' => got' = Len(file')
<1>1. CASE UNCHANGED recvVars
  <2>1. UNCHANGED <<rpc, got, recv_count, i>>
    BY <1>1 DEF recvVars
  <2>2. Passed' = Passed
    BY <2>1 DEF Passed
  <2>3. Rest
    BY <1>f, <2>1, <2>2 DEF PlaceInv
  <2> QED
    BY <1>s, <2>3 DEF PlaceInv, Aligned
<1>2. CASE PollIn
  <2>1. rpc = "poll" /\ rpc' = "recv" /\ recv_count' = 0 /\ UNCHANGED got
    BY <1>2 DEF PollIn
  <2>2. Passed' = Passed
    BY <1>t, <2>1 DEF Passed
  <2>3. Rest
    BY <2>1, <2>2 DEF PlaceInv
  <2> QED
    BY <1>s, <2>3 DEF PlaceInv, Aligned
<1>3. CASE PollReset
  <2>1. rpc' = "stuck"
    BY <1>3 DEF PollReset
  <2> QED
    BY <1>s, <2>1 DEF PlaceInv
<1>4. CASE Recv
  <2>1. PICK n \in 1 .. BLOCKSIZE - recv_count :
            /\ got' = got + n
            /\ recv_count' = recv_count + n
            /\ rpc' = IF recv_count + n = BLOCKSIZE THEN "write" ELSE "recv"
    BY <1>4 DEF Recv
  <2>2. rpc = "recv" /\ rpc' \in {"recv", "write"}
    BY <1>4, <2>1 DEF Recv
  <2>3. Passed' = Passed
    BY <1>t, <2>1, <2>2 DEF Passed
  <2>4. Rest
    BY <2>2, <2>3 DEF PlaceInv
  <2> QED
    BY <1>s, <2>4 DEF PlaceInv, Aligned
<1>5. CASE WriteBlock
  <2>1. /\ rpc = "write" /\ rpc' = "poll" /\ got' = got
        /\ recv_count = BLOCKSIZE /\ recv_count <= got
    BY <1>5 DEF WriteBlock, RecvInv
  <2>2. Passed = got - BLOCKSIZE /\ Passed' = got
    BY <2>1 DEF Passed
  <2>3. Aligned(Passed) /\ Passed \in Nat /\ Passed + BLOCKSIZE = got
    BY <1>t, <2>1, <2>2 DEF PlaceInv
  <2>4. Aligned(Passed + BLOCKSIZE)
    BY <2>3, NextAligned
  <2>5. Rest
    BY <2>1, <2>2, <2>3, <2>4
  <2> QED
    BY <1>s, <2>5 DEF PlaceInv, Aligned
<1>6. CASE CloseConn
  <2>1. /\ rpc = "recv" /\ rpc' = "residue" /\ UNCHANGED <<got, recv_count, reset>>
        /\ (Eof /\ got = Len(Sent)) \/ reset
        /\ recv_count < BLOCKSIZE
    BY <1>6 DEF CloseConn, RecvInv
  <2>2. Aligned(got - recv_count)
    BY <2>1 DEF PlaceInv, Passed
  <2>3. ~reset => got = Len(file)
    <3>1. ~reset => via = "direct" /\ spc = "done" /\ got = Len(Sent)
      BY <2>1 DEF Eof
    <3>2. spc = "done" => byte_count = Len(file) /\ temp_count = 0
      BY DEF PlaceInv, SourceInv, StreamInv
    <3>3. spc = "done" => Len(up) = Len(file)
      BY <1>t, <3>2 DEF SourceInv, StreamInv
    <3>4. via = "direct" => Sent = up
      BY DEF Sent
    <3> QED
      BY <3>1, <3>3, <3>4
  <2>4. Rest
    BY <1>f, <2>1, <2>2, <2>3
  <2> QED
    BY <1>s, <2>4 DEF PlaceInv, Aligned
<1>7. CASE WriteByte
  <2>1. rpc = "residue" /\ UNCHANGED <<rpc, got, recv_count>>
    BY <1>7 DEF WriteByte
  <2>2. Rest
    BY <1>f, <2>1 DEF PlaceInv
  <2> QED
    BY <1>s, <2>2 DEF PlaceInv, Aligned
<1>8. CASE CloseFile
  <2>1. rpc' = "done"
    BY <1>8 DEF CloseFile
  <2> QED
    BY <1>s, <2>1 DEF PlaceInv
<1> QED
  BY <1>1, <1>2, <1>3, <1>4, <1>5, <1>6, <1>7, <1>8
     DEF Next, Receive, Stream, Proxies, ConnectionReset, ReadFile, WriteSome,
         WriteFails, vars

\* Every byte of the file that has come to receive has come as it is: the
\* padding is behind the last one.
LEMMA FileByte ==
  ASSUME SourceInv, PlaceInv, NEW y \in 1 .. Len(file), y <= SentLen
  PROVE  ByteAt(y) = y
<1> USE EndConstants
<1>t. /\ Len(file) \in Nat /\ via \in {"direct", "proxies"} /\ in \in Nat
      /\ Len(up) \in Nat /\ Len(out) \in Nat /\ byte_count \in Nat
      /\ temp_count \in Nat
  BY DEF SourceInv, FileOK, PipeTypeOK, StreamTypeOK
<1>1. CASE via = "direct" \/ y <= in
  BY <1>1 DEF ByteAt
<1>2. CASE via = "proxies" /\ ~(y <= in)
  <2>1. Len(out) > in
    BY <1>2, <1>t DEF SentLen
  <2>2. in = Len(up) /\ spc = "done"
    BY <2>1 DEF SourceInv, PipeInv
  <2>3. Len(up) = Len(file)
    BY <1>t, <2>2 DEF PlaceInv, SourceInv, StreamInv
  <2> QED
    BY <1>2, <1>t, <2>2, <2>3
<1> QED
  BY <1>t, <1>1, <1>2

\* What printf keeps of a full block.
LEMMA FullBlock ==
  ASSUME NEW s \in Nat, Aligned(s), NEW k \in 1 .. BLOCKSIZE,
         via = "direct" => s + BLOCKSIZE <= Len(file), Len(file) \in Nat
  PROVE  IsCopied(s + k) <=> \A y \in s + 1 .. s + k : file[y] # "nul"
<1>1. PICK b \in Nat : s = b * BLOCKSIZE
  BY DEF Aligned
<1>2. BlockStart(s + k) = s
  BY <1>1, StartOf
<1>3. ~(via = "direct" /\ Len(file) < BlockStart(s + k) + BLOCKSIZE)
  BY <1>2, EndConstants
<1> QED
  BY <1>2, <1>3 DEF IsCopied

\* What is kept of the last, shorter block of a direct connection.
LEMMA LastBlock ==
  ASSUME NEW s \in Nat, Aligned(s), NEW k \in 1 .. BLOCKSIZE,
         via = "direct", Len(file) < s + BLOCKSIZE
  PROVE  IsCopied(s + k) <=> file[s + k] # "ff"
<1>1. PICK b \in Nat : s = b * BLOCKSIZE
  BY DEF Aligned
<1>2. BlockStart(s + k) = s
  BY <1>1, StartOf
<1> QED
  BY <1>2 DEF IsCopied

\* The output keeps what printf keeps of what has come.
LEMMA KeptNext ==
  SourceInv /\ RecvTypeOK /\ RecvInv /\ PlaceInv /\ KeptInv /\ [Next]_vars =>
      KeptInv'
<1> SUFFICES ASSUME SourceInv, RecvTypeOK, RecvInv, PlaceInv, KeptInv,
                    [Next]_vars, ~reset', NEW x \in DOMAIN file'
             PROVE  Holds(wrt', x) <=> x <= Passed' /\ IsCopied(x)'
  BY DEF KeptInv, Holds
<1> USE EndConstants
<1>t. /\ SentLen \in Nat /\ got \in 0 .. SentLen
      /\ recv_count \in 0 .. BLOCKSIZE /\ i \in 0 .. BLOCKSIZE
      /\ Len(file) \in Nat /\ DOMAIN file = 1 .. Len(file)
      /\ via = "direct" => SentLen <= Len(file)
  BY SentIs DEF SentOK, RecvTypeOK, SourceInv, FileOK
<1>w. wrt \in Seq(DOMAIN file \cup {Junk}) /\ Len(wrt) \in Nat
      /\ DOMAIN wrt = 1 .. Len(wrt)
  BY DEF RecvTypeOK
<1>f. UNCHANGED <<file, via>> /\ ~reset
  BY FileNext DEF SourceInv
<1>c. IsCopied(x)' <=> IsCopied(x)
  BY <1>f DEF IsCopied, BlockStart
<1>x. x \in 1 .. Len(file) /\ x # Junk
  BY <1>f, <1>t DEF Junk
<1>h. Holds(wrt, x) <=> x <= Passed /\ IsCopied(x)
  BY <1>f DEF KeptInv
<1>p. Passed \in 0 .. SentLen
  BY PassedNext
<1>1. CASE WriteBlock
  <2>1. PICK n \in 0 .. BLOCKSIZE, j \in Nat :
            /\ TextOf(n)
            /\ wrt' \in Seq(DOMAIN file \cup {Junk})
            /\ Len(wrt') = Len(wrt) + n + j
            /\ \A k \in 1 .. Len(wrt) : wrt'[k] = wrt[k]
            /\ \A k \in 1 .. n : wrt'[Len(wrt) + k] = got - BLOCKSIZE + k
            /\ \A k \in 1 .. j : wrt'[Len(wrt) + n + k] = Junk
    BY <1>1, BlockWritten
  <2>2. /\ Passed = got - BLOCKSIZE /\ Passed' = got /\ recv_count = BLOCKSIZE
        /\ rpc = "write" /\ Aligned(Passed)
    BY <1>1 DEF WriteBlock, Passed, RecvInv, PlaceInv
  <2>3. DOMAIN wrt' = 1 .. Len(wrt')
    BY <2>1
  <2>4. Holds(wrt', x) <=> Holds(wrt, x) \/ x \in Passed + 1 .. Passed + n
    <3>1. ASSUME NEW k \in 1 .. Len(wrt'), wrt'[k] = x
          PROVE  Holds(wrt, x) \/ x \in Passed + 1 .. Passed + n
      <4>1. CASE k <= Len(wrt)
        <5>1. k \in 1 .. Len(wrt)
          BY <1>w, <4>1
        <5>2. wrt[k] = x
          BY <2>1, <3>1, <5>1
        <5> QED
          BY <1>w, <5>1, <5>2 DEF Holds
      <4>2. CASE k > Len(wrt) /\ k <= Len(wrt) + n
        <5>1. k - Len(wrt) \in 1 .. n /\ Len(wrt) + (k - Len(wrt)) = k
          BY <1>w, <4>2
        <5>2. wrt'[Len(wrt) + (k - Len(wrt))] = got - BLOCKSIZE + (k - Len(wrt))
          BY <2>1, <5>1
        <5>3. x = Passed + (k - Len(wrt))
          BY <2>2, <3>1, <5>1, <5>2
        <5> QED
          BY <1>p, <5>1, <5>3
      <4>3. CASE k > Len(wrt) + n
        <5>1. k - (Len(wrt) + n) \in 1 .. j /\ Len(wrt) + n + (k - (Len(wrt) + n)) = k
          BY <1>w, <2>1, <4>3
        <5>2. wrt'[Len(wrt) + n + (k - (Len(wrt) + n))] = Junk
          BY <2>1, <5>1
        <5> QED
          BY <1>x, <3>1, <5>1, <5>2
      <4> QED
        BY <1>w, <4>1, <4>2, <4>3
    <3>2. ASSUME NEW k \in 1 .. Len(wrt), wrt[k] = x PROVE Holds(wrt', x)
      <4>1. k \in 1 .. Len(wrt') /\ wrt'[k] = x
        BY <1>w, <2>1, <3>2
      <4> QED
        BY <2>3, <4>1 DEF Holds
    <3>3. ASSUME x \in Passed + 1 .. Passed + n PROVE Holds(wrt', x)
      <4> DEFINE k == x - Passed
      <4>1. k \in 1 .. n /\ Passed + k = x
        BY <1>p, <3>3
      <4> HIDE DEF k
      <4>2. wrt'[Len(wrt) + k] = x
        BY <2>1, <2>2, <4>1
      <4>3. Len(wrt) + k \in 1 .. Len(wrt')
        BY <1>w, <2>1, <4>1
      <4> QED
        BY <2>3, <4>2, <4>3 DEF Holds
    <3> QED
      BY <1>w, <2>3, <3>1, <3>2, <3>3 DEF Holds
  <2>5. CASE x <= Passed
    BY <1>c, <1>h, <1>p, <1>t, <2>2, <2>4, <2>5
  <2>6. CASE x > got
    <3>1. x \notin Passed + 1 .. Passed + n /\ ~(x <= Passed) /\ ~(x <= Passed')
      BY <1>p, <1>t, <1>x, <2>2, <2>6
    <3> QED
      BY <1>h, <2>4, <3>1
  <2>7. CASE ~(x <= Passed) /\ ~(x > got)
    <3> DEFINE k == x - Passed
    <3>1. k \in 1 .. BLOCKSIZE /\ x = Passed + k /\ x <= Passed'
      BY <1>p, <1>t, <1>x, <2>2, <2>7
    <3>2. Passed \in Nat /\ Passed + BLOCKSIZE <= SentLen
      BY <1>p, <1>t, <2>2
    <3>3. via = "direct" => Passed + BLOCKSIZE <= Len(file)
      BY <1>t, <3>2
    <3> HIDE DEF k
    <3>4. IsCopied(x) <=> \A y \in Passed + 1 .. Passed + k : file[y] # "nul"
      BY <1>t, <2>2, <3>1, <3>2, <3>3, FullBlock
    <3>5. ASSUME NEW m \in 1 .. k
          PROVE  Kind(buffer[m]) = file[Passed + m] /\ m \in 1 .. BLOCKSIZE
      <4>1. /\ m \in 1 .. BLOCKSIZE /\ Passed + m \in 1 .. Len(file)
            /\ Passed + m <= SentLen /\ Passed + m # 0
        BY <1>t, <1>x, <3>1, <3>2
      <4>2. buffer[m] = ByteAt(got - recv_count + m)
        <5>1. m \in 1 .. recv_count
          BY <2>2, <4>1
        <5> QED
          BY <2>2, <5>1, BufferBytes
      <4>3. got - recv_count + m = Passed + m
        BY <2>2
      <4>4. ByteAt(Passed + m) = Passed + m
        BY <4>1, FileByte
      <4> QED
        BY <4>1, <4>2, <4>3, <4>4 DEF Kind
    <3>6. CASE k <= n
      <4>1. ASSUME NEW y \in Passed + 1 .. Passed + k PROVE file[y] # "nul"
        <5> DEFINE m == y - Passed
        <5>1. m \in 1 .. k /\ m \in 1 .. n /\ y = Passed + m
          BY <3>1, <3>2, <3>6
        <5> HIDE DEF m
        <5> QED
          BY <2>1, <3>5, <5>1 DEF TextOf
      <4>2. x \in Passed + 1 .. Passed + n
        BY <3>1, <3>2, <3>6
      <4> QED
        BY <1>c, <2>4, <3>1, <3>4, <4>1, <4>2
    <3>7. CASE k > n
      <4>1. n + 1 \in 1 .. k /\ n < BLOCKSIZE /\ Passed + (n + 1) \in Passed + 1 .. Passed + k
        BY <3>1, <3>2, <3>7
      <4>2. file[Passed + (n + 1)] = "nul"
        BY <2>1, <3>5, <4>1 DEF TextOf
      <4>3. ~IsCopied(x)
        BY <3>4, <4>1, <4>2
      <4>4. x \notin Passed + 1 .. Passed + n
        BY <3>1, <3>2, <3>7
      <4> QED
        BY <1>c, <1>h, <2>4, <4>3, <4>4
    <3> QED
      BY <3>1, <3>6, <3>7
  <2> QED
    BY <2>5, <2>6, <2>7
<1>2. CASE WriteByte
  <2> DEFINE b == got - recv_count + i + 1
             s == got - recv_count
  <2>1. /\ b \in DOMAIN file /\ i < recv_count
        /\ \/ wrt' = Append(wrt, b) /\ file[b] # "ff"
           \/ wrt' = wrt /\ file[b] = "ff"
    BY <1>2, ByteWritten
  <2>2. /\ Passed = got - recv_count + i /\ Passed' = Passed + 1 /\ b = Passed + 1
        /\ rpc = "residue"
    BY <1>t, <1>2 DEF WriteByte, Passed
  <2>3. /\ via = "direct" /\ recv_count <= got /\ Aligned(s)
        /\ recv_count < BLOCKSIZE /\ got = Len(file)
    BY <1>f, <2>2 DEF RecvInv, PlaceInv
  <2>4. /\ s \in Nat /\ i + 1 \in 1 .. BLOCKSIZE /\ b = s + (i + 1)
        /\ Len(file) < s + BLOCKSIZE
    BY <1>t, <2>1, <2>3
  <2> HIDE DEF b, s
  <2>5. IsCopied(b) <=> file[b] # "ff"
    BY <2>3, <2>4, LastBlock
  <2>6. Holds(wrt', x) <=> Holds(wrt, x) \/ (x = b /\ file[b] # "ff")
    <3>1. CASE wrt' = wrt /\ file[b] = "ff"
      BY <3>1 DEF Holds
    <3>2. CASE wrt' = Append(wrt, b) /\ file[b] # "ff"
      <4>1. /\ DOMAIN wrt' = 1 .. Len(wrt) + 1 /\ wrt'[Len(wrt) + 1] = b
            /\ \A k \in 1 .. Len(wrt) : wrt'[k] = wrt[k]
        BY <1>w, <3>2
      <4>2. /\ Len(wrt) + 1 \in 1 .. Len(wrt) + 1
            /\ \A k \in 1 .. Len(wrt) + 1 : k \in 1 .. Len(wrt) \/ k = Len(wrt) + 1
            /\ \A k \in 1 .. Len(wrt) : k \in 1 .. Len(wrt) + 1
        BY <1>w
      <4> QED
        BY <1>w, <3>2, <4>1, <4>2 DEF Holds
    <3> QED
      BY <2>1, <3>1, <3>2
  <2>7. CASE x = b
    <3>1. ~(x <= Passed) /\ x <= Passed'
      BY <1>p, <1>t, <2>2, <2>7
    <3> QED
      BY <1>c, <1>h, <2>5, <2>6, <2>7, <3>1
  <2>8. CASE x # b
    <3>1. x <= Passed' <=> x <= Passed
      BY <1>p, <1>t, <1>x, <2>2, <2>8
    <3> QED
      BY <1>c, <1>h, <2>6, <2>8, <3>1
  <2> QED
    BY <2>7, <2>8
<1>3. CASE UNCHANGED wrt /\ Passed' = Passed
  BY <1>3, <1>c, <1>h
<1> QED
  BY <1>1, <1>2, <1>3, PassedNext

-----------------------------------------------------------------------------
(* The theorems                                                            *)

EndInv ==
    /\ SourceInv /\ RecvTypeOK /\ RecvInv /\ WrtInv /\ TextInv
    /\ PlaceInv /\ KeptInv

\* Before the first step nothing has been read, sent or written.
LEMMA EndInit == Init => EndInv
<1> SUFFICES ASSUME Init PROVE EndInv
  OBVIOUS
<1> USE EndConstants
<1>1. FileOK
  <2>1. PICK n \in 0 .. MaxLen : file \in [1 .. n -> Kinds]
    BY DEF Init
  <2>2. n \in Nat
    BY <2>1
  <2>3. file \in Seq(Kinds)
    BY <2>1, <2>2, FunIsSeq
  <2>4. reset = FALSE /\ via \in {"direct", "proxies"}
    BY DEF Init
  <2> QED
    BY <2>3, <2>4 DEF FileOK
<1>2. Len(file) \in Nat
  BY <1>1 DEF FileOK
<1>3. StreamTypeOK /\ StreamInv
  BY <1>2 DEF Init, StreamTypeOK, StreamInv
<1>4. PipeTypeOK /\ PipeInv
  <2>1. in = 0 /\ out = << >> /\ up = << >>
    BY DEF Init
  <2>2. ended = FALSE
    BY DEF Init
  <2>3. ended \in BOOLEAN /\ ~ended
    BY <2>2
  <2>4. PipeTypeOK
    BY <1>2, <2>1, <2>3 DEF PipeTypeOK
  <2> QED
    BY <2>1, <2>3, <2>4 DEF PipeInv
<1>5. SourceInv /\ SentOK
  BY <1>1, <1>3, <1>4, SentIs DEF SourceInv
<1>6. buffer \in [1 .. BLOCKSIZE -> 0 .. Len(file)]
  BY <1>2 DEF Init, Zeros
<1>7. RecvTypeOK
  BY <1>2, <1>5, <1>6 DEF Init, RecvTypeOK, SentOK
<1>8. RecvInv
  BY DEF Init, RecvInv
<1>9. WrtInv
  BY DEF Init, WrtInv, OutputRising
<1>10. TextInv
  <2>1. in = 0 /\ Passed = 0 /\ wrt = << >>
    BY DEF Init, Passed
  <2> QED
    BY <2>1 DEF TextInv
<1>11. PlaceInv
  <2>1. rpc = "poll" /\ Passed = 0 /\ spc = "read" /\ 0 = 0 * BLOCKSIZE
    BY DEF Init, Passed
  <2> QED
    BY <2>1 DEF PlaceInv, Aligned
<1>12. KeptInv
  <2>1. Passed = 0 /\ DOMAIN wrt = {} /\ DOMAIN file = 1 .. Len(file)
    BY <1>1 DEF Init, Passed, FileOK
  <2> QED
    BY <1>2, <2>1 DEF KeptInv, Holds
<1> QED
  BY <1>5, <1>7, <1>8, <1>9, <1>10, <1>11, <1>12 DEF EndInv

\* The invariant of the programs and of what is between them.
LEMMA EndAlways == Spec => []EndInv
<1>1. EndInv /\ [Next]_vars => EndInv'
  BY SourceNext, RecvNext, WrtNext, TextNext, PlaceNext, KeptNext, Zenon DEF EndInv
<1> QED
  BY <1>1, EndInit, PTL DEF Spec

\* The locals of stream and receive keep their types: stream's counters stay
\* inside the file, receive never reads more than was sent or more than fits
\* its buffer, and no byte of padding gets into the output file.
THEOREM EndTypeCorrect == Spec => []TypeOK
<1>1. EndInv => TypeOK
  BY DEF EndInv, SourceInv, TypeOK
<1> QED
  BY <1>1, EndAlways, PTL

\* The invariants say what the output file holds.
LEMMA HoldsCopied == EndInv => WrittenInOrder
<1> SUFFICES ASSUME EndInv PROVE WrittenInOrder
  OBVIOUS
<1>1. OutputRising
  BY DEF EndInv, WrtInv
<1>2. ASSUME ~reset PROVE Written = {x \in Copied : \E y \in Written : x <= y}
  <2>1. /\ Len(file) \in Nat /\ DOMAIN file = 1 .. Len(file)
        /\ wrt \in Seq(DOMAIN file \cup {Junk})
    BY DEF EndInv, SourceInv, FileOK, RecvTypeOK
  <2>2. \A k \in DOMAIN wrt : wrt[k] \in DOMAIN file \cup {Junk}
    BY <2>1
  <2>3. Passed \in Int
    <3>1. got \in Int /\ recv_count \in Int /\ i \in Int
      BY SentIs, EndConstants DEF EndInv, SentOK, RecvTypeOK
    <3> QED
      BY <3>1 DEF Passed
  <2>4. ASSUME NEW x PROVE x \in Written <=> x \in DOMAIN file /\ Holds(wrt, x)
    <3>1. x \in DOMAIN file => x # Junk
      BY <2>1 DEF Junk
    <3> QED
      BY <2>2, <3>1 DEF Written, Holds
  <2>5. ASSUME NEW x PROVE x \in Written <=> x \in Copied /\ x <= Passed
    <3>1. x \in DOMAIN file => (Holds(wrt, x) <=> x <= Passed /\ IsCopied(x))
      BY <1>2 DEF EndInv, KeptInv
    <3> QED
      BY <2>4, <3>1 DEF Copied
  <2>6. \A x \in Copied : x \in Int
    BY <2>1 DEF Copied
  <2>7. ASSUME NEW x \in Copied, NEW y \in Written, x <= y PROVE x \in Written
    <3>1. y \in Copied /\ y <= Passed
      BY <2>5
    <3>2. x <= Passed
      BY <2>3, <2>6, <2>7, <3>1
    <3> QED
      BY <2>5, <3>2
  <2>8. ASSUME NEW x \in Written PROVE x \in Copied /\ x <= x
    BY <2>5, <2>6
  <2> QED
    BY <2>7, <2>8
<1> QED
  BY <1>1, <1>2 DEF WrittenInOrder

\* Whatever is in the file, whichever way it takes and however reads, writes
\* and blocks are cut, the output holds bytes of the file in their order and
\* none of them twice, apart from what fprintf found behind its buffer; and as
\* long as the connection is not reset no byte that printf keeps is missing
\* before the last one written.
THEOREM OutputInOrder == Spec => []WrittenInOrder
  BY HoldsCopied, EndAlways, PTL

\* A file of text arrives byte by byte as it was, unless fprintf ran over the
\* end of its buffer; the padding of the proxies leaves no trace.
THEOREM TextArrivesIntact == Spec => []TextIntact
<1>1. EndInv => TextIntact
  BY DEF EndInv, TextInv, AllText, NoJunk, TextIntact
<1> QED
  BY <1>1, EndAlways, PTL
=============================================================================
