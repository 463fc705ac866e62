------------------------------ MODULE BytePipe ------------------------------
(***************************************************************************)
(* What the pair of proxies promises to the two programs it sits between:  *)
(* the bytes of the source come out at the destination in order, in whole  *)
(* blocks of BLOCKSIZE bytes, the last one padded with '\0' once the source*)
(* has closed.  A byte is its offset in the stream, from 1; 0 is padding.  *)
(* Nothing is promised any more once `void` holds.                         *)
(***************************************************************************)
EXTENDS Integers, Sequences

CONSTANTS BLOCKSIZE, StreamLen

VARIABLES
    in,     \* bytes taken from the source
    ended,  \* the source has closed
    out,    \* what the destination has been sent
    void    \* the pipe is broken in a way that may put anything out

vars == <<in, ended, out, void>>

Init == in = 0 /\ ended = FALSE /\ out = << >> /\ void = FALSE

Take ==
    /\ ~ended /\ in' \in in + 1 .. StreamLen
    /\ UNCHANGED <<ended, out>> /\ void' = void

End ==
    /\ ~ended /\ ended' = TRUE
    /\ UNCHANGED <<in, out>> /\ void' = void

\* The block that comes next.
NextBlock == [k \in 1 .. BLOCKSIZE |->
                IF Len(out) + k <= in THEN Len(out) + k ELSE 0]

Deliver ==
    /\ \/ Len(out) + BLOCKSIZE <= in
       \/ ended /\ Len(out) < in
    /\ out' = out \o NextBlock
    /\ UNCHANGED <<in, ended>> /\ void' = void

\* The output is anybody's guess from here on.
Break == void' = TRUE

Next == Take \/ End \/ Deliver \/ Break

Spec == Init /\ [][Next]_vars
=============================================================================
