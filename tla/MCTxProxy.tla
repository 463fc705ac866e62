----------------------------- MODULE MCTxProxy -----------------------------
(* The transmitter proxy on small instances; the .cfg files give the       *)
(* constants their values.                                                 *)
EXTENDS TxProxy
=============================================================================
