----------------------------- MODULE MCRxProxy -----------------------------
(* RxProxy for TLC; the constants get their values in the cfg files.       *)
EXTENDS RxProxy
=============================================================================
