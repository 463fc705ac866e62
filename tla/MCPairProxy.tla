---------------------------- MODULE MCPairProxy ----------------------------
(* PairProxy for TLC; the constants get their values in Pair.cfg.      *)
EXTENDS PairProxy
=============================================================================
