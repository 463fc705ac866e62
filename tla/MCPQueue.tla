------------------------------ MODULE MCPQueue ------------------------------
(* libpqueue on small instances.                                          *)
EXTENDS PQueue, TLC

\* Nodes are told apart by their priorities and positions only.
NodeSymmetry == Permutations(Nodes)
=============================================================================
