--------------------------- MODULE MCEndPrograms ---------------------------
(* EndPrograms for TLC; the constants get their values in Ends.cfg.        *)
EXTENDS EndPrograms
=============================================================================
