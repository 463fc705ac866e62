----------------------------- MODULE MCStartup -----------------------------
(* Startup for TLC; the constant gets its value in Startup.cfg.            *)
EXTENDS Startup
=============================================================================
