----------------------------- MODULE MCStartup -----------------------------
(***************************************************************************)
(* Startup with two processes, as when a new version replaces an old one,  *)
(* and one request that either may be handling.                            *)
(***************************************************************************)
EXTENDS Startup

CONSTANTS i1, i2, r1

=============================================================================
