---------------------------- MODULE MCOcrHistory ----------------------------
(***************************************************************************)
(* OcrHistory with one account, two requests at once and every fault.      *)
(***************************************************************************)
EXTENDS OcrHistory, TLC

CONSTANTS u1, r1, r2

\* Requests are interchangeable.
Symmetric == Permutations(Requests)

=============================================================================
