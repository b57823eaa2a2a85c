--------------------------- MODULE MCReceiptLedger --------------------------
(***************************************************************************)
(* ReceiptLedger with one account, two extractions and two requests at     *)
(* once.                                                                   *)
(***************************************************************************)
EXTENDS ReceiptLedger, TLC

CONSTANTS u1, ph1, ph2, r1, r2, id1, id2, f1, v1, v2

\* Ids are drawn in any order, and requests and values are alike.
Symmetric == Permutations(ReceiptIds) \cup Permutations(Requests) \cup Permutations(Values)

=============================================================================
