--------------------------- MODULE MCSyncHistory ----------------------------
(***************************************************************************)
(* SyncHistory with one row of each kind: edits of every kind by clients   *)
(* whose clocks are ahead, or a document that is pushed and uploaded by    *)
(* two requests at once.                                                   *)
(***************************************************************************)
EXTENDS SyncHistory, TLC

CONSTANTS u1, f1, d1, pg1, n1, n2, file1, r1, r2

Symmetric == Permutations(Names)

=============================================================================
