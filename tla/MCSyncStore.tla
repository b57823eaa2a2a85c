---------------------------- MODULE MCSyncStore -----------------------------
(***************************************************************************)
(* SyncStore with two accounts, two requests at once and one row of each   *)
(* kind.  Items are stamped with the time their loop read, which another   *)
(* request may have overtaken.                                             *)
(***************************************************************************)
EXTENDS SyncStore, TLC

CONSTANTS u1, u2, f1, d1, pg1, n1, file1, r1, r2, empty

\* Accounts are alike, and so are requests.
Symmetric == Permutations(Users) \cup Permutations(Requests)

=============================================================================
