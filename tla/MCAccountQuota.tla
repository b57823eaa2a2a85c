--------------------------- MODULE MCAccountQuota ---------------------------
(***************************************************************************)
(* AccountQuota: two requests race to register one address, spelled in two *)
(* ways and with two passwords; one purchase changes under its             *)
(* verification, another is a test token; one OCR request.                 *)
(***************************************************************************)
EXTENDS AccountQuota, TLC

CONSTANTS u1, u2, s1, s2, a1, w1, w2, k1, k2, c1, c2, r1

MCNormal == [s \in Spellings |-> a1]

\* Ids, calls, passwords and the spellings of the address are interchangeable.
Symmetric ==
  UNION {Permutations(S) : S \in {UserIds, Calls, Passwords, Spellings}}

=============================================================================
