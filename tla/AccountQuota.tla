----------------------------- MODULE AccountQuota -----------------------------
(***************************************************************************)
(* Accounts together with the quota of POST /ocr/process.  The quota's     *)
(* tier is that of the account's row, its Upgrade the UPDATE of            *)
(* POST /subscriptions/verify; only who holds a token gets as far as the   *)
(* handler.                                                                *)
(***************************************************************************)
EXTENDS Accounts

CONSTANTS Requests, MaxFreeOCR, MaxRetries, Window, MaxClock, Faults

VARIABLES usage, expiry, clock, req

ocr == <<usage, expiry, clock, req>>

tier == [u \in UserIds |-> Tier(u)]

Quota == INSTANCE OcrQuota WITH Users <- UserIds

AQInit == AccountsInit /\ Quota!Init

-----------------------------------------------------------------------------
\* The route is behind AuthMiddleware.
Process(p, u) == Authorized(u) /\ Quota!Process(p, u)

OcrStep(p) ==
  \/ \E u \in UserIds : Process(p, u)
  \/ Quota!LookUpTier(p)
  \/ Quota!ReadUsage(p)
  \/ Quota!Refuse(p)
  \/ Quota!Increment(p)
  \/ Quota!SetExpiry(p)
  \/ Quota!Fault(p)

AQNext ==
  \/ AccountsNext /\ UNCHANGED ocr
  \/ UNCHANGED accounts /\ \E p \in Requests : OcrStep(p)
  \/ UNCHANGED accounts /\ Quota!Tick

AQSpec == AQInit /\ [][AQNext]_<<accounts, ocr>>

-----------------------------------------------------------------------------
\* Whatever registrations, logins and purchases do meanwhile, requests, counters
\* and tiers behave as OcrQuota says: what holds of it holds here.
ImplementsQuota == Quota!Spec

=============================================================================
