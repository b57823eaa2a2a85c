------------------------------ MODULE OcrQuota ------------------------------
(***************************************************************************)
(* POST /ocr/process: the tier is looked up in PostgreSQL, the free quota  *)
(* is a counter in Redis that is read, compared, incremented and given an  *)
(* expiry in separate commands.  Each command is atomic; requests of one   *)
(* account interleave between them.  The Redis client sends a command      *)
(* again when no reply comes, whether or not it was executed, without the  *)
(* code above it noticing.                                                 *)
(*                                                                         *)
(* A counter that is absent reads as 0.  The last read, of the uses that   *)
(* remain, changes nothing and its error is ignored, so a request is over  *)
(* after its expiry step.  The OCR engine is simulated by the code.        *)
(***************************************************************************)
EXTENDS Integers, FiniteSets

CONSTANTS
  Users,
  Requests,    \* requests the server handles at once
  MaxFreeOCR,
  MaxRetries,  \* how often the client sends a command again: 3 unless configured
  Window,      \* ticks in 30 days
  MaxClock,    \* bound: the clock stops there
  Faults       \* of "lookup", "redis", "abort": what may fail

ASSUME QuotaAssumption ==
  /\ IsFiniteSet(Requests) /\ Requests # {}
  /\ MaxFreeOCR \in Nat
  /\ MaxRetries \in Nat
  /\ Window \in Nat \ {0}
  /\ MaxClock \in Nat

VARIABLES
  tier,    \* users.tier
  usage,   \* ocr_usage:{userID}, 0 when the key does not exist
  expiry,  \* when the key expires, 0 when it has no expiry
  clock,
  req

vars == <<tier, usage, expiry, clock, req>>

Tiers == {"free", "premium"}

Idle == [pc |-> "idle"]

Stages == {"lookup", "read", "increment", "expire", "refused"}

\* entitled: the account was premium when the request arrived.
\* resends: how often the client may still send the command at hand again.
RequestState ==
  {Idle}
    \cup [pc : Stages, user : Users, entitled : BOOLEAN, resends : 0..MaxRetries]

\* Counters and expiries are naturals and every request is at a stage.
TypeOK ==
  /\ tier \in [Users -> Tiers]
  /\ usage \in [Users -> Nat]
  /\ expiry \in [Users -> Nat]
  /\ clock \in Nat
  /\ req \in [Requests -> RequestState]

Init ==
  /\ tier = [u \in Users |-> "free"]
  /\ usage = [u \in Users |-> 0]
  /\ expiry = [u \in Users |-> 0]
  /\ clock = 0
  /\ req = [p \in Requests |-> Idle]

-----------------------------------------------------------------------------
\* The next command starts with all its retries.
GoTo(p, pc) == req' = [req EXCEPT ![p] = [@ EXCEPT !.pc = pc, !.resends = MaxRetries]]

Resend(p) == req' = [req EXCEPT ![p].resends = @ - 1]

End(p) == req' = [req EXCEPT ![p] = Idle]

\* INCR
Charge(u) == usage' = [usage EXCEPT ![u] = @ + 1]

\* Mutant: the expiry is in the wrong unit.
ExpiryShort == clock + 1

Expiry == clock + Window

\* EXPIRE does nothing to a key that is gone.
Expire(u) == expiry' = IF usage[u] = 0 THEN expiry ELSE [expiry EXCEPT ![u] = Expiry]

\* Mutant: the limit itself is let through.
ExhaustedAbove(used) == used > MaxFreeOCR

\* The check of ProcessOCR.
Exhausted(used) == used >= MaxFreeOCR

\* Mutant: the tier of the token, which was issued at registration.
TierOfToken(p) == "free"

\* The tier the handler goes by is the row's, not the token's.
TierOf(p) == tier[req[p].user]

Process(p, u) ==
  /\ req[p].pc = "idle"
  /\ req' = [req EXCEPT ![p] =
               [pc |-> "lookup", user |-> u, entitled |-> tier[u] = "premium",
                resends |-> MaxRetries]]
  /\ UNCHANGED <<tier, usage, expiry, clock>>

\* A failed lookup counts as free.  A premium request skips the counter.
LookUpTier(p) ==
  /\ req[p].pc = "lookup"
  /\ \/ TierOf(p) = "free" /\ GoTo(p, "read")
     \/ TierOf(p) = "premium" /\ End(p)
     \/ "lookup" \in Faults /\ GoTo(p, "read")
  /\ UNCHANGED <<tier, usage, expiry, clock>>

\* GetOCRUsage and the comparison.
ReadUsage(p) ==
  /\ req[p].pc = "read"
  /\ IF Exhausted(usage[req[p].user]) THEN GoTo(p, "refused") ELSE GoTo(p, "increment")
  /\ UNCHANGED <<tier, usage, expiry, clock>>

\* Mutant: a refused request gives a use back.
RefuseRefunds(p) ==
  LET u == req[p].user
  IN  /\ req[p].pc = "refused"
      /\ usage' = [usage EXCEPT ![u] = @ - 1]
      /\ End(p)
      /\ UNCHANGED <<tier, expiry, clock>>

\* The answer is 429.
Refuse(p) ==
  /\ req[p].pc = "refused"
  /\ End(p)
  /\ UNCHANGED <<tier, usage, expiry, clock>>

\* Mutant: the count before the increment decides who sets the expiry.
IncrementTestsOld(p) ==
  LET u == req[p].user
  IN  /\ req[p].pc = "increment"
      /\ Charge(u)
      /\ IF usage[u] = 1 THEN GoTo(p, "expire") ELSE End(p)
      /\ UNCHANGED <<tier, expiry, clock>>

\* INCR; a request that is answered 1 sets the expiry next.
Increment(p) ==
  LET u == req[p].user
  IN  /\ req[p].pc = "increment"
      /\ Charge(u)
      /\ IF usage'[u] = 1 THEN GoTo(p, "expire") ELSE End(p)
      /\ UNCHANGED <<tier, expiry, clock>>

SetExpiry(p) ==
  /\ req[p].pc = "expire"
  /\ Expire(req[p].user)
  /\ End(p)
  /\ UNCHANGED <<tier, usage, clock>>

\* The client gives a command up: GET and INCR answer 500, an EXPIRE is ignored.
\* An attempt that never reached Redis, and a GET sent again, are no step.
CommandFails(p) ==
  /\ "redis" \in Faults
  /\ req[p].pc \in {"read", "increment", "expire"}
  /\ End(p)
  /\ UNCHANGED <<tier, usage, expiry, clock>>

\* The command is done but its reply is lost: it is sent again, no check before it,
\* and after the last retry the code hears of an error.
ReplyLost(p) ==
  LET u == req[p].user
  IN  /\ "redis" \in Faults
      /\ \/ req[p].pc = "increment" /\ Charge(u) /\ UNCHANGED expiry
         \/ req[p].pc = "expire" /\ Expire(u) /\ UNCHANGED usage
      /\ IF req[p].resends > 0 THEN Resend(p) ELSE End(p)
      /\ UNCHANGED <<tier, clock>>

\* The client goes away, which cancels the context, or the server stops.
Abort(p) ==
  /\ "abort" \in Faults
  /\ req[p].pc # "idle"
  /\ End(p)
  /\ UNCHANGED <<tier, usage, expiry, clock>>

\* POST /subscriptions/verify after Google Play has confirmed the purchase.
\* Nothing sets a tier back.
Upgrade(u) ==
  /\ tier[u] = "free"
  /\ tier' = [tier EXCEPT ![u] = "premium"]
  /\ UNCHANGED <<usage, expiry, clock, req>>

\* Time passes, and the keys whose time has come are gone.
Expired(u) == expiry[u] # 0 /\ expiry[u] <= clock + 1

Tick ==
  /\ clock < MaxClock
  /\ clock' = clock + 1
  /\ usage' = [u \in Users |-> IF Expired(u) THEN 0 ELSE usage[u]]
  /\ expiry' = [u \in Users |-> IF Expired(u) THEN 0 ELSE expiry[u]]
  /\ UNCHANGED <<tier, req>>

Step(p) ==
  \/ \E u \in Users : Process(p, u)
  \/ LookUpTier(p)
  \/ ReadUsage(p)
  \/ Refuse(p)
  \/ Increment(p)
  \/ SetExpiry(p)

Fault(p) == CommandFails(p) \/ ReplyLost(p) \/ Abort(p)

Next ==
  \/ \E p \in Requests : Step(p) \/ Fault(p)
  \/ \E u \in Users : Upgrade(u)
  \/ Tick

Spec == Init /\ [][Next]_vars

-----------------------------------------------------------------------------
\* Every time one of the requests at once may send INCR.
Sends == Requests \X (0..MaxRetries)

\* The times INCR may still be sent for u: by the requests that have passed the check
\* and have not been answered yet.
Owed(u) ==
  {s \in Sends :
     LET r == req[s[1]] IN r.pc = "increment" /\ r.user = u /\ s[2] <= r.resends}

MostUses == MaxFreeOCR + (MaxRetries + 1) * Cardinality(Requests) - 1

\* Check and increment are two commands, and a lost reply makes one request charge
\* again and again, so a counter can pass the limit; but by fewer than the times the
\* requests in flight may send INCR: every request after those is refused.
OvershootBounded == \A u \in Users : usage[u] <= MostUses

=============================================================================
