----------------------------- MODULE OcrHistory -----------------------------
(***************************************************************************)
(* OcrQuota with a record of the uses charged and of the faults that       *)
(* leave a trace: an expiry that was never set, a tier that was not read.  *)
(***************************************************************************)
EXTENDS OcrQuota

VARIABLES
  grants,    \* per account: a pair <<time, serial number>> per use charged
  endless,   \* accounts whose counter lost the EXPIRE that was due
  misjudged  \* requests of premium accounts whose lookup failed

history == <<grants, endless, misjudged>>

HInit ==
  /\ Init
  /\ grants = [u \in Users |-> {}]
  /\ endless = {}
  /\ misjudged = {}

Charged(u) == usage'[u] = usage[u] + 1

\* The request that has created the counter is left without the EXPIRE: its own was
\* given up, or INCR was done but the answer that says 1 was lost.
LosesExpiry(p) ==
  LET u == req[p].user
  IN  /\ usage'[u] > 0 /\ expiry'[u] = 0
      /\ \/ req[p].pc = "expire"
         \/ ReplyLost(p) /\ usage'[u] = 1

Faulty(p) ==
  /\ Fault(p)
  /\ endless' = endless \cup IF LosesExpiry(p) THEN {req[p].user} ELSE {}

Faultless ==
  /\ \/ \E p \in Requests : Step(p)
     \/ \E u \in Users : Upgrade(u)
     \/ Tick
  /\ UNCHANGED endless

Misjudged(p) == LookUpTier(p) /\ TierOf(p) = "premium" /\ req'[p].pc = "read"

HNext ==
  /\ Faultless \/ \E p \in Requests : Faulty(p)
  /\ grants' = [u \in Users |->
       IF Charged(u) THEN grants[u] \cup {<<clock, Cardinality(grants[u])>>}
       ELSE grants[u]]
  /\ misjudged' = {p \in misjudged : req'[p] # Idle} \cup {p \in Requests : Misjudged(p)}

HSpec == HInit /\ [][HNext]_<<vars, history>>

-----------------------------------------------------------------------------
\* A counter comes to an end: it has an expiry, or the request that created it
\* is about to give it one, or that one EXPIRE was lost, to a failure of its own or
\* because INCR, sent again, was no longer answered 1.  No other fault and no
\* interleaving leaves an account without its free uses for ever.
CounterExpires ==
  \A u \in Users : usage[u] > 0 =>
    \/ expiry[u] > clock
    \/ \E p \in Requests : req[p].pc = "expire" /\ req[p].user = u
    \/ u \in endless

\* "Rate limit check is completely bypassed for verified Premium subscribers":
\* a request of an account that is premium when it arrives is checked, charged
\* or refused only if its own lookup of the tier failed.
PremiumBypasses ==
  \A p \in Requests :
    req[p].pc \in {"read", "increment", "expire", "refused"} /\ req[p].entitled
      => p \in misjudged

\* Uses charged within one window before now.
Recent(u) == {g \in grants[u] : g[1] > clock - Window}

\* The counter is not the sliding window the README names, but any span of one
\* window meets at most two lives of it, each bounded with the requests in flight
\* and what the client sends again for them.
TwoCounters == \A u \in Users : Cardinality(Recent(u)) <= 2 * MostUses

=============================================================================
