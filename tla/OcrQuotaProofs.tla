--------------------------- MODULE OcrQuotaProofs ---------------------------
(***************************************************************************)
(* How far a counter can pass the free limit, that it comes to an end, and *)
(* that premium accounts are not charged: for every limit, number of       *)
(* requests at once, window and set of faults.                             *)
(***************************************************************************)
EXTENDS OcrHistory, FiniteSetTheorems, TLAPS

\* A use is counted twice over: by the counter, and by each time an admitted request
\* may still send INCR.  The check admits a request only below the limit.
QuotaInv ==
  /\ TypeOK
  /\ \A u \in Users : usage[u] + Cardinality(Owed(u)) <= MostUses

\* The sends of the requests at once, as a number.
LEMMA SendsCounted ==
  /\ IsFiniteSet(Sends) /\ Cardinality(Sends) \in Nat \ {0}
  /\ MostUses = MaxFreeOCR + Cardinality(Sends) - 1
<1>1. /\ IsFiniteSet(0..MaxRetries)
      /\ Cardinality(0..MaxRetries) = MaxRetries + 1
  BY QuotaAssumption, FS_Interval
<1>2. /\ IsFiniteSet(Requests) /\ Cardinality(Requests) \in Nat
      /\ Cardinality(Requests) # 0
  BY QuotaAssumption, FS_EmptySet, FS_CardinalityType
<1>3. /\ IsFiniteSet(Sends)
      /\ Cardinality(Sends) = Cardinality(Requests) * Cardinality(0..MaxRetries)
  BY <1>1, <1>2, FS_Product DEF Sends
<1>4. Cardinality(Sends) = (MaxRetries + 1) * Cardinality(Requests)
  BY <1>1, <1>2, <1>3, QuotaAssumption
<1>5. Sends # {}
  <2>1. PICK p : p \in Requests
    BY QuotaAssumption
  <2>2. <<p, 0>> \in Sends
    BY <2>1, QuotaAssumption DEF Sends
  <2> QED BY <2>2
<1>6. Cardinality(Sends) \in Nat \ {0}
  BY <1>3, <1>5, FS_EmptySet, FS_CardinalityType
<1> QED BY <1>3, <1>4, <1>6 DEF MostUses

LEMMA OwedFinite ==
  ASSUME NEW u \in Users
  PROVE  /\ IsFiniteSet(Owed(u))
         /\ Cardinality(Owed(u)) \in Nat
         /\ Cardinality(Owed(u)) <= Cardinality(Sends)
<1>1. Owed(u) \subseteq Sends
  BY DEF Owed
<1> QED BY <1>1, SendsCounted, FS_Subset, FS_CardinalityType

\* What is owed does not grow unless a check passes.
LEMMA OwedShrinks ==
  ASSUME NEW u \in Users, NEW A, A \subseteq Owed(u)
  PROVE  Cardinality(A) \in Nat /\ Cardinality(A) <= Cardinality(Owed(u))
BY OwedFinite, FS_Subset, FS_CardinalityType

\* Fields of a request past idle.
LEMMA RequestFields ==
  ASSUME TypeOK, NEW p \in Requests, req[p].pc # "idle"
  PROVE  req[p] \in [pc : Stages, user : Users, entitled : BOOLEAN, resends : 0..MaxRetries]
BY DEF TypeOK, RequestState, Idle

LEMMA GoesTo ==
  ASSUME TypeOK, NEW p \in Requests, NEW pc \in Stages, req[p].pc # "idle", GoTo(p, pc)
  PROVE  /\ req' \in [Requests -> RequestState]
         /\ req'[p].pc = pc /\ req'[p].user = req[p].user
         /\ req'[p].entitled = req[p].entitled
         /\ \A r \in Requests \ {p} : req'[r] = req[r]
<1>1. req[p] \in [pc : Stages, user : Users, entitled : BOOLEAN, resends : 0..MaxRetries]
  BY RequestFields
<1>2. MaxRetries \in 0..MaxRetries
  BY QuotaAssumption
<1>3. req'[p] = [req[p] EXCEPT !.pc = pc, !.resends = MaxRetries]
  BY DEF GoTo, TypeOK
<1>4. /\ req'[p] \in [pc : Stages, user : Users, entitled : BOOLEAN, resends : 0..MaxRetries]
      /\ req'[p].pc = pc /\ req'[p].user = req[p].user
      /\ req'[p].entitled = req[p].entitled
  BY <1>1, <1>2, <1>3
<1> QED BY <1>4 DEF GoTo, TypeOK, RequestState

LEMMA ResendTyped ==
  ASSUME TypeOK, NEW p \in Requests, req[p].pc # "idle", req[p].resends > 0, Resend(p)
  PROVE  /\ req' \in [Requests -> RequestState]
         /\ req'[p].pc = req[p].pc /\ req'[p].user = req[p].user
         /\ req'[p].entitled = req[p].entitled
         /\ req'[p].resends = req[p].resends - 1
         /\ \A r \in Requests \ {p} : req'[r] = req[r]
<1>1. req[p] \in [pc : Stages, user : Users, entitled : BOOLEAN, resends : 0..MaxRetries]
  BY RequestFields
<1>2. req[p].resends - 1 \in 0..MaxRetries
  BY <1>1, QuotaAssumption
<1>3. req'[p] = [req[p] EXCEPT !.resends = req[p].resends - 1]
  BY DEF Resend, TypeOK
<1>4. /\ req'[p] \in [pc : Stages, user : Users, entitled : BOOLEAN, resends : 0..MaxRetries]
      /\ req'[p].pc = req[p].pc /\ req'[p].user = req[p].user
      /\ req'[p].entitled = req[p].entitled
      /\ req'[p].resends = req[p].resends - 1
  BY <1>1, <1>2, <1>3
<1> QED BY <1>4 DEF Resend, TypeOK, RequestState

LEMMA TypeStep ==
  ASSUME TypeOK, [Next]_vars
  PROVE  TypeOK'
<1>1. \A p \in Requests, pc \in Stages :
        req[p].pc # "idle" /\ GoTo(p, pc) => req' \in [Requests -> RequestState]
  BY GoesTo
<1>2. \A p \in Requests : End(p) => req' \in [Requests -> RequestState]
  BY DEF End, TypeOK, RequestState
<1>3. \A p \in Requests :
        req[p].pc # "idle" /\ Charge(req[p].user) => usage' \in [Users -> Nat]
  BY RequestFields DEF Charge, TypeOK
<1>9. \A p \in Requests :
        req[p].pc # "idle" /\ Expire(req[p].user) => expiry' \in [Users -> Nat]
  <2>1. Expiry \in Nat
    BY QuotaAssumption DEF TypeOK, Expiry
  <2> QED BY <2>1, RequestFields DEF Expire, TypeOK
<1>4. ASSUME NEW p \in Requests, Step(p) PROVE TypeOK'
  <2>1. ASSUME NEW u \in Users, Process(p, u) PROVE TypeOK'
    <3>1. [pc |-> "lookup", user |-> u, entitled |-> tier[u] = "premium",
           resends |-> MaxRetries] \in RequestState
      BY QuotaAssumption DEF RequestState, Stages
    <3> QED BY <2>1, <3>1 DEF Process, TypeOK
  <2>2. CASE LookUpTier(p)
    BY <1>1, <1>2, <2>2 DEF LookUpTier, TypeOK, Stages
  <2>3. CASE ReadUsage(p)
    BY <1>1, <2>3 DEF ReadUsage, TypeOK, Stages
  <2>4. CASE Refuse(p)
    BY <1>2, <2>4 DEF Refuse, TypeOK
  <2>5. CASE Increment(p)
    BY <1>1, <1>2, <1>3, <2>5 DEF Increment, TypeOK, Stages
  <2>6. CASE SetExpiry(p)
    BY <1>2, <1>9, <2>6 DEF SetExpiry, TypeOK
  <2> QED BY <1>4, <2>1, <2>2, <2>3, <2>4, <2>5, <2>6 DEF Step
<1>5. ASSUME NEW p \in Requests, Fault(p) PROVE TypeOK'
  <2>1. CASE CommandFails(p) \/ Abort(p)
    BY <1>2, <2>1 DEF CommandFails, Abort, TypeOK
  <2>2. CASE ReplyLost(p)
    <3>1. req' \in [Requests -> RequestState]
      BY <1>2, <2>2, ResendTyped DEF ReplyLost
    <3> QED BY <1>3, <1>9, <2>2, <3>1 DEF ReplyLost, TypeOK
  <2> QED BY <1>5, <2>1, <2>2 DEF Fault
<1>6. ASSUME NEW u \in Users, Upgrade(u) PROVE TypeOK'
  BY <1>6 DEF Upgrade, TypeOK, Tiers
<1>7. CASE Tick
  BY <1>7 DEF Tick, TypeOK
<1>8. CASE UNCHANGED vars
  BY <1>8 DEF vars, TypeOK
<1> QED BY <1>4, <1>5, <1>6, <1>7, <1>8 DEF Next

\* Counters, expiries and requests stay of their types.
THEOREM TypeCorrect == Spec => []TypeOK
<1>1. Init => TypeOK
  BY DEF Init, TypeOK, Tiers, RequestState
<1> QED BY <1>1, TypeStep, PTL DEF Spec

-----------------------------------------------------------------------------
\* A step that moves only p on, and not to the increment, admits nobody.
LEMMA MovesOn ==
  ASSUME TypeOK, NEW p \in Requests, NEW u \in Users,
         End(p) \/ \E pc \in Stages \ {"increment"} : req[p].pc # "idle" /\ GoTo(p, pc)
  PROVE  Owed(u)' \subseteq Owed(u) \ ({p} \X (0..MaxRetries))
<1>1. req' \in [Requests -> RequestState] /\ \A r \in Requests \ {p} : req'[r] = req[r]
  BY GoesTo DEF End, TypeOK, RequestState
<1>2. req'[p].pc # "increment"
  <2>1. CASE End(p)
    BY <2>1 DEF End, TypeOK, Idle
  <2> QED BY <2>1, GoesTo
<1>3. ASSUME NEW s \in Owed(u)' PROVE s \in Owed(u) \ ({p} \X (0..MaxRetries))
  <2>1. PICK r \in Requests, n \in 0..MaxRetries :
          /\ s = <<r, n>> /\ req'[r].pc = "increment" /\ req'[r].user = u
          /\ n <= req'[r].resends
    BY <1>3 DEF Owed, Sends
  <2>2. r # p /\ req'[r] = req[r]
    BY <1>1, <1>2, <2>1
  <2> QED BY <2>1, <2>2 DEF Owed, Sends
<1> QED BY <1>3

\* A command sent again has one send less left.
LEMMA SendsAgain ==
  ASSUME TypeOK, NEW p \in Requests, NEW u \in Users,
         req[p].pc # "idle", req[p].resends > 0, Resend(p)
  PROVE  Owed(u)' \subseteq Owed(u) \ {<<p, req[p].resends>>}
<1>1. req[p].resends \in 0..MaxRetries
  BY RequestFields
<1>2. ASSUME NEW s \in Owed(u)' PROVE s \in Owed(u) \ {<<p, req[p].resends>>}
  <2>1. PICK r \in Requests, n \in 0..MaxRetries :
          /\ s = <<r, n>> /\ req'[r].pc = "increment" /\ req'[r].user = u
          /\ n <= req'[r].resends
    BY <1>2 DEF Owed, Sends
  <2>2. CASE r = p
    <3>1. req[p].pc = "increment" /\ req[p].user = u /\ n <= req[p].resends - 1
      BY <2>1, <2>2, ResendTyped
    <3>2. n <= req[p].resends /\ n # req[p].resends
      BY <1>1, <3>1, QuotaAssumption
    <3> QED BY <2>1, <2>2, <3>1, <3>2 DEF Owed, Sends
  <2>3. CASE r # p
    BY <2>1, <2>3, ResendTyped DEF Owed, Sends
  <2> QED BY <2>2, <2>3
<1> QED BY <1>2

\* No use is added and nobody is admitted: the bound stays.
LEMMA NothingAdded ==
  ASSUME QuotaInv, NEW u \in Users, TypeOK',
         Owed(u)' \subseteq Owed(u), usage'[u] <= usage[u]
  PROVE  usage'[u] + Cardinality(Owed(u)') <= MostUses
<1>1. Cardinality(Owed(u)') <= Cardinality(Owed(u)) /\ Cardinality(Owed(u)') \in Nat
  BY OwedShrinks
<1>2. usage[u] \in Nat /\ usage'[u] \in Nat
  BY DEF QuotaInv, TypeOK
<1>3. usage[u] + Cardinality(Owed(u)) <= MostUses
  BY DEF QuotaInv
<1> QED BY <1>1, <1>2, <1>3, OwedFinite, SendsCounted, QuotaAssumption

\* INCR is executed: one use more, at least one send less.
LEMMA Pays ==
  ASSUME QuotaInv, TypeOK', NEW p \in Requests, req[p].pc = "increment",
         Charge(req[p].user),
         End(p) \/ GoTo(p, "expire") \/ (req[p].resends > 0 /\ Resend(p)), NEW u \in Users
  PROVE  usage'[u] + Cardinality(Owed(u)') <= MostUses
<1>1. TypeOK /\ req[p].resends \in 0..MaxRetries
  BY RequestFields DEF QuotaInv
<1>2. Owed(u)' \subseteq Owed(u) \ {<<p, req[p].resends>>}
  <2>1. CASE End(p) \/ GoTo(p, "expire")
    <3>1. Owed(u)' \subseteq Owed(u) \ ({p} \X (0..MaxRetries))
      BY <1>1, <2>1, MovesOn DEF Stages
    <3> QED BY <1>1, <3>1
  <2>2. CASE req[p].resends > 0 /\ Resend(p)
    BY <1>1, <2>2, SendsAgain
  <2> QED BY <2>1, <2>2
<1>3. CASE u # req[p].user
  <2>1. usage'[u] = usage[u] /\ usage[u] \in Nat
    BY <1>3 DEF Charge, QuotaInv, TypeOK
  <2> QED BY <1>2, <2>1, NothingAdded
<1>4. CASE u = req[p].user
  <2> DEFINE sent == <<p, req[p].resends>>
  <2>1. sent \in Owed(u)
    BY <1>1, <1>4, QuotaAssumption DEF Owed, Sends
  <2>2. Owed(u)' \subseteq Owed(u) \ {sent}
    BY <1>2
  <2> HIDE DEF sent
  <2>3. /\ IsFiniteSet(Owed(u) \ {sent})
        /\ Cardinality(Owed(u) \ {sent}) = Cardinality(Owed(u)) - 1
    BY <2>1, OwedFinite, FS_RemoveElement
  <2>4. /\ Cardinality(Owed(u)') \in Nat
        /\ Cardinality(Owed(u)') <= Cardinality(Owed(u)) - 1
    BY <2>2, <2>3, FS_Subset, FS_CardinalityType
  <2>5. usage[u] \in Nat /\ usage'[u] = usage[u] + 1
    BY <1>4 DEF Charge, QuotaInv, TypeOK
  <2>6. usage[u] + Cardinality(Owed(u)) <= MostUses
    BY DEF QuotaInv
  <2> QED BY <2>4, <2>5, <2>6, OwedFinite, SendsCounted, QuotaAssumption
<1> QED BY <1>3, <1>4

\* The check admits a request only below the limit, and at most all sends are owed.
LEMMA Admits ==
  ASSUME QuotaInv, TypeOK', NEW p \in Requests, ReadUsage(p), NEW u \in Users
  PROVE  usage'[u] + Cardinality(Owed(u)') <= MostUses
<1>1. usage' = usage /\ usage[u] \in Nat
  BY DEF ReadUsage, QuotaInv, TypeOK
<1>2. CASE Exhausted(usage[req[p].user])
  <2>1. Owed(u)' \subseteq Owed(u)
    BY <1>2, MovesOn DEF ReadUsage, QuotaInv, Stages
  <2> QED BY <1>1, <2>1, NothingAdded
<1>3. CASE ~Exhausted(usage[req[p].user]) /\ u = req[p].user
  <2>1. usage[u] < MaxFreeOCR
    BY <1>1, <1>3, QuotaAssumption DEF Exhausted
  <2>2. Owed(u)' \subseteq Sends
    BY DEF Owed
  <2>3. /\ Cardinality(Owed(u)') \in Nat
        /\ Cardinality(Owed(u)') <= Cardinality(Sends)
    BY <2>2, SendsCounted, FS_Subset, FS_CardinalityType
  <2> QED BY <1>1, <2>1, <2>3, SendsCounted, QuotaAssumption
<1>4. CASE ~Exhausted(usage[req[p].user]) /\ u # req[p].user
  <2>1. /\ req'[p].user = req[p].user
        /\ \A r \in Requests \ {p} : req'[r] = req[r]
    BY <1>4, GoesTo DEF ReadUsage, QuotaInv, Stages
  <2>2. ASSUME NEW s \in Owed(u)' PROVE s \in Owed(u)
    <3>1. PICK r \in Requests, n \in 0..MaxRetries :
            /\ s = <<r, n>> /\ req'[r].pc = "increment" /\ req'[r].user = u
            /\ n <= req'[r].resends
      BY <2>2 DEF Owed, Sends
    <3>2. req'[r] = req[r]
      BY <1>4, <2>1, <3>1
    <3> QED BY <3>1, <3>2 DEF Owed, Sends
  <2> QED BY <1>1, <2>2, NothingAdded
<1> QED BY <1>2, <1>3, <1>4

LEMMA QuotaStep ==
  ASSUME QuotaInv, [Next]_vars
  PROVE  QuotaInv'
<1> DEFINE Good == \A u \in Users : usage'[u] + Cardinality(Owed(u)') <= MostUses
<1> USE DEF QuotaInv
<1>1. TypeOK'
  BY TypeStep
<1>2. ASSUME NEW p \in Requests, usage' = usage,
             \A u \in Users : Owed(u)' \subseteq Owed(u)
      PROVE  Good
  BY <1>1, <1>2, NothingAdded DEF TypeOK
<1>3. ASSUME NEW p \in Requests, Step(p) PROVE Good
  <2>1. ASSUME NEW v \in Users, Process(p, v) PROVE Good
    <3>1. /\ req'[p].pc = "lookup" /\ req[p].pc = "idle"
          /\ \A r \in Requests \ {p} : req'[r] = req[r]
      BY <2>1 DEF Process, TypeOK
    <3>2. ASSUME NEW u \in Users, NEW s \in Owed(u)' PROVE s \in Owed(u)
      <4>1. PICK r \in Requests, n \in 0..MaxRetries :
              /\ s = <<r, n>> /\ req'[r].pc = "increment" /\ req'[r].user = u
              /\ n <= req'[r].resends
        BY <3>2 DEF Owed, Sends
      <4>2. req'[r] = req[r]
        BY <3>1, <4>1
      <4> QED BY <4>1, <4>2 DEF Owed, Sends
    <3>3. \A u \in Users : Owed(u)' \subseteq Owed(u)
      BY <3>2
    <3> QED BY <1>2, <2>1, <3>3 DEF Process
  <2>2. CASE LookUpTier(p)
    <3>1. \A u \in Users : Owed(u)' \subseteq Owed(u)
      BY <2>2, MovesOn DEF LookUpTier, Stages
    <3> QED BY <1>2, <2>2, <3>1 DEF LookUpTier
  <2>3. CASE ReadUsage(p)
    BY <1>1, <2>3, Admits
  <2>4. CASE Refuse(p) \/ SetExpiry(p)
    <3>1. \A u \in Users : Owed(u)' \subseteq Owed(u)
      BY <2>4, MovesOn DEF Refuse, SetExpiry
    <3> QED BY <1>2, <2>4, <3>1 DEF Refuse, SetExpiry
  <2>5. CASE Increment(p)
    <3>1. /\ req[p].pc = "increment" /\ Charge(req[p].user)
          /\ End(p) \/ GoTo(p, "expire")
      BY <2>5 DEF Increment
    <3>2. ASSUME NEW u \in Users PROVE usage'[u] + Cardinality(Owed(u)') <= MostUses
      BY <1>1, <3>1, Pays
    <3> QED BY <3>2
  <2> QED BY <1>3, <2>1, <2>2, <2>3, <2>4, <2>5 DEF Step
<1>4. ASSUME NEW p \in Requests, Fault(p) PROVE Good
  <2>1. CASE CommandFails(p) \/ Abort(p)
    <3>1. \A u \in Users : Owed(u)' \subseteq Owed(u)
      BY <2>1, MovesOn DEF CommandFails, Abort
    <3> QED BY <1>2, <2>1, <3>1 DEF CommandFails, Abort
  <2>2. CASE ReplyLost(p) /\ req[p].pc = "increment"
    <3>1. /\ Charge(req[p].user)
          /\ End(p) \/ (req[p].resends > 0 /\ Resend(p))
      BY <2>2 DEF ReplyLost
    <3>2. ASSUME NEW u \in Users PROVE usage'[u] + Cardinality(Owed(u)') <= MostUses
      BY <1>1, <2>2, <3>1, Pays
    <3> QED BY <3>2
  <2>3. CASE ReplyLost(p) /\ req[p].pc = "expire"
    <3>1. \A u \in Users : Owed(u)' \subseteq Owed(u)
      BY <2>3, MovesOn, SendsAgain DEF ReplyLost
    <3> QED BY <1>2, <2>3, <3>1 DEF ReplyLost
  <2> QED BY <1>4, <2>1, <2>2, <2>3 DEF Fault, ReplyLost
<1>5. ASSUME (\E u \in Users : Upgrade(u)) \/ Tick \/ UNCHANGED vars PROVE Good
  <2>1. req' = req /\ \A u \in Users : usage'[u] \in {0, usage[u]}
    BY <1>5 DEF Upgrade, Tick, vars, TypeOK
  <2>2. \A u \in Users : Owed(u)' \subseteq Owed(u) /\ usage'[u] <= usage[u]
    BY <2>1 DEF Owed, TypeOK
  <2> QED BY <1>1, <2>2, NothingAdded
<1>6. Good
  BY <1>3, <1>4, <1>5 DEF Next
<1> QED BY <1>1, <1>6

LEMMA QuotaInit == Init => QuotaInv
<1> SUFFICES ASSUME Init PROVE QuotaInv
  OBVIOUS
<1>1. TypeOK
  BY DEF Init, TypeOK, Tiers, RequestState
<1>2. ASSUME NEW u \in Users PROVE usage[u] + Cardinality(Owed(u)) <= MostUses
  <2>1. \A r \in Requests : req[r].pc # "increment"
    BY DEF Init, Idle
  <2>2. Owed(u) = {}
    BY <2>1 DEF Owed, Sends
  <2>3. Cardinality(Owed(u)) = 0 /\ usage[u] = 0
    BY <2>2, FS_EmptySet DEF Init
  <2> QED BY <2>3, SendsCounted, QuotaAssumption
<1> QED BY <1>1, <1>2 DEF QuotaInv

LEMMA BelowBound ==
  ASSUME QuotaInv, NEW u \in Users
  PROVE  usage[u] \in Nat /\ MostUses \in Nat /\ usage[u] <= MostUses
<1>1. usage[u] \in Nat
  BY DEF QuotaInv, TypeOK
<1> QED BY <1>1, OwedFinite, SendsCounted, QuotaAssumption DEF QuotaInv

\* No counter passes the free limit by as many times as INCR can be sent for the
\* requests served at once, with every repetition by the client.
THEOREM OvershootIsBounded == Spec => []OvershootBounded
<1>1. QuotaInv => OvershootBounded
  BY BelowBound DEF OvershootBounded
<1> QED BY <1>1, QuotaInit, QuotaStep, PTL DEF Spec

-----------------------------------------------------------------------------
\* A request that was entitled when it came still is: no tier is taken back.
EntitledStay ==
  \A p \in Requests :
    req[p].pc = "lookup" /\ req[p].entitled => tier[req[p].user] = "premium"

\* An expiry that is set is still to come.
ExpiriesAhead == \A u \in Users : expiry[u] # 0 => expiry[u] > clock

\* What the counter's expiry and the exemption rest on, with the tiers.
HistoryInv ==
  /\ TypeOK
  /\ ExpiriesAhead
  /\ CounterExpires
  /\ EntitledStay
  /\ PremiumBypasses

LEMMA HistoryWithin == [HNext]_<<vars, history>> => [Next]_vars
BY DEF HNext, Faultless, Faulty, Next

\* A step of one request leaves the others where they are.
LEMMA OthersStay ==
  ASSUME TypeOK, NEW p \in Requests, Step(p) \/ Fault(p)
  PROVE  \A r \in Requests \ {p} : req'[r] = req[r]
BY DEF TypeOK, Step, Process, LookUpTier, ReadUsage, Refuse, Increment, SetExpiry, GoTo, End,
       Fault, CommandFails, ReplyLost, Abort, Resend

\* Nothing of u's counter changes, and no request for it leaves its EXPIRE.
LEMMA CounterUntouched ==
  ASSUME CounterExpires, NEW u \in Users,
         usage'[u] > 0 => usage[u] > 0,
         expiry'[u] = expiry[u], clock' = clock, endless \subseteq endless',
         \A p \in Requests :
           req[p].pc = "expire" /\ req[p].user = u => req'[p] = req[p] \/ u \in endless'
  PROVE  usage'[u] > 0 =>
           \/ expiry'[u] > clock'
           \/ \E p \in Requests : req'[p].pc = "expire" /\ req'[p].user = u
           \/ u \in endless'
BY DEF CounterExpires

\* INCR creates the key, and then its request goes on to the EXPIRE or the loss
\* is recorded; or the key was there.
LEMMA OneCharged ==
  ASSUME TypeOK, NEW p \in Requests, req[p].pc = "increment", Charge(req[p].user)
  PROVE  /\ req[p].user \in Users
         /\ usage'[req[p].user] = usage[req[p].user] + 1
         /\ \A u \in Users : u # req[p].user => usage'[u] = usage[u]
BY RequestFields DEF TypeOK, Charge

\* EXPIRE gives a counter that is there an expiry ahead, and touches no other.
LEMMA OneExpires ==
  ASSUME TypeOK, NEW v \in Users, Expire(v), NEW u \in Users
  PROVE  /\ u # v => expiry'[u] = expiry[u]
         /\ usage[u] = 0 => expiry'[u] = expiry[u]
         /\ u = v /\ usage[u] > 0 => expiry'[u] = clock + Window /\ expiry'[u] > clock
<1>1. usage[v] \in Nat /\ clock \in Nat /\ Window \in Nat \ {0}
  BY QuotaAssumption DEF TypeOK
<1>2. CASE usage[v] = 0
  BY <1>1, <1>2 DEF Expire
<1>3. CASE usage[v] # 0
  <2>1. expiry' = [expiry EXCEPT ![v] = clock + Window]
    BY <1>3 DEF Expire, Expiry
  <2>2. (u # v => expiry'[u] = expiry[u]) /\ (u = v => expiry'[u] = clock + Window)
    BY <2>1 DEF TypeOK
  <2> QED BY <1>1, <1>3, <2>2
<1> QED BY <1>2, <1>3

LEMMA ExpiriesStep ==
  ASSUME TypeOK, ExpiriesAhead, [HNext]_<<vars, history>>, NEW u \in Users
  PROVE  expiry'[u] # 0 => expiry'[u] > clock'
<1>1. expiry[u] \in Nat /\ clock \in Nat /\ usage[u] \in Nat
  BY DEF TypeOK
<1>2. CASE Tick
  <2>1. expiry'[u] = (IF Expired(u) THEN 0 ELSE expiry[u]) /\ clock' = clock + 1
    BY <1>2 DEF Tick
  <2> QED BY <1>1, <2>1 DEF Expired
<1>3. ASSUME NEW p \in Requests, SetExpiry(p) \/ ReplyLost(p), expiry' # expiry
      PROVE  expiry'[u] # 0 => expiry'[u] > clock'
  <2>1. /\ req[p].user \in Users /\ Expire(req[p].user) /\ clock' = clock
    BY <1>3, RequestFields DEF SetExpiry, ReplyLost
  <2> QED BY <1>1, <2>1, OneExpires DEF ExpiriesAhead
<1>4. CASE UNCHANGED <<expiry, clock>>
  BY <1>4 DEF ExpiriesAhead
<1>5. ASSUME NEW p \in Requests, Step(p) \/ Fault(p)
      PROVE  UNCHANGED <<expiry, clock>> \/ ((SetExpiry(p) \/ ReplyLost(p)) /\ expiry' # expiry)
  <2>1. SetExpiry(p) \/ ReplyLost(p) => clock' = clock
    BY DEF SetExpiry, ReplyLost
  <2>2. ~SetExpiry(p) /\ ~ReplyLost(p) => UNCHANGED <<expiry, clock>>
    BY <1>5 DEF Step, Process, LookUpTier, ReadUsage, Refuse, Increment,
       Fault, CommandFails, Abort
  <2> QED BY <2>1, <2>2
<1>6. (\E v \in Users : Upgrade(v)) \/ (UNCHANGED <<vars, history>>) => UNCHANGED <<expiry, clock>>
  BY DEF Upgrade, vars
<1> QED BY <1>2, <1>3, <1>4, <1>5, <1>6 DEF HNext, Faultless, Faulty

LEMMA CounterStep ==
  ASSUME TypeOK, ExpiriesAhead, CounterExpires, [HNext]_<<vars, history>>
  PROVE  CounterExpires'
<1> SUFFICES ASSUME NEW u \in Users, usage'[u] > 0
             PROVE  \/ expiry'[u] > clock'
                    \/ \E p \in Requests : req'[p].pc = "expire" /\ req'[p].user = u
                    \/ u \in endless'
  BY DEF CounterExpires
<1>0. usage[u] \in Nat /\ expiry[u] \in Nat /\ clock \in Nat
  BY DEF TypeOK
<1>2. ASSUME NEW p \in Requests, Step(p), UNCHANGED endless
      PROVE  \/ expiry'[u] > clock'
             \/ \E r \in Requests : req'[r].pc = "expire" /\ req'[r].user = u
             \/ u \in endless'
  <2>1. \A r \in Requests \ {p} : req'[r] = req[r]
    BY <1>2, OthersStay
  <2>2. CASE Increment(p)
    <3>1. CASE req[p].user # u
      BY <1>2, <2>1, <2>2, <3>1, OneCharged, CounterUntouched DEF Increment
    <3>2. CASE req[p].user = u /\ usage'[u] = 1
      BY <2>2, <3>2, GoesTo DEF Increment, Stages
    <3>3. CASE req[p].user = u /\ usage'[u] # 1
      <4>1. usage'[u] = usage[u] + 1
        BY <2>2, <3>3, OneCharged DEF Increment
      <4>2. usage[u] > 0
        BY <1>0, <3>3, <4>1
      <4> QED BY <1>2, <2>1, <2>2, <4>2, CounterUntouched DEF Increment
    <3> QED BY <3>1, <3>2, <3>3
  <2>3. CASE SetExpiry(p)
    <3>1. usage' = usage /\ clock' = clock /\ req[p].user \in Users /\ Expire(req[p].user)
      BY <2>3, RequestFields DEF SetExpiry
    <3>2. CASE req[p].user = u
      BY <3>1, <3>2, OneExpires
    <3>3. CASE req[p].user # u
      <4>1. expiry'[u] = expiry[u]
        BY <3>1, <3>3, OneExpires
      <4> QED BY <1>2, <2>1, <3>1, <3>3, <4>1, CounterUntouched
    <3> QED BY <3>2, <3>3
  <2>4. CASE ~Increment(p) /\ ~SetExpiry(p)
    <3>1. usage' = usage /\ expiry' = expiry /\ clock' = clock /\ req[p].pc # "expire"
      BY <1>2, <2>4 DEF Step, Process, LookUpTier, ReadUsage, Refuse
    <3> QED BY <1>2, <2>1, <3>1, CounterUntouched
  <2> QED BY <2>2, <2>3, <2>4
<1>3. ASSUME NEW p \in Requests, Faulty(p)
      PROVE  \/ expiry'[u] > clock'
             \/ \E r \in Requests : req'[r].pc = "expire" /\ req'[r].user = u
             \/ u \in endless'
  <2>1. \A r \in Requests \ {p} : req'[r] = req[r]
    BY <1>3, OthersStay DEF Faulty
  <2>2. endless \subseteq endless' /\ clock' = clock
    BY <1>3 DEF Faulty, Fault, CommandFails, ReplyLost, Abort
  <2>3. ASSUME req[p].pc = "expire", req[p].user = u, expiry' = expiry
        PROVE  u \in endless' \/ expiry'[u] # 0
    BY <1>3, <2>3 DEF Faulty, LosesExpiry
  <2>4. CASE ReplyLost(p) /\ req[p].pc = "increment"
    <3>1. expiry' = expiry /\ Charge(req[p].user)
      BY <2>4 DEF ReplyLost
    <3>2. CASE req[p].user = u /\ usage'[u] = 1
      <4>1. expiry'[u] = 0 => u \in endless'
        BY <1>3, <2>4, <3>2 DEF Faulty, LosesExpiry
      <4> QED BY <2>2, <3>1, <4>1, ExpiriesStep
    <3>3. CASE req[p].user = u /\ usage'[u] # 1
      <4>1. usage[u] > 0
        BY <1>0, <2>4, <3>1, <3>3, OneCharged
      <4> QED BY <2>1, <2>2, <2>4, <3>1, <4>1, CounterUntouched
    <3>4. CASE req[p].user # u
      <4>1. usage'[u] = usage[u]
        BY <2>4, <3>1, <3>4, OneCharged
      <4> QED BY <2>1, <2>2, <2>4, <3>1, <4>1, CounterUntouched
    <3> QED BY <3>2, <3>3, <3>4
  <2>5. CASE ReplyLost(p) /\ req[p].pc = "expire"
    <3>1. usage' = usage /\ req[p].user \in Users /\ Expire(req[p].user)
      BY <2>5, RequestFields DEF ReplyLost
    <3>2. CASE req[p].user = u
      BY <2>2, <3>1, <3>2, OneExpires
    <3>3. CASE req[p].user # u
      <4>1. expiry'[u] = expiry[u]
        BY <3>1, <3>3, OneExpires
      <4> QED BY <2>1, <2>2, <3>1, <3>3, <4>1, CounterUntouched
    <3> QED BY <3>2, <3>3
  <2>6. CASE CommandFails(p) \/ Abort(p)
    <3>1. usage' = usage /\ expiry' = expiry
      BY <2>6 DEF CommandFails, Abort
    <3>2. CASE req[p].pc = "expire" /\ req[p].user = u
      <4>1. u \in endless' \/ expiry'[u] # 0
        BY <2>3, <3>1, <3>2
      <4> QED BY <2>2, <3>1, <4>1, ExpiriesStep
    <3>3. CASE ~(req[p].pc = "expire" /\ req[p].user = u)
      BY <2>1, <2>2, <3>1, <3>3, CounterUntouched
    <3> QED BY <3>2, <3>3
  <2> QED BY <1>3, <2>4, <2>5, <2>6 DEF Faulty, Fault, ReplyLost
<1>4. CASE Tick /\ UNCHANGED endless
  <2>1. ~Expired(u) /\ usage'[u] = usage[u] /\ expiry'[u] = expiry[u]
    BY <1>4 DEF Tick, TypeOK
  <2>2. expiry[u] > clock => expiry'[u] > clock'
    BY <1>0, <1>4, <2>1 DEF Expired, Tick
  <2> QED BY <1>4, <2>1, <2>2 DEF Tick, CounterExpires
<1>5. CASE (\E v \in Users : Upgrade(v)) /\ UNCHANGED endless
  BY <1>5, CounterUntouched DEF Upgrade
<1>6. CASE UNCHANGED <<vars, history>>
  BY <1>6, CounterUntouched DEF vars, history
<1> QED BY <1>2, <1>3, <1>4, <1>5, <1>6 DEF HNext, Faultless

\* A request of a premium account leaves its lookup only by a lookup that failed.
LEMMA PremiumStep ==
  ASSUME TypeOK, EntitledStay, PremiumBypasses, [HNext]_<<vars, history>>
  PROVE  EntitledStay' /\ PremiumBypasses'
<1>1. CASE UNCHANGED <<vars, history>>
  BY <1>1 DEF vars, history, EntitledStay, PremiumBypasses
<1>2. CASE HNext
  <2>0. misjudged' = {p \in misjudged : req'[p] # Idle} \cup {p \in Requests : Misjudged(p)}
    BY <1>2 DEF HNext
  <2>1. CASE \E p \in Requests : Step(p) \/ Fault(p)
    <3>1. PICK p \in Requests : Step(p) \/ Fault(p)
      BY <2>1
    <3>2. /\ tier' = tier
          /\ \A r \in Requests \ {p} : req'[r] = req[r]
      BY <3>1, OthersStay DEF Step, Process, LookUpTier, ReadUsage, Refuse, Increment, SetExpiry,
         Fault, CommandFails, ReplyLost, Abort
    <3>3. ASSUME NEW r \in Requests \ {p}
          PROVE  /\ req'[r].pc = "lookup" /\ req'[r].entitled => tier'[req'[r].user] = "premium"
                 /\ req'[r].pc \in {"read", "increment", "expire", "refused"} /\ req'[r].entitled
                      => r \in misjudged'
      BY <2>0, <3>2, <3>3 DEF EntitledStay, PremiumBypasses, Idle
    <3>4. ASSUME NEW u \in Users, Process(p, u) PROVE EntitledStay' /\ PremiumBypasses'
      <4>1. req'[p] = [pc |-> "lookup", user |-> u, entitled |-> tier[u] = "premium",
                     resends |-> MaxRetries]
        BY <3>4 DEF Process, TypeOK
      <4>2. req'[p].pc = "lookup" /\ req'[p].user = u /\ req'[p].entitled = (tier[u] = "premium")
        BY <4>1
      <4>3. req'[p].entitled => tier'[req'[p].user] = "premium"
        BY <3>2, <4>2
      <4>4. req'[p].pc \notin {"read", "increment", "expire", "refused"}
        BY <4>2
      <4>5. EntitledStay'
        BY <3>3, <4>3 DEF EntitledStay
      <4> QED BY <3>3, <4>4, <4>5 DEF PremiumBypasses
    <3>5. CASE LookUpTier(p)
      <4>1. req[p] \in [pc : Stages, user : Users, entitled : BOOLEAN, resends : 0..MaxRetries]
        BY <3>5, RequestFields DEF LookUpTier
      <4>2. End(p) \/ GoTo(p, "read")
        BY <3>5 DEF LookUpTier
      <4>3. CASE End(p)
        BY <3>2, <3>3, <4>3 DEF End, Idle, TypeOK, EntitledStay, PremiumBypasses
      <4>4. CASE GoTo(p, "read")
        <5>1. req'[p].pc = "read" /\ req'[p].entitled = req[p].entitled
          BY <4>1, <4>4 DEF GoTo, TypeOK
        <5>2. req[p].entitled => p \in misjudged'
          BY <2>0, <3>5, <5>1 DEF LookUpTier, EntitledStay, Misjudged, TierOf
        <5> QED BY <3>3, <5>1, <5>2 DEF EntitledStay, PremiumBypasses
      <4> QED BY <4>2, <4>3, <4>4
    <3>6. CASE End(p)
      BY <3>2, <3>3, <3>6 DEF End, Idle, TypeOK, EntitledStay, PremiumBypasses
    <3>7. ASSUME NEW pc \in {"refused", "increment", "expire"},
                 req[p].pc \in {"read", "increment"}, GoTo(p, pc)
          PROVE  EntitledStay' /\ PremiumBypasses'
      <4>1. req[p] \in [pc : Stages, user : Users, entitled : BOOLEAN, resends : 0..MaxRetries]
        BY <3>7, RequestFields
      <4>2. req'[p].pc = pc /\ req'[p].entitled = req[p].entitled /\ req'[p] # Idle
        BY <3>7, <4>1 DEF GoTo, TypeOK, Idle
      <4>3. req[p].entitled => p \in misjudged'
        BY <2>0, <3>7, <4>2 DEF PremiumBypasses
      <4> QED BY <3>3, <4>2, <4>3 DEF EntitledStay, PremiumBypasses
    <3>8. CASE req[p].pc \in {"increment", "expire"} /\ req[p].resends > 0 /\ Resend(p)
      <4>1. req'[p].pc = req[p].pc /\ req'[p].entitled = req[p].entitled /\ req'[p] # Idle
        BY <3>8, ResendTyped DEF Idle
      <4>2. req[p].entitled => p \in misjudged'
        BY <2>0, <3>8, <4>1 DEF PremiumBypasses
      <4> QED BY <3>3, <3>8, <4>1, <4>2 DEF EntitledStay, PremiumBypasses
    <3> QED BY <3>1, <3>4, <3>5, <3>6, <3>7, <3>8 DEF Step, ReadUsage, Refuse, Increment, SetExpiry,
            Fault, CommandFails, ReplyLost, Abort
  <2>2. CASE Tick \/ \E u \in Users : Upgrade(u)
    <3>1. req' = req
      BY <2>2 DEF Tick, Upgrade
    <3>2. \A v \in Users : tier[v] = "premium" => tier'[v] = "premium"
      BY <2>2 DEF Tick, Upgrade, TypeOK
    <3>3. \A p \in Requests : req[p].pc = "lookup" => req[p].user \in Users
      BY RequestFields
    <3> QED BY <2>0, <3>1, <3>2, <3>3 DEF EntitledStay, PremiumBypasses, Idle
  <2> QED BY <1>2, <2>1, <2>2 DEF HNext, Faultless, Faulty
<1> QED BY <1>1, <1>2

\* HistoryInv holds in every reachable state, whatever the faults.
THEOREM HistorySafe == HSpec => []HistoryInv
<1>1. HInit => HistoryInv
  BY DEF HInit, Init, HistoryInv, TypeOK, Tiers, RequestState, Idle, CounterExpires,
         ExpiriesAhead, EntitledStay, PremiumBypasses
<1>2. HistoryInv /\ [HNext]_<<vars, history>> => HistoryInv'
  <2> SUFFICES ASSUME HistoryInv, [HNext]_<<vars, history>> PROVE HistoryInv'
    OBVIOUS
  <2>1. TypeOK'
    BY HistoryWithin, TypeStep DEF HistoryInv
  <2>2. ExpiriesAhead'
    <3>1. \A u \in Users : expiry'[u] # 0 => expiry'[u] > clock'
      BY ExpiriesStep DEF HistoryInv
    <3> QED BY <3>1 DEF ExpiriesAhead
  <2>3. CounterExpires' /\ EntitledStay' /\ PremiumBypasses'
    BY CounterStep, PremiumStep DEF HistoryInv
  <2> QED BY <2>1, <2>2, <2>3 DEF HistoryInv
<1> QED BY <1>1, <1>2, PTL DEF HSpec

\* A counter expires unless its one EXPIRE was lost, for any window and faults.
THEOREM CountersExpire == HSpec => []CounterExpires
<1>1. HistoryInv => CounterExpires
  BY DEF HistoryInv
<1> QED BY <1>1, HistorySafe, PTL

\* A request of a premium account meets the quota only if its lookup failed.
THEOREM PremiumIsExempt == HSpec => []PremiumBypasses
<1>1. HistoryInv => PremiumBypasses
  BY DEF HistoryInv
<1> QED BY <1>1, HistorySafe, PTL

-----------------------------------------------------------------------------
\* The uses charged so far are those of the counter as it is (now), those of the one
\* before it (before), and ones a window or more ago.  A counter's expiry was set when
\* the uses of the earlier ones were past, a window before it comes.
Lives(u) ==
  \E now, before \in SUBSET grants[u] :
    /\ IsFiniteSet(now) /\ Cardinality(now) <= usage[u]
    /\ IsFiniteSet(before) /\ Cardinality(before) <= MostUses
    /\ \A g \in grants[u] \ (now \cup before) : g[1] <= clock - Window
    /\ expiry[u] # 0 => \A g \in grants[u] \ now : g[1] <= expiry[u] - Window

\* No use is in the future.
UsesArePast(u) == \A g \in grants[u] : g[1] \in Nat /\ g[1] <= clock

LivesInv == QuotaInv /\ \A u \in Users : Lives(u) /\ UsesArePast(u)

\* What a step does to one counter.
LEMMA CounterSteps ==
  ASSUME TypeOK, HNext, NEW u \in Users
  PROVE  \/ UNCHANGED <<usage[u], expiry[u], clock>>
         \/ usage'[u] = usage[u] + 1 /\ UNCHANGED <<expiry[u], clock>>
         \/ expiry'[u] = clock + Window /\ UNCHANGED <<usage[u], clock>>
         \/ clock' = clock + 1 /\ UNCHANGED <<usage[u], expiry[u]>>
         \/ /\ clock' = clock + 1 /\ usage'[u] = 0 /\ expiry'[u] = 0
            /\ expiry[u] # 0 /\ expiry[u] <= clock + 1
<1>1. CASE Tick
  BY <1>1 DEF Tick, Expired, TypeOK
<1>2. ASSUME NEW v \in Users, Upgrade(v) PROVE UNCHANGED <<usage[u], expiry[u], clock>>
  BY <1>2 DEF Upgrade
<1>3. ASSUME NEW p \in Requests, req[p].pc = "increment", Charge(req[p].user),
             UNCHANGED <<expiry, clock>>
      PROVE  \/ UNCHANGED <<usage[u], expiry[u], clock>>
             \/ usage'[u] = usage[u] + 1 /\ UNCHANGED <<expiry[u], clock>>
  BY <1>3, OneCharged
<1>4. ASSUME NEW p \in Requests, req[p].pc = "expire", Expire(req[p].user),
             UNCHANGED <<usage, clock>>
      PROVE  \/ UNCHANGED <<usage[u], expiry[u], clock>>
             \/ expiry'[u] = clock + Window /\ UNCHANGED <<usage[u], clock>>
  <2>1. req[p].user \in Users /\ usage[u] \in Nat
    BY <1>4, RequestFields DEF TypeOK
  <2> QED BY <1>4, <2>1, OneExpires
<1>5. ASSUME NEW p \in Requests, Step(p) \/ Fault(p),
             ~Increment(p), ~ReplyLost(p), ~SetExpiry(p)
      PROVE  UNCHANGED <<usage[u], expiry[u], clock>>
  BY <1>5 DEF Step, Process, LookUpTier, ReadUsage, Refuse, Fault, CommandFails, Abort
<1>6. ASSUME NEW p \in Requests, Increment(p) \/ ReplyLost(p) \/ SetExpiry(p)
      PROVE  \/ /\ req[p].pc = "increment" /\ Charge(req[p].user)
                /\ UNCHANGED <<expiry, clock>>
             \/ /\ req[p].pc = "expire" /\ Expire(req[p].user)
                /\ UNCHANGED <<usage, clock>>
  BY <1>6 DEF Increment, ReplyLost, SetExpiry
<1> QED BY <1>1, <1>2, <1>3, <1>4, <1>5, <1>6 DEF HNext, Faultless, Faulty

\* Uses are charged when the counter rises, at the time it is.
LEMMA UsesStep ==
  ASSUME TypeOK, HNext, NEW u \in Users
  PROVE  \/ usage'[u] # usage[u] + 1 /\ grants'[u] = grants[u]
         \/ \E g : /\ usage'[u] = usage[u] + 1
                  /\ grants'[u] = grants[u] \cup {g} /\ g[1] = clock
<1> DEFINE g == <<clock, Cardinality(grants[u])>>
<1>1. g[1] = clock
  OBVIOUS
<1>2. grants'[u] = IF usage'[u] = usage[u] + 1 THEN grants[u] \cup {g} ELSE grants[u]
  BY DEF HNext, Charged
<1> HIDE DEF g
<1> QED BY <1>1, <1>2

LEMMA LivesStep ==
  ASSUME LivesInv, HNext, NEW u \in Users
  PROVE  Lives(u)' /\ UsesArePast(u)'
<1>1. /\ usage[u] \in Nat /\ expiry[u] \in Nat /\ clock \in Nat /\ Window \in Nat
      /\ usage[u] <= MostUses
  BY BelowBound, QuotaAssumption DEF LivesInv, QuotaInv, TypeOK
<1>2. UsesArePast(u) /\ TypeOK
  BY DEF LivesInv, QuotaInv
<1>3. PICK now \in SUBSET grants[u], before \in SUBSET grants[u] :
        /\ IsFiniteSet(now) /\ Cardinality(now) <= usage[u]
        /\ IsFiniteSet(before) /\ Cardinality(before) <= MostUses
        /\ \A g \in grants[u] \ (now \cup before) : g[1] <= clock - Window
        /\ expiry[u] # 0 => \A g \in grants[u] \ now : g[1] <= expiry[u] - Window
  BY DEF LivesInv, Lives
<1>4. CASE usage'[u] # usage[u] + 1 /\ grants'[u] = grants[u]
  <2>1. UsesArePast(u)'
    BY <1>1, <1>2, <1>4, CounterSteps DEF UsesArePast
  <2>2. CASE UNCHANGED <<usage[u], expiry[u], clock>>
    BY <1>3, <1>4, <2>1, <2>2 DEF Lives
  <2>3. CASE expiry'[u] = clock + Window /\ UNCHANGED <<usage[u], clock>>
    <3>1. \A g \in grants[u] : g[1] <= expiry'[u] - Window
      BY <1>1, <1>2, <2>3 DEF UsesArePast
    <3> QED BY <1>3, <1>4, <2>1, <2>3, <3>1 DEF Lives
  <2>4. CASE clock' = clock + 1 /\ UNCHANGED <<usage[u], expiry[u]>>
    <3>1. \A g \in grants[u] : g[1] <= clock - Window => g[1] <= clock' - Window
      BY <1>1, <1>2, <2>4 DEF UsesArePast
    <3> QED BY <1>3, <1>4, <2>1, <2>4, <3>1 DEF Lives
  <2>5. CASE /\ clock' = clock + 1 /\ usage'[u] = 0 /\ expiry'[u] = 0
             /\ expiry[u] # 0 /\ expiry[u] <= clock + 1
    <3>1. Cardinality(now) <= MostUses
      BY <1>1, <1>3, FS_CardinalityType, BelowBound DEF LivesInv
    <3>2. \A g \in grants[u] \ now : g[1] <= clock' - Window
      BY <1>1, <1>2, <1>3, <2>5 DEF UsesArePast
    <3>3. IsFiniteSet({}) /\ Cardinality({}) = 0
      BY FS_EmptySet
    <3>4. /\ {} \in SUBSET grants'[u] /\ now \in SUBSET grants'[u]
          /\ Cardinality({}) <= usage'[u]
          /\ \A g \in grants'[u] \ ({} \cup now) : g[1] <= clock' - Window
          /\ expiry'[u] = 0
      BY <1>4, <2>5, <3>2, <3>3
    <3> QED BY <1>3, <2>1, <3>1, <3>3, <3>4 DEF Lives
  <2> QED BY <1>2, <1>4, <2>1, <2>2, <2>3, <2>4, <2>5, CounterSteps
<1>5. CASE usage'[u] = usage[u] + 1 /\ \E g : grants'[u] = grants[u] \cup {g} /\ g[1] = clock
  <2>1. PICK g : grants'[u] = grants[u] \cup {g} /\ g[1] = clock
    BY <1>5
  <2>2. expiry'[u] = expiry[u] /\ clock' = clock
    BY <1>1, <1>2, <1>5, CounterSteps
  <2>3. /\ IsFiniteSet(now \cup {g})
        /\ Cardinality(now \cup {g}) <= usage'[u]
    <3>1. /\ IsFiniteSet(now \cup {g}) /\ Cardinality(now) \in Nat
          /\ Cardinality(now \cup {g}) \in {Cardinality(now), Cardinality(now) + 1}
      BY <1>3, FS_AddElement, FS_CardinalityType
    <3> QED BY <1>1, <1>3, <1>5, <3>1
  <2>4. UsesArePast(u)'
    BY <1>1, <1>2, <2>1, <2>2 DEF UsesArePast
  <2>5. /\ now \cup {g} \in SUBSET grants'[u] /\ before \in SUBSET grants'[u]
        /\ grants'[u] \ ((now \cup {g}) \cup before) \subseteq grants[u] \ (now \cup before)
        /\ grants'[u] \ (now \cup {g}) \subseteq grants[u] \ now
    BY <1>3, <2>1
  <2> QED BY <1>3, <2>2, <2>3, <2>4, <2>5 DEF Lives
<1> QED BY <1>2, <1>4, <1>5, UsesStep

LEMMA LivesInvStep == LivesInv /\ [HNext]_<<vars, history>> => LivesInv'
<1>1. LivesInv /\ HNext => LivesInv'
  BY LivesStep, HistoryWithin, QuotaStep DEF LivesInv
<1>2. LivesInv /\ UNCHANGED <<vars, history>> => LivesInv'
  <2> SUFFICES ASSUME LivesInv, UNCHANGED <<vars, history>> PROVE LivesInv'
    OBVIOUS
  <2>1. QuotaInv'
    BY QuotaStep DEF LivesInv
  <2>2. UNCHANGED <<usage, expiry, clock, grants>>
    BY DEF vars, history
  <2>3. \A u \in Users : Lives(u)' /\ UsesArePast(u)'
    BY <2>2 DEF LivesInv, Lives, UsesArePast
  <2> QED BY <2>1, <2>3 DEF LivesInv
<1> QED BY <1>1, <1>2

\* Any span of one window meets at most two lives of a counter, so that no account gets
\* more than twice the uses of one, however its requests interleave and fail.
THEOREM TwoCountersAtMost == HSpec => []TwoCounters
<1>1. HInit => LivesInv
  <2> SUFFICES ASSUME HInit PROVE LivesInv
    OBVIOUS
  <2>1. QuotaInv
    BY QuotaInit DEF HInit
  <2>2. ASSUME NEW u \in Users PROVE Lives(u) /\ UsesArePast(u)
    <3>1. grants[u] = {} /\ usage[u] = 0 /\ expiry[u] = 0
      BY DEF HInit, Init
    <3>2. IsFiniteSet({}) /\ Cardinality({}) = 0 /\ MostUses \in Nat
      BY <2>1, FS_EmptySet, BelowBound
    <3> QED BY <3>1, <3>2 DEF Lives, UsesArePast
  <2> QED BY <2>1, <2>2 DEF LivesInv
<1>2. LivesInv => TwoCounters
  <2> SUFFICES ASSUME LivesInv, NEW u \in Users
               PROVE  Cardinality(Recent(u)) <= 2 * MostUses
    BY DEF TwoCounters
  <2>1. usage[u] \in Nat /\ MostUses \in Nat /\ usage[u] <= MostUses
    BY BelowBound DEF LivesInv
  <2>2. PICK now \in SUBSET grants[u], before \in SUBSET grants[u] :
          /\ IsFiniteSet(now) /\ Cardinality(now) <= usage[u]
          /\ IsFiniteSet(before) /\ Cardinality(before) <= MostUses
          /\ \A g \in grants[u] \ (now \cup before) : g[1] <= clock - Window
    BY DEF LivesInv, Lives
  <2>3. Recent(u) \subseteq now \cup before
    <3>1. \A g \in grants[u] : g[1] \in Nat
      BY DEF LivesInv, UsesArePast
    <3>2. clock \in Nat /\ Window \in Nat
      BY QuotaAssumption DEF LivesInv, QuotaInv, TypeOK
    <3> QED BY <2>2, <3>1, <3>2 DEF Recent
  <2>4. /\ IsFiniteSet(now \cup before)
        /\ Cardinality(now \cup before) \in Nat
        /\ Cardinality(now \cup before) <= Cardinality(now) + Cardinality(before)
        /\ Cardinality(now) \in Nat /\ Cardinality(before) \in Nat
    <3>1. /\ IsFiniteSet(now \cup before) /\ IsFiniteSet(now \cap before)
          /\ Cardinality(now \cup before)
               = Cardinality(now) + Cardinality(before) - Cardinality(now \cap before)
      BY <2>2, FS_Union, FS_Intersection
    <3>2. /\ Cardinality(now \cup before) \in Nat /\ Cardinality(now \cap before) \in Nat
          /\ Cardinality(now) \in Nat /\ Cardinality(before) \in Nat
      BY <2>2, <3>1, FS_CardinalityType
    <3> QED BY <3>1, <3>2
  <2>5. Cardinality(Recent(u)) \in Nat /\ Cardinality(Recent(u)) <= Cardinality(now \cup before)
    BY <2>3, <2>4, FS_Subset, FS_CardinalityType
  <2> QED BY <2>1, <2>2, <2>4, <2>5
<1> QED BY <1>1, <1>2, LivesInvStep, PTL DEF HSpec

=============================================================================
