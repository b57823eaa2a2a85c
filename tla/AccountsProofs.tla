--------------------------- MODULE AccountsProofs ---------------------------
(***************************************************************************)
(* What registrations, logins and purchases keep, for any number of calls  *)
(* at once, addresses and passwords; and that accounts and quota together  *)
(* implement OcrQuota.                                                     *)
(***************************************************************************)
EXTENDS AccountQuota, TablesProofs

OneAccountPerAddress ==
  \A u, v \in DOMAIN users : users[u].email = users[v].email => u = v

\* The row a registration was answered with is still there.
RegisteredHasRow ==
  \A r \in registered : \E u \in DOMAIN users :
    users[u].email = Normal[r[1]] /\ users[u].password = r[2]

\* A verification is about an account that exists.
CallersExist ==
  \A p \in Calls : call[p].pc \in {"verdict", "upgrade"} => call[p].user \in DOMAIN users

\* An upgrade that is due was accepted: the purchase was active then.
UpgradesBought ==
  /\ \A k \in Purchases : play[k] = "active" => k \in paid
  /\ \A p \in Calls : call[p].pc = "upgrade" => call[p].purchase \in paid \cup Sandbox

AccountsInv ==
  /\ AccountsTypeOK
  /\ OneAccountPerAddress
  /\ RegisteredHasRow
  /\ TokensNotAhead
  /\ CallersExist
  /\ PromisesKept
  /\ UpgradesBought

-----------------------------------------------------------------------------
LEMMA CallFields ==
  ASSUME AccountsTypeOK, NEW p \in Calls
  PROVE  /\ call[p].pc = "insert" => /\ call[p].spelling \in Spellings
                                     /\ call[p].password \in Passwords
         /\ call[p].pc \in {"verdict", "upgrade"} => /\ call[p].user \in UserIds
                                                     /\ call[p].purchase \in Purchases
         /\ call[p].pc \in {"verdict", "upgrade"} =>
              call[p] \in [pc : {"verdict", "upgrade"}, user : UserIds, purchase : Purchases]
BY DEF AccountsTypeOK, CallState, NoCall

LEMMA UserFields ==
  ASSUME AccountsTypeOK
  PROVE  /\ DOMAIN users \subseteq UserIds
         /\ \A u \in DOMAIN users : users[u] \in UserRow
BY TableRows DEF AccountsTypeOK

\* CreateUser adds one row of a new address and touches no other.
LEMMA Created ==
  ASSUME AccountsTypeOK, NEW p \in Calls, NEW u \in UserIds, CreateUser(p, u)
  PROVE  /\ users' \in Table(UserIds, UserRow)
         /\ DOMAIN users' = DOMAIN users \cup {u}
         /\ u \notin DOMAIN users
         /\ users'[u] = [email |-> Normal[call[p].spelling],
                         password |-> call[p].password, tier |-> "free"]
         /\ \A v \in DOMAIN users :
              users'[v] = users[v] /\ users[v].email # Normal[call[p].spelling]
<1> DEFINE row == [email |-> Normal[call[p].spelling], password |-> call[p].password,
                   tier |-> "free"]
<1>1. row \in UserRow
  BY CallFields, AccountAssumption DEF CreateUser, UserRow, Tiers
<1>2. users' = Put(users, u, row) /\ u \notin DOMAIN users
  BY DEF CreateUser, Address
<1>3. users' \in Table(UserIds, UserRow)
  BY <1>1, <1>2, PutIsTable DEF AccountsTypeOK
<1>4. \A v \in DOMAIN users : users[v].email # Normal[call[p].spelling]
  BY DEF CreateUser, Free, Owner, Address
<1> QED BY <1>2, <1>3, <1>4 DEF Put

\* UpdateUserTier changes no address and no password.
LEMMA Upgraded ==
  ASSUME AccountsTypeOK, NEW u \in UserIds, SetPremium(u)
  PROVE  /\ users' \in Table(UserIds, UserRow)
         /\ DOMAIN users' = DOMAIN users
         /\ u \in DOMAIN users => users'[u].tier = "premium"
         /\ \A v \in DOMAIN users : /\ users'[v].email = users[v].email
                                    /\ users'[v].password = users[v].password
                                    /\ v # u => users'[v].tier = users[v].tier
<1>1. CASE u \notin DOMAIN users
  BY <1>1 DEF SetPremium, AccountsTypeOK
<1>2. CASE u \in DOMAIN users
  <2>1. users' = [users EXCEPT ![u].tier = "premium"]
    BY <1>2 DEF SetPremium
  <2>2. users = [v \in DOMAIN users |-> users[v]]
    BY TableRows DEF AccountsTypeOK
  <2>3. DOMAIN users' = DOMAIN users /\ \A v \in DOMAIN users \ {u} : users'[v] = users[v]
    BY <2>1, <2>2
  <2>4. users[u] \in UserRow
    BY <1>2, UserFields
  <2>5. users'[u] = [users[u] EXCEPT !.tier = "premium"]
    BY <1>2, <2>1, <2>2
  <2>6. /\ users'[u] \in UserRow
        /\ users'[u].tier = "premium"
        /\ users'[u].email = users[u].email
        /\ users'[u].password = users[u].password
    BY <2>4, <2>5 DEF UserRow, Tiers
  <2>7. users' \in [DOMAIN users -> UserRow]
    <3>1. \A v \in DOMAIN users : users'[v] \in UserRow
      BY <2>3, <2>6, UserFields
    <3>2. users' = [v \in DOMAIN users' |-> users'[v]]
      BY <2>1, <2>2
    <3> QED BY <2>3, <3>1, <3>2
  <2>8. users' \in Table(UserIds, UserRow)
    BY <2>7, UserFields, RowsTable
  <2> QED BY <1>2, <2>3, <2>6, <2>8
<1> QED BY <1>1, <1>2

LEMMA Hung ==
  ASSUME AccountsTypeOK, NEW p \in Calls, Hang(p)
  PROVE  /\ call' \in [Calls -> CallState]
         /\ call'[p].pc = "idle"
         /\ \A q \in Calls \ {p} : call'[q] = call[q]
BY DEF Hang, AccountsTypeOK, CallState, NoCall

-----------------------------------------------------------------------------
LEMMA TypeStep ==
  ASSUME AccountsTypeOK, TokensNotAhead, [AccountsNext]_accounts
  PROVE  AccountsTypeOK'
<1> USE DEF AccountsTypeOK
<1>1. ASSUME NEW p \in Calls, RegisterStep(p) PROVE AccountsTypeOK'
  <2>1. ASSUME NEW spelling \in Spellings, NEW password \in Passwords,
               Register(p, spelling, password)
        PROVE  AccountsTypeOK'
    BY <2>1 DEF Register, CallState
  <2>2. ASSUME NEW u \in UserIds, CreateUser(p, u)
        PROVE  users' \in Table(UserIds, UserRow) /\ call' \in [Calls -> CallState]
    BY <2>2, Created, Hung DEF CreateUser
  <2>3. CASE Insert(p)
    BY <2>2, <2>3, CallFields DEF Insert, Issue, CreateUser, Tiers
  <2>4. CASE InsertReplyLost(p)
    BY <2>2, <2>4 DEF InsertReplyLost
  <2>5. CASE InsertRefused(p)
    BY <2>5, Hung DEF InsertRefused
  <2> QED BY <1>1, <2>1, <2>3, <2>4, <2>5 DEF RegisterStep
<1>2. ASSUME NEW p \in Calls, VerifyStep(p) PROVE AccountsTypeOK'
  <2>1. ASSUME NEW u \in UserIds, NEW k \in Purchases, Verify(p, u, k) PROVE AccountsTypeOK'
    BY <2>1 DEF Verify, CallState
  <2>2. CASE Verdict(p)
    <3>1. CASE Accepted(call[p].purchase)
      <4>1. call[p] \in [pc : {"verdict", "upgrade"}, user : UserIds, purchase : Purchases]
        BY <2>2, CallFields DEF Verdict
      <4> QED BY <2>2, <3>1, <4>1 DEF Verdict, CallState
    <3>2. CASE ~Accepted(call[p].purchase)
      BY <2>2, <3>2, Hung DEF Verdict
    <3> QED BY <3>1, <3>2
  <2>3. ASSUME call[p].pc = "upgrade", SetPremium(call[p].user), Hang(p)
        PROVE  /\ users' \in Table(UserIds, UserRow)
               /\ call' \in [Calls -> CallState]
               /\ call[p].user \in UserIds
    BY <2>3, CallFields, Upgraded, Hung
  <2>4. CASE UpgradeTier(p)
    BY <2>3, <2>4 DEF UpgradeTier
  <2>5. CASE UpgradeReplyLost(p)
    BY <2>3, <2>5 DEF UpgradeReplyLost
  <2> QED BY <1>2, <2>1, <2>2, <2>4, <2>5 DEF VerifyStep
<1>3. ASSUME NEW p \in Calls, CallFails(p) PROVE AccountsTypeOK'
  BY <1>3, Hung DEF CallFails
<1>4. ASSUME NEW spelling \in Spellings, NEW password \in Passwords, Login(spelling, password)
      PROVE  AccountsTypeOK'
  <2>1. PICK u \in UserIds : Opens(u, spelling, password) /\ Issue(u, users[u].tier)
    BY <1>4 DEF Login
  <2>2. users[u].tier \in Tiers
    BY <2>1, UserFields DEF Opens, Owner, UserRow
  <2> QED BY <1>4, <2>1, <2>2 DEF Login, Issue
<1>5. ASSUME NEW k \in Purchases, PlayChanges(k) PROVE AccountsTypeOK'
  BY <1>5 DEF PlayChanges, PlayStates
<1>6. CASE UNCHANGED accounts
  BY <1>6 DEF accounts
<1> QED BY <1>1, <1>2, <1>3, <1>4, <1>5, <1>6 DEF AccountsNext, Outside

-----------------------------------------------------------------------------
\* A step that leaves rows, tokens and answers alone has the calls to look at.
LEMMA OnlyCallsMove ==
  ASSUME AccountsInv, AccountsTypeOK', UNCHANGED <<users, tokens, registered, promised>>,
         CallersExist', UpgradesBought'
  PROVE  AccountsInv'
BY DEF AccountsInv, OneAccountPerAddress, RegisteredHasRow, TokensNotAhead, PromisesKept, Tier

\* A new row: its address was free, and no token, call or answer names its id.
LEMMA CreationKeeps ==
  ASSUME AccountsInv, AccountsTypeOK', NEW p \in Calls, NEW u \in UserIds, CreateUser(p, u),
         UNCHANGED <<play, paid, promised>>,
         \/ Issue(u, "free") /\ registered' = registered \cup {<<call[p].spelling, call[p].password>>}
         \/ UNCHANGED <<tokens, registered>>
  PROVE  AccountsInv'
<1>0. AccountsTypeOK /\ OneAccountPerAddress /\ RegisteredHasRow /\ TokensNotAhead
      /\ CallersExist /\ PromisesKept /\ UpgradesBought
  BY DEF AccountsInv
<1>1. /\ DOMAIN users' = DOMAIN users \cup {u}
      /\ u \notin DOMAIN users
      /\ users'[u].email = Normal[call[p].spelling]
      /\ users'[u].password = call[p].password
      /\ users'[u].tier = "free"
      /\ \A v \in DOMAIN users :
           users'[v] = users[v] /\ users[v].email # Normal[call[p].spelling]
  <2>1. users'[u] = [email |-> Normal[call[p].spelling], password |-> call[p].password,
                     tier |-> "free"]
    BY <1>0, Created
  <2> QED BY <1>0, <2>1, Created
<1>2. call'[p].pc = "idle" /\ \A q \in Calls \ {p} : call'[q] = call[q]
  BY <1>0, Hung DEF CreateUser
<1>3. OneAccountPerAddress'
  BY <1>0, <1>1 DEF OneAccountPerAddress
<1>4. RegisteredHasRow'
  BY <1>0, <1>1 DEF RegisteredHasRow
<1>5. TokensNotAhead'
  <2>1. tokens[u] = {}
    BY <1>0, <1>1 DEF TokensNotAhead
  <2>2. \A v \in UserIds : tokens'[v] = tokens[v] \/ (v = u /\ tokens'[v] = {"free"})
    BY <1>0, <2>1 DEF Issue, AccountsTypeOK
  <2> QED BY <1>0, <1>1, <2>2 DEF TokensNotAhead
<1>6. CallersExist'
  BY <1>0, <1>1, <1>2 DEF CallersExist
<1>7. PromisesKept'
  BY <1>0, <1>1 DEF PromisesKept, Tier
<1>8. UpgradesBought'
  BY <1>0, <1>2 DEF UpgradesBought
<1> QED BY <1>3, <1>4, <1>5, <1>6, <1>7, <1>8 DEF AccountsInv

\* The tier of a row that exists is raised.
LEMMA UpgradeKeeps ==
  ASSUME AccountsInv, AccountsTypeOK', NEW p \in Calls, call[p].pc = "upgrade",
         SetPremium(call[p].user), Hang(p), UNCHANGED <<play, tokens, registered, paid>>,
         promised' \subseteq promised \cup {call[p].user}
  PROVE  AccountsInv'
<1> DEFINE u == call[p].user
<1>0. AccountsTypeOK /\ OneAccountPerAddress /\ RegisteredHasRow /\ TokensNotAhead
      /\ CallersExist /\ PromisesKept /\ UpgradesBought
  BY DEF AccountsInv
<1>1. u \in DOMAIN users /\ u \in UserIds
  BY <1>0, CallFields DEF CallersExist
<1>2. /\ DOMAIN users' = DOMAIN users
      /\ users'[u].tier = "premium"
      /\ \A v \in DOMAIN users : /\ users'[v].email = users[v].email
                                 /\ users'[v].password = users[v].password
                                 /\ v # u => users'[v].tier = users[v].tier
  BY <1>0, <1>1, Upgraded
<1>3. call'[p].pc = "idle" /\ \A q \in Calls \ {p} : call'[q] = call[q]
  BY <1>0, Hung
<1>4. OneAccountPerAddress' /\ RegisteredHasRow'
  BY <1>0, <1>2 DEF OneAccountPerAddress, RegisteredHasRow
<1>5. TokensNotAhead'
  <2>1. \A v \in DOMAIN users : users[v].tier \in Tiers
    BY <1>0, UserFields DEF UserRow
  <2>2. \A v \in DOMAIN users : {"free", users[v].tier} \subseteq {"free", users'[v].tier}
    BY <1>2, <2>1 DEF Tiers
  <2> QED BY <1>0, <1>2, <2>2 DEF TokensNotAhead
<1>6. CallersExist' /\ UpgradesBought'
  BY <1>0, <1>2, <1>3 DEF CallersExist, UpgradesBought
<1>7. PromisesKept'
  BY <1>0, <1>1, <1>2 DEF PromisesKept, Tier
<1> QED BY <1>4, <1>5, <1>6, <1>7 DEF AccountsInv

LEMMA RegisterKeeps ==
  ASSUME AccountsInv, AccountsTypeOK', NEW p \in Calls, RegisterStep(p)
  PROVE  AccountsInv'
<1>1. ASSUME NEW spelling \in Spellings, NEW password \in Passwords,
             Register(p, spelling, password)
      PROVE  AccountsInv'
  <2>1. call'[p].pc = "insert" /\ \A q \in Calls \ {p} : call'[q] = call[q]
    BY <1>1 DEF Register, AccountsInv, AccountsTypeOK
  <2>2. CallersExist' /\ UpgradesBought'
    BY <1>1, <2>1 DEF Register, AccountsInv, CallersExist, UpgradesBought
  <2> QED BY <1>1, <2>2, OnlyCallsMove DEF Register
<1>2. CASE Insert(p)
  BY <1>2, CreationKeeps DEF Insert
<1>3. CASE InsertReplyLost(p)
  BY <1>3, CreationKeeps DEF InsertReplyLost
<1>4. CASE InsertRefused(p)
  <2>1. call'[p].pc = "idle" /\ \A q \in Calls \ {p} : call'[q] = call[q]
    BY <1>4, Hung DEF InsertRefused, AccountsInv
  <2>2. CallersExist' /\ UpgradesBought'
    BY <1>4, <2>1 DEF InsertRefused, AccountsInv, CallersExist, UpgradesBought
  <2> QED BY <1>4, <2>2, OnlyCallsMove DEF InsertRefused
<1> QED BY <1>1, <1>2, <1>3, <1>4 DEF RegisterStep

LEMMA VerifyKeeps ==
  ASSUME AccountsInv, AccountsTypeOK', NEW p \in Calls, VerifyStep(p)
  PROVE  AccountsInv'
<1>1. ASSUME NEW u \in UserIds, NEW k \in Purchases, Verify(p, u, k) PROVE AccountsInv'
  <2>1. /\ call'[p] = [pc |-> "verdict", user |-> u, purchase |-> k]
        /\ \A q \in Calls \ {p} : call'[q] = call[q]
    BY <1>1 DEF Verify, AccountsInv, AccountsTypeOK
  <2>2. u \in DOMAIN users
    BY <1>1 DEF Verify, Authorized, AccountsInv, TokensNotAhead
  <2>3. CallersExist' /\ UpgradesBought'
    BY <1>1, <2>1, <2>2 DEF Verify, AccountsInv, CallersExist, UpgradesBought
  <2> QED BY <1>1, <2>3, OnlyCallsMove DEF Verify
<1>2. CASE Verdict(p)
  <2>1. CASE Accepted(call[p].purchase)
    <3>1. call[p] \in [pc : {"verdict", "upgrade"}, user : UserIds, purchase : Purchases]
      BY <1>2, CallFields DEF Verdict, AccountsInv
    <3>2. call'[p] = [call[p] EXCEPT !.pc = "upgrade"] /\ \A q \in Calls \ {p} : call'[q] = call[q]
      BY <1>2, <2>1 DEF Verdict, AccountsInv, AccountsTypeOK
    <3>3. call'[p].user = call[p].user /\ call'[p].purchase = call[p].purchase
      BY <3>1, <3>2
    <3>4. call[p].purchase \in paid \cup Sandbox
      BY <2>1, <3>1 DEF Accepted, AccountsInv, UpgradesBought
    <3>5. CallersExist' /\ UpgradesBought'
      BY <1>2, <3>2, <3>3, <3>4 DEF Verdict, AccountsInv, CallersExist, UpgradesBought
    <3> QED BY <1>2, <3>5, OnlyCallsMove DEF Verdict
  <2>2. CASE ~Accepted(call[p].purchase)
    <3>1. call'[p].pc = "idle" /\ \A q \in Calls \ {p} : call'[q] = call[q]
      BY <1>2, <2>2, Hung DEF Verdict, AccountsInv
    <3>2. CallersExist' /\ UpgradesBought'
      BY <1>2, <3>1 DEF Verdict, AccountsInv, CallersExist, UpgradesBought
    <3> QED BY <1>2, <3>2, OnlyCallsMove DEF Verdict
  <2> QED BY <2>1, <2>2
<1>3. CASE UpgradeTier(p)
  BY <1>3, UpgradeKeeps DEF UpgradeTier
<1>4. CASE UpgradeReplyLost(p)
  BY <1>4, UpgradeKeeps DEF UpgradeReplyLost
<1> QED BY <1>1, <1>2, <1>3, <1>4 DEF VerifyStep

LEMMA AccountsStep ==
  ASSUME AccountsInv, [AccountsNext]_accounts
  PROVE  AccountsInv'
<1>0. AccountsTypeOK'
  BY TypeStep DEF AccountsInv
<1>1. ASSUME NEW p \in Calls, CallFails(p) PROVE AccountsInv'
  <2>1. call'[p].pc = "idle" /\ \A q \in Calls \ {p} : call'[q] = call[q]
    BY <1>1, Hung DEF CallFails, AccountsInv
  <2>2. CallersExist' /\ UpgradesBought'
    BY <1>1, <2>1 DEF CallFails, AccountsInv, CallersExist, UpgradesBought
  <2> QED BY <1>0, <1>1, <2>2, OnlyCallsMove DEF CallFails
<1>2. ASSUME NEW spelling \in Spellings, NEW password \in Passwords, Login(spelling, password)
      PROVE  AccountsInv'
  <2>1. PICK u \in UserIds : u \in DOMAIN users /\ Issue(u, users[u].tier)
    BY <1>2 DEF Login, Opens, Owner
  <2>2. TokensNotAhead'
    BY <1>2, <2>1 DEF Login, Issue, AccountsInv, AccountsTypeOK, TokensNotAhead
  <2> QED BY <1>0, <1>2, <2>2 DEF Login, AccountsInv, OneAccountPerAddress, RegisteredHasRow,
          CallersExist, PromisesKept, UpgradesBought, Tier
<1>3. ASSUME NEW k \in Purchases, PlayChanges(k) PROVE AccountsInv'
  <2>1. CallersExist' /\ UpgradesBought'
    BY <1>3 DEF PlayChanges, AccountsInv, AccountsTypeOK, CallersExist, UpgradesBought
  <2> QED BY <1>0, <1>3, <2>1, OnlyCallsMove DEF PlayChanges
<1>4. CASE UNCHANGED accounts
  <2>1. CallersExist' /\ UpgradesBought'
    BY <1>4 DEF accounts, AccountsInv, CallersExist, UpgradesBought
  <2> QED BY <1>0, <1>4, <2>1, OnlyCallsMove DEF accounts
<1> QED BY <1>0, <1>1, <1>2, <1>3, <1>4, RegisterKeeps, VerifyKeeps DEF AccountsNext, Outside

LEMMA AccountsBegin == AccountsInit => AccountsInv
<1> SUFFICES ASSUME AccountsInit PROVE AccountsInv
  OBVIOUS
<1>1. users \in Table(UserIds, UserRow) /\ DOMAIN users = {}
  BY EmptyIsTable DEF AccountsInit, EmptyTable
<1> QED BY <1>1 DEF AccountsInit, AccountsInv, AccountsTypeOK, PlayStates, CallState, NoCall,
        OneAccountPerAddress, RegisteredHasRow, TokensNotAhead, CallersExist, PromisesKept,
        UpgradesBought

-----------------------------------------------------------------------------
\* AccountsInv holds in every reachable state, whatever interleaves.
THEOREM AccountsSafe == AccountsSpec => []AccountsInv
BY AccountsBegin, AccountsStep, PTL DEF AccountsSpec

\* Rows hold addresses as they are compared, and calls and tokens are of their types.
THEOREM AccountsTyped == AccountsSpec => []AccountsTypeOK
<1>1. AccountsInv => AccountsTypeOK
  BY DEF AccountsInv
<1> QED BY <1>1, AccountsSafe, PTL

\* Whoever was told of an account can log in to it: its row is there, and it is
\* the only one of the address.
THEOREM RegisteredLogIn == AccountsSpec => []RegisteredCanLogin
<1>1. AccountsInv => RegisteredCanLogin
  <2> SUFFICES ASSUME AccountsInv, NEW r \in registered, NEW spelling \in Spellings,
                      Normal[spelling] = Normal[r[1]]
               PROVE  /\ Owner(LoginAddress(spelling)) # {}
                      /\ \A u \in Owner(LoginAddress(spelling)) : Opens(u, spelling, r[2])
    BY DEF RegisteredCanLogin
  <2>1. PICK u \in DOMAIN users : users[u].email = Normal[r[1]] /\ users[u].password = r[2]
    BY DEF AccountsInv, RegisteredHasRow
  <2>2. Owner(LoginAddress(spelling)) = {u}
    BY <2>1 DEF Owner, LoginAddress, AccountsInv, OneAccountPerAddress
  <2> QED BY <2>1, <2>2 DEF Opens
<1> QED BY <1>1, AccountsSafe, PTL

\* No token is issued before its row, or with a tier its row has not.
THEOREM TokensFollowRows == AccountsSpec => []TokensNotAhead
<1>1. AccountsInv => TokensNotAhead
  BY DEF AccountsInv
<1> QED BY <1>1, AccountsSafe, PTL

\* An account that was promised the premium tier has it.
THEOREM PromisesAreKept == AccountsSpec => []PromisesKept
<1>1. AccountsInv => PromisesKept
  BY DEF AccountsInv
<1> QED BY <1>1, AccountsSafe, PTL

-----------------------------------------------------------------------------
\* What a step of Accounts does to the tiers: nothing, or one of them is raised
\* by a call that is about to be over.
LEMMA TierMoves ==
  ASSUME AccountsInv, [AccountsNext]_accounts
  PROVE  \/ UNCHANGED tier
         \/ \E p \in Calls :
              /\ call[p].pc = "upgrade"
              /\ tier[call[p].user] = "free"
              /\ tier' = [tier EXCEPT ![call[p].user] = "premium"]
<1>1. CASE UNCHANGED users
  BY <1>1 DEF tier, Tier
<1>2. ASSUME NEW p \in Calls, NEW u \in UserIds, CreateUser(p, u) PROVE UNCHANGED tier
  <2>1. /\ DOMAIN users' = DOMAIN users \cup {u}
        /\ u \notin DOMAIN users
        /\ users'[u].tier = "free"
        /\ \A v \in DOMAIN users : users'[v] = users[v]
    <3>1. users'[u] = [email |-> Normal[call[p].spelling], password |-> call[p].password,
                       tier |-> "free"]
      BY <1>2, Created DEF AccountsInv
    <3> QED BY <1>2, <3>1, Created DEF AccountsInv
  <2>2. \A v \in UserIds : Tier(v)' = Tier(v)
    BY <2>1 DEF Tier
  <2> QED BY <2>2 DEF tier
<1>3. ASSUME NEW p \in Calls, call[p].pc = "upgrade", SetPremium(call[p].user)
      PROVE  \/ UNCHANGED tier
             \/ tier[call[p].user] = "free" /\ tier' = [tier EXCEPT ![call[p].user] = "premium"]
  <2>1. PICK u \in UserIds : u = call[p].user /\ u \in DOMAIN users
    BY <1>3, CallFields DEF AccountsInv, CallersExist
  <2>2. users[u].tier \in Tiers
    BY <2>1, UserFields DEF AccountsInv, UserRow
  <2>3. /\ DOMAIN users' = DOMAIN users
        /\ users'[u].tier = "premium"
        /\ \A v \in DOMAIN users : v # u => users'[v].tier = users[v].tier
    BY <1>3, <2>1, Upgraded DEF AccountsInv
  <2>4. /\ Tier(u)' = "premium"
        /\ Tier(u) \in Tiers
        /\ \A v \in UserIds \ {u} : Tier(v)' = Tier(v)
    BY <2>1, <2>2, <2>3 DEF Tier
  <2>5. CASE Tier(u) = "premium"
    BY <2>4, <2>5 DEF tier
  <2>6. CASE Tier(u) = "free"
    BY <2>1, <2>4, <2>6 DEF tier
  <2> QED BY <2>4, <2>5, <2>6 DEF Tiers
<1>4. ASSUME NEW p \in Calls, RegisterStep(p) PROVE UNCHANGED tier
  <2>1. UNCHANGED users \/ \E u \in UserIds : CreateUser(p, u)
    BY <1>4 DEF RegisterStep, Register, Insert, InsertReplyLost, InsertRefused
  <2> QED BY <1>1, <1>2, <2>1 DEF tier, Tier
<1>5. ASSUME NEW p \in Calls, VerifyStep(p)
      PROVE  UNCHANGED users \/ (call[p].pc = "upgrade" /\ SetPremium(call[p].user))
  BY <1>5 DEF VerifyStep, Verify, Verdict, UpgradeTier, UpgradeReplyLost
<1>6. CASE UNCHANGED accounts
  BY <1>6 DEF tier, Tier, accounts
<1>7. ASSUME NEW p \in Calls, CallFails(p) PROVE UNCHANGED users
  BY <1>7 DEF CallFails
<1>8. CASE Outside
  BY <1>1, <1>8 DEF Outside, Login, PlayChanges
<1> QED BY <1>1, <1>3, <1>4, <1>5, <1>6, <1>7, <1>8 DEF AccountsNext

\* Only a purchase that was active at some time, or a test token, sets a tier.
THEOREM PremiumWasBought == AccountsSpec => PremiumIsBought
<1>1. AccountsInv /\ [AccountsNext]_accounts =>
        [\A u \in UserIds : Tier(u) = "free" /\ Tier(u)' = "premium" =>
           \E p \in Calls : /\ call[p].pc = "upgrade" /\ call[p].user = u
                            /\ call[p].purchase \in paid \cup Sandbox]_accounts
  <2> SUFFICES ASSUME AccountsInv, [AccountsNext]_accounts,
                      NEW u \in UserIds, Tier(u) = "free", Tier(u)' = "premium"
               PROVE  \E p \in Calls : /\ call[p].pc = "upgrade" /\ call[p].user = u
                                       /\ call[p].purchase \in paid \cup Sandbox
    OBVIOUS
  <2>1. tier[u] = "free" /\ tier'[u] = "premium"
    BY DEF tier
  <2>2. PICK p \in Calls : /\ call[p].pc = "upgrade"
                           /\ tier' = [tier EXCEPT ![call[p].user] = "premium"]
    BY <2>1, TierMoves
  <2>3. call[p].user = u
    BY <2>1, <2>2 DEF tier
  <2>4. call[p].purchase \in paid \cup Sandbox
    BY <2>2 DEF AccountsInv, UpgradesBought
  <2> QED BY <2>2, <2>3, <2>4
<1> QED BY <1>1, AccountsSafe, PTL DEF AccountsSpec, PremiumIsBought

-----------------------------------------------------------------------------
\* The composition restricts the accounts in nothing.
THEOREM AccountsWithin == AQSpec => AccountsSpec
<1>1. AQInit => AccountsInit
  BY DEF AQInit
<1>2. [AQNext]_<<accounts, ocr>> => [AccountsNext]_accounts
  BY DEF AQNext
<1> QED BY <1>1, <1>2, PTL DEF AQSpec, AccountsSpec

\* The accounts with the quota implement OcrQuota for any accounts, requests,
\* limit and faults: its Upgrade is the UPDATE of the tier.
THEOREM QuotaImplemented == AQSpec => ImplementsQuota
<1>1. AQInit => Quota!Init
  <2> SUFFICES ASSUME AQInit PROVE tier = [u \in UserIds |-> "free"]
    BY DEF AQInit
  <2> QED BY DEF AQInit, AccountsInit, EmptyTable, tier, Tier
<1>2. AccountsInv /\ [AQNext]_<<accounts, ocr>> => [Quota!Next]_(Quota!vars)
  <2> SUFFICES ASSUME AccountsInv, [AQNext]_<<accounts, ocr>>
               PROVE  Quota!Next \/ UNCHANGED Quota!vars
    OBVIOUS
  <2>1. CASE AccountsNext /\ UNCHANGED ocr
    <3>1. CASE UNCHANGED tier
      BY <2>1, <3>1 DEF Quota!vars, ocr
    <3>2. ASSUME NEW p \in Calls, call[p].pc = "upgrade", tier[call[p].user] = "free",
                 tier' = [tier EXCEPT ![call[p].user] = "premium"]
          PROVE  Quota!Next
      <4>1. call[p].user \in UserIds
        BY <3>2, CallFields DEF AccountsInv
      <4>2. Quota!Upgrade(call[p].user)
        BY <2>1, <3>2 DEF Quota!Upgrade, ocr
      <4> QED BY <4>1, <4>2 DEF Quota!Next
    <3> QED BY <2>1, <3>1, <3>2, TierMoves
  <2>2. ASSUME NEW p \in Requests, OcrStep(p) PROVE Quota!Next
    BY <2>2 DEF OcrStep, Process, Quota!Next, Quota!Step
  <2>3. CASE Quota!Tick
    BY <2>3 DEF Quota!Next
  <2>4. CASE UNCHANGED <<accounts, ocr>>
    BY <2>4 DEF accounts, ocr, Quota!vars, tier, Tier
  <2> QED BY <2>1, <2>2, <2>3, <2>4 DEF AQNext
<1>3. AQSpec => []AccountsInv
  BY AccountsWithin, AccountsSafe, PTL
<1> QED BY <1>1, <1>2, <1>3, PTL DEF AQSpec, ImplementsQuota, Quota!Spec

=============================================================================
