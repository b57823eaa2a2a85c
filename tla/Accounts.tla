------------------------------ MODULE Accounts ------------------------------
(***************************************************************************)
(* Accounts: registration, login and the purchase of the premium tier.     *)
(*                                                                         *)
(* POST /auth/register looks the address up, hashes the password and       *)
(* inserts the row, whose id the database draws and whose address a UNIQUE *)
(* constraint keeps apart from the others'.  POST /auth/login reads one    *)
(* row.  POST /subscriptions/verify asks Google Play about a purchase and  *)
(* then sets the tier.  Calls interleave between their statements.         *)
(*                                                                         *)
(* A token carries the account and the tier it was issued with; its expiry *)
(* is not modelled, a request with an expired token does nothing.          *)
(***************************************************************************)
EXTENDS Naturals, Tables

CONSTANTS
  UserIds,
  Spellings,   \* of e-mail addresses, as clients send them
  Addresses,
  Normal,      \* the address a spelling stands for: lower case, no space around
  Passwords,
  Purchases,   \* purchase tokens
  Sandbox,     \* those Google is not asked about: test tokens, or no credentials
  Calls        \* account requests the server handles at once

ASSUME AccountAssumption ==
  /\ Normal \in [Spellings -> Addresses]
  /\ Sandbox \subseteq Purchases

VARIABLES
  users,       \* the table
  play,        \* Google's state of each purchase
  tokens,      \* per account: the tiers of the tokens issued for it
  call,        \* the account requests in flight
  registered,  \* history: spelling and password of each registration answered 201
  paid,        \* history: purchases that have been active
  promised     \* history: accounts answered "upgraded to premium"

accounts == <<users, play, tokens, call, registered, paid, promised>>

-----------------------------------------------------------------------------
Tiers == {"free", "premium"}

UserRow == [email : Addresses, password : Passwords, tier : Tiers]

\* "active" stands for the states Google Play reports that Verdict accepts.
PlayStates == {"inactive", "active"}

NoCall == [pc |-> "idle"]

CallState ==
  {NoCall}
    \cup [pc : {"insert"}, spelling : Spellings, password : Passwords]
    \cup [pc : {"verdict", "upgrade"}, user : UserIds, purchase : Purchases]

\* Rows hold addresses and not what was typed; tokens and calls are of their
\* types.
AccountsTypeOK ==
  /\ users \in Table(UserIds, UserRow)
  /\ play \in [Purchases -> PlayStates]
  /\ tokens \in [UserIds -> SUBSET Tiers]
  /\ call \in [Calls -> CallState]
  /\ registered \subseteq Spellings \X Passwords
  /\ paid \subseteq Purchases
  /\ promised \subseteq UserIds

AccountsInit ==
  /\ users = EmptyTable
  /\ play = [k \in Purchases |-> "inactive"]
  /\ tokens = [u \in UserIds |-> {}]
  /\ call = [p \in Calls |-> NoCall]
  /\ registered = {} /\ paid = {} /\ promised = {}

-----------------------------------------------------------------------------
Hang(p) == call' = [call EXCEPT ![p] = NoCall]

\* Mutant: the address is stored and compared as it was typed.
AddressRaw(spelling) == spelling

\* Register trims and lowers it.
Address(spelling) == Normal[spelling]

Owner(address) == {u \in DOMAIN users : users[u].email = address}

\* GenerateToken with the tier of the row.
Issue(u, tier) == tokens' = [tokens EXCEPT ![u] = @ \cup {tier}]

\* The lookup of Register finds nobody.  The row is inserted only after the
\* password is hashed.  A taken address is answered 409 and changes nothing.
Register(p, spelling, password) ==
  /\ call[p].pc = "idle"
  /\ Owner(Address(spelling)) = {}
  /\ call' = [call EXCEPT ![p] =
                [pc |-> "insert", spelling |-> spelling, password |-> password]]
  /\ UNCHANGED <<users, play, tokens, registered, paid, promised>>

\* Mutants: no UNIQUE constraint; the later registration takes the row over.
FreeAlways(address) == TRUE
InsertTakesOver(p) ==
  LET address == Address(call[p].spelling)
  IN  /\ call[p].pc = "insert"
      /\ \E u \in UserIds :
           /\ IF Owner(address) = {} THEN u \notin DOMAIN users ELSE u \in Owner(address)
           /\ users' = Put(users, u, [email |-> address, password |-> call[p].password,
                                      tier |-> "free"])
           /\ Issue(u, "free")
      /\ registered' = registered \cup {<<call[p].spelling, call[p].password>>}
      /\ Hang(p)
      /\ UNCHANGED <<play, paid, promised>>

\* email VARCHAR(255) UNIQUE
Free(address) == Owner(address) = {}

\* The row is committed.  The database draws the id.
CreateUser(p, u) ==
  /\ call[p].pc = "insert"
  /\ Free(Address(call[p].spelling))
  /\ u \notin DOMAIN users
  /\ users' = Put(users, u, [email |-> Address(call[p].spelling),
                             password |-> call[p].password, tier |-> "free"])
  /\ Hang(p)

\* The answer is 201 with a token.
Insert(p) ==
  /\ \E u \in UserIds : CreateUser(p, u) /\ Issue(u, "free")
  /\ registered' = registered \cup {<<call[p].spelling, call[p].password>>}
  /\ UNCHANGED <<play, paid, promised>>

\* The row is committed, its reply is lost: 500 and no token.
InsertReplyLost(p) ==
  /\ \E u \in UserIds : CreateUser(p, u)
  /\ UNCHANGED <<play, tokens, registered, paid, promised>>

\* Another registration of the address came first: 500.
InsertRefused(p) ==
  /\ call[p].pc = "insert"
  /\ ~Free(Address(call[p].spelling))
  /\ Hang(p)
  /\ UNCHANGED <<users, play, tokens, registered, paid, promised>>

\* Mutant: Login compares what was typed.
LoginAddressRaw(spelling) == spelling

LoginAddress(spelling) == Normal[spelling]

\* GetUserByEmail returns a row of the address; bcrypt compares the password.
Opens(u, spelling, password) ==
  u \in Owner(LoginAddress(spelling)) /\ users[u].password = password

\* An unknown address and a wrong password are both answered 401.
Login(spelling, password) ==
  /\ \E u \in UserIds : Opens(u, spelling, password) /\ Issue(u, users[u].tier)
  /\ UNCHANGED <<users, play, call, registered, paid, promised>>

-----------------------------------------------------------------------------
\* AuthMiddleware lets a request in with any token that was issued.
Authorized(u) == tokens[u] # {}

Verify(p, u, purchase) ==
  /\ call[p].pc = "idle"
  /\ Authorized(u)
  /\ call' = [call EXCEPT ![p] =
                [pc |-> "verdict", user |-> u, purchase |-> purchase]]
  /\ UNCHANGED <<users, play, tokens, registered, paid, promised>>

\* Mutant: a pending payment or an ended subscription is no error.
AcceptedAny(purchase) == TRUE

\* VerifySubscription: Google is asked once, and its answer may be out of date
\* when the tier is set.
Accepted(purchase) == purchase \in Sandbox \/ play[purchase] = "active"

\* Mutant: a premium token is issued before the tier is set.
VerdictIssuesToken(p) ==
  /\ call[p].pc = "verdict"
  /\ IF Accepted(call[p].purchase)
     THEN call' = [call EXCEPT ![p].pc = "upgrade"] /\ Issue(call[p].user, "premium")
     ELSE Hang(p) /\ UNCHANGED tokens
  /\ UNCHANGED <<users, play, registered, paid, promised>>

\* Any other verdict is 400.
Verdict(p) ==
  /\ call[p].pc = "verdict"
  /\ IF Accepted(call[p].purchase) THEN call' = [call EXCEPT ![p].pc = "upgrade"]
     ELSE Hang(p)
  /\ UNCHANGED <<users, play, tokens, registered, paid, promised>>

\* UpdateUserTier.
SetPremium(u) ==
  users' = IF u \in DOMAIN users THEN [users EXCEPT ![u].tier = "premium"] ELSE users

\* Mutant: the error of UpdateUserTier is not looked at.
UpgradeUnnoticed(p) ==
  /\ call[p].pc = "upgrade"
  /\ \/ SetPremium(call[p].user)
     \/ UNCHANGED users
  /\ promised' = promised \cup {call[p].user}
  /\ Hang(p)
  /\ UNCHANGED <<play, tokens, registered, paid>>

\* The tier is set and the answer says so.
UpgradeTier(p) ==
  /\ call[p].pc = "upgrade"
  /\ SetPremium(call[p].user)
  /\ promised' = promised \cup {call[p].user}
  /\ Hang(p)
  /\ UNCHANGED <<play, tokens, registered, paid>>

\* The tier is set and the reply of the UPDATE is lost: 500.
UpgradeReplyLost(p) ==
  /\ call[p].pc = "upgrade"
  /\ SetPremium(call[p].user)
  /\ Hang(p)
  /\ UNCHANGED <<play, tokens, registered, paid, promised>>

\* A statement or the call of Google fails, the client goes away or the server
\* stops: nothing is written, nothing taken back.
CallFails(p) ==
  /\ call[p].pc # "idle"
  /\ Hang(p)
  /\ UNCHANGED <<users, play, tokens, registered, paid, promised>>

\* A purchase is paid for, ends, is renewed.
PlayChanges(purchase) ==
  /\ play' = [play EXCEPT ![purchase] = IF @ = "active" THEN "inactive" ELSE "active"]
  /\ paid' = paid \cup {purchase}
  /\ UNCHANGED <<users, tokens, call, registered, promised>>

-----------------------------------------------------------------------------
RegisterStep(p) ==
  \/ \E spelling \in Spellings, password \in Passwords : Register(p, spelling, password)
  \/ Insert(p)
  \/ InsertRefused(p)
  \/ InsertReplyLost(p)

VerifyStep(p) ==
  \/ \E u \in UserIds, purchase \in Purchases : Verify(p, u, purchase)
  \/ Verdict(p)
  \/ UpgradeTier(p)
  \/ UpgradeReplyLost(p)

Outside ==
  \/ \E spelling \in Spellings, password \in Passwords : Login(spelling, password)
  \/ \E purchase \in Purchases : PlayChanges(purchase)

AccountsNext ==
  \/ \E p \in Calls : RegisterStep(p) \/ VerifyStep(p) \/ CallFails(p)
  \/ Outside

AccountsSpec == AccountsInit /\ [][AccountsNext]_accounts

-----------------------------------------------------------------------------
\* The tier the row of an account has; ids not drawn yet count as free.
Tier(u) == IF u \in DOMAIN users THEN users[u].tier ELSE "free"

\* Whoever was told that an account was created can log in to it with that
\* password ever after, under any spelling of the address, whichever row of the
\* address the lookup returns: no overlapping, refused or repeated registration
\* makes a second account of it or takes it over.
RegisteredCanLogin ==
  \A r \in registered, spelling \in Spellings :
    Normal[spelling] = Normal[r[1]] =>
      /\ Owner(LoginAddress(spelling)) # {}
      /\ \A u \in Owner(LoginAddress(spelling)) : Opens(u, spelling, r[2])

\* A token names an account that exists, and claims no tier its row has not: a
\* token may be behind the row, never ahead of it.
TokensNotAhead ==
  \A u \in UserIds : \A tier \in tokens[u] :
    u \in DOMAIN users /\ tier \in {"free", users[u].tier}

\* "Upgrades account to premium in PostgreSQL upon valid purchase token
\* confirmation": who was told so is premium, and stays it.
PromisesKept == \A u \in promised : Tier(u) = "premium"

\* A tier is set only by a call whose purchase was active at some time, though
\* it may have ended between Google's answer and the UPDATE.
PremiumIsBought ==
  [][\A u \in UserIds : Tier(u) = "free" /\ Tier(u)' = "premium" =>
       \E p \in Calls : /\ call[p].pc = "upgrade" /\ call[p].user = u
                        /\ call[p].purchase \in paid \cup Sandbox]_accounts

=============================================================================
