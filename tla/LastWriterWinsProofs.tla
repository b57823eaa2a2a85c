------------------------ MODULE LastWriterWinsProofs ------------------------
(***************************************************************************)
(* The last-writer-wins register does hold the latest of its writes.       *)
(***************************************************************************)
EXTENDS LastWriterWins, TablesProofs

LEMMA ReceiveStep ==
  ASSUME Times \subseteq Nat, TypeOK, Latest, NEW k \in Ids, NEW w \in Write, Receive(k, w)
  PROVE  TypeOK' /\ Latest'
<1>1. log' = [log EXCEPT ![k] = @ \cup {w}] /\ log' \in [Ids -> SUBSET Write]
  BY DEF Receive, TypeOK
<1>2. /\ DOMAIN reg \subseteq Ids
      /\ \A i \in DOMAIN reg : reg[i] \in Write
  BY TableRows DEF TypeOK
<1>3. /\ \A x \in Write : x.ts \in Nat
      /\ \A i \in Ids : \A x \in log[i] : x \in Write /\ x.ts \in Nat
  <2>1. \A x \in Write : x.ts \in Nat
    BY DEF Write
  <2>2. \A i \in Ids : log[i] \subseteq Write
    BY DEF TypeOK
  <2> QED BY <2>1, <2>2
<1>4. CASE \E x \in log[k] : x.ts >= w.ts
  <2>1. reg' = reg
    BY <1>4 DEF Receive
  <2>2. w.ts <= reg[k].ts
    <3>1. PICK x \in log[k] : x.ts >= w.ts
      BY <1>4
    <3>2. x.ts <= reg[k].ts /\ reg[k] \in log[k]
      BY <3>1 DEF Latest
    <3> QED BY <1>3, <3>1, <3>2
  <2> QED BY <1>1, <1>4, <2>1, <2>2 DEF TypeOK, Latest
<1>5. CASE ~\E x \in log[k] : x.ts >= w.ts
  <2>1. reg' = Put(reg, k, w)
    BY <1>5 DEF Receive
  <2>2. TypeOK'
    BY <1>1, <2>1, PutIsTable DEF TypeOK
  <2>3. \A x \in log[k] : x.ts <= w.ts
    BY <1>3, <1>5
  <2>4. Latest'
    BY <1>1, <1>2, <1>3, <2>1, <2>3 DEF Latest, Put, TypeOK
  <2> QED BY <2>2, <2>4
<1> QED BY <1>4, <1>5

\* A value set back is the only write that counts, and so the latest.
LEMMA SetBackStep ==
  ASSUME Times \subseteq Nat, TypeOK, Latest, NEW k \in Ids, NEW time \in Times,
         SetBack(k, time)
  PROVE  TypeOK' /\ Latest'
<1> DEFINE w == [reg[k] EXCEPT !.ts = time]
<1>1. reg[k] \in Write
  BY TableRows DEF SetBack, TypeOK
<1>2. w \in Write /\ w.ts = time /\ time \in Nat
  BY <1>1 DEF Write
<1>3. log' = [log EXCEPT ![k] = {w}] /\ reg' = Put(reg, k, w)
  BY DEF SetBack
<1> HIDE DEF w
<1>4. TypeOK'
  BY <1>2, <1>3, PutIsTable DEF TypeOK
<1>5. Latest'
  BY <1>2, <1>3 DEF Latest, Put, TypeOK
<1> QED BY <1>4, <1>5

\* A write is late exactly when the value is no older.
LEMMA LateWrites ==
  ASSUME Times \subseteq Nat, TypeOK, Latest, NEW k \in Ids, NEW ts \in Times
  PROVE  (k \in DOMAIN reg /\ ts <= reg[k].ts) <=> \E x \in log[k] : x.ts >= ts
<1>1. ts \in Nat /\ \A x \in log[k] : x.ts \in Nat
  <2>1. log[k] \subseteq Write
    BY DEF TypeOK
  <2>2. \A x \in Write : x.ts \in Nat
    BY DEF Write
  <2> QED BY <2>1, <2>2
<1>2. CASE log[k] = {}
  BY <1>2 DEF Latest
<1>3. CASE log[k] # {}
  <2>1. k \in DOMAIN reg /\ reg[k] \in log[k] /\ \A x \in log[k] : x.ts <= reg[k].ts
    BY <1>3 DEF Latest
  <2> QED BY <1>1, <2>1
<1> QED BY <1>2, <1>3

LEMMA InitLatest == Init => TypeOK /\ Latest
BY EmptyIsTable DEF Init, TypeOK, Latest, EmptyTable

\* The value of every id is the latest of the writes it has received.
THEOREM LatestIsHeld ==
  ASSUME Times \subseteq Nat
  PROVE  Spec => []Latest
<1>1. TypeOK /\ Latest /\ [Next]_<<log, reg>> => TypeOK' /\ Latest'
  BY ReceiveStep DEF Next, TypeOK, Latest
<1> QED BY <1>1, InitLatest, PTL DEF Spec

\* So it is when times are set back, of the writes received since.
THEOREM LatestIsHeldAfresh ==
  ASSUME Times \subseteq Nat
  PROVE  AfreshSpec => []Latest
<1>1. TypeOK /\ Latest /\ [NextAfresh]_<<log, reg>> => TypeOK' /\ Latest'
  BY ReceiveStep, SetBackStep DEF NextAfresh, Next, TypeOK, Latest, SetBack
<1> QED BY <1>1, InitLatest, PTL DEF AfreshSpec

=============================================================================
