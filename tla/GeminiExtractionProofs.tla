----------------------- MODULE GeminiExtractionProofs -----------------------
(***************************************************************************)
(* What is asked of Gemini and in which order, for every list of built-in, *)
(* configured and listed models, any number of requests at once and any    *)
(* time the cache lasts.                                                   *)
(*                                                                         *)
(* The lists are built by loops over sequences.  What the loops compute is *)
(* shown by induction over the part of the list they have been through; no *)
(* induction theorem with an operator as its parameter is needed, since a  *)
(* set of naturals, given as a set, has a least element (LeastNat).        *)
(***************************************************************************)
EXTENDS GeminiExtraction, WellFoundedInduction, TLAPS

LEMMA LeastNat ==
  ASSUME NEW S \in SUBSET Nat, S # {}
  PROVE  \E n \in S : \A m \in S : n <= m
<1> DEFINE Order == {pair \in Nat \X Nat : pair[1] < pair[2]}
<1>1. IsWellFoundedOn(Order, Nat)
  BY NatLessThanWellFounded DEF OpToRel
<1>2. \A m, n \in Nat : m < n => <<m, n>> \in Order
  OBVIOUS
<1> HIDE DEF Order
<1>3. PICK n \in S : \A m \in S : ~(<<m, n>> \in Order)
  BY <1>1, WFMin
<1>4. ASSUME NEW m \in S PROVE n <= m
  <2>1. ~(m < n)
    BY <1>2, <1>3
  <2> QED BY <2>1
<1> QED BY <1>4

\* Induction up to N, over a set.
LEMMA UpTo ==
  ASSUME NEW N \in Nat, NEW S, 0 \in S, \A n \in 0..(N - 1) : n \in S => n + 1 \in S
  PROVE  0..N \subseteq S
<1> DEFINE Left == (0..N) \ S
<1>1. SUFFICES ASSUME Left # {} PROVE FALSE
  OBVIOUS
<1>2. PICK n \in Left : \A m \in Left : n <= m
  <2>1. Left \in SUBSET Nat
    OBVIOUS
  <2> HIDE DEF Left
  <2> QED BY <1>1, <2>1, LeastNat
<1>3. n # 0 /\ n - 1 \in 0..(N - 1) /\ n - 1 \in S
  BY <1>2
<1> QED BY <1>2, <1>3

-----------------------------------------------------------------------------
(* The loops *)

\* The values g a loop over 1..N goes through that begins with x and whose body is Body[n].
Runs(g, N, x, Body) == g[0] = x /\ \A n \in 0..(N - 1) : g[n + 1] = Body[n + 1][g[n]]

LEMMA LoopRuns ==
  ASSUME NEW N \in Nat, NEW X, NEW x \in X, NEW Body \in [1..N -> [X -> X]]
  PROVE  \E g \in [0..N -> X] : Runs(g, N, x, Body)
<1> DEFINE S == {k \in 0..N : \E g \in [0..k -> X] : Runs(g, k, x, Body)}
<1>1. 0 \in S
  <2>1. [n \in 0..0 |-> x] \in [0..0 -> X] /\ Runs([n \in 0..0 |-> x], 0, x, Body)
    BY DEF Runs
  <2> QED BY <2>1
<1>2. ASSUME NEW k \in 0..(N - 1), k \in S PROVE k + 1 \in S
  <2>1. PICK g \in [0..k -> X] : Runs(g, k, x, Body)
    BY <1>2
  <2> DEFINE h == [n \in 0..(k + 1) |-> IF n = k + 1 THEN Body[k + 1][g[k]] ELSE g[n]]
  <2>2. h \in [0..(k + 1) -> X]
    OBVIOUS
  <2>3. (\A n \in 0..k : h[n] = g[n]) /\ h[k + 1] = Body[k + 1][g[k]]
    OBVIOUS
  <2> HIDE DEF h
  <2>4. h[0] = x
    BY <2>1, <2>3 DEF Runs
  <2>5. ASSUME NEW n \in 0..k PROVE h[n + 1] = Body[n + 1][h[n]]
    <3>1. CASE n = k
      BY <2>3, <3>1
    <3>2. CASE n \in 0..(k - 1)
      <4>1. g[n + 1] = Body[n + 1][g[n]]
        BY <2>1, <3>2 DEF Runs
      <4> QED BY <2>3, <3>2, <4>1
    <3> QED BY <3>1, <3>2
  <2>6. Runs(h, k + 1, x, Body)
    BY <2>4, <2>5 DEF Runs
  <2> QED BY <2>2, <2>6
<1>3. 0..N \subseteq S
  <2> HIDE DEF S
  <2> QED BY <1>1, <1>2, UpTo
<1> QED BY <1>3

LEMMA AddIsList ==
  ASSUME NEW M, NEW c \in Seq(M), NEW m \in M
  PROVE  Add(c, m) \in Seq(M)
BY DEF Add

LEMMA KeepIsList ==
  ASSUME NEW M, NEW c \in Seq(M), NEW m \in M, NEW wanted
  PROVE  Keep(c, m, wanted) \in Seq(M)
BY DEF Keep

\* AddAll adds the elements of its list one by one.
LEMMA AddAllIs ==
  ASSUME NEW M, NEW list \in Seq(M)
  PROVE  \E g : /\ AddAll(list) = g[Len(list)]
                /\ g[0] = <<>>
                /\ \A n \in 0..(Len(list) - 1) : g[n + 1] = Add(g[n], list[n + 1])
<1> DEFINE N == Len(list)
           Adds(g) == g = [n \in 0..N |-> IF n = 0 THEN <<>> ELSE Add(g[n - 1], list[n])]
           Body == [n \in 1..N |-> [c \in Seq(M) |-> Add(c, list[n])]]
           added == CHOOSE g : Adds(g)
<1>1. N \in Nat /\ <<>> \in Seq(M) /\ \A n \in 1..N : list[n] \in M
  OBVIOUS
<1>2. Body \in [1..N -> [Seq(M) -> Seq(M)]]
  BY <1>1, AddIsList
<1>3. \A n \in 1..N, c \in Seq(M) : Body[n][c] = Add(c, list[n])
  OBVIOUS
<1>4. PICK g \in [0..N -> Seq(M)] :
        g[0] = <<>> /\ \A n \in 0..(N - 1) : g[n + 1] = Body[n + 1][g[n]]
  <2> DEFINE X == Seq(M)
             x == <<>>
  <2>1. N \in Nat /\ x \in X /\ Body \in [1..N -> [X -> X]]
    BY <1>1, <1>2
  <2> HIDE DEF N, Body, X, x
  <2>2. \E g \in [0..N -> X] : Runs(g, N, x, Body)
    BY <2>1, LoopRuns
  <2> QED BY <2>2 DEF X, x, Runs
<1>5. Adds(g)
  <2> HIDE DEF Body
  <2>1. ASSUME NEW n \in 0..N
        PROVE  g[n] = IF n = 0 THEN <<>> ELSE Add(g[n - 1], list[n])
    <3>1. CASE n = 0
      BY <1>4, <3>1
    <3>2. CASE n # 0
      <4>1. n - 1 \in 0..(N - 1) /\ (n - 1) + 1 = n /\ g[n - 1] \in Seq(M)
        BY <1>1, <3>2
      <4> QED BY <1>3, <1>4, <3>2, <4>1
    <3> QED BY <3>1, <3>2
  <2> QED BY <2>1
<1>6. AddAll(list) = added[N]
  BY DEF AddAll
<1>7. Adds(added)
  <2> HIDE DEF Adds
  <2> QED BY <1>5
<1> HIDE DEF added
<1>8. added[0] = <<>> /\ \A n \in 0..(N - 1) : added[n + 1] = Add(added[n], list[n + 1])
  BY <1>1, <1>7
<1> QED BY <1>6, <1>8

LEMMA KeepAllIs ==
  ASSUME NEW M, NEW listing \in Seq(M), NEW wanted
  PROVE  \E g : /\ KeepAll(listing, wanted) = g[Len(listing)]
                /\ g[0] = <<>>
                /\ \A n \in 0..(Len(listing) - 1) :
                     g[n + 1] = Keep(g[n], listing[n + 1], wanted)
<1> DEFINE N == Len(listing)
           Keeps(g) == g = [n \in 0..N |-> IF n = 0 THEN <<>>
                                           ELSE Keep(g[n - 1], listing[n], wanted)]
           Body == [n \in 1..N |-> [c \in Seq(M) |-> Keep(c, listing[n], wanted)]]
           kept == CHOOSE g : Keeps(g)
<1>1. N \in Nat /\ <<>> \in Seq(M) /\ \A n \in 1..N : listing[n] \in M
  OBVIOUS
<1>2. Body \in [1..N -> [Seq(M) -> Seq(M)]]
  BY <1>1, KeepIsList
<1>3. \A n \in 1..N, c \in Seq(M) : Body[n][c] = Keep(c, listing[n], wanted)
  OBVIOUS
<1>4. PICK g \in [0..N -> Seq(M)] :
        g[0] = <<>> /\ \A n \in 0..(N - 1) : g[n + 1] = Body[n + 1][g[n]]
  <2> DEFINE X == Seq(M)
             x == <<>>
  <2>1. N \in Nat /\ x \in X /\ Body \in [1..N -> [X -> X]]
    BY <1>1, <1>2
  <2> HIDE DEF N, Body, X, x
  <2>2. \E g \in [0..N -> X] : Runs(g, N, x, Body)
    BY <2>1, LoopRuns
  <2> QED BY <2>2 DEF X, x, Runs
<1>5. Keeps(g)
  <2> HIDE DEF Body
  <2>1. ASSUME NEW n \in 0..N
        PROVE  g[n] = IF n = 0 THEN <<>> ELSE Keep(g[n - 1], listing[n], wanted)
    <3>1. CASE n = 0
      BY <1>4, <3>1
    <3>2. CASE n # 0
      <4>1. n - 1 \in 0..(N - 1) /\ (n - 1) + 1 = n /\ g[n - 1] \in Seq(M)
        BY <1>1, <3>2
      <4> QED BY <1>3, <1>4, <3>2, <4>1
    <3> QED BY <3>1, <3>2
  <2> QED BY <2>1
<1>6. KeepAll(listing, wanted) = kept[N]
  BY DEF KeepAll
<1>7. Keeps(kept)
  <2> HIDE DEF Keeps
  <2> QED BY <1>5
<1> HIDE DEF kept
<1>8. /\ kept[0] = <<>>
      /\ \A n \in 0..(N - 1) : kept[n + 1] = Keep(kept[n], listing[n + 1], wanted)
  BY <1>1, <1>7
<1> QED BY <1>6, <1>8

\* What is kept of a listing is wanted.
LEMMA KeepAllKeeps ==
  ASSUME NEW listing \in Seq(Models), NEW wanted
  PROVE  KeepAll(listing, wanted) \in Seq(Models \cap wanted)
<1>1. PICK g : /\ KeepAll(listing, wanted) = g[Len(listing)]
               /\ g[0] = <<>>
               /\ \A n \in 0..(Len(listing) - 1) :
                    g[n + 1] = Keep(g[n], listing[n + 1], wanted)
  BY KeepAllIs
<1> DEFINE N == Len(listing)
           S == {n \in 0..N : g[n] \in Seq(Models \cap wanted)}
<1>2. N \in Nat
  OBVIOUS
<1>3. 0 \in S
  <2>1. <<>> \in Seq(Models \cap wanted)
    OBVIOUS
  <2>2. g[0] \in Seq(Models \cap wanted)
    BY <1>1, <2>1, Zenon
  <2> HIDE DEF N
  <2> QED BY <1>2, <2>2
<1>4. ASSUME NEW n \in 0..(N - 1), n \in S PROVE n + 1 \in S
  <2>1. listing[n + 1] \in Models
    BY <1>4
  <2>2. Keep(g[n], listing[n + 1], wanted) \in Seq(Models \cap wanted)
    BY <1>4, <2>1 DEF Keep
  <2> QED BY <1>1, <1>2, <1>4, <2>2
<1>5. 0..N \subseteq S
  <2> HIDE DEF S, N
  <2> QED BY <1>2, <1>3, <1>4, UpTo
<1> QED BY <1>1, <1>2, <1>5

\* No excluded model gets into the cache.
LEMMA DiscoveredIsUsable ==
  ASSUME NEW listing \in Seq(Models)
  PROVE  Discovered(listing) \in Seq(Models \ Excluded)
<1>1. /\ KeepAll(listing, Flash \ Excluded) \in Seq(Models \ Excluded)
      /\ KeepAll(listing, Gemini \ (Flash \cup Excluded)) \in Seq(Models \ Excluded)
  <2>1. \A wanted : wanted \cap Excluded = {} =>
          Seq(Models \cap wanted) \subseteq Seq(Models \ Excluded)
    OBVIOUS
  <2> QED BY <2>1, KeepAllKeeps
<1> QED BY <1>1 DEF Discovered

-----------------------------------------------------------------------------
(* The list of candidates *)

\* In list c no model that was only discovered comes before a known one.
KnownFirst(c) == \A i, j \in DOMAIN c : i < j /\ c[j] \in Known => c[i] \in Known

\* A list a request may work down.
GoodList(c) ==
  /\ c \in Seq(Models \ Excluded)
  /\ IsInjective(c)
  /\ KnownFirst(c)
  /\ Known \ Excluded \subseteq Range(c)

LEMMA AddStep ==
  ASSUME NEW c \in Seq(Models \ Excluded), IsInjective(c), NEW m \in Models
  PROVE  /\ Add(c, m) \in Seq(Models \ Excluded)
         /\ IsInjective(Add(c, m))
         /\ Range(Add(c, m)) = Range(c) \cup ({m} \ Excluded)
         /\ KnownFirst(c) /\ (m \in Known /\ m \notin Excluded => Range(c) \subseteq Known \/ m \in Range(c))
              => KnownFirst(Add(c, m))
<1>1. CASE m \in Excluded \cup Range(c)
  BY <1>1 DEF Add
<1>2. CASE m \notin Excluded /\ m \notin Range(c)
  <2> DEFINE d == Append(c, m)
             L == Len(c)
  <2>1. Add(c, m) = d
    BY <1>2 DEF Add
  <2>2. L \in Nat /\ DOMAIN c = 1..L
    OBVIOUS
  <2>3. d \in Seq(Models \ Excluded) /\ Len(d) = L + 1 /\ DOMAIN d = 1..(L + 1)
    BY <1>2
  <2>4. (\A i \in 1..L : d[i] = c[i]) /\ d[L + 1] = m
    OBVIOUS
  <2>5. \A i \in 1..L : c[i] \in Range(c)
    BY <2>2 DEF Range
  <2> HIDE DEF d, L
  <2>6. IsInjective(d)
    <3>1. SUFFICES ASSUME NEW i \in 1..(L + 1), NEW j \in 1..(L + 1), d[i] = d[j]
                   PROVE  i = j
      BY <2>3 DEF IsInjective
    <3>2. CASE i \in 1..L /\ j \in 1..L
      BY <2>2, <2>4, <3>1, <3>2 DEF IsInjective
    <3>3. CASE i = L + 1 /\ j \in 1..L
      BY <1>2, <2>4, <2>5, <3>1, <3>3
    <3>4. CASE j = L + 1 /\ i \in 1..L
      BY <1>2, <2>4, <2>5, <3>1, <3>4
    <3> QED BY <2>2, <3>2, <3>3, <3>4
  <2>7. Range(d) = Range(c) \cup {m}
    <3>1. ASSUME NEW x \in Range(d) PROVE x \in Range(c) \cup {m}
      <4>1. PICK i \in 1..(L + 1) : x = d[i]
        BY <2>3 DEF Range
      <4>2. i = L + 1 \/ i \in 1..L
        BY <2>2
      <4> QED BY <2>4, <2>5, <4>1, <4>2
    <3>2. m \in Range(d)
      <4>1. L + 1 \in DOMAIN d
        BY <2>2, <2>3
      <4> QED BY <2>4, <4>1 DEF Range
    <3>3. ASSUME NEW x \in Range(c) PROVE x \in Range(d)
      <4>1. PICK i \in 1..L : x = c[i]
        BY <2>2 DEF Range
      <4>2. i \in DOMAIN d
        BY <2>2, <2>3
      <4> QED BY <2>4, <4>1, <4>2 DEF Range
    <3> QED BY <3>1, <3>2, <3>3
  <2>8. ASSUME KnownFirst(c), m \in Known => Range(c) \subseteq Known
        PROVE  KnownFirst(d)
    <3>1. SUFFICES ASSUME NEW i \in 1..(L + 1), NEW j \in 1..(L + 1), i < j, d[j] \in Known
                   PROVE  d[i] \in Known
      BY <2>3 DEF KnownFirst
    <3>2. i \in 1..L
      BY <2>2, <3>1
    <3>3. CASE j \in 1..L
      BY <2>2, <2>4, <2>8, <3>1, <3>2, <3>3 DEF KnownFirst
    <3>4. CASE j = L + 1
      BY <2>4, <2>5, <2>8, <3>1, <3>2, <3>4
    <3> QED BY <2>2, <3>3, <3>4
  <2> QED BY <1>2, <2>1, <2>3, <2>6, <2>7, <2>8
<1> QED BY <1>1, <1>2

\* Where the list that is added begins with the built-in models and the configured one.
LEMMA KnownIsPrefix ==
  ASSUME NEW discovered \in Seq(Models)
  PROVE  LET list == Stable \o Configured \o discovered
             K == Len(Stable) + Len(Configured)
         IN /\ list \in Seq(Models) /\ K \in 0..Len(list)
            /\ Known = {list[i] : i \in 1..K}
<1> DEFINE list == Stable \o Configured \o discovered
           A == Len(Stable)
           B == Len(Configured)
<1>1. /\ Stable \in Seq(Models) /\ Configured \in Seq(Models)
      /\ A \in Nat /\ B \in Nat /\ Len(discovered) \in Nat
      /\ DOMAIN Stable = 1..A /\ DOMAIN Configured = 1..B
  BY ExtractionAssumption
<1>2. Stable \o Configured \in Seq(Models) /\ Len(Stable \o Configured) = A + B
  BY <1>1
<1>3. list \in Seq(Models) /\ Len(list) = A + B + Len(discovered)
  BY <1>1, <1>2
<1>4. \A i \in 1..(A + B) : list[i] = (Stable \o Configured)[i]
  BY <1>1, <1>2
<1>5. \A i \in 1..(A + B) : \/ i \in 1..A /\ (Stable \o Configured)[i] = Stable[i]
                            \/ i - A \in 1..B /\ (Stable \o Configured)[i] = Configured[i - A]
  <2> TAKE i \in 1..(A + B)
  <2>1. CASE i <= A
    BY <1>1, <2>1
  <2>2. CASE ~(i <= A)
    BY <1>1, <2>2
  <2> QED BY <2>1, <2>2
<1> HIDE DEF list, A, B
<1>6. \A i \in 1..(A + B) : list[i] \in Known
  BY <1>1, <1>4, <1>5 DEF Known, Range
<1>7. ASSUME NEW x \in Known PROVE \E i \in 1..(A + B) : x = list[i]
  <2>1. CASE x \in Range(Stable)
    <3>1. PICK i \in 1..A : x = Stable[i]
      BY <1>1, <2>1 DEF Range
    <3>2. i \in 1..(A + B) /\ list[i] = Stable[i]
      BY <1>1, <1>4, <1>5
    <3> QED BY <3>1, <3>2
  <2>2. CASE x \in Range(Configured)
    <3>1. PICK i \in 1..B : x = Configured[i]
      BY <1>1, <2>2 DEF Range
    <3>2. i + A \in 1..(A + B) /\ i + A \notin 1..A /\ (i + A) - A = i
      BY <1>1
    <3>3. list[i + A] = Configured[i]
      BY <1>4, <1>5, <3>2
    <3> QED BY <3>1, <3>2, <3>3
  <2> QED BY <2>1, <2>2 DEF Known
<1> QED BY <1>1, <1>3, <1>6, <1>7 DEF list, A, B

\* The list of candidates, whatever Google listed.
LEMMA CandidatesGood ==
  ASSUME NEW discovered \in Seq(Models)
  PROVE  GoodList(Candidates(discovered))
<1> DEFINE list == Stable \o Configured \o discovered
           K == Len(Stable) + Len(Configured)
           N == Len(list)
<1>1. list \in Seq(Models) /\ K \in 0..N /\ Known = {list[i] : i \in 1..K}
  BY KnownIsPrefix
<1>2. N \in Nat /\ \A n \in 1..N : list[n] \in Models
  BY <1>1
<1> HIDE DEF list, K
<1>3. PICK g : /\ AddAll(list) = g[N]
               /\ g[0] = <<>>
               /\ \A n \in 0..(N - 1) : g[n + 1] = Add(g[n], list[n + 1])
  BY <1>1, AddAllIs
<1> DEFINE Good(n) == /\ g[n] \in Seq(Models \ Excluded)
                      /\ IsInjective(g[n])
                      /\ KnownFirst(g[n])
                      /\ Range(g[n]) = {list[i] : i \in 1..n} \ Excluded
           S == {n \in 0..N : Good(n)}
<1>4. 0 \in S
  <2>1. <<>> \in Seq(Models \ Excluded) /\ DOMAIN <<>> = {}
    OBVIOUS
  <2>2. IsInjective(<<>>) /\ KnownFirst(<<>>) /\ Range(<<>>) = {}
    BY <2>1, Zenon DEF IsInjective, KnownFirst, Range
  <2>3. {list[i] : i \in 1..0} = {}
    OBVIOUS
  <2>4. Good(0)
    BY <1>3, <2>1, <2>2, <2>3, Zenon
  <2> HIDE DEF N, Good
  <2> QED BY <1>2, <2>4
<1>5. ASSUME NEW n \in 0..(N - 1), n \in S PROVE n + 1 \in S
  <2> DEFINE m == list[n + 1]
  <2>1. Good(n) /\ n \in Nat /\ n + 1 \in 1..N /\ m \in Models
    BY <1>2, <1>5
  <2>2. {list[i] : i \in 1..(n + 1)} = {list[i] : i \in 1..n} \cup {m}
    <3>1. 1..(n + 1) = (1..n) \cup {n + 1}
      BY <2>1
    <3> HIDE DEF N
    <3> QED BY <3>1, Zenon
  <2>3. g[n + 1] = Add(g[n], m)
    BY <1>3, <1>5
  <2>4. m \in Known /\ m \notin Excluded => Range(g[n]) \subseteq Known \/ m \in Range(g[n])
    <3>1. CASE n < K
      <4>1. 1..n \subseteq 1..K
        BY <1>1, <2>1, <3>1
      <4> QED BY <1>1, <2>1, <4>1
    <3>2. CASE K <= n
      <4>1. 1..K \subseteq 1..n
        BY <1>1, <2>1, <3>2
      <4> QED BY <1>1, <2>1, <4>1
    <3> QED BY <1>1, <2>1, <3>1, <3>2
  <2> HIDE DEF m
  <2>5. Good(n + 1)
    <3> DEFINE c == g[n]
               d == Add(c, m)
    <3>1. /\ c \in Seq(Models \ Excluded) /\ IsInjective(c) /\ KnownFirst(c)
          /\ m \in Models
      BY <2>1
    <3>2. m \in Known /\ m \notin Excluded => Range(c) \subseteq Known \/ m \in Range(c)
      BY <2>4
    <3> HIDE DEF c
    <3>3. /\ d \in Seq(Models \ Excluded) /\ IsInjective(d) /\ KnownFirst(d)
          /\ Range(d) = Range(c) \cup ({m} \ Excluded)
      BY <3>1, <3>2, AddStep, Zenon
    <3>4. Range(c) = {list[i] : i \in 1..n} \ Excluded /\ g[n + 1] = d
      BY <2>1, <2>3, Zenon DEF c
    <3> HIDE DEF d
    <3>5. Range(d) = {list[i] : i \in 1..(n + 1)} \ Excluded
      BY <2>2, <3>3, <3>4, Zenon
    <3> QED BY <3>3, <3>4, <3>5, Zenon
  <2> HIDE DEF Good
  <2> QED BY <2>1, <2>5
<1>6. Good(N)
  <2>1. 0..N \subseteq S
    <3> HIDE DEF S, N
    <3> QED BY <1>2, <1>4, <1>5, UpTo
  <2> HIDE DEF Good
  <2> QED BY <1>2, <2>1
<1>7. Known \ Excluded \subseteq Range(g[N])
  <2>1. 1..K \subseteq 1..N
    BY <1>1, <1>2
  <2> QED BY <1>1, <1>6, <2>1
<1>8. Candidates(discovered) = g[N]
  BY <1>3 DEF Candidates, list
<1> HIDE DEF N
<1> QED BY <1>6, <1>7, <1>8 DEF GoodList

-----------------------------------------------------------------------------
(* A request *)

\* Request r called the SDK for the first k candidates, then REST for the first m, and
\* REST only once the SDK had failed for all of them or could not be used at all.
Calls(r, k, m) ==
  /\ k \in 0..Len(r.candidates) /\ m \in 0..Len(r.candidates)
  /\ m > 0 => k \in {0, Len(r.candidates)}
  /\ Len(r.asked) = k + m
  /\ \A i \in 1..k : r.asked[i] = <<"sdk", r.candidates[i]>>
  /\ \A i \in (k + 1)..(k + m) : r.asked[i] = <<"rest", r.candidates[i - k]>>

Active == [pc : Stages, found : Seq(Models), candidates : Seq(Models), next : Nat \ {0},
           asked : Seq({"sdk", "rest"} \X Models), said : Said]

\* The request that failed without having received text.
Unheard(r) == r.pc = "failed" /\ r.said \in {"nothing", "blank"}

\* Where the calls made so far stand at each point of a request.
Progress(r, k, m) ==
  /\ Calls(r, k, m)
  /\ r.pc = "sdk" => k = r.next - 1 /\ m = 0
  /\ r.pc = "rest" => k \in {0, Len(r.candidates)} /\ m = r.next - 1
  /\ Unheard(r) => k \in {0, Len(r.candidates)} /\ (r.said = "nothing" => m = Len(r.candidates))

Waiting(r) ==
  /\ r.pc \in {"cache", "list", "store"} =>
       r.candidates = <<>> /\ r.asked = <<>> /\ r.next = 1
  /\ r.pc = "store" => r.found \in Seq(Models \ Excluded) /\ r.found # <<>>
  /\ r.pc \in {"cache", "list", "store", "sdk", "rest"} => r.said = "nothing"
  /\ r.pc = "parse" => r.said = "text"

InList(r) ==
  /\ r.candidates \in Seq(Models \ Excluded)
  /\ IsInjective(r.candidates)
  /\ KnownFirst(r.candidates)
  /\ r.pc \in {"sdk", "rest"} \/ Unheard(r) => Known \ Excluded \subseteq Range(r.candidates)

Sound(r) ==
  /\ r \in Active
  /\ r.next <= Len(r.candidates) + 1
  /\ Waiting(r)
  /\ InList(r)
  /\ \E k, m \in Nat : Progress(r, k, m)

\* The inductive invariant.
ExtractionInv ==
  /\ TypeOK
  /\ discoveredAt <= clock
  /\ \A p \in Requests : req[p] # Idle => Sound(req[p])

LEMMA EmptyList ==
  /\ <<>> \in Seq(Models \ Excluded) /\ <<>> \in Seq(Models)
  /\ <<>> \in Seq({"sdk", "rest"} \X Models)
  /\ Len(<<>>) = 0 /\ IsInjective(<<>>) /\ KnownFirst(<<>>)
<1>1. <<>> \in Seq(Models \ Excluded) /\ DOMAIN <<>> = {} /\ Len(<<>>) = 0
  OBVIOUS
<1>2. <<>> \in Seq(Models) /\ <<>> \in Seq({"sdk", "rest"} \X Models)
  OBVIOUS
<1>3. IsInjective(<<>>) /\ KnownFirst(<<>>)
  BY <1>1, Zenon DEF IsInjective, KnownFirst
<1> QED BY <1>1, <1>2, <1>3

\* A request that has made no call and has no list.
LEMMA EmptySound ==
  ASSUME NEW r \in Active, r.candidates = <<>>, r.asked = <<>>, r.next = 1,
         r.pc \notin {"sdk", "rest", "parse"}, ~Unheard(r), Waiting(r)
  PROVE  Sound(r)
<1>1. InList(r)
  BY EmptyList DEF InList
<1>2. Progress(r, 0, 0)
  BY EmptyList DEF Progress, Calls
<1>3. r.next <= Len(r.candidates) + 1
  BY EmptyList
<1> QED BY <1>1, <1>2, <1>3 DEF Sound

\* The list is built: the request turns to the SDK.
LEMMA ListedSound ==
  ASSUME NEW r \in Active, r.asked = <<>>, r.next = 1, r.said = "nothing",
         NEW discovered \in Seq(Models)
  PROVE  Sound(WithModels(r, discovered))
<1> DEFINE c == Candidates(discovered)
           s == WithModels(r, discovered)
<1>1. GoodList(c)
  BY CandidatesGood
<1> HIDE DEF c
<1>2. c \in Seq(Models) /\ Len(c) \in Nat
  BY <1>1 DEF GoodList
<1>3. /\ s = [r EXCEPT !.candidates = c, !.found = <<>>, !.pc = "sdk"]
  BY DEF WithModels, c
<1>4. /\ s \in Active /\ s.candidates = c /\ s.asked = <<>> /\ s.next = 1 /\ s.pc = "sdk"
      /\ s.said = "nothing"
  BY <1>2, <1>3, EmptyList DEF Active, Stages
<1> HIDE DEF s
<1>5. Waiting(s)
  BY <1>4 DEF Waiting
<1>6. InList(s)
  BY <1>1, <1>4 DEF GoodList, InList
<1>7. Progress(s, 0, 0)
  BY <1>2, <1>4, EmptyList DEF Progress, Calls, Unheard
<1>8. s.next <= Len(s.candidates) + 1
  BY <1>2, <1>4
<1>9. \E k, m \in Nat : Progress(s, k, m)
  <2>1. 0 \in Nat
    OBVIOUS
  <2> QED BY <1>7, <2>1, Zenon
<1>10. Sound(s)
  BY <1>4, <1>5, <1>6, <1>8, <1>9, Zenon DEF Sound
<1> QED BY <1>10 DEF s

\* A call appends the model it asks.
LEMMA CalledIs ==
  ASSUME NEW r \in Active, r.next <= Len(r.candidates), NEW api \in {"sdk", "rest"}
  PROVE  LET s == Called(r, api)
             L == Len(r.asked)
         IN /\ s \in Active
            /\ s.pc = r.pc /\ s.said = r.said /\ s.candidates = r.candidates
            /\ s.found = r.found /\ s.next = r.next + 1
            /\ Len(s.asked) = L + 1
            /\ \A i \in 1..L : s.asked[i] = r.asked[i]
            /\ s.asked[L + 1] = <<api, r.candidates[r.next]>>
<1> DEFINE a == Append(r.asked, <<api, r.candidates[r.next]>>)
<1>1. r.candidates \in Seq(Models) /\ r.asked \in Seq({"sdk", "rest"} \X Models) /\ r.next \in Nat \ {0}
  BY DEF Active
<1>2. r.next \in 1..Len(r.candidates)
  BY <1>1
<1>3. r.candidates[r.next] \in Models
  BY <1>1, <1>2
<1>4. <<api, r.candidates[r.next]>> \in {"sdk", "rest"} \X Models
  BY <1>3
<1>5. /\ a \in Seq({"sdk", "rest"} \X Models)
      /\ Len(a) = Len(r.asked) + 1
      /\ \A i \in 1..Len(r.asked) : a[i] = r.asked[i]
      /\ a[Len(r.asked) + 1] = <<api, r.candidates[r.next]>>
  BY <1>1, <1>4
<1>6. Called(r, api) = [r EXCEPT !.asked = a, !.next = r.next + 1]
  BY DEF Called, Active
<1> HIDE DEF a
<1>7. r.next + 1 \in Nat \ {0}
  BY <1>1
<1> QED BY <1>5, <1>6, <1>7 DEF Active

LEMMA SdkCalls ==
  ASSUME NEW r \in Active, NEW s \in Active, r.next <= Len(r.candidates),
         Calls(r, r.next - 1, 0),
         s.candidates = r.candidates, Len(s.asked) = Len(r.asked) + 1,
         \A i \in 1..Len(r.asked) : s.asked[i] = r.asked[i],
         s.asked[Len(r.asked) + 1] = <<"sdk", r.candidates[r.next]>>
  PROVE  Calls(s, r.next, 0)
<1>1. r.next \in Nat \ {0} /\ Len(r.candidates) \in Nat /\ Len(r.asked) = r.next - 1
  BY DEF Active, Calls
<1>2. ASSUME NEW i \in 1..r.next PROVE s.asked[i] = <<"sdk", s.candidates[i]>>
  <2>1. CASE i = r.next
    BY <1>1, <2>1
  <2>2. CASE i \in 1..(r.next - 1)
    BY <1>1, <2>2 DEF Calls
  <2> QED BY <1>1, <2>1, <2>2
<1>3. (r.next + 1)..(r.next + 0) = {}
  BY <1>1
<1> QED BY <1>1, <1>2, <1>3 DEF Calls

LEMMA RestCalls ==
  ASSUME NEW r \in Active, NEW s \in Active, r.next <= Len(r.candidates),
         NEW k \in {0, Len(r.candidates)}, Calls(r, k, r.next - 1),
         s.candidates = r.candidates, Len(s.asked) = Len(r.asked) + 1,
         \A i \in 1..Len(r.asked) : s.asked[i] = r.asked[i],
         s.asked[Len(r.asked) + 1] = <<"rest", r.candidates[r.next]>>
  PROVE  Calls(s, k, r.next)
<1>1. /\ r.next \in Nat \ {0} /\ Len(r.candidates) \in Nat /\ k \in Nat
      /\ Len(r.asked) = k + (r.next - 1)
  BY DEF Active, Calls
<1>2. ASSUME NEW i \in 1..k PROVE s.asked[i] = <<"sdk", s.candidates[i]>>
  <2>1. i \in 1..Len(r.asked)
    BY <1>1
  <2> QED BY <2>1 DEF Calls
<1>3. ASSUME NEW i \in (k + 1)..(k + r.next)
      PROVE  s.asked[i] = <<"rest", s.candidates[i - k]>>
  <2>1. CASE i = k + r.next
    <3>1. i = Len(r.asked) + 1 /\ i - k = r.next
      BY <1>1, <2>1
    <3> QED BY <3>1
  <2>2. CASE i \in (k + 1)..(k + (r.next - 1))
    <3>1. i \in 1..Len(r.asked)
      BY <1>1, <2>2
    <3>2. r.asked[i] = <<"rest", r.candidates[i - k]>>
      BY <2>2, Zenon DEF Calls
    <3>3. s.asked[i] = r.asked[i] /\ s.candidates = r.candidates
      BY <3>1
    <3> QED BY <3>2, <3>3, Zenon
  <2>3. i = k + r.next \/ i \in (k + 1)..(k + (r.next - 1))
    BY <1>1
  <2> QED BY <2>1, <2>2, <2>3, Zenon
<1>4. /\ k \in 0..Len(s.candidates) /\ r.next \in 0..Len(s.candidates)
      /\ k \in {0, Len(s.candidates)} /\ Len(s.asked) = k + r.next
  <2> DEFINE N == Len(r.candidates)
  <2>1. N \in Nat /\ r.next \in Nat \ {0} /\ r.next <= N /\ k \in {0, N} /\ Len(s.candidates) = N
    BY <1>1
  <2>2. Len(s.asked) = k + r.next
    BY <1>1
  <2> HIDE DEF N
  <2>3. k \in 0..N /\ r.next \in 0..N
    BY <2>1
  <2> QED BY <2>1, <2>2, <2>3, Zenon
<1> QED BY <1>2, <1>3, <1>4, Zenon DEF Calls

\* The list of a request that asks its models stays what it is.
LEMMA ListStays ==
  ASSUME NEW r, InList(r), r.pc \in {"sdk", "rest"}, NEW s, s.candidates = r.candidates
  PROVE  InList(s)
BY DEF InList

LEMMA SoundIs ==
  ASSUME NEW s \in Active, s.next <= Len(s.candidates) + 1, Waiting(s), InList(s),
         NEW k \in Nat, NEW m \in Nat, Progress(s, k, m)
  PROVE  Sound(s)
BY Zenon DEF Sound

LEMMA SdkSound ==
  ASSUME NEW r, Sound(r), r.pc = "sdk", r.next <= Len(r.candidates)
  PROVE  /\ Sound(Called(r, "sdk"))
         /\ Sound([Called(r, "sdk") EXCEPT !.pc = "parse", !.said = "text"])
<1>1. PICK k \in Nat, m \in Nat : Progress(r, k, m)
  BY DEF Sound
<1>2. r \in Active /\ Calls(r, r.next - 1, 0) /\ InList(r) /\ r.said = "nothing"
  BY <1>1 DEF Sound, Progress, Waiting
<1> DEFINE c == Called(r, "sdk")
           s == [c EXCEPT !.pc = "parse", !.said = "text"]
<1>3. /\ c \in Active /\ c.pc = "sdk" /\ c.said = "nothing" /\ c.candidates = r.candidates
      /\ c.next = r.next + 1
      /\ Len(c.asked) = Len(r.asked) + 1
      /\ \A i \in 1..Len(r.asked) : c.asked[i] = r.asked[i]
      /\ c.asked[Len(r.asked) + 1] = <<"sdk", r.candidates[r.next]>>
  BY <1>2, CalledIs
<1> HIDE DEF c
<1>4. Calls(c, r.next, 0)
  BY <1>2, <1>3, SdkCalls
<1>5. /\ s \in Active /\ s.pc = "parse" /\ s.said = "text" /\ s.candidates = r.candidates
      /\ s.next = r.next + 1 /\ s.asked = c.asked
  BY <1>3 DEF Active, Stages, Said
<1> HIDE DEF s
<1>6. r.next \in Nat /\ Len(r.candidates) \in Nat
  BY <1>2 DEF Active
<1>7. Progress(c, r.next, 0) /\ Waiting(c) /\ c.next <= Len(c.candidates) + 1
  BY <1>3, <1>4, <1>6 DEF Progress, Waiting, Unheard
<1>8. Calls(s, r.next, 0)
  BY <1>3, <1>4, <1>5, Zenon DEF Calls
<1>9. Progress(s, r.next, 0) /\ Waiting(s) /\ s.next <= Len(s.candidates) + 1
  BY <1>5, <1>6, <1>8 DEF Progress, Waiting, Unheard
<1>10. InList(c) /\ InList(s)
  BY <1>2, <1>3, <1>5, ListStays
<1> QED BY <1>3, <1>5, <1>6, <1>7, <1>9, <1>10, SoundIs DEF s, c

LEMMA RestSound ==
  ASSUME NEW r, Sound(r), r.pc = "rest", r.next <= Len(r.candidates)
  PROVE  /\ Sound(Called(r, "rest"))
         /\ Sound([Called(r, "rest") EXCEPT !.pc = "parse", !.said = "text"])
         /\ Sound([Called(r, "rest") EXCEPT !.pc = "failed", !.said = "blank"])
<1>1. PICK k \in Nat, m \in Nat : Progress(r, k, m)
  BY DEF Sound
<1>2. /\ r \in Active /\ k \in {0, Len(r.candidates)} /\ Calls(r, k, r.next - 1)
      /\ InList(r) /\ r.said = "nothing"
  BY <1>1 DEF Sound, Progress, Waiting
<1> DEFINE c == Called(r, "rest")
           s == [c EXCEPT !.pc = "parse", !.said = "text"]
           t == [c EXCEPT !.pc = "failed", !.said = "blank"]
<1>3. /\ c \in Active /\ c.pc = "rest" /\ c.said = "nothing" /\ c.candidates = r.candidates
      /\ c.next = r.next + 1
      /\ Len(c.asked) = Len(r.asked) + 1
      /\ \A i \in 1..Len(r.asked) : c.asked[i] = r.asked[i]
      /\ c.asked[Len(r.asked) + 1] = <<"rest", r.candidates[r.next]>>
  BY <1>2, CalledIs
<1> HIDE DEF c
<1>4. Calls(c, k, r.next)
  BY <1>2, <1>3, RestCalls
<1>5. /\ s \in Active /\ s.pc = "parse" /\ s.said = "text" /\ s.candidates = r.candidates
      /\ s.next = r.next + 1 /\ s.asked = c.asked
  BY <1>3 DEF Active, Stages, Said
<1>6. /\ t \in Active /\ t.pc = "failed" /\ t.said = "blank" /\ t.candidates = r.candidates
      /\ t.next = r.next + 1 /\ t.asked = c.asked
  BY <1>3 DEF Active, Stages, Said
<1> HIDE DEF s, t
<1>7. r.next \in Nat /\ Len(r.candidates) \in Nat
  BY <1>2 DEF Active
<1>8. Progress(c, k, r.next) /\ Waiting(c) /\ c.next <= Len(c.candidates) + 1
  BY <1>2, <1>3, <1>4, <1>7 DEF Progress, Waiting, Unheard
<1>9. Calls(s, k, r.next) /\ Calls(t, k, r.next)
  BY <1>3, <1>4, <1>5, <1>6, Zenon DEF Calls
<1>10. Progress(s, k, r.next) /\ Waiting(s) /\ s.next <= Len(s.candidates) + 1
  BY <1>5, <1>7, <1>9 DEF Progress, Waiting, Unheard
<1>11. Progress(t, k, r.next) /\ Waiting(t) /\ t.next <= Len(t.candidates) + 1
  BY <1>2, <1>6, <1>7, <1>9 DEF Progress, Waiting, Unheard
<1>12. InList(c) /\ InList(s) /\ InList(t)
  BY <1>2, <1>3, <1>5, <1>6, ListStays
<1> QED
  BY <1>1, <1>3, <1>5, <1>6, <1>7, <1>8, <1>10, <1>11, <1>12, SoundIs DEF s, t, c

LEMMA TurnSound ==
  ASSUME NEW r, Sound(r), r.pc = "sdk", ~(r.next <= Len(r.candidates)) \/ r.next = 1
  PROVE  Sound([r EXCEPT !.pc = "rest", !.next = 1])
<1>1. PICK k \in Nat, m \in Nat : Progress(r, k, m)
  BY DEF Sound
<1>2. r \in Active /\ Calls(r, k, 0) /\ InList(r) /\ r.said = "nothing" /\ k = r.next - 1
  BY <1>1 DEF Sound, Progress, Waiting
<1>3. r.next \in Nat \ {0} /\ Len(r.candidates) \in Nat /\ r.next <= Len(r.candidates) + 1
  BY <1>2 DEF Active, Sound
<1> DEFINE s == [r EXCEPT !.pc = "rest", !.next = 1]
<1>4. /\ s \in Active /\ s.pc = "rest" /\ s.said = "nothing" /\ s.candidates = r.candidates
      /\ s.next = 1 /\ s.asked = r.asked
  <2>1. "rest" \in Stages /\ 1 \in Nat \ {0}
    BY DEF Stages
  <2>2. r.said = "nothing" /\ r \in Active
    BY <1>2
  <2> HIDE DEF Stages
  <2> QED BY <2>1, <2>2 DEF Active
<1> HIDE DEF s
<1>5. k \in {0, Len(r.candidates)}
  BY <1>2, <1>3
<1>6. Calls(s, k, 0)
  BY <1>2, <1>4, Zenon DEF Calls
<1>7. Progress(s, k, 0) /\ Waiting(s) /\ s.next <= Len(s.candidates) + 1
  BY <1>3, <1>4, <1>5, <1>6 DEF Progress, Waiting, Unheard
<1>8. InList(s)
  BY <1>2, <1>4, ListStays
<1>9. Sound(s)
  BY <1>1, <1>4, <1>7, <1>8, SoundIs
<1> QED BY <1>9 DEF s

LEMMA ExhaustedSound ==
  ASSUME NEW r, Sound(r), r.pc = "rest", ~(r.next <= Len(r.candidates))
  PROVE  Sound([r EXCEPT !.pc = "failed"])
<1>1. PICK k \in Nat, m \in Nat : Progress(r, k, m)
  BY DEF Sound
<1>2. /\ r \in Active /\ Calls(r, k, m) /\ InList(r) /\ r.said = "nothing"
      /\ k \in {0, Len(r.candidates)} /\ m = r.next - 1
  BY <1>1 DEF Sound, Progress, Waiting
<1>3. r.next \in Nat \ {0} /\ Len(r.candidates) \in Nat /\ r.next <= Len(r.candidates) + 1
  BY <1>2 DEF Active, Sound
<1> DEFINE s == [r EXCEPT !.pc = "failed"]
<1>4. /\ s \in Active /\ s.pc = "failed" /\ s.said = "nothing" /\ s.candidates = r.candidates
      /\ s.next = r.next /\ s.asked = r.asked
  BY <1>2 DEF Active, Stages
<1> HIDE DEF s
<1>5. m = Len(r.candidates)
  BY <1>2, <1>3
<1>6. Calls(s, k, m)
  BY <1>2, <1>4, Zenon DEF Calls
<1>7. Progress(s, k, m) /\ Waiting(s) /\ s.next <= Len(s.candidates) + 1
  BY <1>2, <1>3, <1>4, <1>5, <1>6 DEF Progress, Waiting, Unheard
<1>8. InList(s)
  BY <1>2, <1>4, ListStays
<1>9. Sound(s)
  BY <1>1, <1>4, <1>7, <1>8, SoundIs
<1> QED BY <1>9 DEF s

LEMMA ParseSound ==
  ASSUME NEW r, Sound(r), r.pc = "parse", NEW outcome \in {"answered", "failed"}
  PROVE  Sound([r EXCEPT !.pc = outcome])
<1>1. PICK k \in Nat, m \in Nat : Progress(r, k, m)
  BY DEF Sound
<1>2. r \in Active /\ Calls(r, k, m) /\ InList(r) /\ r.said = "text"
  BY <1>1 DEF Sound, Progress, Waiting
<1> DEFINE s == [r EXCEPT !.pc = outcome]
<1>3. /\ s \in Active /\ s.pc = outcome /\ s.said = "text" /\ s.candidates = r.candidates
      /\ s.next = r.next /\ s.asked = r.asked
  BY <1>2 DEF Active, Stages
<1> HIDE DEF s
<1>4. Calls(s, k, m)
  BY <1>2, <1>3, Zenon DEF Calls
<1>5. Progress(s, k, m) /\ Waiting(s) /\ s.next <= Len(s.candidates) + 1 /\ InList(s)
  BY <1>2, <1>3, <1>4 DEF Progress, Waiting, Unheard, InList, Sound
<1>6. Sound(s)
  BY <1>1, <1>3, <1>5, SoundIs
<1> QED BY <1>6 DEF s

-----------------------------------------------------------------------------
(* The steps *)

LEMMA RequestStates == RequestState = {Idle} \cup Active
BY DEF RequestState, Active

LEMMA SoundIsActive ==
  ASSUME NEW r, Sound(r)
  PROVE  r \in Active /\ r # Idle /\ r.next <= Len(r.candidates) + 1 /\ r.pc \in Stages
BY DEF Sound, Active, Idle, Stages

\* Request p moves on and the others stay: the invariant holds if p is sound and the
\* cache is well.
LEMMA RequestMoves ==
  ASSUME ExtractionInv, NEW p \in Requests, NEW r, r = Idle \/ Sound(r),
         Put(p, r), apiKey' = apiKey,
         models' \in Seq(Models \ Excluded), discoveredAt' \in 0..MaxClock,
         clock' \in 0..MaxClock, discoveredAt' <= clock'
  PROVE  ExtractionInv'
<1>1. /\ req \in [Requests -> RequestState] /\ apiKey \in BOOLEAN
      /\ \A q \in Requests : req[q] # Idle => Sound(req[q])
  BY DEF ExtractionInv, TypeOK
<1>2. req' = [req EXCEPT ![p] = r]
  BY DEF Put
<1>3. r \in RequestState
  BY SoundIsActive, RequestStates
<1>4. /\ req' \in [Requests -> RequestState]
      /\ req'[p] = r
      /\ \A q \in Requests : q # p => req'[q] = req[q]
  BY <1>1, <1>2, <1>3
<1>5. ASSUME NEW q \in Requests, req'[q] # Idle PROVE Sound(req'[q])
  BY <1>1, <1>4, <1>5
<1>6. \A q \in Requests : req'[q] # Idle => req'[q].next <= Len(req'[q].candidates) + 1
  BY <1>5, SoundIsActive
<1>7. TypeOK'
  BY <1>1, <1>4, <1>6, Zenon DEF TypeOK
<1>8. \A q \in Requests : req'[q] # Idle => Sound(req'[q])
  BY <1>5
<1>9. (\A q \in Requests : req[q] # Idle => Sound(req[q]))'
  BY <1>8, Zenon DEF Sound, Waiting, InList, Progress, Calls, Unheard
<1> QED BY <1>7, <1>9, Zenon DEF ExtractionInv

\* What a step relies on of the request it moves and of the cache.
LEMMA InvHas ==
  ASSUME ExtractionInv, NEW p \in Requests
  PROVE  /\ models \in Seq(Models \ Excluded) /\ models \in Seq(Models)
         /\ discoveredAt \in 0..MaxClock /\ clock \in 0..MaxClock /\ discoveredAt <= clock
         /\ req[p] \in RequestState
         /\ req[p] = Idle \/ Sound(req[p])
BY DEF ExtractionInv, TypeOK

LEMMA AtSound ==
  ASSUME ExtractionInv, NEW p \in Requests, req[p].pc # "idle"
  PROVE  Sound(req[p])
BY InvHas DEF Idle

\* A listing that broke off anywhere is a list of models.
LEMMA ListingIs ==
  ASSUME NEW listing \in Listings, NEW n \in 0..Len(listing)
  PROVE  SubSeq(listing, 1, n) \in Seq(Models)
<1>1. listing \in Seq(Models)
  BY ExtractionAssumption
<1> QED BY <1>1

LEMMA NewSound ==
  /\ Sound(New)
  /\ Sound([New EXCEPT !.pc = "answered"])
  /\ Sound([New EXCEPT !.pc = "failed", !.said = "no image"])
<1>1. New \in Active
  BY EmptyList DEF New, Active, Stages, Said
<1>2. [New EXCEPT !.pc = "answered"] \in Active
  BY <1>1 DEF New, Active, Stages
<1>3. [New EXCEPT !.pc = "failed", !.said = "no image"] \in Active
  BY <1>1 DEF New, Active, Stages, Said
<1>4. Sound(New)
  <2> DEFINE r == New
  <2>1. /\ r.pc = "cache" /\ r.said = "nothing" /\ r.candidates = <<>> /\ r.asked = <<>>
        /\ r.next = 1
    BY DEF New
  <2> HIDE DEF r
  <2>2. Waiting(r) /\ ~Unheard(r)
    BY <2>1 DEF Waiting, Unheard
  <2>3. Sound(r)
    BY <1>1, <2>1, <2>2, EmptySound DEF r
  <2> QED BY <2>3 DEF r
<1>5. Sound([New EXCEPT !.pc = "answered"])
  <2> DEFINE r == [New EXCEPT !.pc = "answered"]
  <2>1. r.pc = "answered" /\ r.candidates = <<>> /\ r.asked = <<>> /\ r.next = 1
    BY DEF New
  <2>2. r \in Active
    BY <1>2
  <2> HIDE DEF r
  <2>3. Waiting(r) /\ ~Unheard(r)
    BY <2>1 DEF Waiting, Unheard
  <2>4. Sound(r)
    BY <2>1, <2>2, <2>3, EmptySound
  <2> QED BY <2>4 DEF r
<1>6. Sound([New EXCEPT !.pc = "failed", !.said = "no image"])
  <2> DEFINE r == [New EXCEPT !.pc = "failed", !.said = "no image"]
  <2>1. /\ r.pc = "failed" /\ r.said = "no image" /\ r.candidates = <<>> /\ r.asked = <<>>
        /\ r.next = 1
    BY DEF New
  <2>2. r \in Active
    BY <1>3
  <2> HIDE DEF r
  <2>3. Waiting(r) /\ ~Unheard(r)
    BY <2>1 DEF Waiting, Unheard
  <2>4. Sound(r)
    BY <2>1, <2>2, <2>3, EmptySound
  <2> QED BY <2>4 DEF r
<1> QED BY <1>4, <1>5, <1>6

\* A request that waits for its list.
LEMMA ListSound ==
  ASSUME NEW r, Sound(r), r.pc \in {"cache", "list", "store"}
  PROVE  /\ r \in Active /\ r.asked = <<>> /\ r.next = 1 /\ r.said = "nothing"
         /\ Sound([r EXCEPT !.pc = "list"])
         /\ \A found \in Seq(Models \ Excluded) :
              found # <<>> => Sound([r EXCEPT !.pc = "store", !.found = found])
<1>1. /\ r \in Active /\ r.candidates = <<>> /\ r.asked = <<>> /\ r.next = 1
      /\ r.said = "nothing"
  BY DEF Sound, Waiting
<1>2. Sound([r EXCEPT !.pc = "list"])
  <2> DEFINE s == [r EXCEPT !.pc = "list"]
  <2>1. /\ s \in Active /\ s.pc = "list" /\ s.said = "nothing" /\ s.candidates = <<>>
        /\ s.asked = <<>> /\ s.next = 1
    BY <1>1 DEF Active, Stages
  <2> HIDE DEF s
  <2>2. Waiting(s) /\ ~Unheard(s)
    BY <2>1 DEF Waiting, Unheard
  <2>3. Sound(s)
    BY <2>1, <2>2, EmptySound
  <2> QED BY <2>3 DEF s
<1>3. ASSUME NEW found \in Seq(Models \ Excluded), found # <<>>
      PROVE  Sound([r EXCEPT !.pc = "store", !.found = found])
  <2> DEFINE s == [r EXCEPT !.pc = "store", !.found = found]
  <2>1. found \in Seq(Models)
    OBVIOUS
  <2>2. /\ s \in Active /\ s.pc = "store" /\ s.said = "nothing" /\ s.candidates = <<>>
        /\ s.asked = <<>> /\ s.next = 1 /\ s.found = found
    BY <1>1, <2>1 DEF Active, Stages
  <2> HIDE DEF s
  <2>3. Waiting(s) /\ ~Unheard(s)
    BY <1>3, <2>2 DEF Waiting, Unheard
  <2>4. Sound(s)
    BY <2>2, <2>3, EmptySound
  <2> QED BY <2>4 DEF s
<1> QED BY <1>1, <1>2, <1>3

LEMMA BeginKeeps ==
  ASSUME ExtractionInv, NEW p \in Requests, Begin(p)
  PROVE  ExtractionInv'
<1>1. PICK r : Put(p, r) /\ Sound(r)
  BY NewSound DEF Begin
<1> QED BY <1>1, InvHas, RequestMoves DEF Begin, At, Unchanged

LEMMA CacheKeeps ==
  ASSUME ExtractionInv, NEW p \in Requests, ReadCache(p)
  PROVE  ExtractionInv'
<1>1. Sound(req[p]) /\ req[p].pc = "cache"
  BY AtSound DEF ReadCache, At
<1>2. /\ Sound(WithModels(req[p], models))
      /\ Sound([req[p] EXCEPT !.pc = "list"])
  BY <1>1, InvHas, ListSound, ListedSound
<1>3. PICK r : Put(p, r) /\ Sound(r)
  BY <1>2 DEF ReadCache
<1> QED BY <1>3, InvHas, RequestMoves DEF ReadCache, At, Unchanged

LEMMA ListKeeps ==
  ASSUME ExtractionInv, NEW p \in Requests, ListModels(p)
  PROVE  ExtractionInv'
<1>1. Sound(req[p]) /\ req[p].pc = "list"
  BY AtSound DEF ListModels, At
<1>2. PICK listing \in Listings : \E n \in 0..Len(listing) :
        LET found == Discovered(SubSeq(listing, 1, n))
        IN Put(p, IF found = <<>> THEN WithModels(req[p], <<>>)
                  ELSE [req[p] EXCEPT !.pc = "store", !.found = found])
  BY DEF ListModels
<1>7. PICK n \in 0..Len(listing) :
        LET found == Discovered(SubSeq(listing, 1, n))
        IN Put(p, IF found = <<>> THEN WithModels(req[p], <<>>)
                  ELSE [req[p] EXCEPT !.pc = "store", !.found = found])
  BY <1>2
<1> DEFINE found == Discovered(SubSeq(listing, 1, n))
<1>3. found \in Seq(Models \ Excluded)
  BY ListingIs, DiscoveredIsUsable
<1> HIDE DEF found
<1>4. Sound(WithModels(req[p], <<>>))
  BY <1>1, EmptyList, ListSound, ListedSound
<1>5. found # <<>> => Sound([req[p] EXCEPT !.pc = "store", !.found = found])
  BY <1>1, <1>3, ListSound
<1>6. PICK r : Put(p, r) /\ Sound(r)
  <2>1. Put(p, IF found = <<>> THEN WithModels(req[p], <<>>)
               ELSE [req[p] EXCEPT !.pc = "store", !.found = found])
    BY <1>7 DEF found
  <2> QED BY <1>4, <1>5, <2>1, Zenon
<1> QED BY <1>6, InvHas, RequestMoves DEF ListModels, At, Unchanged

LEMMA StoreKeeps ==
  ASSUME ExtractionInv, NEW p \in Requests, Store(p)
  PROVE  /\ ExtractionInv'
         /\ models' # <<>> /\ discoveredAt' >= discoveredAt
<1>1. Sound(req[p]) /\ req[p].pc = "store"
  BY AtSound DEF Store
<1>2. /\ req[p] \in Active /\ req[p].asked = <<>> /\ req[p].next = 1 /\ req[p].said = "nothing"
      /\ req[p].found \in Seq(Models \ Excluded) /\ req[p].found # <<>>
  BY <1>1, ListSound DEF Sound, Waiting
<1>3. req[p].found \in Seq(Models)
  BY <1>2 DEF Active
<1>4. Sound(WithModels(req[p], req[p].found))
  BY <1>2, <1>3, ListedSound
<1>5. /\ Put(p, WithModels(req[p], req[p].found))
      /\ models' = req[p].found /\ discoveredAt' = clock /\ clock' = clock /\ apiKey' = apiKey
  BY DEF Store
<1>6. clock \in 0..MaxClock /\ discoveredAt \in 0..MaxClock /\ discoveredAt <= clock
  BY InvHas
<1>7. models' # <<>> /\ discoveredAt' >= discoveredAt
  BY <1>2, <1>5, <1>6
<1>8. clock <= clock
  BY <1>6
<1>9. ExtractionInv'
  BY <1>2, <1>4, <1>5, <1>6, <1>8, RequestMoves
<1> QED BY <1>7, <1>9

\* The calls to Gemini and what follows them.
LEMMA CallsKeep ==
  ASSUME ExtractionInv, NEW p \in Requests,
         SdkAnswers(p) \/ SdkFails(p) \/ TurnToRest(p) \/ RestAnswers(p) \/ RestFails(p)
           \/ RestExhausted(p) \/ Parse(p)
  PROVE  ExtractionInv'
<1>1. Unchanged /\ req[p].pc # "idle"
  BY DEF SdkAnswers, SdkFails, TurnToRest, RestAnswers, RestFails, RestExhausted, Parse, At
<1>2. Sound(req[p])
  BY <1>1, AtSound
<1>3. \E r : Put(p, r) /\ Sound(r)
  <2>1. CASE SdkAnswers(p)
    BY <1>2, <2>1, SdkSound DEF SdkAnswers, At, Asking
  <2>2. CASE SdkFails(p)
    BY <1>2, <2>2, SdkSound DEF SdkFails, At, Asking
  <2>3. CASE TurnToRest(p)
    BY <1>2, <2>3, TurnSound DEF TurnToRest, At, Asking
  <2>4. CASE RestAnswers(p)
    BY <1>2, <2>4, RestSound DEF RestAnswers, At, Asking
  <2>5. CASE RestFails(p)
    BY <1>2, <2>5, RestSound DEF RestFails, At, Asking
  <2>6. CASE RestExhausted(p)
    BY <1>2, <2>6, ExhaustedSound DEF RestExhausted, At, Asking
  <2>7. CASE Parse(p)
    BY <1>2, <2>7, ParseSound DEF Parse, At
  <2> QED BY <2>1, <2>2, <2>3, <2>4, <2>5, <2>6, <2>7
<1>4. PICK r : Put(p, r) /\ Sound(r)
  BY <1>3
<1> QED BY <1>1, <1>4, InvHas, RequestMoves DEF Unchanged

LEMMA ReturnKeeps ==
  ASSUME ExtractionInv, NEW p \in Requests, Return(p)
  PROVE  ExtractionInv'
BY InvHas, RequestMoves DEF Return, Unchanged

LEMMA TickKeeps ==
  ASSUME ExtractionInv, Tick
  PROVE  ExtractionInv'
<1>1. clock \in Nat /\ discoveredAt \in Nat /\ MaxClock \in Nat
  BY ExtractionAssumption DEF ExtractionInv, TypeOK
<1>2. clock' \in 0..MaxClock /\ discoveredAt' <= clock' /\ discoveredAt' \in 0..MaxClock
  BY <1>1 DEF ExtractionInv, TypeOK, Tick
<1>3. req' = req /\ models' = models /\ apiKey' = apiKey
  BY DEF Tick
<1>4. TypeOK'
  BY <1>2, <1>3 DEF ExtractionInv, TypeOK
<1>5. \A p \in Requests : req'[p] # Idle => Sound(req'[p])
  BY <1>3 DEF ExtractionInv
<1>6. (\A p \in Requests : req[p] # Idle => Sound(req[p]))'
  BY <1>5, Zenon DEF Sound, Waiting, InList, Progress, Calls, Unheard
<1> QED BY <1>2, <1>4, <1>6, Zenon DEF ExtractionInv

LEMMA InitSound == Init => ExtractionInv
<1> SUFFICES ASSUME Init PROVE ExtractionInv
  OBVIOUS
<1>1. req \in [Requests -> {Idle}] /\ \A p \in Requests : req[p] = Idle
  BY DEF Init
<1>2. req \in [Requests -> RequestState]
  BY <1>1, RequestStates
<1>3. models \in Seq(Models \ Excluded) /\ discoveredAt \in 0..MaxClock /\ clock \in 0..MaxClock
      /\ discoveredAt <= clock
  BY ExtractionAssumption DEF Init
<1> QED BY <1>1, <1>2, <1>3 DEF ExtractionInv, TypeOK, Init

\* Every step keeps the invariant and what is in the cache.
LEMMA StepSound ==
  ASSUME ExtractionInv, [Next]_vars
  PROVE  /\ ExtractionInv'
         /\ models # <<>> => models' # <<>> /\ discoveredAt' >= discoveredAt
<1> DEFINE Kept == models # <<>> => models' # <<>> /\ discoveredAt' >= discoveredAt
<1>1. models' = models /\ discoveredAt' = discoveredAt => Kept
  BY DEF ExtractionInv, TypeOK
<1>2. CASE UNCHANGED vars
  <2>1. /\ apiKey' = apiKey /\ models' = models /\ discoveredAt' = discoveredAt
        /\ clock' = clock /\ req' = req
    BY <1>2 DEF vars
  <2>2. TypeOK' /\ (discoveredAt <= clock)'
    BY <2>1 DEF ExtractionInv, TypeOK
  <2>3. \A p \in Requests : req'[p] # Idle => Sound(req'[p])
    BY <2>1 DEF ExtractionInv
  <2>4. (\A p \in Requests : req[p] # Idle => Sound(req[p]))'
    BY <2>3, Zenon DEF Sound, Waiting, InList, Progress, Calls, Unheard
  <2>5. ExtractionInv'
    BY <2>2, <2>4, Zenon DEF ExtractionInv
  <2> QED BY <1>1, <2>1, <2>5
<1>3. CASE Tick
  BY <1>1, <1>3, TickKeeps DEF Tick
<1>4. ASSUME NEW p \in Requests, Begin(p) \/ Step(p) PROVE ExtractionInv' /\ Kept
  <2>1. CASE Begin(p)
    BY <1>1, <2>1, BeginKeeps DEF Begin, At, Unchanged
  <2>2. CASE ReadCache(p)
    BY <1>1, <2>2, CacheKeeps DEF ReadCache, At, Unchanged
  <2>3. CASE ListModels(p)
    BY <1>1, <2>3, ListKeeps DEF ListModels, At, Unchanged
  <2>4. CASE Store(p)
    BY <2>4, StoreKeeps
  <2>5. CASE SdkAnswers(p) \/ SdkFails(p) \/ TurnToRest(p) \/ RestAnswers(p) \/ RestFails(p)
             \/ RestExhausted(p) \/ Parse(p)
    <3>1. Unchanged
      BY <2>5 DEF SdkAnswers, SdkFails, TurnToRest, RestAnswers, RestFails, RestExhausted,
                  Parse, At
    <3> QED BY <1>1, <2>5, <3>1, CallsKeep DEF Unchanged
  <2>6. CASE Return(p)
    BY <1>1, <2>6, ReturnKeeps DEF Return, Unchanged
  <2> QED BY <1>4, <2>1, <2>2, <2>3, <2>4, <2>5, <2>6 DEF Step
<1> QED BY <1>2, <1>3, <1>4 DEF Next

-----------------------------------------------------------------------------
(* The theorems *)

LEMMA ExtractionInvHolds == Spec => []ExtractionInv
<1>1. ExtractionInv /\ [Next]_vars => ExtractionInv'
  BY StepSound
<1> QED BY InitSound, <1>1, PTL DEF Spec

\* Requests stay within their lists, and the cache never holds a model that cannot read
\* an image, whatever Google lists and wherever a listing breaks off
\* (getAvailableModels, ExtractReceiptData).
THEOREM ExtractionTyped == Spec => []TypeOK
<1>1. ExtractionInv => TypeOK
  BY DEF ExtractionInv
<1> QED BY ExtractionInvHolds, <1>1, PTL

\* The calls of a request, as its two loops over the candidates make them.
LEMMA SoundAsks ==
  ASSUME NEW r, Sound(r)
  PROVE  LET asked == r.asked
         IN /\ IsInjective(asked)
            /\ \A i \in DOMAIN asked : asked[i][2] \notin Excluded
            /\ \A i, j \in DOMAIN asked : i < j =>
                 /\ asked[i][1] = "rest" => asked[j][1] = "rest"
                 /\ asked[i][1] = asked[j][1] /\ asked[j][2] \in Known => asked[i][2] \in Known
<1>1. PICK k \in Nat, m \in Nat : Calls(r, k, m)
  BY DEF Sound, Progress
<1> DEFINE c == r.candidates
           a == r.asked
           L == Len(c)
<1>2. /\ c \in Seq(Models \ Excluded) /\ IsInjective(c) /\ KnownFirst(c)
      /\ a \in Seq({"sdk", "rest"} \X Models)
  BY DEF Sound, InList, Active
<1>3. /\ L \in Nat /\ DOMAIN c = 1..L /\ DOMAIN a = 1..(k + m) /\ k <= L /\ m <= L
      /\ \A i \in 1..L : c[i] \notin Excluded
  BY <1>1, <1>2 DEF Calls
<1>4. /\ \A i \in 1..k : a[i] = <<"sdk", c[i]>>
      /\ \A i \in (k + 1)..(k + m) : a[i] = <<"rest", c[i - k]>>
  BY <1>1 DEF Calls
<1> HIDE DEF c, a, L
<1>5. \A i \in 1..k : i \in 1..L /\ a[i][1] = "sdk" /\ a[i][2] = c[i]
  BY <1>3, <1>4
<1>6. \A i \in (k + 1)..(k + m) : i - k \in 1..L /\ a[i][1] = "rest" /\ a[i][2] = c[i - k]
  BY <1>3, <1>4
<1>7. \A i \in 1..(k + m) : i \in 1..k \/ i \in (k + 1)..(k + m)
  OBVIOUS
<1>8. ASSUME NEW i \in 1..(k + m), NEW j \in 1..(k + m), a[i] = a[j] PROVE i = j
  <2>1. CASE i \in 1..k /\ j \in 1..k
    BY <1>2, <1>3, <1>5, <1>8, <2>1 DEF IsInjective
  <2>2. CASE i \in (k + 1)..(k + m) /\ j \in (k + 1)..(k + m)
    <3>1. i - k \in 1..L /\ j - k \in 1..L /\ c[i - k] = c[j - k]
      BY <1>6, <1>8, <2>2
    <3>2. i - k = j - k
      BY <1>2, <1>3, <3>1, Zenon DEF IsInjective
    <3> QED BY <3>2
  <2>3. ~(i \in 1..k /\ j \in (k + 1)..(k + m)) /\ ~(j \in 1..k /\ i \in (k + 1)..(k + m))
    BY <1>5, <1>6, <1>8
  <2> QED BY <1>7, <2>1, <2>2, <2>3
<1>9. \A i \in 1..(k + m) : a[i][2] \notin Excluded
  BY <1>3, <1>5, <1>6, <1>7
<1>10. ASSUME NEW i \in 1..(k + m), NEW j \in 1..(k + m), i < j
       PROVE  /\ a[i][1] = "rest" => a[j][1] = "rest"
              /\ a[i][1] = a[j][1] /\ a[j][2] \in Known => a[i][2] \in Known
  <2>1. CASE i \in 1..k /\ j \in 1..k
    BY <1>2, <1>3, <1>5, <1>10, <2>1 DEF KnownFirst
  <2>2. CASE i \in (k + 1)..(k + m) /\ j \in (k + 1)..(k + m)
    <3>1. i - k \in 1..L /\ j - k \in 1..L /\ i - k < j - k
      BY <1>6, <1>10, <2>2
    <3> QED BY <1>2, <1>3, <1>6, <2>2, <3>1 DEF KnownFirst
  <2>3. CASE i \in 1..k /\ j \in (k + 1)..(k + m)
    BY <1>5, <1>6, <2>3
  <2>4. ~(i \in (k + 1)..(k + m) /\ j \in 1..k)
    BY <1>10
  <2> QED BY <1>7, <2>1, <2>2, <2>3, <2>4
<1>11. IsInjective(a)
  BY <1>3, <1>8 DEF IsInjective
<1> QED BY <1>3, <1>9, <1>10, <1>11 DEF a

\* However many requests share the cache and whatever the listings hold, no request asks
\* a model twice through an API or one that cannot read an image; REST comes after the
\* SDK, and the built-in and configured models before those only discovered
\* (buildCandidateModels and the two loops of ExtractReceiptData).
THEOREM AskedInOrder == Spec => []AsksOnceInOrder
<1>1. ExtractionInv => AsksOnceInOrder
  BY SoundAsks DEF ExtractionInv, AsksOnceInOrder
<1> QED BY ExtractionInvHolds, <1>1, PTL

\* The models asked by a request that worked down its list.
LEMMA CallsAsk ==
  ASSUME NEW r \in Active, NEW k, NEW m, Calls(r, k, m)
  PROVE  /\ k = 0 => Asked(r, "sdk") = {}
         /\ k = Len(r.candidates) => Asked(r, "sdk") = Range(r.candidates)
         /\ m = Len(r.candidates) => Asked(r, "rest") = Range(r.candidates)
<1> DEFINE c == r.candidates
           a == r.asked
           L == Len(c)
<1>1. /\ L \in Nat /\ DOMAIN c = 1..L /\ k \in 0..L /\ m \in 0..L /\ DOMAIN a = 1..(k + m)
      /\ \A i \in 1..k : a[i] = <<"sdk", c[i]>>
      /\ \A i \in (k + 1)..(k + m) : a[i] = <<"rest", c[i - k]>>
  BY DEF Calls, Active
<1> HIDE DEF c, a, L
<1>2. \A i \in 1..k : i \in 1..L /\ a[i][1] = "sdk" /\ a[i][2] = c[i]
  BY <1>1
<1>3. \A i \in (k + 1)..(k + m) : i - k \in 1..L /\ a[i][1] = "rest" /\ a[i][2] = c[i - k]
  BY <1>1
<1>4. \A i \in 1..(k + m) : i \in 1..k \/ i \in (k + 1)..(k + m)
  BY <1>1
<1>5. \A x : x \in Asked(r, "sdk") <=> \E i \in 1..k : x = c[i]
  <2>1. \A x : x \in Asked(r, "sdk") <=> \E i \in DOMAIN a : a[i][1] = "sdk" /\ x = a[i][2]
    BY DEF Asked, Range, a
  <2>2. ASSUME NEW x, NEW i \in DOMAIN a, a[i][1] = "sdk", x = a[i][2]
        PROVE  \E j \in 1..k : x = c[j]
    BY <1>1, <1>2, <1>3, <1>4, <2>2
  <2>3. ASSUME NEW x, NEW i \in 1..k, x = c[i]
        PROVE  \E j \in DOMAIN a : a[j][1] = "sdk" /\ x = a[j][2]
    <3>1. i \in DOMAIN a
      BY <1>1
    <3> QED BY <1>2, <2>3, <3>1
  <2> QED BY <2>1, <2>2, <2>3
<1>6. \A x : x \in Asked(r, "rest") <=> \E i \in 1..m : x = c[i]
  <2>1. \A x : x \in Asked(r, "rest") <=> \E i \in DOMAIN a : a[i][1] = "rest" /\ x = a[i][2]
    BY DEF Asked, Range, a
  <2>2. ASSUME NEW x, NEW i \in DOMAIN a, a[i][1] = "rest", x = a[i][2]
        PROVE  \E j \in 1..m : x = c[j]
    <3>1. i \in (k + 1)..(k + m)
      BY <1>1, <1>2, <1>4, <2>2
    <3>2. i - k \in 1..m /\ x = c[i - k]
      BY <1>1, <1>3, <2>2, <3>1
    <3> QED BY <3>2
  <2>3. ASSUME NEW x, NEW i \in 1..m, x = c[i]
        PROVE  \E j \in DOMAIN a : a[j][1] = "rest" /\ x = a[j][2]
    <3>1. k + i \in DOMAIN a /\ k + i \in (k + 1)..(k + m) /\ (k + i) - k = i
      BY <1>1
    <3>2. a[k + i][1] = "rest" /\ a[k + i][2] = x
      BY <1>3, <2>3, <3>1
    <3> QED BY <3>1, <3>2
  <2> QED BY <2>1, <2>2, <2>3
<1>7. \A x : x \in Range(c) <=> \E i \in 1..L : x = c[i]
  BY <1>1 DEF Range
<1>8. k = 0 => Asked(r, "sdk") = {}
  BY <1>5
<1>9. k = L => Asked(r, "sdk") = Range(c)
  BY <1>5, <1>7
<1>10. m = L => Asked(r, "rest") = Range(c)
  BY <1>6, <1>7
<1> QED BY <1>8, <1>9, <1>10 DEF c, L

LEMMA SoundFails ==
  ASSUME NEW r, Sound(r), Unheard(r)
  PROVE  /\ Known \ Excluded \subseteq Range(r.candidates)
         /\ Asked(r, "sdk") \in {{}, Range(r.candidates)}
         /\ r.said = "nothing" => Asked(r, "rest") = Range(r.candidates)
<1>1. PICK k \in Nat, m \in Nat : Progress(r, k, m)
  BY DEF Sound
<1>2. /\ r \in Active /\ Calls(r, k, m) /\ k \in {0, Len(r.candidates)}
      /\ r.said = "nothing" => m = Len(r.candidates)
      /\ Known \ Excluded \subseteq Range(r.candidates)
  BY <1>1 DEF Sound, Progress, InList
<1> QED BY <1>2, CallsAsk

\* A request fails without having received text only after REST was asked for its whole
\* list, or one model returned a blank text; every usable built-in and configured model
\* is in that list (the fallback of ExtractReceiptData).
THEOREM FailsExhausted == Spec => []FailureIsExhaustive
<1>1. ExtractionInv => FailureIsExhaustive
  BY SoundFails DEF ExtractionInv, FailureIsExhaustive, Unheard, Idle
<1> QED BY ExtractionInvHolds, <1>1, PTL

\* No listing empties the cache or makes it look older: an empty one is not stored, and
\* the time is taken when it is (getAvailableModels).
THEOREM CacheStaysFilled == Spec => CacheIsKept
<1>1. ExtractionInv /\ [Next]_vars =>
        [models # <<>> => models' # <<>> /\ discoveredAt' >= discoveredAt]_vars
  BY StepSound
<1> QED BY ExtractionInvHolds, <1>1, PTL DEF Spec, CacheIsKept

=============================================================================
