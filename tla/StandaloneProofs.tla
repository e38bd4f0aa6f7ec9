--------------------------- MODULE StandaloneProofs ---------------------------
(***************************************************************************)
(* The parts that share no state with the others: of the graph, that what  *)
(* detect_round_trips reports took place, that peel_back finds exactly the *)
(* wallets behind one and find_laundering_paths every path, shortest       *)
(* first, that clusters are common ownership and that risk has a source,   *)
(* for any number of wallets, payments and calls; which model the files on *)
(* disk hold and which of them answer together, for any order of training, *)
(* backtests, starts and crashes; and the alert table, the Elliptic graph, *)
(* the anomaly scores, the backtest and the contract scanner, for every    *)
(* input.                                                                  *)
(***************************************************************************)
EXTENDS Standalone, ThreatGraph, ModelFiles, DataLemmas, TLAPS

Edges ==
  /\ nodes \subseteq Addresses
  /\ out \in [Addresses -> Seq(Addresses)]
  /\ timestamp \in [Addresses -> [Addresses -> Nat]]
  /\ paid \subseteq Addresses \X Addresses \X Times

\* The timestamp an edge has is that of one of its transactions.
EdgesWerePaid ==
  \A a, b \in Addresses : Pays(a, b) => <<a, b, timestamp[a][b]>> \in paid

GraphInv == Edges /\ EdgesWerePaid

LEMMA GraphInit == InitGraph => GraphInv
<1> SUFFICES ASSUME InitGraph PROVE GraphInv
  OBVIOUS
<1>1. Edges
  BY DEF InitGraph, Edges
<1>2. EdgesWerePaid
  BY DEF InitGraph, EdgesWerePaid, Pays, ToSet
<1> QED BY <1>1, <1>2 DEF GraphInv

LEMMA AddTransactionStep ==
  ASSUME GraphInv, NEW a \in Addresses, NEW b \in Addresses \cup {NoWallet},
         NEW t \in Times, AddTransaction(a, b, t)
  PROVE  GraphInv'
<1> USE WalletAssumption, TimeAssumption DEF GraphInv, Edges
<1>1. CASE b = NoWallet
  <2>1. Edges'
    BY <1>1 DEF AddTransaction
  <2>2. EdgesWerePaid'
    BY <1>1 DEF AddTransaction, EdgesWerePaid, Pays
  <2> QED BY <2>1, <2>2
<1>2. CASE b # NoWallet
  <2>1. b \in Addresses /\ t \in Nat
    BY <1>2
  <2> DEFINE list == IF Pays(a, b) THEN out[a] ELSE Append(out[a], b)
  <2>2. /\ nodes' = nodes \cup ({a, b} \ {NoWallet})
        /\ out' = [out EXCEPT ![a] = list]
        /\ timestamp' = [timestamp EXCEPT ![a][b] = t]
        /\ paid' = paid \cup {<<a, b, t>>}
    BY <1>2 DEF AddTransaction
  <2>3. list \in Seq(Addresses)
    BY <2>1
  <2>4. ToSet(list) \subseteq ToSet(out[a]) \cup {b}
    <3>1. out[a] \in Seq(Addresses)
      OBVIOUS
    <3>2. ToSet(Append(out[a], b)) = ToSet(out[a]) \cup {b}
      BY <2>1, <3>1, AppendToSet
    <3> QED BY <3>2
  <2> HIDE DEF list
  <2>5. Edges'
    <3>1. nodes' \subseteq Addresses
      BY <2>1, <2>2
    <3>2. out' \in [Addresses -> Seq(Addresses)]
      BY <2>2, <2>3
    <3>3. timestamp' \in [Addresses -> [Addresses -> Nat]]
      <4>1. [timestamp[a] EXCEPT ![b] = t] \in [Addresses -> Nat]
        BY <2>1
      <4> QED BY <2>2, <4>1
    <3>4. paid' \subseteq Addresses \X Addresses \X Times
      BY <2>1, <2>2
    <3> QED BY <3>1, <3>2, <3>3, <3>4
  <2>6. ASSUME NEW c \in Addresses, NEW d \in Addresses, Pays(c, d)'
        PROVE  <<c, d, timestamp'[c][d]>> \in paid'
    <3>1. CASE c = a /\ d = b
      <4>1. timestamp'[c][d] = t
        BY <2>1, <2>2, <3>1
      <4> QED BY <2>2, <3>1, <4>1
    <3>2. CASE c # a \/ d # b
      <4>1. timestamp'[c][d] = timestamp[c][d]
        BY <2>1, <2>2, <3>2
      <4>2. Pays(c, d)
        <5>1. CASE c = a
          <6>1. out'[c] = list
            BY <2>2, <5>1
          <6> QED BY <2>4, <2>6, <3>2, <5>1, <6>1 DEF Pays
        <5>2. CASE c # a
          <6>1. out'[c] = out[c]
            BY <2>2, <5>2
          <6> QED BY <2>6, <6>1 DEF Pays
        <5> QED BY <5>1, <5>2
      <4> QED BY <2>2, <4>1, <4>2 DEF EdgesWerePaid
    <3> QED BY <3>1, <3>2
  <2>7. EdgesWerePaid'
    BY <2>6 DEF EdgesWerePaid
  <2> QED BY <2>5, <2>7
<1> QED BY <1>1, <1>2

LEMMA GraphStep == GraphInv /\ [NextGraph]_graphVars => GraphInv'
<1> SUFFICES ASSUME GraphInv, [NextGraph]_graphVars PROVE GraphInv'
  OBVIOUS
<1>1. ASSUME UNCHANGED paymentVars PROVE GraphInv'
  BY <1>1 DEF paymentVars, GraphInv, Edges, EdgesWerePaid, Pays
<1>2. CASE \E a \in Addresses, b \in Addresses \cup {NoWallet}, t \in Times : AddTransaction(a, b, t)
  BY <1>2, AddTransactionStep
<1>3. CASE \E a \in Addresses, score \in Scores : FlagAddress(a, score)
  BY <1>1, <1>3 DEF FlagAddress
<1>4. CASE \E lists \in InputLists : ClusterWallets(lists)
  BY <1>1, <1>4 DEF ClusterWallets
<1>5. CASE PropagateClusterRisk
  BY <1>1, <1>5 DEF PropagateClusterRisk
<1>6. CASE UNCHANGED graphVars
  BY <1>1, <1>6 DEF graphVars
<1> QED BY <1>2, <1>3, <1>4, <1>5, <1>6 DEF NextGraph

LEMMA GraphRoundTrips == GraphInv => RoundTripsTookPlace
<1> SUFFICES ASSUME GraphInv, NEW a \in Addresses, NEW b \in RoundTrips(a)
             PROVE  \E left, back \in Times :
                      /\ <<a, b, left>> \in paid /\ <<b, a, back>> \in paid
                      /\ left < back /\ back < left + Window
  BY DEF RoundTripsTookPlace
<1> DEFINE left == timestamp[a][b]
           back == timestamp[b][a]
<1>1. b \in Addresses /\ Pays(a, b) /\ Pays(b, a) /\ back - left > 0 /\ back - left < Window
  BY DEF RoundTrips, Payers, GraphInv, Edges
<1>2. <<a, b, left>> \in paid /\ <<b, a, back>> \in paid
  BY <1>1 DEF GraphInv, EdgesWerePaid
<1>3. left \in Times /\ back \in Times
  BY <1>2 DEF GraphInv, Edges
<1>4. left < back /\ back < left + Window
  <2>1. left \in Nat /\ back \in Nat /\ Window \in Nat
    BY <1>3, TimeAssumption
  <2>2. back - left > 0 /\ back - left < Window
    BY <1>1
  <2> HIDE DEF left, back
  <2> QED BY ONLY <2>1, <2>2
<1> QED BY <1>2, <1>3, <1>4

\* What detect_round_trips reports took place: an edge that is overwritten
\* still has the timestamp of one of its transactions.
THEOREM RoundTripsTookPlaceAlways == GraphSpec => []RoundTripsTookPlace
<1>1. InitGraph => GraphInv
  BY GraphInit
<1>2. GraphInv /\ [NextGraph]_graphVars => GraphInv'
  BY GraphStep
<1>3. GraphInv => RoundTripsTookPlace
  BY GraphRoundTrips
<1> QED BY <1>1, <1>2, <1>3, PTL DEF GraphSpec

-----------------------------------------------------------------------------

\* An edge joins the ends of a transaction, and both are in the graph.
EdgesArePayments ==
  \A a, b \in Addresses :
    /\ Pays(a, b) <=> \E t \in Times : <<a, b, t>> \in paid
    /\ Pays(a, b) => a \in nodes /\ b \in nodes

\* An empty graph has neither edges nor transactions.
LEMMA PaymentsInit == InitGraph => EdgesArePayments
BY DEF InitGraph, EdgesArePayments, Pays, ToSet

\* Every transaction adds its edge and no other.
LEMMA PaymentsStep == GraphInv /\ EdgesArePayments /\ [NextGraph]_graphVars => EdgesArePayments'
<1> SUFFICES ASSUME GraphInv, EdgesArePayments, [NextGraph]_graphVars PROVE EdgesArePayments'
  OBVIOUS
<1>1. ASSUME UNCHANGED paymentVars PROVE EdgesArePayments'
  BY <1>1 DEF paymentVars, EdgesArePayments, Pays
<1>2. ASSUME NEW a \in Addresses, NEW b \in Addresses \cup {NoWallet}, NEW t \in Times, AddTransaction(a, b, t)
      PROVE  EdgesArePayments'
  <2>1. CASE b = NoWallet
    BY <1>2, <2>1, WalletAssumption DEF AddTransaction, EdgesArePayments, Pays
  <2>2. CASE b # NoWallet
    <3> DEFINE list == IF Pays(a, b) THEN out[a] ELSE Append(out[a], b)
    <3>1. /\ nodes' = nodes \cup {a, b} /\ b \in Addresses
          /\ out' = [out EXCEPT ![a] = list]
          /\ paid' = paid \cup {<<a, b, t>>}
      BY <1>2, <2>2, WalletAssumption DEF AddTransaction
    <3>2. out \in [Addresses -> Seq(Addresses)]
      BY DEF GraphInv, Edges
    <3>3. ToSet(list) = ToSet(out[a]) \cup {b}
      <4>1. ToSet(Append(out[a], b)) = ToSet(out[a]) \cup {b}
        BY <3>1, <3>2, AppendToSet
      <4> QED BY <4>1 DEF Pays
    <3> HIDE DEF list
    <3>4. ASSUME NEW c \in Addresses, NEW d \in Addresses
          PROVE  Pays(c, d)' <=> Pays(c, d) \/ (c = a /\ d = b)
      <4>1. out'[a] = list /\ (c # a => out'[c] = out[c])
        BY <3>1, <3>2
      <4> QED BY <3>3, <4>1 DEF Pays
    <3>5. ASSUME NEW c \in Addresses, NEW d \in Addresses
          PROVE  (\E u \in Times : <<c, d, u>> \in paid') <=>
                   (\E u \in Times : <<c, d, u>> \in paid) \/ (c = a /\ d = b)
      BY <3>1
    <3>6. ASSUME NEW c \in Addresses, NEW d \in Addresses
          PROVE  /\ Pays(c, d) <=> \E u \in Times : <<c, d, u>> \in paid
                 /\ Pays(c, d) => c \in nodes /\ d \in nodes
      BY DEF EdgesArePayments
    <3>7. ASSUME NEW c \in Addresses, NEW d \in Addresses
          PROVE  /\ Pays(c, d)' <=> \E u \in Times : <<c, d, u>> \in paid'
                 /\ Pays(c, d)' => c \in nodes' /\ d \in nodes'
      BY <3>1, <3>4, <3>5, <3>6
    <3> QED BY <3>7 DEF EdgesArePayments
  <2> QED BY <2>1, <2>2
<1>3. CASE \E a \in Addresses, score \in Scores : FlagAddress(a, score)
  BY <1>1, <1>3 DEF FlagAddress
<1>4. CASE \E lists \in InputLists : ClusterWallets(lists)
  BY <1>1, <1>4 DEF ClusterWallets
<1>5. CASE PropagateClusterRisk
  BY <1>1, <1>5 DEF PropagateClusterRisk
<1>6. CASE UNCHANGED graphVars
  BY <1>1, <1>6 DEF graphVars
<1> QED BY <1>2, <1>3, <1>4, <1>5, <1>6 DEF NextGraph

\* p leads from b to a over n wallets and visits none twice.
Trail(p, n, b, a) ==
  /\ p \in [1..n -> Addresses] /\ p[1] = b /\ p[n] = a
  /\ \A i, j \in 1..n : i # j => p[i] # p[j]
  /\ \A i \in 1..n - 1 : Pays(p[i], p[i + 1])

\* The simple paths of the property are trails.
LEMMA PathsAreTrails ==
  ASSUME EdgesArePayments, NEW a \in Addresses, NEW b \in Addresses, NEW d \in Nat
  PROVE  (\E path \in SimplePaths(b, d) : Last(path) = a) <=> \E n \in 2..d + 1 : \E p : Trail(p, n, b, a)
<1>1. ASSUME NEW n \in 2..d + 1, NEW p \in [1..n -> Addresses]
      PROVE  /\ DOMAIN p = 1..n /\ Len(p) = n /\ Last(p) = p[n] /\ n \in Nat
             /\ (\A i \in 1..n - 1 : Pays(p[i], p[i + 1])) <=>
                  \A i \in 1..n - 1 : \E t \in Times : <<p[i], p[i + 1], t>> \in paid
  <2>1. DOMAIN p = 1..n /\ n \in Nat
    OBVIOUS
  <2>2. Len(p) = n
    BY <2>1
  <2>3. ASSUME NEW i \in 1..n - 1 PROVE p[i] \in Addresses /\ p[i + 1] \in Addresses
    <3>1. i \in 1..n /\ i + 1 \in 1..n
      BY <2>1
    <3> QED BY <3>1
  <2>4. \A i \in 1..n - 1 : Pays(p[i], p[i + 1]) <=> \E t \in Times : <<p[i], p[i + 1], t>> \in paid
    BY <2>3 DEF EdgesArePayments
  <2> QED BY <2>1, <2>2, <2>4 DEF Last
<1>2. ASSUME NEW path \in SimplePaths(b, d), Last(path) = a
      PROVE  \E n \in 2..d + 1 : \E p : Trail(p, n, b, a)
  <2>1. PICK n \in 2..d + 1 : path \in [1..n -> Addresses]
    BY <1>2 DEF SimplePaths
  <2>2. Trail(path, n, b, a)
    BY <1>1, <1>2, <2>1 DEF SimplePaths, Trail
  <2> QED BY <2>2
<1>3. ASSUME NEW n \in 2..d + 1, NEW p, Trail(p, n, b, a)
      PROVE  p \in SimplePaths(b, d) /\ Last(p) = a
  BY <1>1, <1>3 DEF SimplePaths, Trail
<1> QED BY <1>2, <1>3

\* Whoever pays the first wallet of a trail and is not on it may go in front.
LEMMA TrailFront ==
  ASSUME NEW a \in Addresses, NEW b \in Addresses, NEW n \in Nat \ {0}, NEW p, Trail(p, n, b, a),
         NEW c \in Addresses, Pays(c, b), \A i \in 1..n : p[i] # c
  PROVE  \E r : Trail(r, n + 1, c, a)
<1> DEFINE r == [i \in 1..n + 1 |-> IF i = 1 THEN c ELSE p[i - 1]]
<1>1. /\ p \in [1..n -> Addresses] /\ p[1] = b /\ p[n] = a
      /\ \A i, j \in 1..n : i # j => p[i] # p[j]
      /\ \A i \in 1..n - 1 : Pays(p[i], p[i + 1])
  BY DEF Trail
<1>2. \A i \in 1..n + 1 : i = 1 \/ (i # 1 /\ i - 1 \in 1..n)
  OBVIOUS
<1>3. r \in [1..n + 1 -> Addresses]
  BY <1>1, <1>2
<1>4. 1 \in 1..n + 1 /\ n + 1 \in 1..n + 1 /\ n + 1 # 1 /\ (n + 1) - 1 = n
  OBVIOUS
<1>5. r[1] = c /\ r[n + 1] = a
  BY <1>1, <1>4
<1>6. ASSUME NEW i \in 1..n + 1, NEW j \in 1..n + 1, i # j PROVE r[i] # r[j]
  <2>1. CASE i = 1
    BY <1>2, <1>6, <2>1
  <2>2. CASE j = 1
    BY <1>2, <1>6, <2>2
  <2>3. CASE i # 1 /\ j # 1
    <3>1. i - 1 \in 1..n /\ j - 1 \in 1..n /\ i - 1 # j - 1
      BY <1>6, <2>3
    <3>2. p[i - 1] # p[j - 1]
      BY <1>1, <3>1
    <3> QED BY <2>3, <3>2
  <2> QED BY <2>1, <2>2, <2>3
<1>7. ASSUME NEW i \in 1..(n + 1) - 1 PROVE Pays(r[i], r[i + 1])
  <2>1. i \in 1..n + 1 /\ i + 1 \in 1..n + 1 /\ i + 1 # 1 /\ (i + 1) - 1 = i
    OBVIOUS
  <2>2. r[i + 1] = p[i]
    BY <2>1
  <2>3. CASE i = 1
    BY <1>1, <2>2, <2>3, <1>5
  <2>4. CASE i # 1
    <3>1. i - 1 \in 1..n - 1 /\ (i - 1) + 1 = i
      BY <2>4
    <3>2. r[i] = p[i - 1]
      BY <2>1, <2>4
    <3>3. Pays(p[i - 1], p[(i - 1) + 1])
      BY <1>1, <3>1
    <3> HIDE DEF r
    <3> QED BY <2>2, <3>1, <3>2, <3>3
  <2> QED BY <2>3, <2>4
<1> HIDE DEF r
<1> QED BY <1>3, <1>5, <1>6, <1>7 DEF Trail

\* The rest of a trail is a trail.
LEMMA TrailRest ==
  ASSUME NEW a \in Addresses, NEW b \in Addresses, NEW n \in Nat \ {0}, NEW p, Trail(p, n, b, a), NEW k \in 1..n
  PROVE  p[k] \in Addresses /\ n - k + 1 \in 1..n /\ \E r : Trail(r, n - k + 1, p[k], a)
<1> DEFINE m == n - k + 1
           r == [i \in 1..m |-> p[i + k - 1]]
<1>1. /\ p \in [1..n -> Addresses] /\ p[1] = b /\ p[n] = a
      /\ \A i, j \in 1..n : i # j => p[i] # p[j]
      /\ \A i \in 1..n - 1 : Pays(p[i], p[i + 1])
  BY DEF Trail
<1>2. /\ m \in 1..n /\ 1 \in 1..m /\ m \in 1..m
      /\ 1 + k - 1 = k /\ m + k - 1 = n
      /\ \A i \in 1..m : i + k - 1 \in 1..n
      /\ \A i, j \in 1..m : i # j => i + k - 1 # j + k - 1
      /\ \A i \in 1..m - 1 : i \in 1..m /\ i + 1 \in 1..m /\ i + k - 1 \in 1..n - 1 /\ (i + 1) + k - 1 = (i + k - 1) + 1
  OBVIOUS
<1> HIDE DEF m
<1>3. r \in [1..m -> Addresses] /\ r[1] = p[k] /\ r[m] = a
  <2>1. \A i \in 1..m : p[i + k - 1] \in Addresses
    BY <1>1, <1>2
  <2>2. r[1] = p[1 + k - 1] /\ r[m] = p[m + k - 1]
    BY <1>2
  <2> QED BY <1>1, <1>2, <2>1, <2>2
<1>4. \A i, j \in 1..m : i # j => r[i] # r[j]
  BY <1>1, <1>2
<1>5. ASSUME NEW i \in 1..m - 1 PROVE Pays(r[i], r[i + 1])
  <2>1. r[i] = p[i + k - 1] /\ r[i + 1] = p[(i + 1) + k - 1]
    BY <1>2
  <2>2. Pays(p[i + k - 1], p[(i + k - 1) + 1])
    BY <1>1, <1>2
  <2> HIDE DEF r
  <2> QED BY <1>2, <2>1, <2>2
<1> HIDE DEF r
<1>6. Trail(r, m, p[k], a)
  BY <1>3, <1>4, <1>5 DEF Trail
<1> QED BY <1>1, <1>2, <1>6 DEF m

\* One level of peel_back.
PeelStep(a, s) ==
  LET new == (UNION {Payers(b) : b \in s.frontier}) \ (s.ancestors \cup {a})
  IN  [ancestors |-> s.ancestors \cup new, frontier |-> new]

\* What peel_back keeps between two levels.
Levels == [ancestors : SUBSET Addresses, frontier : SUBSET Addresses]

\* peel_back takes depth steps, each from what the one before left.
LEMMA PeelUnfolds ==
  ASSUME NEW a \in Addresses, a \in nodes, nodes \subseteq Addresses, NEW depth \in Nat
  PROVE  \E q \in [0..depth -> Levels] :
           /\ PeelBack(a, depth) = q[depth].ancestors
           /\ q[0] = [ancestors |-> {}, frontier |-> {a}]
           /\ \A i \in 1..depth : q[i] = PeelStep(a, q[i - 1])
<1> DEFINE z == [ancestors |-> {}, frontier |-> {a}]
           d == [i \in Nat |-> [s \in Levels |-> PeelStep(a, s)]]
           body(f) == [i \in 0..depth |->
             IF i = 0 THEN [ancestors |-> {}, frontier |-> {a}]
             ELSE LET s == f[i - 1]
                      new == (UNION {Payers(b) : b \in s.frontier}) \ (s.ancestors \cup {a})
                  IN  [ancestors |-> s.ancestors \cup new, frontier |-> new]]
           q == CHOOSE f : f = body(f)
<1>1. Stepwise(d, Levels)
  <2>1. ASSUME NEW s \in Levels PROVE PeelStep(a, s) \in Levels
    <3>1. (UNION {Payers(b) : b \in s.frontier}) \subseteq Addresses
      BY DEF Payers
    <3> QED BY <3>1 DEF PeelStep, Levels
  <2> HIDE DEF Levels
  <2> QED BY <2>1 DEF Stepwise
<1>2. PICK f \in [0..depth -> Levels] : f[0] = z /\ \A i \in 1..depth : f[i] = d[i][f[i - 1]]
  <2>1. z \in Levels
    BY DEF Levels
  <2> HIDE DEF d, z, Levels
  <2>2. PICK f : RecursTo(f, depth, Levels, z, d)
    BY <1>1, <2>1, RecursionUpTo
  <2> QED BY <2>2 DEF RecursTo
<1>3. \A i \in 1..depth : f[i] = PeelStep(a, f[i - 1])
  <2> SUFFICES ASSUME NEW i \in 1..depth PROVE f[i] = PeelStep(a, f[i - 1])
    OBVIOUS
  <2>1. i \in Nat /\ i - 1 \in 0..depth
    OBVIOUS
  <2>2. f[i - 1] \in Levels
    BY <2>1
  <2> HIDE DEF Levels
  <2> QED BY <1>2, <2>1, <2>2
<1>4. f = body(f)
  <2>1. \A i \in 0..depth : i = 0 \/ i \in 1..depth
    OBVIOUS
  <2>2. \A i \in 0..depth : f[i] = body(f)[i]
    BY <1>2, <1>3, <2>1 DEF PeelStep
  <2> QED BY <2>2
<1>5. q = body(q)
  <2> HIDE DEF body
  <2> QED BY <1>4
<1>6. PeelBack(a, depth) = q[depth].ancestors
  BY DEF PeelBack
<1> HIDE DEF q
<1>7. q[0] = z /\ \A i \in 1..depth : q[i] = PeelStep(a, q[i - 1])
  <2>1. 0 \in 0..depth /\ \A i \in 1..depth : i \in 0..depth /\ i # 0
    OBVIOUS
  <2> QED BY <1>5, <2>1 DEF PeelStep
<1>8. q \in [0..depth -> Levels]
  <2> DEFINE I == {i \in Nat : i <= depth => q[i] \in Levels}
  <2>1. 0 \in I
    BY <1>7 DEF Levels
  <2>2. ASSUME NEW i \in I PROVE i + 1 \in I
    <3> SUFFICES ASSUME i + 1 <= depth PROVE q[i + 1] \in Levels
      OBVIOUS
    <3>1. i + 1 \in 1..depth /\ (i + 1) - 1 = i /\ q[i] \in Levels
      OBVIOUS
    <3>2. q[i + 1] = PeelStep(a, q[i])
      BY <1>7, <3>1
    <3>3. (UNION {Payers(b) : b \in q[i].frontier}) \subseteq Addresses
      BY DEF Payers
    <3> QED BY <3>1, <3>2, <3>3 DEF PeelStep, Levels
  <2> HIDE DEF I
  <2>3. I = Nat
    <3>1. I \in SUBSET Nat
      BY DEF I
    <3> QED BY <2>1, <2>2, <3>1, NatSetInduction
  <2>4. \A i \in 0..depth : q[i] \in Levels
    BY <2>3 DEF I
  <2> QED BY <1>5, <2>4
<1> QED BY <1>6, <1>7, <1>8

\* Wallets from which a trail of at most i payments leads to a.
Behind(a, i) == {b \in Addresses : \E n \in 2..i + 1 : \E p : Trail(p, n, b, a)}

\* After i levels the ancestors are the wallets at most i payments behind a,
\* and all payers of those that are not on the frontier have been met.
Peeled(a, s, i) ==
  /\ s.frontier \subseteq s.ancestors \cup {a}
  /\ \A c \in (s.ancestors \cup {a}) \ s.frontier : Payers(c) \subseteq s.ancestors \cup {a}
  /\ s.ancestors = Behind(a, i)

\* Before the first level only the wallet itself has been met.
LEMMA PeelFirst ==
  ASSUME NEW a \in Addresses PROVE Peeled(a, [ancestors |-> {}, frontier |-> {a}], 0)
<1>1. Behind(a, 0) = {}
  BY DEF Behind
<1> QED BY <1>1 DEF Peeled

\* One level reaches one payment further back: what is behind the frontier
\* is met now, what is behind the others was met before.
LEMMA PeelNext ==
  ASSUME NEW a \in Addresses, NEW s \in Levels, NEW i \in Nat, Peeled(a, s, i),
         EdgesArePayments, nodes \subseteq Addresses
  PROVE  Peeled(a, PeelStep(a, s), i + 1)
<1> DEFINE old == s.ancestors \cup {a}
           new == (UNION {Payers(b) : b \in s.frontier}) \ old
           t == PeelStep(a, s)
<1>1. t.ancestors = s.ancestors \cup new /\ t.frontier = new
  BY DEF PeelStep
<1>2. /\ s.ancestors = Behind(a, i) /\ s.frontier \subseteq old
      /\ \A c \in old \ s.frontier : Payers(c) \subseteq old
  BY DEF Peeled
<1>3. \A c \in old : Payers(c) \subseteq old \cup new
  BY <1>2
<1>4. old \subseteq Addresses /\ new \subseteq Addresses
  BY DEF Levels, Payers
<1>5. ASSUME NEW b \in new PROVE b \in Behind(a, i + 1)
  <2>1. PICK c \in s.frontier : b \in Payers(c)
    OBVIOUS
  <2>2. b \in Addresses /\ c \in Addresses /\ c \in old /\ Pays(b, c) /\ b \notin old
    BY <1>2, <1>4, <2>1 DEF Payers
  <2> HIDE DEF new, t
  <2>3. PICK n \in 1..i + 1 : \E p : Trail(p, n, c, a)
    <3>1. CASE c = a
      <4> DEFINE p == [j \in 1..1 |-> a]
      <4>1. Trail(p, 1, c, a)
        BY <3>1 DEF Trail
      <4> HIDE DEF p
      <4>2. 1 \in 1..i + 1
        OBVIOUS
      <4> QED BY <4>1, <4>2
    <3>2. CASE c # a
      <4>1. PICK n \in 2..i + 1 : \E p : Trail(p, n, c, a)
        BY <1>2, <2>2, <3>2 DEF Behind
      <4>2. n \in 1..i + 1
        OBVIOUS
      <4> QED BY <4>1, <4>2
    <3> QED BY <3>1, <3>2
  <2>4. PICK p : Trail(p, n, c, a)
    BY <2>3
  <2>5. n \in Nat \ {0} /\ n <= i + 1
    OBVIOUS
  <2>6. ASSUME NEW k \in 1..n, p[k] = b PROVE FALSE
    <3> DEFINE m == n - k + 1
    <3>1. m \in 1..n /\ \E r : Trail(r, m, b, a)
      BY <2>2, <2>4, <2>5, <2>6, TrailRest
    <3> HIDE DEF m
    <3>2. PICK r : Trail(r, m, b, a)
      BY <3>1
    <3>3. CASE m = 1
      BY <2>2, <3>2, <3>3 DEF Trail
    <3>4. CASE m # 1
      <4>1. m \in 2..i + 1
        BY <2>5, <3>1, <3>4
      <4>2. b \in Behind(a, i)
        BY <2>2, <3>2, <4>1 DEF Behind
      <4> QED BY <1>2, <2>2, <4>2
    <3> QED BY <3>3, <3>4
  <2>7. \E r : Trail(r, n + 1, b, a)
    BY <2>2, <2>4, <2>5, <2>6, TrailFront
  <2>8. n + 1 \in 2..(i + 1) + 1
    BY <2>5
  <2> QED BY <2>2, <2>7, <2>8 DEF Behind
<1>6. ASSUME NEW b \in Behind(a, i + 1) PROVE b \in s.ancestors \cup new
  <2>1. PICK n \in 2..(i + 1) + 1 : \E p : Trail(p, n, b, a)
    BY <1>6 DEF Behind
  <2>2. PICK p : Trail(p, n, b, a)
    BY <2>1
  <2>3. n \in Nat \ {0} /\ 2 \in 1..n /\ 1 \in 1..n /\ n \in 1..n /\ n # 1 /\ 1 \in 1..n - 1 /\ n - 2 + 1 = n - 1 /\ 1 + 1 = 2
    OBVIOUS
  <2>4. b \in Addresses /\ b # a /\ Pays(b, p[2])
    <3>1. p[1] = b /\ p[n] = a /\ p[1] # p[n] /\ Pays(p[1], p[1 + 1])
      BY <2>2, <2>3 DEF Trail
    <3> QED BY <1>6, <2>3, <3>1 DEF Behind
  <2>5. p[2] \in Addresses /\ n - 2 + 1 \in 1..n /\ \E r : Trail(r, n - 2 + 1, p[2], a)
    BY <2>2, <2>3, <2>4, TrailRest
  <2>6. PICK r : Trail(r, n - 1, p[2], a)
    BY <2>3, <2>5
  <2>7. p[2] \in old
    <3>1. CASE n - 1 = 1
      BY <2>6, <3>1 DEF Trail
    <3>2. CASE n - 1 # 1
      <4>1. n - 1 \in 2..i + 1
        BY <3>2
      <4>2. p[2] \in Behind(a, i)
        BY <2>5, <2>6, <4>1 DEF Behind
      <4> QED BY <1>2, <4>2
    <3> QED BY <3>1, <3>2
  <2>8. b \in Payers(p[2])
    BY <2>4, <2>5 DEF EdgesArePayments, Payers
  <2>9. b \in old \cup new
    <3> HIDE DEF old, new
    <3> QED BY <1>3, <2>7, <2>8
  <2> QED BY <2>4, <2>9
<1>7. ASSUME NEW b \in s.ancestors PROVE b \in Behind(a, i + 1)
  <2>1. b \in Behind(a, i)
    BY <1>2, <1>7
  <2>2. \A n \in 2..i + 1 : n \in 2..(i + 1) + 1
    OBVIOUS
  <2> QED BY <2>1, <2>2 DEF Behind
<1>8. t.ancestors = Behind(a, i + 1)
  <2> HIDE DEF new, t
  <2> QED BY <1>1, <1>5, <1>6, <1>7
<1>9. t.ancestors \cup {a} = old \cup new
  BY <1>1
<1> HIDE DEF t, new
<1>10. \A c \in (t.ancestors \cup {a}) \ t.frontier : Payers(c) \subseteq t.ancestors \cup {a}
  BY <1>1, <1>3, <1>9
<1>11. t.frontier \subseteq t.ancestors \cup {a}
  BY <1>1
<1> QED BY <1>8, <1>10, <1>11 DEF Peeled, t

\* peel_back finds the wallets at most maxDepth payments behind a.
LEMMA PeelBackIs ==
  ASSUME NEW a \in Addresses, NEW depth \in Nat, EdgesArePayments, nodes \subseteq Addresses
  PROVE  PeelBack(a, depth) = Behind(a, depth)
<1>1. CASE a \in nodes
  <2>1. PICK q \in [0..depth -> Levels] :
           /\ PeelBack(a, depth) = q[depth].ancestors
           /\ q[0] = [ancestors |-> {}, frontier |-> {a}]
           /\ \A i \in 1..depth : q[i] = PeelStep(a, q[i - 1])
    BY <1>1, PeelUnfolds
  <2> DEFINE I == {i \in Nat : i <= depth => Peeled(a, q[i], i)}
  <2>2. 0 \in I
    BY <2>1, PeelFirst
  <2>3. ASSUME NEW i \in I PROVE i + 1 \in I
    <3> SUFFICES ASSUME i + 1 <= depth PROVE Peeled(a, q[i + 1], i + 1)
      OBVIOUS
    <3>1. i + 1 \in 1..depth /\ (i + 1) - 1 = i /\ i \in 0..depth /\ i \in Nat /\ Peeled(a, q[i], i)
      OBVIOUS
    <3>2. q[i + 1] = PeelStep(a, q[i]) /\ q[i] \in Levels
      BY <2>1, <3>1
    <3> QED BY <3>1, <3>2, PeelNext
  <2> HIDE DEF I
  <2>4. I = Nat
    <3>1. I \in SUBSET Nat
      BY DEF I
    <3> QED BY <2>2, <2>3, <3>1, NatSetInduction
  <2>5. Peeled(a, q[depth], depth)
    BY <2>4 DEF I
  <2> QED BY <2>1, <2>5 DEF Peeled
<1>2. CASE a \notin nodes
  <2>1. ASSUME NEW b \in Addresses, NEW n \in 2..depth + 1, NEW p, Trail(p, n, b, a) PROVE FALSE
    <3>1. n - 1 \in 1..n - 1 /\ n - 1 \in 1..n /\ (n - 1) + 1 = n
      OBVIOUS
    <3>2. p[n - 1] \in Addresses /\ Pays(p[n - 1], p[(n - 1) + 1]) /\ p[n] = a
      BY <2>1, <3>1 DEF Trail
    <3> QED BY <1>2, <3>1, <3>2 DEF EdgesArePayments
  <2>2. Behind(a, depth) = {}
    BY <2>1 DEF Behind
  <2> QED BY <1>2, <2>2 DEF PeelBack
<1> QED BY <1>1, <1>2

\* The edges are the transactions, in every state.
LEMMA GraphAlways == GraphSpec => [](GraphInv /\ EdgesArePayments)
<1>1. InitGraph => GraphInv /\ EdgesArePayments
  BY GraphInit, PaymentsInit
<1>2. GraphInv /\ EdgesArePayments /\ [NextGraph]_graphVars => (GraphInv /\ EdgesArePayments)'
  BY GraphStep, PaymentsStep
<1> QED BY <1>1, <1>2, PTL DEF GraphSpec

\* Tracing back agrees with the paths forward, for any number of wallets and
\* payments, in whatever order the payments came.
THEOREM PeelBackIsConverseAlways == GraphSpec => []PeelBackIsConverse
<1>1. GraphInv /\ EdgesArePayments => PeelBackIsConverse
  <2> SUFFICES ASSUME GraphInv, EdgesArePayments, NEW a \in Addresses, NEW d \in Depths
               PROVE  PeelBack(a, d) = {b \in Addresses : \E path \in SimplePaths(b, d) : Last(path) = a}
    BY DEF PeelBackIsConverse
  <2>1. d \in Nat
    BY DEF Depths
  <2>2. PeelBack(a, d) = Behind(a, d)
    BY <2>1, PeelBackIs DEF GraphInv, Edges
  <2>3. \A b \in Addresses : (\E path \in SimplePaths(b, d) : Last(path) = a) <=> \E n \in 2..d + 1 : \E p : Trail(p, n, b, a)
    BY <2>1, PathsAreTrails
  <2> QED BY <2>2, <2>3 DEF Behind
<1> QED BY <1>1, GraphAlways, PTL

-----------------------------------------------------------------------------

\* No element twice, as in the list of the successors of a wallet.
Distinct(s) == \A i, j \in 1..Len(s) : i # j => s[i] # s[j]
SuccessorsOnce == \A a \in Addresses : Distinct(out[a])

\* What is not in a list may be appended to it.
LEMMA DistinctAppend ==
  ASSUME NEW S, NEW s \in Seq(S), NEW e \in S, Distinct(s), e \notin ToSet(s)
  PROVE  Distinct(Append(s, e))
<1> DEFINE t == Append(s, e)
           n == Len(s)
<1>1. n \in Nat /\ Len(t) = n + 1 /\ t[n + 1] = e /\ \A i \in 1..n : t[i] = s[i] /\ s[i] # e
  BY AppendAt DEF ToSet
<1>2. \A i \in 1..n + 1 : i \in 1..n \/ i = n + 1
  BY <1>1
<1>3. \A i, j \in 1..n : i # j => s[i] # s[j]
  BY DEF Distinct
<1> HIDE DEF t, n
<1>4. \A i, j \in 1..n + 1 : i # j => t[i] # t[j]
  BY <1>1, <1>2, <1>3
<1> QED BY <1>1, <1>4 DEF Distinct, t

\* An empty graph has no successors, and a call of add_transaction appends one
\* only if the edge is new.
LEMMA SuccessorsInit == InitGraph => SuccessorsOnce
BY DEF InitGraph, SuccessorsOnce, Distinct

LEMMA SuccessorsStep == GraphInv /\ SuccessorsOnce /\ [NextGraph]_graphVars => SuccessorsOnce'
<1> SUFFICES ASSUME GraphInv, SuccessorsOnce, [NextGraph]_graphVars PROVE SuccessorsOnce'
  OBVIOUS
<1>1. ASSUME UNCHANGED out PROVE SuccessorsOnce'
  BY <1>1 DEF SuccessorsOnce
<1>2. ASSUME NEW a \in Addresses, NEW b \in Addresses \cup {NoWallet}, NEW t \in Times, AddTransaction(a, b, t)
      PROVE  SuccessorsOnce'
  <2>1. CASE b = NoWallet
    BY <1>1, <1>2, <2>1 DEF AddTransaction
  <2>2. CASE b # NoWallet
    <3> DEFINE list == IF Pays(a, b) THEN out[a] ELSE Append(out[a], b)
    <3>1. b \in Addresses /\ out' = [out EXCEPT ![a] = list]
      BY <1>2, <2>2 DEF AddTransaction
    <3>2. out \in [Addresses -> Seq(Addresses)]
      BY DEF GraphInv, Edges
    <3>3. Distinct(list)
      <4>1. Distinct(out[a]) /\ out[a] \in Seq(Addresses)
        BY <3>2 DEF SuccessorsOnce
      <4>2. ~ Pays(a, b) => b \notin ToSet(out[a])
        BY DEF Pays
      <4> QED BY <3>1, <4>1, <4>2, DistinctAppend
    <3> HIDE DEF list
    <3>4. \A c \in Addresses : out'[c] = IF c = a THEN list ELSE out[c]
      BY <3>1, <3>2
    <3> QED BY <3>3, <3>4 DEF SuccessorsOnce
  <2> QED BY <2>1, <2>2
<1>3. CASE \E a \in Addresses, score \in Scores : FlagAddress(a, score)
  BY <1>1, <1>3 DEF FlagAddress, paymentVars
<1>4. CASE \E lists \in InputLists : ClusterWallets(lists)
  BY <1>1, <1>4 DEF ClusterWallets, paymentVars
<1>5. CASE PropagateClusterRisk
  BY <1>1, <1>5 DEF PropagateClusterRisk, paymentVars
<1>6. CASE UNCHANGED graphVars
  BY <1>1, <1>6 DEF graphVars, paymentVars
<1> QED BY <1>2, <1>3, <1>4, <1>5, <1>6 DEF NextGraph

\* The ways the search goes: from a over at most D payments, no wallet twice.
Roads(a, D) ==
  {p \in Seq(Addresses) :
     /\ Len(p) \in 1..D + 1 /\ p[1] = a /\ Distinct(p)
     /\ \A i \in 1..Len(p) - 1 : Pays(p[i], p[i + 1])}

\* A road may be continued to a payee that is not on it.
LEMMA RoadOn ==
  ASSUME NEW a, NEW D \in Nat, NEW p \in Roads(a, D), NEW b \in Addresses, Len(p) < D + 1
  PROVE  Append(p, b) \in Roads(a, D) <=> Pays(p[Len(p)], b) /\ b \notin ToSet(p)
<1> DEFINE r == Append(p, b)
           n == Len(p)
<1>1. /\ p \in Seq(Addresses) /\ n \in 1..D + 1 /\ p[1] = a /\ Distinct(p)
      /\ \A i \in 1..n - 1 : Pays(p[i], p[i + 1])
  BY DEF Roads
<1>2. r \in Seq(Addresses) /\ Len(r) = n + 1 /\ r[n + 1] = b /\ \A i \in 1..n : r[i] = p[i]
  BY <1>1, AppendAt
<1>3. /\ n \in Nat /\ n < D + 1 /\ 1 \in 1..n /\ n \in 1..n /\ n + 1 \in 1..n + 1 /\ n + 1 \in 1..D + 1
      /\ n \in 1..(n + 1) - 1
      /\ \A i \in 1..(n + 1) - 1 : i \in 1..n - 1 \/ i = n
      /\ \A i \in 1..n - 1 : i \in 1..n /\ i + 1 \in 1..n
      /\ \A i \in 1..n : i \in 1..n + 1 /\ i # n + 1
  BY <1>1
<1>4. ToSet(p) = {p[i] : i \in 1..n}
  BY <1>1 DEF ToSet
<1> HIDE DEF r, n
<1>5. ASSUME r \in Roads(a, D) PROVE Pays(p[n], b) /\ b \notin ToSet(p)
  <2>1. Distinct(r) /\ \A i \in 1..(n + 1) - 1 : Pays(r[i], r[i + 1])
    BY <1>2, <1>5 DEF Roads
  <2>2. Pays(r[n], r[n + 1])
    BY <1>3, <2>1
  <2>3. \A i \in 1..n : r[i] # r[n + 1]
    BY <1>2, <1>3, <2>1 DEF Distinct
  <2> QED BY <1>2, <1>3, <1>4, <2>2, <2>3
<1>6. ASSUME Pays(p[n], b), b \notin ToSet(p) PROVE r \in Roads(a, D)
  <2>1. Distinct(r)
    BY <1>1, <1>6, DistinctAppend DEF r
  <2>2. \A i \in 1..(n + 1) - 1 : Pays(r[i], r[i + 1])
    BY <1>1, <1>2, <1>3, <1>6
  <2> QED BY <1>1, <1>2, <1>3, <2>1, <2>2 DEF Roads
<1> QED BY <1>5, <1>6 DEF r, n

\* A road of more than one wallet continues another.
LEMMA RoadBack ==
  ASSUME NEW a, NEW D \in Nat, NEW p \in Roads(a, D), Len(p) > 1
  PROVE  \E q \in Roads(a, D), b \in Addresses : p = Append(q, b) /\ Len(q) = Len(p) - 1
<1> DEFINE n == Len(p)
           q == SubSeq(p, 1, n - 1)
<1>1. /\ p \in Seq(Addresses) /\ n \in 1..D + 1 /\ p[1] = a /\ Distinct(p)
      /\ \A i \in 1..n - 1 : Pays(p[i], p[i + 1])
  BY DEF Roads
<1>2. /\ n - 1 \in 1..D + 1 /\ 1 \in 1..n - 1 /\ n \in 1..n /\ n > 1 /\ n \in Nat
      /\ \A i \in 1..n - 1 : i \in 1..n
      /\ \A i \in 1..(n - 1) - 1 : i \in 1..n - 1 /\ i + 1 \in 1..n - 1
  BY <1>1
<1>3. q \in Seq(Addresses) /\ Len(q) = n - 1 /\ \A i \in 1..n - 1 : q[i] = p[i]
  BY <1>1, <1>2
<1>4. p = Append(q, p[n]) /\ p[n] \in Addresses
  BY <1>1, <1>2
<1> HIDE DEF q, n
<1>5. Distinct(q)
  BY <1>1, <1>2, <1>3 DEF Distinct, n
<1>6. q[1] = a /\ \A i \in 1..(n - 1) - 1 : Pays(q[i], q[i + 1])
  BY <1>1, <1>2, <1>3
<1>7. q \in Roads(a, D)
  BY <1>2, <1>3, <1>5, <1>6 DEF Roads
<1> QED BY <1>3, <1>4, <1>7 DEF n

\* What the queue of the search holds.
Walks == Seq(Addresses) \ {<<>>}

\* A path is not empty and ends in its last wallet.
LEMMA LastIs ==
  ASSUME NEW p \in Walks
  PROVE  Last(p) = p[Len(p)] /\ Last(p) \in Addresses /\ Len(p) \in Nat /\ Len(p) >= 1
BY DEF Walks, Last

\* The neighbour in place i, if the path has not visited it.
OnwardStep(p, next, i, v) == IF next[i] \in ToSet(p) THEN v ELSE Append(v, Append(p, next[i]))

\* The neighbours are looked at one after the other.
LEMMA OnwardsUnfolds ==
  ASSUME NEW p \in Walks, GraphInv
  PROVE  /\ out[Last(p)] \in Seq(Addresses)
         /\ \E q : /\ Onwards(p) = q[Len(out[Last(p)])] /\ q[0] = <<>>
                   /\ \A i \in 1..Len(out[Last(p)]) : q[i] = OnwardStep(p, out[Last(p)], i, q[i - 1])
<1> DEFINE next == out[Last(p)]
           n == Len(next)
           W == Seq(Walks)
           body(f) == [i \in 0..n |->
             IF i = 0 THEN <<>>
             ELSE IF next[i] \in ToSet(p) THEN f[i - 1]
             ELSE Append(f[i - 1], Append(p, next[i]))]
           d == [i \in Nat |-> [v \in W |-> IF i \in 1..n THEN OnwardStep(p, next, i, v) ELSE v]]
           q == CHOOSE f : f = body(f)
<1>1. next \in Seq(Addresses) /\ n \in Nat /\ \A i \in 1..n : next[i] \in Addresses
  BY LastIs DEF GraphInv, Edges
<1>2. Onwards(p) = q[n]
  BY DEF Onwards
<1> HIDE DEF next, n
<1>3. Stepwise(d, W)
  <2>1. ASSUME NEW i \in Nat, NEW v \in W, i \in 1..n PROVE OnwardStep(p, next, i, v) \in W
    <3>1. Append(p, next[i]) \in Walks
      <4>1. p \in Seq(Addresses) /\ next[i] \in Addresses
        BY <1>1, <2>1 DEF Walks
      <4>2. Append(p, next[i]) \in Seq(Addresses) /\ Len(Append(p, next[i])) = Len(p) + 1 /\ Len(p) \in Nat
        BY <4>1
      <4> QED BY <4>2 DEF Walks
    <3> HIDE DEF Walks
    <3> QED BY <3>1 DEF OnwardStep
  <2> HIDE DEF W
  <2> QED BY <2>1 DEF Stepwise
<1>4. PICK f \in [0..n -> W] : f[0] = <<>> /\ \A i \in 1..n : f[i] = d[i][f[i - 1]]
  <2> DEFINE z == <<>>
  <2>1. z \in W
    OBVIOUS
  <2> HIDE DEF d, W, z
  <2>2. PICK f : RecursTo(f, n, W, z, d)
    BY <1>1, <1>3, <2>1, RecursionUpTo
  <2> QED BY <2>2 DEF z, RecursTo
<1>5. f = body(f)
  <2>1. ASSUME NEW i \in 1..n PROVE f[i] = OnwardStep(p, next, i, f[i - 1])
    <3>1. i \in Nat /\ i - 1 \in 0..n
      BY <1>1
    <3>2. f[i - 1] \in W
      BY <3>1
    <3> QED BY <1>4, <3>1, <3>2
  <2>2. \A i \in 0..n : i = 0 \/ i \in 1..n
    BY <1>1
  <2>3. \A i \in 0..n : f[i] = body(f)[i]
    BY <1>4, <2>1, <2>2 DEF OnwardStep
  <2> QED BY <2>3
<1>6. q = body(q)
  <2> HIDE DEF body
  <2> QED BY <1>5
<1> HIDE DEF q
<1>7. q[0] = <<>> /\ \A i \in 1..n : q[i] = OnwardStep(p, next, i, q[i - 1])
  <2>1. 0 \in 0..n /\ \A i \in 1..n : i \in 0..n /\ i # 0
    BY <1>1
  <2> QED BY <1>6, <2>1 DEF OnwardStep
<1> QED BY <1>1, <1>2, <1>7 DEF n, next

\* The neighbours found so far, each once, as the roads that end there.
Onto(p, next, k, v) ==
  /\ v \in Seq(Walks) /\ Distinct(v)
  /\ \A i \in 1..Len(v) : \E j \in 1..k : next[j] \notin ToSet(p) /\ v[i] = Append(p, next[j])
  /\ \A j \in 1..k : next[j] \notin ToSet(p) => \E i \in 1..Len(v) : v[i] = Append(p, next[j])

\* One neighbour more.
LEMMA OntoNext ==
  ASSUME NEW p \in Walks, NEW next \in Seq(Addresses), Distinct(next), NEW k \in Nat,
         k + 1 \in 1..Len(next), NEW v, Onto(p, next, k, v)
  PROVE  Onto(p, next, k + 1, OnwardStep(p, next, k + 1, v))
<1> DEFINE e == Append(p, next[k + 1])
           t == Append(v, e)
<1>1. next[k + 1] \in Addresses /\ p \in Seq(Addresses) /\ Len(p) \in Nat
  BY DEF Walks
<1>2. /\ v \in Seq(Walks) /\ Distinct(v)
      /\ \A i \in 1..Len(v) : \E j \in 1..k : next[j] \notin ToSet(p) /\ v[i] = Append(p, next[j])
      /\ \A j \in 1..k : next[j] \notin ToSet(p) => \E i \in 1..Len(v) : v[i] = Append(p, next[j])
  BY DEF Onto
<1>3. /\ \A j \in 1..k : j \in 1..k + 1 /\ j # k + 1 /\ j \in 1..Len(next)
      /\ \A j \in 1..k + 1 : j \in 1..k \/ j = k + 1
      /\ k + 1 \in 1..k + 1
  OBVIOUS
<1>4. CASE next[k + 1] \in ToSet(p)
  <2>1. OnwardStep(p, next, k + 1, v) = v
    BY <1>4 DEF OnwardStep
  <2>2. Onto(p, next, k + 1, v)
    BY <1>2, <1>3, <1>4 DEF Onto
  <2> QED BY <2>1, <2>2
<1>5. CASE next[k + 1] \notin ToSet(p)
  <2>1. OnwardStep(p, next, k + 1, v) = t
    BY <1>5 DEF OnwardStep
  <2>2. e \in Walks
    BY <1>1 DEF Walks
  <2>3. e \notin ToSet(v)
    <3> SUFFICES ASSUME NEW i \in 1..Len(v), v[i] = e PROVE FALSE
      BY <1>2 DEF ToSet
    <3>1. PICK j \in 1..k : v[i] = Append(p, next[j])
      BY <1>2
    <3>2. next[j] # next[k + 1] /\ next[j] \in Addresses
      BY <1>3 DEF Distinct
    <3>3. Append(p, next[j])[Len(p) + 1] = next[j] /\ e[Len(p) + 1] = next[k + 1]
      BY <1>1, <3>2
    <3> QED BY <3>1, <3>2, <3>3
  <2> HIDE DEF e
  <2>4. t \in Seq(Walks) /\ Len(t) = Len(v) + 1 /\ t[Len(v) + 1] = e /\ \A i \in 1..Len(v) : t[i] = v[i]
    BY <1>2, <2>2, AppendAt
  <2>5. Distinct(t)
    BY <1>2, <2>2, <2>3, DistinctAppend
  <2> HIDE DEF t
  <2>6. Len(v) \in Nat
    BY <1>2
  <2>7. /\ \A i \in 1..Len(v) + 1 : i \in 1..Len(v) \/ i = Len(v) + 1
        /\ \A i \in 1..Len(v) : i \in 1..Len(v) + 1
        /\ Len(v) + 1 \in 1..Len(v) + 1
    BY <2>6
  <2>8. ASSUME NEW i \in 1..Len(t)
        PROVE  \E j \in 1..k + 1 : next[j] \notin ToSet(p) /\ t[i] = Append(p, next[j])
    <3>1. CASE i \in 1..Len(v)
      BY <1>2, <1>3, <2>4, <3>1
    <3>2. CASE i = Len(v) + 1
      BY <1>3, <1>5, <2>4, <3>2 DEF e
    <3> QED BY <2>4, <2>7, <3>1, <3>2
  <2>9. ASSUME NEW j \in 1..k + 1, next[j] \notin ToSet(p)
        PROVE  \E i \in 1..Len(t) : t[i] = Append(p, next[j])
    <3>1. CASE j \in 1..k
      <4>1. PICK i \in 1..Len(v) : v[i] = Append(p, next[j])
        BY <1>2, <2>9, <3>1
      <4> QED BY <2>4, <2>7, <4>1
    <3>2. CASE j = k + 1
      BY <2>4, <2>7, <3>2 DEF e
    <3> QED BY <1>3, <3>1, <3>2
  <2>10. Onto(p, next, k + 1, t)
    BY <2>4, <2>5, <2>8, <2>9 DEF Onto
  <2> QED BY <2>1, <2>10
<1> QED BY <1>4, <1>5

\* The neighbours of the last wallet that are not on the road, each once.
LEMMA OnwardsAre ==
  ASSUME NEW p \in Walks, GraphInv, SuccessorsOnce
  PROVE  out[Last(p)] \in Seq(Addresses) /\ Onto(p, out[Last(p)], Len(out[Last(p)]), Onwards(p))
<1> DEFINE next == out[Last(p)]
           n == Len(next)
<1>1. next \in Seq(Addresses) /\ n \in Nat /\ Distinct(next)
  BY OnwardsUnfolds, LastIs DEF SuccessorsOnce
<1>2. PICK q : /\ Onwards(p) = q[n] /\ q[0] = <<>>
               /\ \A i \in 1..n : q[i] = OnwardStep(p, next, i, q[i - 1])
  BY OnwardsUnfolds
<1> HIDE DEF next
<1> DEFINE I == {k \in Nat : k <= n => Onto(p, next, k, q[k])}
<1>3. 0 \in I
  <2>1. Onto(p, next, 0, <<>>)
    BY DEF Onto, Distinct
  <2> QED BY <1>2, <2>1
<1>4. ASSUME NEW k \in I PROVE k + 1 \in I
  <2> SUFFICES ASSUME k + 1 <= n PROVE Onto(p, next, k + 1, q[k + 1])
    OBVIOUS
  <2>1. k \in Nat /\ k <= n /\ k + 1 \in 1..n /\ (k + 1) - 1 = k
    BY <1>1
  <2>2. q[k + 1] = OnwardStep(p, next, k + 1, q[k]) /\ Onto(p, next, k, q[k])
    BY <1>2, <2>1
  <2> QED BY <1>1, <2>1, <2>2, OntoNext
<1> HIDE DEF I
<1>5. I = Nat
  <2>1. I \in SUBSET Nat
    BY DEF I
  <2> QED BY <1>3, <1>4, <2>1, NatSetInduction
<1>6. Onto(p, next, n, q[n])
  BY <1>1, <1>5 DEF I
<1> QED BY <1>1, <1>2, <1>6 DEF next

\* From a road that is not at full depth the search goes on to every road that
\* continues it, once.
LEMMA OnwardsIs ==
  ASSUME NEW a, NEW D \in Nat, NEW p \in Roads(a, D), Len(p) < D + 1, GraphInv, SuccessorsOnce
  PROVE  /\ Onwards(p) \in Seq(Roads(a, D)) /\ Distinct(Onwards(p))
         /\ \A i \in 1..Len(Onwards(p)) :
              \E b \in Addresses : Onwards(p)[i] = Append(p, b)
         /\ \A b \in Addresses : Append(p, b) \in Roads(a, D) =>
              \E i \in 1..Len(Onwards(p)) : Onwards(p)[i] = Append(p, b)
<1> DEFINE v == Onwards(p)
           next == out[Last(p)]
           n == Len(next)
<1>1. p \in Walks /\ Last(p) = p[Len(p)]
  <2>1. p \in Seq(Addresses) /\ Len(p) \in 1..D + 1
    BY DEF Roads
  <2>2. p \in Walks
    BY <2>1 DEF Walks
  <2> QED BY <2>2, LastIs
<1>2. next \in Seq(Addresses) /\ Onto(p, next, n, v)
  BY <1>1, OnwardsAre
<1>3. /\ v \in Seq(Walks) /\ Distinct(v)
      /\ \A i \in 1..Len(v) : \E j \in 1..n : next[j] \notin ToSet(p) /\ v[i] = Append(p, next[j])
      /\ \A j \in 1..n : next[j] \notin ToSet(p) => \E i \in 1..Len(v) : v[i] = Append(p, next[j])
  BY <1>2 DEF Onto
<1>4. /\ \A j \in 1..n : next[j] \in Addresses /\ Pays(p[Len(p)], next[j])
      /\ \A b : Pays(p[Len(p)], b) => \E j \in 1..n : next[j] = b
  BY <1>1, <1>2 DEF Pays, ToSet
<1> HIDE DEF v, next, n
<1>5. ASSUME NEW i \in 1..Len(v)
      PROVE  v[i] \in Roads(a, D) /\ \E b \in Addresses : v[i] = Append(p, b)
  <2>1. PICK j \in 1..n : next[j] \notin ToSet(p) /\ v[i] = Append(p, next[j])
    BY <1>3
  <2> QED BY <1>4, <2>1, RoadOn
<1>6. ASSUME NEW b \in Addresses, Append(p, b) \in Roads(a, D)
      PROVE  \E i \in 1..Len(v) : v[i] = Append(p, b)
  <2>1. Pays(p[Len(p)], b) /\ b \notin ToSet(p)
    BY <1>6, RoadOn
  <2> QED BY <1>3, <1>4, <2>1
<1>7. v \in Seq(Roads(a, D))
  <2> DEFINE R == Roads(a, D)
  <2>1. v \in Seq(Walks) /\ \A i \in 1..Len(v) : v[i] \in R
    BY <1>3, <1>5
  <2> HIDE DEF R
  <2>2. v \in Seq(R)
    BY <2>1
  <2> QED BY <2>2 DEF R
<1> QED BY <1>3, <1>5, <1>6, <1>7 DEF v

\* met lists the roads in the order in which they entered the queue, of which k
\* have left it: each once and shorter ones first, none more than a payment
\* longer than the next to leave, and with a road that has left also those that
\* continue it.
Met(a, D, met, k) ==
  /\ met \in Seq(Roads(a, D)) /\ k \in 0..Len(met)
  /\ Len(met) >= 1 /\ met[1] = <<a>>
  /\ Distinct(met)
  /\ \A i, j \in 1..Len(met) : i <= j => Len(met[i]) <= Len(met[j])
  /\ k < Len(met) => \A i \in 1..Len(met) : Len(met[i]) <= Len(met[k + 1]) + 1
  /\ \A i \in 2..Len(met) : \E j \in 1..k, b \in Addresses : met[i] = Append(met[j], b)
  /\ \A j \in 1..k, b \in Addresses :
       Append(met[j], b) \in Roads(a, D) => \E i \in 1..Len(met) : met[i] = Append(met[j], b)

\* A road and its length.
LEMMA RoadIs ==
  ASSUME NEW a, NEW D \in Nat, NEW p \in Roads(a, D)
  PROVE  p \in Seq(Addresses) /\ Len(p) \in Nat /\ Len(p) >= 1 /\ Len(p) <= D + 1 /\ p \in Walks
<1>1. p \in Seq(Addresses) /\ Len(p) \in 1..D + 1
  BY DEF Roads
<1> QED BY <1>1 DEF Walks

\* Paths that continue others: the length, and what they continue.
LEMMA AppendIs ==
  ASSUME NEW p \in Seq(Addresses), NEW b \in Addresses
  PROVE  Len(Append(p, b)) = Len(p) + 1
OBVIOUS

LEMMA AppendInjective ==
  ASSUME NEW p \in Seq(Addresses), NEW b \in Addresses, NEW q \in Seq(Addresses), NEW c \in Addresses,
         Append(p, b) = Append(q, c)
  PROVE  p = q
<1>1. Len(p) \in Nat /\ Len(q) \in Nat /\ Len(p) + 1 = Len(q) + 1
  BY AppendIs
<1>2. Len(p) = Len(q)
  BY <1>1
<1>3. \A i \in 1..Len(p) : p[i] = q[i]
  <2>1. \A i \in 1..Len(p) : Append(p, b)[i] = p[i]
    BY AppendAt
  <2>2. \A i \in 1..Len(q) : Append(q, c)[i] = q[i]
    BY AppendAt
  <2> QED BY <1>2, <2>1, <2>2
<1> QED BY <1>2, <1>3

\* A road at full depth leaves the queue and nothing enters.
LEMMA MetStays ==
  ASSUME NEW a, NEW D \in Nat, NEW met, NEW k, Met(a, D, met, k), k < Len(met), Len(met[k + 1]) >= D + 1
  PROVE  Met(a, D, met, k + 1)
<1> DEFINE n == Len(met)
           R == Roads(a, D)
<1>1. /\ met \in Seq(R) /\ k \in 0..n
      /\ n >= 1 /\ met[1] = <<a>>
      /\ Distinct(met)
      /\ \A i, j \in 1..n : i <= j => Len(met[i]) <= Len(met[j])
      /\ \A i \in 1..n : Len(met[i]) <= Len(met[k + 1]) + 1
      /\ \A i \in 2..n : \E j \in 1..k, b \in Addresses : met[i] = Append(met[j], b)
      /\ \A j \in 1..k, b \in Addresses :
           Append(met[j], b) \in R => \E i \in 1..n : met[i] = Append(met[j], b)
  BY DEF Met
<1>2. n \in Nat /\ k \in Nat /\ k + 1 \in 0..n /\ k + 1 \in 1..n /\ \A i \in 1..k + 1 : i \in 1..k \/ i = k + 1
  BY <1>1
<1>3. \A i \in 1..n : met[i] \in R /\ Len(met[i]) \in Nat
  BY <1>1, RoadIs
<1>4. ASSUME k + 1 < n PROVE \A i \in 1..n : Len(met[i]) <= Len(met[(k + 1) + 1]) + 1
  <2>1. (k + 1) + 1 \in 1..n /\ k + 1 <= (k + 1) + 1
    BY <1>2, <1>4
  <2>2. Len(met[k + 1]) <= Len(met[(k + 1) + 1])
    BY <1>1, <1>2, <2>1
  <2> SUFFICES ASSUME NEW i \in 1..n PROVE Len(met[i]) <= Len(met[(k + 1) + 1]) + 1
    OBVIOUS
  <2>3. Len(met[i]) <= Len(met[k + 1]) + 1
    BY <1>1
  <2> QED BY <1>2, <1>3, <2>1, <2>2, <2>3
<1>5. \A i \in 2..n : \E j \in 1..k + 1, b \in Addresses : met[i] = Append(met[j], b)
  <2>1. \A j \in 1..k : j \in 1..k + 1
    BY <1>2
  <2> QED BY <1>1, <2>1
<1>6. ASSUME NEW b \in Addresses PROVE Append(met[k + 1], b) \notin R
  <2>1. met[k + 1] \in R
    BY <1>2, <1>3
  <2>2. met[k + 1] \in Seq(Addresses) /\ Len(met[k + 1]) = D + 1
    BY <2>1, RoadIs
  <2>3. Len(Append(met[k + 1], b)) = (D + 1) + 1
    BY <2>2, AppendIs
  <2> SUFFICES ASSUME Append(met[k + 1], b) \in R PROVE FALSE
    OBVIOUS
  <2>4. (D + 1) + 1 <= D + 1
    BY <2>3, RoadIs
  <2> QED BY <2>4
<1>7. \A j \in 1..k + 1, b \in Addresses :
        Append(met[j], b) \in R => \E i \in 1..n : met[i] = Append(met[j], b)
  BY <1>1, <1>2, <1>6
<1> HIDE DEF n, R
<1> QED BY <1>1, <1>2, <1>4, <1>5, <1>7 DEF Met, n, R

\* A road leaves the queue and those that continue it enter at its end.
LEMMA MetGrows ==
  ASSUME NEW a, NEW D \in Nat, NEW met, NEW k, Met(a, D, met, k), k < Len(met), Len(met[k + 1]) < D + 1,
         GraphInv, SuccessorsOnce
  PROVE  Met(a, D, met \o Onwards(met[k + 1]), k + 1)
<1> DEFINE n == Len(met)
           R == Roads(a, D)
           p == met[k + 1]
           o == Onwards(p)
           m == Len(o)
           v == met \o o
<1>1. /\ met \in Seq(R) /\ k \in 0..n
      /\ n >= 1 /\ met[1] = <<a>>
      /\ Distinct(met)
      /\ \A i, j \in 1..n : i <= j => Len(met[i]) <= Len(met[j])
      /\ \A i \in 1..n : Len(met[i]) <= Len(p) + 1
      /\ \A i \in 2..n : \E j \in 1..k, b \in Addresses : met[i] = Append(met[j], b)
      /\ \A j \in 1..k, b \in Addresses :
           Append(met[j], b) \in R => \E i \in 1..n : met[i] = Append(met[j], b)
  BY DEF Met
<1>2. n \in Nat /\ k \in Nat /\ k < n /\ k + 1 \in 1..n /\ \A i \in 1..k + 1 : i \in 1..k \/ i = k + 1
  BY <1>1
<1>3. \A i \in 1..n : met[i] \in R /\ met[i] \in Seq(Addresses) /\ Len(met[i]) \in Nat
  BY <1>1, RoadIs
<1>4. p \in R /\ p \in Seq(Addresses) /\ Len(p) \in Nat
  BY <1>2, <1>3
<1>5. /\ o \in Seq(R) /\ Distinct(o)
      /\ \A i \in 1..m : \E b \in Addresses : o[i] = Append(p, b)
      /\ \A b \in Addresses : Append(p, b) \in R => \E i \in 1..m : o[i] = Append(p, b)
  <2>1. p \in Roads(a, D) /\ Len(p) < D + 1
    BY <1>4
  <2> HIDE DEF p
  <2> QED BY <2>1, OnwardsIs
<1>6. m \in Nat /\ \A i \in 1..m : o[i] \in R /\ Len(o[i]) = Len(p) + 1
  <2>1. m \in Nat /\ \A i \in 1..m : o[i] \in R
    BY <1>5
  <2>2. ASSUME NEW i \in 1..m PROVE Len(o[i]) = Len(p) + 1
    <3>1. PICK b \in Addresses : o[i] = Append(p, b)
      BY <1>5
    <3> QED BY <1>4, <3>1, AppendIs
  <2> QED BY <2>1, <2>2
<1> HIDE DEF R, p, o, n
<1>7. /\ v \in Seq(R) /\ Len(v) = n + m
      /\ \A i \in 1..n : v[i] = met[i]
      /\ \A i \in 1..m : v[n + i] = o[i]
  BY <1>1, <1>5, ConcatAt DEF n
<1> HIDE DEF m, v
<1>8. /\ \A i \in 1..n + m : i \in 1..n \/ (i - n \in 1..m /\ i = n + (i - n))
      /\ \A i \in 1..n : i \in 1..n + m
      /\ \A i \in 1..m : n + i \in 1..n + m /\ n + i \notin 1..n
  BY <1>2, <1>6
<1>9. ASSUME NEW i \in 1..n, NEW j \in 1..m PROVE met[i] # o[j]
  <2> SUFFICES ASSUME met[i] = o[j] PROVE FALSE
    OBVIOUS
  <2>1. PICK b \in Addresses : o[j] = Append(p, b)
    BY <1>5
  <2>2. Len(met[i]) = Len(p) + 1 /\ Len(p) >= 1
    BY <1>4, <1>6, RoadIs DEF R
  <2>3. i # 1
    <3> SUFFICES ASSUME i = 1 PROVE FALSE
      OBVIOUS
    <3>1. Len(met[1]) = 1
      BY <1>1
    <3>2. Len(p) \in Nat /\ Len(p) >= 1 /\ Len(p) + 1 = 1
      BY <1>4, <2>2, <3>1
    <3> QED BY <3>2
  <2>4. i \in 2..n
    BY <1>2, <2>3
  <2>5. PICK x \in 1..k, c \in Addresses : met[i] = Append(met[x], c)
    BY <1>1, <2>4
  <2>6. x \in 1..n /\ x # k + 1
    BY <1>2
  <2>7. met[x] = p
    <3> DEFINE u == met[x]
    <3>1. u \in Seq(Addresses) /\ Append(u, c) = Append(p, b)
      BY <1>3, <2>1, <2>5, <2>6
    <3> HIDE DEF u
    <3>2. u = p
      BY <1>4, <3>1, AppendInjective
    <3> QED BY <3>2 DEF u
  <2>8. met[x] # met[k + 1]
    BY <1>1, <1>2, <2>6 DEF Distinct, n
  <2> QED BY <2>7, <2>8 DEF p
<1>10. Distinct(v)
  <2> SUFFICES ASSUME NEW i \in 1..n + m, NEW j \in 1..n + m, i # j PROVE v[i] # v[j]
    BY <1>7 DEF Distinct
  <2>1. CASE i \in 1..n /\ j \in 1..n
    BY <1>1, <1>7, <2>1 DEF Distinct, n
  <2>2. CASE i \in 1..n /\ j \notin 1..n
    <3>1. j - n \in 1..m /\ v[j] = o[j - n]
      BY <1>7, <1>8, <2>2
    <3> QED BY <1>7, <1>9, <2>2, <3>1
  <2>3. CASE i \notin 1..n /\ j \in 1..n
    <3>1. i - n \in 1..m /\ v[i] = o[i - n]
      BY <1>7, <1>8, <2>3
    <3> QED BY <1>7, <1>9, <2>3, <3>1
  <2>4. CASE i \notin 1..n /\ j \notin 1..n
    <3>1. i - n \in 1..m /\ v[i] = o[i - n] /\ j - n \in 1..m /\ v[j] = o[j - n]
      BY <1>7, <1>8, <2>4
    <3>2. i - n # j - n
      BY <1>2, <1>6, <2>4
    <3> QED BY <1>5, <3>1, <3>2 DEF Distinct, m
  <2> QED BY <2>1, <2>2, <2>3, <2>4
<1>11. \A i \in 1..n + m :
         /\ v[i] \in R /\ Len(v[i]) \in Nat /\ Len(v[i]) <= Len(p) + 1
         /\ i \notin 1..n => Len(v[i]) = Len(p) + 1
  <2> SUFFICES ASSUME NEW i \in 1..n + m
               PROVE  /\ v[i] \in R /\ Len(v[i]) \in Nat /\ Len(v[i]) <= Len(p) + 1
                      /\ i \notin 1..n => Len(v[i]) = Len(p) + 1
    OBVIOUS
  <2>1. CASE i \in 1..n
    BY <1>1, <1>3, <1>7, <2>1
  <2>2. CASE i \notin 1..n
    <3>1. i - n \in 1..m /\ v[i] = o[i - n]
      BY <1>7, <1>8, <2>2
    <3> QED BY <1>4, <1>6, <3>1
  <2> QED BY <2>1, <2>2
<1>12. ASSUME NEW i \in 1..n + m, NEW j \in 1..n + m, i <= j PROVE Len(v[i]) <= Len(v[j])
  <2>1. CASE j \in 1..n
    <3>1. i \in 1..n
      BY <1>2, <1>12, <2>1
    <3> QED BY <1>1, <1>7, <1>12, <2>1, <3>1
  <2>2. CASE j \notin 1..n
    <3>1. Len(v[j]) = Len(p) + 1 /\ Len(v[i]) <= Len(p) + 1
      BY <1>11, <2>2
    <3> QED BY <3>1
  <2> QED BY <2>1, <2>2
<1>13. k + 1 \in 1..n + m /\ v[k + 1] = p
  BY <1>2, <1>7, <1>8 DEF p
<1>14. ASSUME k + 1 < n + m, NEW i \in 1..n + m PROVE Len(v[i]) <= Len(v[(k + 1) + 1]) + 1
  <2>1. (k + 1) + 1 \in 1..n + m /\ k + 1 <= (k + 1) + 1
    BY <1>2, <1>6, <1>14
  <2>2. Len(p) <= Len(v[(k + 1) + 1])
    BY <1>12, <1>13, <2>1
  <2>3. Len(v[i]) <= Len(p) + 1 /\ Len(v[i]) \in Nat /\ Len(v[(k + 1) + 1]) \in Nat
    BY <1>11, <2>1
  <2> QED BY <1>4, <2>2, <2>3
<1>15. ASSUME NEW i \in 2..n + m PROVE \E j \in 1..k + 1, b \in Addresses : v[i] = Append(v[j], b)
  <2>1. CASE i \in 1..n
    <3>1. i \in 2..n
      BY <1>2, <2>1
    <3>2. PICK j \in 1..k, b \in Addresses : met[i] = Append(met[j], b)
      BY <1>1, <3>1
    <3>3. j \in 1..n /\ j \in 1..k + 1
      BY <1>2
    <3> QED BY <1>7, <2>1, <3>2, <3>3
  <2>2. CASE i \notin 1..n
    <3>1. i \in 1..n + m
      BY <1>2, <1>6
    <3>2. i - n \in 1..m /\ v[i] = o[i - n]
      BY <1>7, <1>8, <2>2, <3>1
    <3>3. PICK b \in Addresses : o[i - n] = Append(p, b)
      BY <1>5, <3>2
    <3>4. k + 1 \in 1..k + 1
      BY <1>2
    <3> QED BY <1>13, <3>2, <3>3, <3>4
  <2> QED BY <2>1, <2>2
<1>16. ASSUME NEW j \in 1..k + 1, NEW b \in Addresses, Append(v[j], b) \in R
       PROVE  \E i \in 1..n + m : v[i] = Append(v[j], b)
  <2>1. CASE j \in 1..k
    <3>1. j \in 1..n /\ v[j] = met[j]
      BY <1>2, <1>7, <2>1
    <3>2. PICK i \in 1..n : met[i] = Append(met[j], b)
      BY <1>1, <1>16, <2>1, <3>1
    <3> QED BY <1>7, <1>8, <3>1, <3>2
  <2>2. CASE j = k + 1
    <3>1. v[j] = p
      BY <1>13, <2>2
    <3>2. PICK i \in 1..m : o[i] = Append(p, b)
      BY <1>5, <1>16, <3>1
    <3> QED BY <1>7, <1>8, <3>1, <3>2
  <2> QED BY <1>2, <2>1, <2>2
<1>17. k + 1 \in 0..n + m /\ n + m >= 1
  BY <1>2, <1>6
<1>18. v[1] = <<a>>
  BY <1>1, <1>2, <1>7
<1>19. Met(a, D, v, k + 1)
  BY <1>7, <1>10, <1>12, <1>14, <1>15, <1>16, <1>17, <1>18 DEF Met, R
<1> QED BY <1>19 DEF v, o, p

\* A state of the search: the roads that wait, and those that have been
\* reported, which are all that have left but the source itself.
Searched(a, D, s, met, k) ==
  /\ Met(a, D, met, k)
  /\ s.frontier \in Seq(Roads(a, D)) /\ Len(s.frontier) = Len(met) - k
  /\ \A i \in 1..Len(met) - k : s.frontier[i] = met[k + i]
  /\ s.paths \in Seq(Roads(a, D)) /\ Len(s.paths) = (IF k = 0 THEN 0 ELSE k - 1)
  /\ \A i \in 1..k - 1 : s.paths[i] = met[i + 1]

\* What is left of a queue without its head.
LEMMA TailIs ==
  ASSUME NEW S, NEW f \in Seq(S), Len(f) >= 1
  PROVE  /\ Tail(f) \in Seq(S) /\ Len(Tail(f)) = Len(f) - 1 /\ Head(f) = f[1] /\ f[1] \in S /\ f # <<>>
         /\ \A i \in 1..Len(f) - 1 : Tail(f)[i] = f[i + 1]
<1>1. f # <<>> /\ Len(f) \in Nat
  OBVIOUS
<1>2. Tail(f) \in Seq(S) /\ Len(Tail(f)) = Len(f) - 1
  BY <1>1
<1> QED BY <1>1, <1>2

\* One turn of the loop while the limit is out of reach.
LEMMA SearchStep ==
  ASSUME NEW a, NEW D \in Nat, NEW s, NEW met, NEW k, Searched(a, D, s, met, k), s.frontier # <<>>,
         NEW limit \in Nat, k < limit, GraphInv, SuccessorsOnce
  PROVE  \E new : Searched(a, D, Search(s, D, limit), new, k + 1)
<1> DEFINE n == Len(met)
           R == Roads(a, D)
           path == Head(s.frontier)
           paths == IF Len(path) > 1 THEN Append(s.paths, path) ELSE s.paths
           rest == Tail(s.frontier)
           t == Search(s, D, limit)
<1>1. /\ Met(a, D, met, k)
      /\ s.frontier \in Seq(R) /\ Len(s.frontier) = n - k
      /\ \A i \in 1..n - k : s.frontier[i] = met[k + i]
      /\ s.paths \in Seq(R) /\ Len(s.paths) = (IF k = 0 THEN 0 ELSE k - 1)
      /\ \A i \in 1..k - 1 : s.paths[i] = met[i + 1]
  BY DEF Searched
<1>2. /\ met \in Seq(R) /\ k \in 0..n /\ n >= 1 /\ met[1] = <<a>> /\ n \in Nat /\ k \in Nat
      /\ \A i \in 2..n : \E j \in 1..k, b \in Addresses : met[i] = Append(met[j], b)
  BY <1>1 DEF Met
<1>3. k < n /\ k + 1 \in 1..n /\ Len(s.frontier) >= 1 /\ 1 \in 1..n - k
  <2>1. Len(s.frontier) # 0
    BY <1>1
  <2> QED BY <1>1, <1>2, <2>1
<1>4. /\ rest \in Seq(R) /\ Len(rest) = n - (k + 1) /\ path = met[k + 1] /\ path \in R
      /\ \A i \in 1..n - (k + 1) : rest[i] = met[(k + 1) + i]
  <2>1. /\ rest \in Seq(R) /\ Len(rest) = (n - k) - 1 /\ path = s.frontier[1] /\ s.frontier[1] \in R
        /\ \A i \in 1..(n - k) - 1 : rest[i] = s.frontier[i + 1]
    <3> DEFINE f == s.frontier
    <3>1. f \in Seq(R) /\ Len(f) >= 1 /\ Len(f) = n - k
      BY <1>1, <1>3
    <3> HIDE DEF f, R
    <3>2. /\ Tail(f) \in Seq(R) /\ Len(Tail(f)) = Len(f) - 1 /\ Head(f) = f[1] /\ f[1] \in R
          /\ \A i \in 1..Len(f) - 1 : Tail(f)[i] = f[i + 1]
      BY <3>1, TailIs
    <3> QED BY <3>1, <3>2 DEF f
  <2> HIDE DEF rest, path, R
  <2>2. (n - k) - 1 = n - (k + 1) /\ \A i \in 1..n - (k + 1) : i + 1 \in 1..n - k /\ k + (i + 1) = (k + 1) + i
    BY <1>2
  <2>3. s.frontier[1] = met[k + 1]
    BY <1>1, <1>3
  <2>4. \A i \in 1..n - (k + 1) : s.frontier[i + 1] = met[(k + 1) + i]
    BY <1>1, <2>2
  <2> QED BY <2>1, <2>2, <2>3, <2>4
<1>5. path \in Seq(Addresses) /\ Len(path) \in Nat /\ Len(path) <= D + 1
  BY <1>4, RoadIs
<1> HIDE DEF path, rest, R
<1>6. paths \in Seq(R) /\ Len(paths) = k /\ \A i \in 1..k : paths[i] = met[i + 1]
  <2>1. CASE k = 0
    <3>1. Len(path) = 1
      <4>1. path = met[1] /\ met[1] = <<a>>
        BY <1>2, <1>4, <2>1
      <4> QED BY <4>1
    <3>2. paths = s.paths
      BY <3>1
    <3> HIDE DEF paths
    <3> QED BY <1>1, <2>1, <3>2
  <2>2. CASE k # 0
    <3>1. k + 1 \in 2..n
      BY <1>2, <1>3, <2>2
    <3>2. PICK j \in 1..k, b \in Addresses : met[k + 1] = Append(met[j], b)
      BY <1>2, <3>1
    <3>3. Len(path) > 1
      <4>1. met[j] \in R
        BY <1>2
      <4>2. met[j] \in Seq(Addresses) /\ Len(met[j]) \in Nat /\ Len(met[j]) >= 1
        BY <4>1, RoadIs DEF R
      <4> DEFINE u == met[j]
      <4> HIDE DEF u
      <4>3. Len(Append(u, b)) = Len(u) + 1 /\ Len(u) \in Nat /\ Len(u) >= 1
        BY <4>2, AppendIs DEF u
      <4>4. path = Append(u, b)
        BY <1>4, <3>2 DEF u
      <4> QED BY <4>3, <4>4
    <3>4. paths = Append(s.paths, path)
      BY <3>3
    <3> HIDE DEF paths
    <3> DEFINE q == s.paths
    <3>5. q \in Seq(R) /\ Len(q) = k - 1 /\ \A i \in 1..k - 1 : q[i] = met[i + 1]
      BY <1>1, <2>2
    <3> HIDE DEF q
    <3>6. /\ Append(q, path) \in Seq(R) /\ Len(Append(q, path)) = Len(q) + 1
          /\ Append(q, path)[Len(q) + 1] = path
          /\ \A i \in 1..Len(q) : Append(q, path)[i] = q[i]
      BY <1>4, <3>5, AppendAt
    <3>7. Len(q) + 1 = k /\ \A i \in 1..k : i \in 1..k - 1 \/ i = k
      BY <1>2, <2>2, <3>5
    <3>8. paths = Append(q, path)
      BY <3>4 DEF q
    <3> QED BY <1>4, <3>5, <3>6, <3>7, <3>8
  <2> QED BY <2>1, <2>2
<1>7. ~ (Len(paths) >= limit)
  BY <1>2, <1>6
<1>8. t.paths = paths
  BY DEF Search, path
<1>9. t.frontier = IF Len(path) >= D + 1 THEN rest ELSE rest \o Onwards(path)
  BY <1>5, <1>7 DEF Search, path, rest
<1> HIDE DEF t, paths
<1>10. k + 1 # 0 /\ (k + 1) - 1 = k
  BY <1>2
<1>11. CASE Len(path) >= D + 1
  <2>1. Met(a, D, met, k + 1)
    BY <1>1, <1>3, <1>4, <1>11, MetStays
  <2>2. Searched(a, D, t, met, k + 1)
    BY <1>4, <1>6, <1>8, <1>9, <1>10, <1>11, <2>1 DEF Searched, R, n
  <2> QED BY <2>2 DEF t
<1>12. CASE ~ (Len(path) >= D + 1)
  <2> DEFINE o == Onwards(path)
             m == Len(o)
             new == met \o o
             v == rest \o o
  <2>1. Len(path) < D + 1
    BY <1>5, <1>12
  <2>2. Met(a, D, new, k + 1)
    BY <1>1, <1>3, <1>4, <2>1, MetGrows
  <2>3. o \in Seq(R)
    BY <1>4, <2>1, OnwardsIs DEF R
  <2> HIDE DEF o
  <2>4. m \in Nat
    BY <2>3
  <2>5. Len(new) = n + m /\ (\A i \in 1..n : new[i] = met[i]) /\ (\A i \in 1..m : new[n + i] = o[i])
    BY <1>2, <2>3, ConcatAt
  <2>6. /\ v \in Seq(R) /\ Len(v) = (n - (k + 1)) + m
        /\ \A i \in 1..n - (k + 1) : v[i] = rest[i]
        /\ \A i \in 1..m : v[(n - (k + 1)) + i] = o[i]
    <3> DEFINE f == rest
    <3>0. Len(f) = n - (k + 1)
      BY <1>4
    <3>1. f \in Seq(R)
      BY <1>4
    <3> HIDE DEF f, v, new, m
    <3>2. /\ f \o o \in Seq(R) /\ Len(f \o o) = Len(f) + Len(o)
          /\ \A i \in 1..Len(f) : (f \o o)[i] = f[i]
          /\ \A i \in 1..Len(o) : (f \o o)[Len(f) + i] = o[i]
      BY <2>3, <3>1, ConcatAt
    <3> QED BY <3>0, <3>2 DEF f, v, m
  <2> HIDE DEF new, v, m
  <2>7. ASSUME NEW i \in 1..(n + m) - (k + 1) PROVE v[i] = new[(k + 1) + i]
    <3>1. CASE i \in 1..n - (k + 1)
      <4>1. (k + 1) + i \in 1..n
        BY <1>2, <3>1
      <4> QED BY <1>4, <2>5, <2>6, <3>1, <4>1
    <3>2. CASE i \notin 1..n - (k + 1)
      <4> DEFINE j == i - (n - (k + 1))
      <4>1. j \in 1..m /\ i = (n - (k + 1)) + j /\ (k + 1) + i = n + j
        BY <1>2, <1>3, <2>4, <3>2
      <4> HIDE DEF j
      <4> QED BY <2>5, <2>6, <4>1
    <3> QED BY <3>1, <3>2
  <2>8. Len(v) = (n + m) - (k + 1)
    BY <1>2, <2>4, <2>6
  <2>9. \A i \in 1..k : new[i + 1] = met[i + 1]
    <3>1. \A i \in 1..k : i + 1 \in 1..n
      BY <1>2, <1>3
    <3> QED BY <2>5, <3>1
  <2>10. t.frontier = v
    BY <1>9, <1>12 DEF v, o
  <2>11. Searched(a, D, t, new, k + 1)
    BY <1>6, <1>8, <1>10, <2>2, <2>5, <2>6, <2>7, <2>8, <2>9, <2>10 DEF Searched, R
  <2> QED BY <2>11 DEF t
<1> QED BY <1>11, <1>12

\* A state of the loop.
Turns == [paths : Seq(Walks), frontier : Seq(Walks)]

\* The loop of find_laundering_paths, from its start and turn by turn.
FirstTurn(a) == [paths |-> <<>>, frontier |-> <<<<a>>>>]
Turn(s, D, limit) == IF s.frontier = <<>> THEN s ELSE Search(s, D, limit)

\* A turn leaves a state of the loop.
LEMMA TurnType ==
  ASSUME NEW s \in Turns, NEW D \in Nat, NEW limit \in Nat, GraphInv, SuccessorsOnce
  PROVE  Turn(s, D, limit) \in Turns
<1> DEFINE path == Head(s.frontier)
           paths == IF Len(path) > 1 THEN Append(s.paths, path) ELSE s.paths
           rest == Tail(s.frontier)
           t == Search(s, D, limit)
<1>1. s.paths \in Seq(Walks) /\ s.frontier \in Seq(Walks)
  BY DEF Turns
<1>2. CASE s.frontier = <<>>
  BY <1>2 DEF Turn
<1>3. CASE s.frontier # <<>>
  <2> DEFINE f == s.frontier
  <2>1. f \in Seq(Walks) /\ f # <<>>
    BY <1>1, <1>3
  <2> HIDE DEF f
  <2>2. Head(f) \in Walks /\ Tail(f) \in Seq(Walks)
    <3> DEFINE P == Walks
    <3>1. f \in Seq(P) /\ f # <<>>
      BY <2>1
    <3> HIDE DEF P
    <3>2. Head(f) \in P /\ Tail(f) \in Seq(P)
      BY <3>1
    <3> QED BY <3>2 DEF P
  <2>3. path \in Walks /\ rest \in Seq(Walks)
    BY <2>2 DEF f
  <2>4. Onwards(path) \in Seq(Walks)
    BY <2>3, OnwardsAre DEF Onto
  <2> DEFINE P == Walks
             o == Onwards(path)
             q == s.paths
  <2>5. path \in P /\ rest \in Seq(P) /\ o \in Seq(P) /\ q \in Seq(P)
    BY <1>1, <2>3, <2>4
  <2> HIDE DEF P, path, rest, o, q
  <2>6. Append(q, path) \in Seq(P) /\ rest \o o \in Seq(P) /\ <<>> \in Seq(P)
    BY <2>5
  <2>7. paths \in Seq(P)
    BY <2>5, <2>6 DEF q
  <2>8. t.paths = paths /\ t = [paths |-> t.paths, frontier |-> t.frontier]
    BY DEF Search, path
  <2>9. t.frontier = rest \/ t.frontier = <<>> \/ t.frontier = rest \o o
    <3>1. path \in Seq(Addresses)
      BY <2>5 DEF P, Walks
    <3>2. Len(path) \in Nat
      BY <3>1
    <3>3. CASE Len(path) >= D + 1
      <4>1. ~ (Len(path) < D + 1)
        BY <3>2, <3>3
      <4>2. t.frontier = rest
        BY <3>3, <4>1 DEF Search, path, rest
      <4> QED BY <4>2
    <3>4. CASE Len(path) < D + 1 /\ Len(paths) >= limit
      <4>1. ~ (Len(path) >= D + 1)
        BY <3>2, <3>4
      <4>2. t.frontier = <<>>
        BY <3>4, <4>1 DEF Search, path
      <4> QED BY <4>2
    <3>5. CASE Len(path) < D + 1 /\ ~ (Len(paths) >= limit)
      <4>1. ~ (Len(path) >= D + 1)
        BY <3>2, <3>5
      <4>2. t.frontier = rest \o o
        BY <3>5, <4>1 DEF Search, path, rest, o
      <4> QED BY <4>2
    <3> QED BY <3>2, <3>3, <3>4, <3>5
  <2> HIDE DEF t, paths
  <2>10. t.frontier \in Seq(P)
    BY <2>5, <2>6, <2>9
  <2>11. t \in Turns
    BY <2>7, <2>8, <2>10 DEF Turns, P
  <2> QED BY <1>3, <2>11 DEF Turn, t
<1> QED BY <1>2, <1>3

\* The loop takes turn after turn.
LEMMA FindUnfolds ==
  ASSUME NEW a \in nodes, nodes \subseteq Addresses, NEW D \in Nat, NEW limit \in Nat, GraphInv, SuccessorsOnce
  PROVE  \E q : /\ FindLaunderingPaths(a, D, limit) = q[MaxTurns].paths
                /\ q \in [0..MaxTurns -> Turns] /\ q[0] = FirstTurn(a)
                /\ \A i \in 1..MaxTurns : q[i] = Turn(q[i - 1], D, limit)
<1> DEFINE d == [i \in Nat |-> [s \in Turns |-> Turn(s, D, limit)]]
           body(f) == [n \in 0..MaxTurns |->
             IF n = 0 THEN [paths |-> <<>>, frontier |-> <<<<a>>>>]
             ELSE LET s == f[n - 1]
                  IN  IF s.frontier = <<>> THEN s ELSE Search(s, D, limit)]
           q == CHOOSE f : f = body(f)
<1>1. MaxTurns \in Nat
  BY TurnAssumption
<1>2. FindLaunderingPaths(a, D, limit) = q[MaxTurns].paths
  BY DEF FindLaunderingPaths
<1>3. Stepwise(d, Turns)
  <2>1. ASSUME NEW s \in Turns PROVE Turn(s, D, limit) \in Turns
    BY TurnType
  <2> QED BY <2>1 DEF Stepwise
<1>4. FirstTurn(a) \in Turns
  <2> DEFINE p == <<a>>
             P == Walks
             none == <<>>
  <2>1. p \in P
    BY DEF Walks
  <2>2. none \in Seq(P)
    OBVIOUS
  <2> HIDE DEF p, P, none
  <2>3. <<p>> \in Seq(P)
    BY <2>1
  <2>4. [paths |-> none, frontier |-> <<p>>] \in Turns
    BY <2>2, <2>3 DEF Turns, P
  <2> QED BY <2>4 DEF FirstTurn, none, p
<1>5. PICK f \in [0..MaxTurns -> Turns] :
        f[0] = FirstTurn(a) /\ \A i \in 1..MaxTurns : f[i] = d[i][f[i - 1]]
  <2> DEFINE z == FirstTurn(a)
             W == Turns
  <2>1. Stepwise(d, W) /\ z \in W
    BY <1>3, <1>4
  <2> HIDE DEF d, z, W
  <2>2. PICK f : RecursTo(f, MaxTurns, W, z, d)
    BY <1>1, <2>1, RecursionUpTo
  <2> QED BY <2>2 DEF RecursTo, z, W
<1>6. \A i \in 1..MaxTurns : f[i] = Turn(f[i - 1], D, limit)
  <2> SUFFICES ASSUME NEW i \in 1..MaxTurns PROVE f[i] = Turn(f[i - 1], D, limit)
    OBVIOUS
  <2>1. i \in Nat /\ i - 1 \in 0..MaxTurns
    BY <1>1
  <2>2. f[i - 1] \in Turns
    BY <2>1
  <2> QED BY <1>5, <2>1, <2>2
<1>7. f = body(f)
  <2>1. \A i \in 0..MaxTurns : i = 0 \/ i \in 1..MaxTurns
    BY <1>1
  <2>2. \A i \in 0..MaxTurns : f[i] = body(f)[i]
    BY <1>5, <1>6, <2>1 DEF Turn, FirstTurn
  <2> QED BY <2>2
<1>8. q = body(q)
  <2> HIDE DEF body
  <2> QED BY <1>7
<1> HIDE DEF q
<1>9. q[0] = FirstTurn(a) /\ \A i \in 1..MaxTurns : q[i] = Turn(q[i - 1], D, limit)
  <2>1. 0 \in 0..MaxTurns /\ \A i \in 1..MaxTurns : i \in 0..MaxTurns /\ i # 0
    BY <1>1
  <2> QED BY <1>8, <2>1 DEF Turn, FirstTurn
<1> DEFINE I == {i \in Nat : i <= MaxTurns => q[i] \in Turns}
<1>10. 0 \in I
  BY <1>4, <1>9
<1>11. ASSUME NEW i \in I PROVE i + 1 \in I
  <2> SUFFICES ASSUME i + 1 <= MaxTurns PROVE q[i + 1] \in Turns
    OBVIOUS
  <2>1. i + 1 \in 1..MaxTurns /\ (i + 1) - 1 = i /\ q[i] \in Turns
    BY <1>1
  <2>2. q[i + 1] = Turn(q[i], D, limit)
    BY <1>9, <2>1
  <2> QED BY <2>1, <2>2, TurnType
<1> HIDE DEF I
<1>12. I = Nat
  <2>1. I \in SUBSET Nat
    BY DEF I
  <2> QED BY <1>10, <1>11, <2>1, NatSetInduction
<1>13. \A i \in 0..MaxTurns : q[i] \in Turns
  BY <1>1, <1>12 DEF I
<1>14. q \in [0..MaxTurns -> Turns]
  <2>1. q = [n \in 0..MaxTurns |-> q[n]]
    BY <1>8
  <2> QED BY <1>13, <2>1
<1> QED BY <1>2, <1>9, <1>14

\* The queue starts with the source, which leaves it first.
LEMMA SearchStart ==
  ASSUME NEW a \in Addresses, NEW D \in Nat
  PROVE  Searched(a, D, FirstTurn(a), <<<<a>>>>, 0)
<1> DEFINE p == <<a>>
           R == Roads(a, D)
           one == <<p>>
           none == <<>>
           s == FirstTurn(a)
<1>1. p \in R
  <2>1. p \in Seq(Addresses) /\ Len(p) = 1 /\ p[1] = a
    OBVIOUS
  <2>2. Distinct(p) /\ 1 \in 1..D + 1 /\ 1..Len(p) - 1 = {}
    BY <2>1 DEF Distinct
  <2> HIDE DEF p
  <2> QED BY <2>1, <2>2 DEF Roads
<1>2. Len(p) = 1
  OBVIOUS
<1> HIDE DEF p, R
<1>3. one \in Seq(R) /\ Len(one) = 1 /\ one[1] = p /\ one[0 + 1] = p
  BY <1>1
<1>4. none \in Seq(R) /\ Len(none) = 0
  OBVIOUS
<1>5. s.paths = none /\ s.frontier = one
  BY DEF FirstTurn, p
<1> HIDE DEF one, none, s
<1>6. Distinct(one) /\ 2..Len(one) = {} /\ 1..0 = {} /\ 0 < Len(one) /\ \A i \in 1..Len(one) : i = 1
  BY <1>3 DEF Distinct
<1>7. Met(a, D, one, 0)
  <2>1. one[1] = <<a>>
    BY <1>3 DEF p
  <2>2. \A i \in 1..Len(one) : Len(one[i]) = 1
    BY <1>2, <1>3, <1>6
  <2> QED BY <1>2, <1>3, <1>6, <2>1, <2>2 DEF Met, R
<1>8. Searched(a, D, s, one, 0)
  <2>1. 1..(0 - 1) = {} /\ 0 \in Nat /\ Len(one) - 0 = 1 /\ \A i \in 1..1 : i = 1 /\ 0 + i = 1
    BY <1>3
  <2> QED BY <1>3, <1>4, <1>5, <1>7, <2>1 DEF Searched, R
<1> QED BY <1>8 DEF s, one, p

\* The first N turns.
TakesTurns(q, a, D, limit, N) ==
  q[0] = FirstTurn(a) /\ \A i \in 1..N : q[i] = Turn(q[i - 1], D, limit)

\* Without a limit, a turn takes one road from the queue as long as there is one.
LEMMA TurnsSearch ==
  ASSUME NEW a \in Addresses, NEW D \in Nat, NEW limit \in Nat, NEW N \in Nat, N < limit,
         NEW q, TakesTurns(q, a, D, limit, N), GraphInv, SuccessorsOnce
  PROVE  \E met, k : Searched(a, D, q[N], met, k) /\ (k = N \/ q[N].frontier = <<>>)
<1>0. q[0] = FirstTurn(a) /\ \A i \in 1..N : q[i] = Turn(q[i - 1], D, limit)
  BY DEF TakesTurns
<1> DEFINE Good(n) == \E met, k : /\ Searched(a, D, q[n], met, k)
                                  /\ k <= n /\ (k = n \/ q[n].frontier = <<>>)
           I == {n \in Nat : n <= N => Good(n)}
<1>1. 0 \in I
  <2>1. Searched(a, D, q[0], <<<<a>>>>, 0)
    BY <1>0, SearchStart
  <2> DEFINE one == <<<<a>>>>
             z == 0
  <2>2. Searched(a, D, q[0], one, z) /\ z <= 0 /\ z = 0
    BY <2>1
  <2> HIDE DEF one, z
  <2>3. Good(0)
    BY <2>2
  <2> HIDE DEF Good
  <2> QED BY <2>3
<1>2. ASSUME NEW n \in I PROVE n + 1 \in I
  <2> SUFFICES ASSUME n + 1 <= N PROVE Good(n + 1)
    OBVIOUS
  <2>1. n \in Nat /\ n + 1 \in 1..N /\ (n + 1) - 1 = n /\ Good(n) /\ n < limit
    OBVIOUS
  <2>2. q[n + 1] = Turn(q[n], D, limit)
    BY <1>0, <2>1
  <2>3. PICK met, k : Searched(a, D, q[n], met, k) /\ k <= n /\ (k = n \/ q[n].frontier = <<>>)
    BY <2>1
  <2>4. k \in Nat
    BY <2>3 DEF Searched, Met
  <2> HIDE DEF I
  <2>5. CASE q[n].frontier = <<>>
    <3>1. q[n + 1] = q[n]
      BY <2>2, <2>5 DEF Turn
    <3>2. k <= n + 1
      BY <2>1, <2>3, <2>4
    <3> QED BY <2>3, <2>5, <3>1, <3>2
  <2>6. CASE q[n].frontier # <<>>
    <3>1. k = n /\ k < limit
      BY <2>1, <2>3, <2>6
    <3>2. q[n + 1] = Search(q[n], D, limit)
      BY <2>2, <2>6 DEF Turn
    <3>3. PICK new : Searched(a, D, Search(q[n], D, limit), new, k + 1)
      BY <2>3, <2>6, <3>1, SearchStep
    <3>4. k + 1 <= n + 1 /\ k + 1 = n + 1
      BY <2>1, <3>1
    <3> QED BY <3>2, <3>3, <3>4
  <2> QED BY <2>5, <2>6
<1> HIDE DEF I
<1>3. I = Nat
  <2>1. I \in SUBSET Nat
    BY DEF I
  <2> QED BY <1>1, <1>2, <2>1, NatSetInduction
<1>4. N \in I
  BY <1>3
<1>5. Good(N)
  BY <1>4 DEF I
<1> QED BY <1>5

\* There are finitely many functions from one finite set to another.
LEMMA FunctionsFinite ==
  ASSUME NEW S, IsFiniteSet(S), NEW T, IsFiniteSet(T)
  PROVE  IsFiniteSet([S -> T])
<1> DEFINE G == SUBSET (S \X T)
           f == [F \in G |-> [x \in S |-> CHOOSE y \in T : <<x, y>> \in F]]
           made == {f[F] : F \in G}
<1>1. IsFiniteSet(G)
  BY FS_Product, FS_SUBSET
<1> HIDE DEF G, f
<1>2. IsFiniteSet(made)
  BY <1>1, ImageFinite
<1>3. ASSUME NEW g \in [S -> T] PROVE g \in made
  <2> DEFINE F == {<<x, g[x]>> : x \in S}
             h == [x \in S |-> CHOOSE y \in T : <<x, y>> \in F]
  <2>1. F \in G
    BY DEF G
  <2>2. \A x \in S : <<x, g[x]>> \in F /\ g[x] \in T /\ \A y \in T : <<x, y>> \in F => y = g[x]
    OBVIOUS
  <2> HIDE DEF F
  <2>3. \A x \in S : (CHOOSE y \in T : <<x, y>> \in F) = g[x]
    BY <2>2
  <2>4. f[F] = h
    BY <2>1 DEF f
  <2>5. h = g
    BY <2>3
  <2> QED BY <2>1, <2>4, <2>5
<1> HIDE DEF made
<1>4. [S -> T] \in SUBSET made
  BY <1>3
<1> QED BY <1>2, <1>4, FS_Subset

\* There are finitely many ways to go through some wallets, none of them twice.
LEMMA ToursFinite ==
  ASSUME NEW a
  PROVE  IsFiniteSet(Tours(a)) /\ Cardinality(Addresses) \in Nat
<1> DEFINE N == Cardinality(Addresses)
           all == [n \in 1..N |-> [1..n -> Addresses]]
           sets == {all[n] : n \in 1..N}
<1>1. N \in Nat /\ IsFiniteSet(Addresses)
  BY WalletAssumption, FS_CardinalityType
<1> HIDE DEF N
<1>2. IsFiniteSet(sets)
  <2>1. IsFiniteSet(1..N)
    BY <1>1, IntervalSize
  <2> HIDE DEF all
  <2> QED BY <2>1, ImageFinite
<1>3. \A T \in sets : IsFiniteSet(T)
  <2> SUFFICES ASSUME NEW n \in 1..N PROVE IsFiniteSet([1..n -> Addresses])
    OBVIOUS
  <2>1. IsFiniteSet(1..n)
    BY <1>1, IntervalSize
  <2> QED BY <1>1, <2>1, FunctionsFinite
<1>4. IsFiniteSet(UNION sets)
  <2> HIDE DEF sets
  <2> QED BY <1>2, <1>3, FS_UNION
<1>5. Tours(a) \in SUBSET (UNION sets)
  BY DEF Tours, N
<1> HIDE DEF sets
<1> QED BY <1>1, <1>4, <1>5, FS_Subset DEF N

\* A road is one of the ways MaxTurns counts.
LEMMA RoadsAreTours ==
  ASSUME NEW a, NEW D \in Nat, NEW p \in Roads(a, D)
  PROVE  p \in Tours(a)
<1> DEFINE n == Len(p)
           N == Cardinality(Addresses)
<1>1. p \in Seq(Addresses) /\ n \in 1..D + 1 /\ p[1] = a /\ Distinct(p)
  BY DEF Roads
<1>2. p \in [1..n -> Addresses] /\ n \in Nat /\ n >= 1 /\ DOMAIN p = 1..n
  BY <1>1
<1>3. \A i, j \in 1..n : p[i] = p[j] => i = j
  BY <1>1 DEF Distinct
<1> HIDE DEF n
<1>4. IsInjective(p)
  BY <1>2, <1>3 DEF IsInjective
<1>5. n <= N
  <2>1. p \in Injection(1..n, Addresses)
    BY <1>2, <1>4 DEF Injection
  <2>2. Cardinality(1..n) <= N
    BY <2>1, WalletAssumption, FS_Injection
  <2>3. Cardinality(1..n) = n
    BY <1>2, IntervalSize
  <2> QED BY <2>2, <2>3
<1>6. n \in 1..N
  BY <1>2, <1>5, ToursFinite
<1> QED BY <1>1, <1>2, <1>4, <1>6 DEF Tours

\* So no more roads are met than the loop has turns.
LEMMA MetBound ==
  ASSUME NEW a \in Addresses, NEW D \in Nat, NEW met, NEW k, Met(a, D, met, k)
  PROVE  Len(met) \in Nat /\ Len(met) <= MaxTurns
<1> DEFINE n == Len(met)
           T == Tours(a)
<1>1. met \in Seq(Roads(a, D)) /\ Distinct(met)
  BY DEF Met
<1>2. n \in Nat /\ DOMAIN met = 1..n /\ \A i \in 1..n : met[i] \in Roads(a, D)
  BY <1>1
<1>3. met \in [1..n -> T]
  <2>1. met \in [1..n -> Roads(a, D)]
    BY <1>1
  <2> QED BY <2>1, RoadsAreTours
<1>4. \A i, j \in 1..n : met[i] = met[j] => i = j
  BY <1>1 DEF Distinct
<1> HIDE DEF n, T
<1>5. met \in Injection(1..n, T)
  BY <1>2, <1>3, <1>4 DEF Injection, IsInjective
<1>6. Cardinality(1..n) <= Cardinality(T)
  BY <1>5, ToursFinite, FS_Injection DEF T
<1>7. Cardinality(1..n) = n /\ Cardinality(T) \in Nat /\ Cardinality(T) <= MaxTurns /\ MaxTurns \in Nat
  BY <1>2, IntervalSize, ToursFinite, FS_CardinalityType, TurnAssumption DEF T
<1> QED BY <1>2, <1>6, <1>7 DEF n

\* Once every road that was met has left the queue, no road is missing.
LEMMA AllMet ==
  ASSUME NEW a \in Addresses, NEW D \in Nat, NEW met, Met(a, D, met, Len(met))
  PROVE  \A p \in Roads(a, D) : \E i \in 1..Len(met) : met[i] = p
<1> DEFINE n == Len(met)
           I == {l \in Nat : \A p \in Roads(a, D) : Len(p) <= l => \E i \in 1..n : met[i] = p}
<1>1. /\ n >= 1 /\ n \in Nat /\ met[1] = <<a>>
      /\ \A j \in 1..n, b \in Addresses :
           Append(met[j], b) \in Roads(a, D) => \E i \in 1..n : met[i] = Append(met[j], b)
  BY DEF Met
<1> HIDE DEF n
<1>2. 0 \in I
  <2> SUFFICES ASSUME NEW p \in Roads(a, D), Len(p) <= 0 PROVE FALSE
    OBVIOUS
  <2> QED BY RoadIs
<1>3. ASSUME NEW l \in I PROVE l + 1 \in I
  <2> SUFFICES ASSUME NEW p \in Roads(a, D), Len(p) <= l + 1 PROVE \E i \in 1..n : met[i] = p
    OBVIOUS
  <2>1. p \in Seq(Addresses) /\ Len(p) \in Nat /\ Len(p) >= 1
    BY RoadIs
  <2>2. CASE Len(p) = 1
    <3>1. p[1] = a
      BY DEF Roads
    <3>2. p = <<a>>
      BY <2>1, <2>2, <3>1
    <3>3. 1 \in 1..n
      BY <1>1
    <3> QED BY <1>1, <3>2, <3>3
  <2>3. CASE Len(p) > 1
    <3>1. PICK r \in Roads(a, D), b \in Addresses : p = Append(r, b) /\ Len(r) = Len(p) - 1
      BY <2>3, RoadBack
    <3>2. Len(r) <= l
      BY <2>1, <3>1
    <3>3. PICK j \in 1..n : met[j] = r
      BY <3>2
    <3>4. Append(met[j], b) \in Roads(a, D)
      BY <3>1, <3>3
    <3>5. \E i \in 1..n : met[i] = Append(met[j], b)
      BY <1>1, <3>4
    <3> QED BY <3>1, <3>3, <3>5
  <2>4. Len(p) = 1 \/ Len(p) > 1
    <3> DEFINE m == Len(p)
    <3>1. m \in Nat /\ m >= 1
      BY <2>1
    <3> HIDE DEF m
    <3>2. m = 1 \/ m > 1
      BY <3>1
    <3> QED BY <3>2 DEF m
  <2> QED BY <2>2, <2>3, <2>4
<1> HIDE DEF I
<1>4. I = Nat
  <2>1. I \in SUBSET Nat
    BY DEF I
  <2> QED BY <1>2, <1>3, <2>1, NatSetInduction
<1> SUFFICES ASSUME NEW p \in Roads(a, D) PROVE \E i \in 1..n : met[i] = p
  BY DEF n
<1>5. Len(p) \in I /\ Len(p) <= Len(p)
  BY <1>4, RoadIs
<1> QED BY <1>5 DEF I

\* What the search without a limit returns: every road but the first, in the
\* order in which they were met.
Listing(a, D, found, met) ==
  /\ Met(a, D, met, Len(met))
  /\ found \in Seq(Roads(a, D)) /\ Len(found) = Len(met) - 1
  /\ \A i \in 1..Len(met) - 1 : found[i] = met[i + 1]

\* MaxTurns turns empty the queue.
LEMMA SearchedAll ==
  ASSUME NEW a \in Addresses, NEW D \in Nat, NEW q, q[0] = FirstTurn(a),
         \A i \in 1..MaxTurns : q[i] = Turn(q[i - 1], D, NoLimit), GraphInv, SuccessorsOnce
  PROVE  \E met : Listing(a, D, q[MaxTurns].paths, met) /\ NoLimit \in Nat /\ NoLimit >= 2
<1>1. MaxTurns \in Nat /\ NoLimit \in Nat /\ NoLimit = MaxTurns + 1
  BY TurnAssumption DEF NoLimit
<1>2. MaxTurns < NoLimit
  BY <1>1
<1> DEFINE limit == NoLimit
<1>3. limit \in Nat /\ MaxTurns < limit /\ \A i \in 1..MaxTurns : q[i] = Turn(q[i - 1], D, limit)
  BY <1>1, <1>2
<1> HIDE DEF limit
<1>4. PICK met, k : Searched(a, D, q[MaxTurns], met, k) /\ (k = MaxTurns \/ q[MaxTurns].frontier = <<>>)
  <2>1. TakesTurns(q, a, D, limit, MaxTurns)
    BY <1>3 DEF TakesTurns
  <2> QED BY <1>1, <1>3, <2>1, TurnsSearch
<1> DEFINE s == q[MaxTurns]
           n == Len(met)
<1> HIDE DEF s
<1>5. Searched(a, D, s, met, k) /\ (k = MaxTurns \/ s.frontier = <<>>)
  BY <1>4 DEF s
<1>6. Met(a, D, met, k)
  BY <1>5 DEF Searched
<1>7. n \in Nat /\ n <= MaxTurns
  BY <1>6, MetBound
<1>8. k \in 0..n /\ n >= 1
  BY <1>6 DEF Met
<1>9. Len(s.frontier) = n - k
  BY <1>5 DEF Searched
<1>10. k = n
  <2>1. CASE k = MaxTurns
    BY <1>7, <1>8, <2>1
  <2>2. CASE s.frontier = <<>>
    <3>1. Len(s.frontier) = 0
      BY <2>2
    <3> HIDE DEF n
    <3> QED BY <1>7, <1>8, <1>9, <3>1
  <2> QED BY <1>5, <2>1, <2>2
<1>11. Met(a, D, met, n) /\ n # 0 /\ k # 0 /\ k - 1 = n - 1
  BY <1>6, <1>8, <1>10
<1>12. /\ s.paths \in Seq(Roads(a, D)) /\ Len(s.paths) = n - 1
       /\ \A i \in 1..n - 1 : s.paths[i] = met[i + 1]
  BY <1>5, <1>11 DEF Searched
<1>13. Listing(a, D, s.paths, met)
  BY <1>11, <1>12 DEF Listing
<1> QED BY <1>1, <1>7, <1>8, <1>13 DEF s

\* The roads of more than one wallet are the simple paths.
LEMMA RoadsArePaths ==
  ASSUME NEW a \in Addresses, NEW D \in Nat, EdgesArePayments
  PROVE  SimplePaths(a, D) = {p \in Roads(a, D) : Len(p) >= 2}
<1> SUFFICES ASSUME NEW p PROVE p \in SimplePaths(a, D) <=> p \in Roads(a, D) /\ Len(p) >= 2
  BY DEF Roads
<1>1. ASSUME p \in SimplePaths(a, D) PROVE p \in Roads(a, D) /\ Len(p) >= 2
  <2>1. PICK n \in 2..D + 1 : p \in [1..n -> Addresses]
    BY <1>1 DEF SimplePaths
  <2>2. n \in Nat /\ n \in 1..D + 1 /\ n >= 2
    OBVIOUS
  <2>3. p \in Seq(Addresses) /\ Len(p) = n /\ DOMAIN p = 1..n
    BY <2>1, <2>2
  <2>4. /\ p[1] = a
        /\ \A i, j \in DOMAIN p : i # j => p[i] # p[j]
        /\ \A i \in 1..Len(p) - 1 : \E t \in Times : <<p[i], p[i + 1], t>> \in paid
    BY <1>1 DEF SimplePaths
  <2>5. Distinct(p)
    BY <2>3, <2>4 DEF Distinct
  <2>6. ASSUME NEW i \in 1..n - 1 PROVE Pays(p[i], p[i + 1])
    <3>1. i \in 1..n /\ i + 1 \in 1..n
      BY <2>2
    <3>2. p[i] \in Addresses /\ p[i + 1] \in Addresses
      BY <2>1, <3>1
    <3> QED BY <2>3, <2>4, <3>2 DEF EdgesArePayments
  <2> QED BY <2>2, <2>3, <2>4, <2>5, <2>6 DEF Roads
<1>2. ASSUME p \in Roads(a, D), Len(p) >= 2 PROVE p \in SimplePaths(a, D)
  <2> DEFINE n == Len(p)
  <2>1. /\ p \in Seq(Addresses) /\ n \in 1..D + 1 /\ p[1] = a /\ Distinct(p)
        /\ \A i \in 1..n - 1 : Pays(p[i], p[i + 1])
    BY <1>2 DEF Roads
  <2>2. p \in [1..n -> Addresses] /\ DOMAIN p = 1..n /\ n \in Nat
    BY <2>1
  <2>3. n >= 2
    BY <1>2
  <2>4. \A i, j \in DOMAIN p : i # j => p[i] # p[j]
    BY <2>1, <2>2 DEF Distinct
  <2> HIDE DEF n
  <2>5. n \in 2..D + 1
    BY <2>1, <2>3
  <2>6. ASSUME NEW i \in 1..n - 1 PROVE \E t \in Times : <<p[i], p[i + 1], t>> \in paid
    <3>1. i \in 1..n /\ i + 1 \in 1..n
      BY <2>2
    <3>2. p[i] \in Addresses /\ p[i + 1] \in Addresses
      BY <2>2, <3>1
    <3> QED BY <2>1, <3>2 DEF EdgesArePayments
  <2>7. p \in UNION {[1..m -> Addresses] : m \in 2..D + 1}
    BY <2>2, <2>5
  <2> QED BY <2>1, <2>4, <2>6, <2>7 DEF SimplePaths, n
<1> QED BY <1>1, <1>2

\* A listing is complete, without repetition and shortest first.
LEMMA ListingIs ==
  ASSUME NEW a \in Addresses, NEW D \in Nat, EdgesArePayments, NEW found, NEW met, Listing(a, D, found, met)
  PROVE  /\ ToSet(found) = SimplePaths(a, D) /\ IsInjective(found)
         /\ \A i, j \in DOMAIN found : i < j => Len(found[i]) <= Len(found[j])
<1> DEFINE n == Len(met)
           R == Roads(a, D)
<1>1. /\ Met(a, D, met, n) /\ found \in Seq(R) /\ Len(found) = n - 1
      /\ \A i \in 1..n - 1 : found[i] = met[i + 1]
  BY DEF Listing
<1>2. /\ met \in Seq(R) /\ n >= 1 /\ n \in Nat /\ met[1] = <<a>>
      /\ \A i, j \in 1..n : i # j => met[i] # met[j]
      /\ \A i, j \in 1..n : i <= j => Len(met[i]) <= Len(met[j])
      /\ \A i \in 2..n : \E j \in 1..n, b \in Addresses : met[i] = Append(met[j], b)
  BY <1>1 DEF Met, Distinct
<1>3. \A p \in R : \E i \in 1..n : met[i] = p
  BY <1>1, AllMet
<1>4. \A i \in 1..n : met[i] \in R
  BY <1>2
<1> HIDE DEF n, R
<1>5. DOMAIN found = 1..n - 1 /\ ToSet(found) = {found[i] : i \in 1..n - 1}
  <2>1. DOMAIN found = 1..Len(found)
    BY <1>1
  <2>2. DOMAIN found = 1..n - 1
    BY <1>1, <2>1
  <2> QED BY <2>2 DEF ToSet
<1>6. \A i \in 1..n - 1 : i + 1 \in 2..n /\ i + 1 \in 1..n
  BY <1>2
<1>7. ASSUME NEW i \in 2..n PROVE Len(met[i]) >= 2
  <2>1. PICK j \in 1..n, b \in Addresses : met[i] = Append(met[j], b)
    BY <1>2
  <2> DEFINE u == met[j]
  <2>2. u \in Seq(Addresses) /\ Len(u) \in Nat /\ Len(u) >= 1
    BY <1>4, RoadIs DEF R
  <2> HIDE DEF u
  <2>3. Len(Append(u, b)) = Len(u) + 1
    BY <2>2, AppendIs
  <2>4. met[i] = Append(u, b)
    BY <2>1 DEF u
  <2> QED BY <2>2, <2>3, <2>4
<1>8. ToSet(found) \subseteq {p \in R : Len(p) >= 2}
  BY <1>1, <1>4, <1>5, <1>6, <1>7
<1>9. ASSUME NEW p \in R, Len(p) >= 2 PROVE p \in ToSet(found)
  <2>1. PICK i \in 1..n : met[i] = p
    BY <1>3
  <2>2. i # 1
    <3>1. ASSUME i = 1 PROVE FALSE
      <4>1. p = <<a>>
        BY <1>2, <2>1, <3>1
      <4>2. Len(<<a>>) = 1
        OBVIOUS
      <4> QED BY <1>9, <4>1, <4>2
    <3> QED BY <3>1
  <2>3. i - 1 \in 1..n - 1 /\ (i - 1) + 1 = i
    BY <1>2, <2>2
  <2>4. found[i - 1] = p
    BY <1>1, <2>1, <2>3
  <2> QED BY <1>5, <2>3, <2>4
<1>10. ToSet(found) = SimplePaths(a, D)
  BY <1>8, <1>9, RoadsArePaths DEF R
<1>11. IsInjective(found)
  <2> SUFFICES ASSUME NEW i \in 1..n - 1, NEW j \in 1..n - 1, found[i] = found[j] PROVE i = j
    BY <1>5 DEF IsInjective
  <2>1. i + 1 \in 1..n /\ j + 1 \in 1..n /\ met[i + 1] = met[j + 1]
    BY <1>1, <1>6
  <2>2. i + 1 = j + 1
    BY <1>2, <2>1
  <2> QED BY <2>2
<1>12. ASSUME NEW i \in 1..n - 1, NEW j \in 1..n - 1, i < j PROVE Len(found[i]) <= Len(found[j])
  <2>1. i + 1 <= j + 1
    BY <1>12
  <2> QED BY <1>1, <1>2, <1>6, <2>1
<1> QED BY <1>5, <1>10, <1>11, <1>12

\* s is the beginning of t.
AgreesWith(s, t) == Len(s) <= Len(t) /\ \A i \in 1..Len(s) : s[i] = t[i]

\* Sequences that agree as far as the shorter one goes.
LEMMA PrefixIs ==
  ASSUME NEW S, NEW s \in Seq(S), NEW t \in Seq(S), AgreesWith(s, t)
  PROVE  IsPrefix(s, t)
<1> DEFINE n == Len(s)
           u == SubSeq(s, 1, n)
           v == SubSeq(t, 1, n)
<1>1. n \in Nat /\ Len(t) \in Nat /\ n <= Len(t) /\ \A i \in 1..n : s[i] = t[i]
  BY DEF AgreesWith
<1>2. u \in Seq(S) /\ Len(u) = n /\ \A i \in 1..n : u[i] = s[i]
  BY <1>1
<1>3. v \in Seq(S) /\ Len(v) = n /\ \A i \in 1..n : v[i] = t[i]
  BY <1>1
<1> HIDE DEF u, v, n
<1>4. u = v
  BY <1>1, <1>2, <1>3
<1> QED BY <1>1, <1>4 DEF IsPrefix, u, v, n

\* A turn appends the path it takes to the paths, or leaves them alone.
LEMMA TurnPaths ==
  ASSUME NEW s \in Turns, NEW D, NEW limit
  PROVE  LET t == Turn(s, D, limit)
         IN  t.paths = s.paths \/ \E p \in Walks : t.paths = Append(s.paths, p)
<1>1. CASE s.frontier = <<>>
  BY <1>1 DEF Turn
<1>2. CASE s.frontier # <<>>
  <2> DEFINE f == s.frontier
             p == Head(f)
             paths == IF Len(p) > 1 THEN Append(s.paths, p) ELSE s.paths
             P == Walks
  <2>1. f \in Seq(P) /\ f # <<>>
    BY <1>2 DEF Turns
  <2> HIDE DEF P, f
  <2>2. p \in P
    BY <2>1
  <2>3. Turn(s, D, limit).paths = paths
    BY <1>2 DEF Turn, Search, f
  <2>4. paths = s.paths \/ paths = Append(s.paths, p)
    OBVIOUS
  <2> QED BY <2>2, <2>3, <2>4 DEF P
<1> QED BY <1>1, <1>2

\* A search with a limit goes on like the one without until it stops with as
\* many paths as it was asked for.
Cut(r, q, limit) ==
  \/ r = q
  \/ r.frontier = <<>> /\ AgreesWith(r.paths, q.paths) /\ Len(r.paths) >= limit

\* The search with a limit stays with the one without, turn by turn, or stops.
LEMMA CutNext ==
  ASSUME NEW r \in Turns, NEW q \in Turns, NEW D \in Nat, NEW limit \in Nat, NEW most \in Nat, limit <= most,
         Cut(r, q, limit)
  PROVE  Cut(Turn(r, D, limit), Turn(q, D, most), limit)
<1> DEFINE x == Turn(r, D, limit)
           y == Turn(q, D, most)
<1>1. CASE r = q
  <2>1. CASE q.frontier = <<>>
    BY <1>1, <2>1 DEF Turn, Cut
  <2>2. CASE q.frontier # <<>>
    <3> DEFINE path == Head(q.frontier)
               paths == IF Len(path) > 1 THEN Append(q.paths, path) ELSE q.paths
               P == Walks
    <3>1. x = Search(q, D, limit) /\ y = Search(q, D, most)
      BY <1>1, <2>2 DEF Turn
    <3>2. path \in P /\ q.paths \in Seq(P)
      <4> DEFINE f == q.frontier
      <4>1. f \in Seq(P) /\ f # <<>> /\ q.paths \in Seq(P)
        BY <2>2 DEF Turns
      <4> HIDE DEF f, P
      <4>2. Head(f) \in P
        BY <4>1
      <4> QED BY <4>1, <4>2 DEF f
    <3>3. Len(path) \in Nat
      BY <3>2, LastIs
    <3>4. paths \in Seq(P) /\ Len(paths) \in Nat
      <4> HIDE DEF P, path
      <4>1. paths \in Seq(P)
        BY <3>2
      <4> QED BY <4>1
    <3>5. CASE Len(path) >= D + 1
      <4>1. ~ (Len(path) < D + 1)
        BY <3>3, <3>5
      <4>2. x = y
        BY <3>1, <3>5, <4>1 DEF Search
      <4> QED BY <4>2 DEF Cut
    <3>6. CASE Len(path) < D + 1 /\ Len(paths) >= limit
      <4>1. ~ (Len(path) >= D + 1)
        BY <3>3, <3>6
      <4>2. x.frontier = <<>>
        BY <3>1, <3>6, <4>1 DEF Search
      <4>3. x.paths = paths /\ y.paths = paths
        BY <3>1 DEF Search
      <4> HIDE DEF paths
      <4>4. AgreesWith(paths, paths)
        BY <3>4 DEF AgreesWith
      <4> QED BY <3>6, <4>2, <4>3, <4>4 DEF Cut
    <3>7. CASE Len(path) < D + 1 /\ ~ (Len(paths) >= limit)
      <4>1. ~ (Len(path) >= D + 1)
        BY <3>3, <3>7
      <4>2. ~ (Len(paths) >= most)
        <5> HIDE DEF paths
        <5> QED BY <3>4, <3>7
      <4>3. x = y
        BY <3>1, <3>7, <4>1, <4>2 DEF Search
      <4> QED BY <4>3 DEF Cut
    <3> QED BY <3>3, <3>5, <3>6, <3>7
  <2> QED BY <2>1, <2>2
<1>2. CASE r.frontier = <<>> /\ AgreesWith(r.paths, q.paths) /\ Len(r.paths) >= limit
  <2>1. x = r
    BY <1>2 DEF Turn
  <2>2. r.paths \in Seq(Walks) /\ q.paths \in Seq(Walks)
    BY DEF Turns
  <2>3. y.paths = q.paths \/ \E p \in Walks : y.paths = Append(q.paths, p)
    BY TurnPaths
  <2> DEFINE u == r.paths
             v == q.paths
             w == y.paths
             P == Walks
  <2>4. /\ u \in Seq(P) /\ v \in Seq(P) /\ AgreesWith(u, v)
        /\ w = v \/ \E p \in P : w = Append(v, p)
    BY <1>2, <2>2, <2>3
  <2> HIDE DEF u, v, w, P
  <2>5. AgreesWith(u, w)
    <3>1. CASE w = v
      BY <2>4, <3>1
    <3>2. ASSUME NEW p \in P, w = Append(v, p) PROVE AgreesWith(u, w)
      <4>1. Len(v) \in Nat /\ Len(u) \in Nat /\ Len(u) <= Len(v) /\ \A i \in 1..Len(u) : u[i] = v[i]
        BY <2>4 DEF AgreesWith
      <4>2. Len(w) = Len(v) + 1 /\ \A i \in 1..Len(v) : w[i] = v[i]
        BY <2>4, <3>2, AppendAt
      <4>3. Len(u) <= Len(w) /\ \A i \in 1..Len(u) : i \in 1..Len(v)
        BY <4>1, <4>2
      <4> QED BY <4>1, <4>2, <4>3 DEF AgreesWith
    <3> QED BY <2>4, <3>1, <3>2
  <2> QED BY <1>2, <2>1, <2>5 DEF Cut, u, w
<1> QED BY <1>1, <1>2 DEF Cut

\* The paths found under a limit are the first of all paths, and are all of
\* them or as many as the limit.
LEMMA CutIs ==
  ASSUME NEW a \in nodes, nodes \subseteq Addresses, NEW D \in Nat, NEW limit \in Nat, NEW most \in Nat,
         limit <= most, GraphInv, SuccessorsOnce
  PROVE  LET few == FindLaunderingPaths(a, D, limit)
             found == FindLaunderingPaths(a, D, most)
         IN  IsPrefix(few, found) /\ (few = found \/ Len(few) >= limit)
<1> DEFINE N == MaxTurns
<1>1. N \in Nat
  BY TurnAssumption
<1>2. PICK r : /\ FindLaunderingPaths(a, D, limit) = r[N].paths
               /\ r \in [0..N -> Turns] /\ r[0] = FirstTurn(a)
               /\ \A i \in 1..N : r[i] = Turn(r[i - 1], D, limit)
  BY FindUnfolds
<1>3. PICK q : /\ FindLaunderingPaths(a, D, most) = q[N].paths
               /\ q \in [0..N -> Turns] /\ q[0] = FirstTurn(a)
               /\ \A i \in 1..N : q[i] = Turn(q[i - 1], D, most)
  BY FindUnfolds
<1> HIDE DEF N
<1> DEFINE I == {n \in Nat : n <= N => Cut(r[n], q[n], limit)}
<1>4. 0 \in I
  BY <1>2, <1>3 DEF Cut
<1>5. ASSUME NEW n \in I PROVE n + 1 \in I
  <2> SUFFICES ASSUME n + 1 <= N PROVE Cut(r[n + 1], q[n + 1], limit)
    OBVIOUS
  <2>1. n \in 0..N /\ n + 1 \in 1..N /\ (n + 1) - 1 = n /\ Cut(r[n], q[n], limit)
    BY <1>1
  <2>2. r[n + 1] = Turn(r[n], D, limit) /\ q[n + 1] = Turn(q[n], D, most) /\ r[n] \in Turns /\ q[n] \in Turns
    BY <1>2, <1>3, <2>1
  <2> QED BY <2>1, <2>2, CutNext
<1> HIDE DEF I
<1>6. I = Nat
  <2>1. I \in SUBSET Nat
    BY DEF I
  <2> QED BY <1>4, <1>5, <2>1, NatSetInduction
<1>7. Cut(r[N], q[N], limit)
  BY <1>1, <1>6 DEF I
<1> DEFINE u == r[N].paths
           v == q[N].paths
           P == Walks
<1>8. u \in Seq(P) /\ v \in Seq(P)
  BY <1>1, <1>2, <1>3 DEF Turns
<1>9. u = v \/ (AgreesWith(u, v) /\ Len(u) >= limit)
  BY <1>7 DEF Cut
<1> HIDE DEF u, v, P
<1>10. AgreesWith(u, v)
  <2>1. CASE u = v
    BY <1>8, <2>1 DEF AgreesWith
  <2> QED BY <1>9, <2>1
<1>11. IsPrefix(u, v)
  BY <1>8, <1>10, PrefixIs
<1> QED BY <1>2, <1>3, <1>9, <1>11 DEF u, v

\* In every state the edges are the transactions, each in a list once.
LEMMA PathsInv == GraphSpec => [](GraphInv /\ EdgesArePayments /\ SuccessorsOnce)
<1>1. InitGraph => GraphInv /\ EdgesArePayments /\ SuccessorsOnce
  BY GraphInit, PaymentsInit, SuccessorsInit
<1>2. GraphInv /\ EdgesArePayments /\ SuccessorsOnce /\ [NextGraph]_graphVars
        => (GraphInv /\ EdgesArePayments /\ SuccessorsOnce)'
  BY GraphStep, PaymentsStep, SuccessorsStep
<1> QED BY <1>1, <1>2, PTL DEF GraphSpec

\* find_laundering_paths returns every simple path of the given depth once,
\* shorter ones first, and under a limit the first of them, for any number of
\* wallets and payments.
THEOREM PathsAreCompleteAlways == GraphSpec => []PathsAreComplete
<1>1. GraphInv /\ EdgesArePayments /\ SuccessorsOnce => PathsAreComplete
  <2> SUFFICES ASSUME GraphInv, EdgesArePayments, SuccessorsOnce, NEW a \in nodes, NEW d \in Depths
               PROVE  LET found == FindLaunderingPaths(a, d, NoLimit) IN
                      /\ ToSet(found) = SimplePaths(a, d)
                      /\ IsInjective(found)
                      /\ \A i, j \in DOMAIN found : i < j => Len(found[i]) <= Len(found[j])
                      /\ \A limit \in 1..2 :
                           LET few == FindLaunderingPaths(a, d, limit) IN
                           IsPrefix(few, found) /\ (few = found \/ Len(few) >= limit)
    BY DEF PathsAreComplete
  <2>1. d \in Nat /\ nodes \subseteq Addresses /\ a \in Addresses
    BY DEF Depths, GraphInv, Edges
  <2>2. MaxTurns \in Nat /\ NoLimit \in Nat
    BY TurnAssumption DEF NoLimit
  <2> DEFINE most == NoLimit
  <2> HIDE DEF most
  <2>3. most \in Nat
    BY <2>2 DEF most
  <2>4. PICK q : /\ FindLaunderingPaths(a, d, most) = q[MaxTurns].paths
                 /\ q \in [0..MaxTurns -> Turns] /\ q[0] = FirstTurn(a)
                 /\ \A i \in 1..MaxTurns : q[i] = Turn(q[i - 1], d, most)
    BY <2>1, <2>3, FindUnfolds
  <2>5. PICK met : Listing(a, d, q[MaxTurns].paths, met) /\ NoLimit >= 2
    BY <2>1, <2>4, SearchedAll DEF most
  <2> DEFINE found == FindLaunderingPaths(a, d, most)
  <2>6. Listing(a, d, found, met)
    BY <2>4, <2>5
  <2> HIDE DEF found
  <2>7. /\ ToSet(found) = SimplePaths(a, d) /\ IsInjective(found)
        /\ \A i, j \in DOMAIN found : i < j => Len(found[i]) <= Len(found[j])
    BY <2>1, <2>6, ListingIs
  <2>8. ASSUME NEW limit \in 1..2
        PROVE  LET few == FindLaunderingPaths(a, d, limit) IN
               IsPrefix(few, found) /\ (few = found \/ Len(few) >= limit)
    <3>1. limit \in Nat /\ limit <= most
      BY <2>3, <2>5 DEF most
    <3> QED BY <2>1, <2>3, <3>1, CutIs DEF found
  <2> QED BY <2>7, <2>8 DEF found, most
<1> QED BY <1>1, PathsInv, PTL

-----------------------------------------------------------------------------

\* The parents and the ranks of the wallets a forest knows.
Wallets == UNION {[D -> Addresses] : D \in SUBSET Addresses}
Ranks == UNION {[D -> Nat] : D \in SUBSET Addresses}

\* A forest: a wallet that is not a root has a lower rank than its parent.
Forests ==
  {uf \in [keys : Seq(Addresses), parent : Wallets, rank : Ranks] :
     /\ uf.parent \in [Known(uf) -> Known(uf)]
     /\ uf.rank \in [Known(uf) -> Nat]
     /\ \A y \in Known(uf) : uf.parent[y] # y => uf.rank[y] < uf.rank[uf.parent[y]]}

\* A forest knows finitely many wallets.
LEMMA KnownFinite ==
  ASSUME NEW uf \in Forests
  PROVE  Known(uf) \subseteq Addresses /\ IsFiniteSet(Known(uf))
<1>1. uf.keys \in Seq(Addresses)
  BY DEF Forests
<1> DEFINE k == uf.keys
<1> HIDE DEF k
<1>2. k \in Seq(Addresses)
  BY <1>1 DEF k
<1>3. DOMAIN k = 1..Len(k) /\ Len(k) \in Nat /\ \A i \in 1..Len(k) : k[i] \in Addresses
  BY <1>2
<1>4. ToSet(k) = {k[i] : i \in 1..Len(k)}
  BY <1>3 DEF ToSet
<1>5. IsFiniteSet(1..Len(k))
  BY <1>3, IntervalSize
<1>6. IsFiniteSet({k[i] : i \in 1..Len(k)})
  BY <1>5, ImageFinite
<1> QED BY <1>3, <1>4, <1>6 DEF Known, k

\* The ranks of a forest have a maximum.
LEMMA RanksBounded ==
  ASSUME NEW uf \in Forests
  PROVE  \E most \in Nat : \A y \in Known(uf) : uf.rank[y] <= most
<1> DEFINE R == {uf.rank[y] : y \in Known(uf)}
<1>1. uf.rank \in [Known(uf) -> Nat]
  BY DEF Forests
<1>2. CASE Known(uf) = {}
  BY <1>2
<1>3. CASE Known(uf) # {}
  <2>1. IsFiniteSet(R)
    BY KnownFinite, ImageFinite
  <2>2. R # {} /\ R \in SUBSET Int /\ R \subseteq Nat
    BY <1>1, <1>3
  <2>3. Max(R) \in R /\ \A r \in R : r <= Max(R)
    BY <2>1, <2>2, MinMaxIn
  <2> QED BY <2>2, <2>3
<1> QED BY <1>2, <1>3

\* What holds of the roots, and of a wallet if of its parent, holds of all.
LEMMA UpwardInduction ==
  ASSUME NEW uf \in Forests, NEW P \in SUBSET Known(uf),
         \A y \in Known(uf) : uf.parent[y] = y \/ uf.parent[y] \in P => y \in P
  PROVE  P = Known(uf)
<1>1. PICK most \in Nat : \A y \in Known(uf) : uf.rank[y] <= most
  BY RanksBounded
<1>2. /\ uf.parent \in [Known(uf) -> Known(uf)] /\ uf.rank \in [Known(uf) -> Nat]
      /\ \A y \in Known(uf) : uf.parent[y] # y => uf.rank[y] < uf.rank[uf.parent[y]]
  BY DEF Forests
<1> DEFINE I == {k \in Nat : \A y \in Known(uf) : uf.rank[y] + k >= most => y \in P}
<1>3. 0 \in I
  <2> SUFFICES ASSUME NEW y \in Known(uf), uf.rank[y] >= most PROVE y \in P
    BY <1>2
  <2>1. CASE uf.parent[y] = y
    BY <2>1
  <2>2. CASE uf.parent[y] # y
    BY <1>1, <1>2, <2>2
  <2> QED BY <2>1, <2>2
<1>4. ASSUME NEW k \in I PROVE k + 1 \in I
  <2> SUFFICES ASSUME NEW y \in Known(uf), uf.rank[y] + (k + 1) >= most PROVE y \in P
    OBVIOUS
  <2>1. CASE uf.parent[y] = y
    BY <2>1
  <2>2. CASE uf.parent[y] # y
    <3>1. uf.parent[y] \in Known(uf) /\ uf.rank[y] < uf.rank[uf.parent[y]]
      BY <1>2, <2>2
    <3>2. uf.rank[y] \in Nat /\ uf.rank[uf.parent[y]] \in Nat /\ k \in Nat
      BY <1>2, <3>1
    <3>3. uf.rank[uf.parent[y]] + k >= most
      BY <3>1, <3>2
    <3>4. uf.parent[y] \in P
      BY <3>1, <3>3
    <3> QED BY <3>4
  <2> QED BY <2>1, <2>2
<1> HIDE DEF I
<1>5. I = Nat
  <2>1. I \in SUBSET Nat
    BY DEF I
  <2> QED BY <1>3, <1>4, <2>1, NatSetInduction
<1>6. \A y \in Known(uf) : uf.rank[y] + most >= most
  BY <1>2
<1> QED BY <1>5, <1>6 DEF I

\* A wallet and the way up from its parent.
Upwards(uf, w) == [y \in Known(uf) |-> {y} \cup IF uf.parent[y] = y THEN {} ELSE w[uf.parent[y]]]

\* The function Way is defined by exists: beyond the highest rank the way does
\* not grow.
LEMMA UpwardsExists ==
  ASSUME NEW uf \in Forests
  PROVE  \E w \in [Known(uf) -> SUBSET Known(uf)] : w = Upwards(uf, w)
<1> DEFINE W == [Known(uf) -> SUBSET Known(uf)]
           z == [y \in Known(uf) |-> {y}]
           d == [i \in Nat |-> [w \in W |-> Upwards(uf, w)]]
<1>1. PICK most \in Nat : \A y \in Known(uf) : uf.rank[y] <= most
  BY RanksBounded
<1>2. /\ uf.parent \in [Known(uf) -> Known(uf)] /\ uf.rank \in [Known(uf) -> Nat]
      /\ \A y \in Known(uf) : uf.parent[y] # y => uf.rank[y] < uf.rank[uf.parent[y]]
  BY DEF Forests
<1>3. Stepwise(d, W)
  <2>1. ASSUME NEW w \in W PROVE Upwards(uf, w) \in W
    BY <1>2 DEF Upwards
  <2> HIDE DEF W
  <2> QED BY <2>1 DEF Stepwise
<1>4. PICK q \in [Nat -> W] : q[0] = z /\ \A k \in Nat \ {0} : q[k] = Upwards(uf, q[k - 1])
  <2>1. z \in W
    OBVIOUS
  <2> HIDE DEF W, z, d
  <2>2. PICK q : Recurs(q, W, z, d)
    BY <1>3, <2>1, RecursionOnNat
  <2>3. q \in [Nat -> W] /\ q[0] = z /\ \A k \in Nat \ {0} : q[k] = d[k][q[k - 1]]
    BY <2>2 DEF Recurs
  <2>4. ASSUME NEW k \in Nat \ {0} PROVE q[k] = Upwards(uf, q[k - 1])
    <3>1. k - 1 \in Nat /\ q[k - 1] \in W
      BY <2>3
    <3> QED BY <2>3, <3>1 DEF d
  <2> QED BY <2>3, <2>4
<1> DEFINE I == {k \in Nat : \A y \in Known(uf) : uf.rank[y] + k >= most => q[k + 1][y] = q[k][y]}
<1>5. ASSUME NEW k \in Nat PROVE q[k + 1] = Upwards(uf, q[k])
  <2>1. k + 1 \in Nat \ {0} /\ (k + 1) - 1 = k
    OBVIOUS
  <2> QED BY <1>4, <2>1
<1>6. 0 \in I
  <2> SUFFICES ASSUME NEW y \in Known(uf), uf.rank[y] >= most PROVE q[0 + 1][y] = q[0][y]
    BY <1>2
  <2>1. uf.parent[y] = y
    BY <1>1, <1>2
  <2> QED BY <1>4, <1>5, <2>1 DEF Upwards
<1>7. ASSUME NEW k \in I PROVE k + 1 \in I
  <2> SUFFICES ASSUME NEW y \in Known(uf), uf.rank[y] + (k + 1) >= most PROVE q[(k + 1) + 1][y] = q[k + 1][y]
    OBVIOUS
  <2>1. q[k + 1] = Upwards(uf, q[k]) /\ q[(k + 1) + 1] = Upwards(uf, q[k + 1])
    BY <1>5
  <2>2. CASE uf.parent[y] = y
    <3>1. \A w : Upwards(uf, w)[y] = {y}
      BY <2>2 DEF Upwards
    <3> QED BY ONLY <2>1, <3>1
  <2>3. CASE uf.parent[y] # y
    <3>1. uf.parent[y] \in Known(uf) /\ uf.rank[y] < uf.rank[uf.parent[y]]
      BY <1>2, <2>3
    <3>2. uf.rank[y] \in Nat /\ uf.rank[uf.parent[y]] \in Nat /\ k \in Nat
      BY <1>2, <3>1
    <3>3. uf.rank[uf.parent[y]] + k >= most
      BY <3>1, <3>2
    <3>4. q[k + 1][uf.parent[y]] = q[k][uf.parent[y]]
      BY <3>1, <3>3
    <3>5. \A w : Upwards(uf, w)[y] = {y} \cup w[uf.parent[y]]
      BY <2>3 DEF Upwards
    <3> HIDE DEF I
    <3>6. q[k + 1][y] = {y} \cup q[k][uf.parent[y]] /\ q[(k + 1) + 1][y] = {y} \cup q[k + 1][uf.parent[y]]
      BY ONLY <2>1, <3>5
    <3> QED BY <3>4, <3>6
  <2> QED BY <2>2, <2>3
<1> HIDE DEF I
<1>8. I = Nat
  <2>1. I \in SUBSET Nat
    BY DEF I
  <2> QED BY <1>6, <1>7, <2>1, NatSetInduction
<1>9. \A y \in Known(uf) : q[most + 1][y] = q[most][y]
  <2>1. \A y \in Known(uf) : uf.rank[y] + most >= most
    BY <1>2
  <2> QED BY <1>8, <2>1 DEF I
<1>10. q[most] \in [Known(uf) -> SUBSET Known(uf)] /\ q[most + 1] \in [Known(uf) -> SUBSET Known(uf)]
  BY <1>4
<1>11. q[most] = Upwards(uf, q[most])
  <2>1. q[most + 1] = q[most]
    BY <1>9, <1>10
  <2> QED BY <1>5, <2>1
<1> QED BY <1>10, <1>11

\* The way of a wallet is the wallet and the way of its parent.
LEMMA WayIs ==
  ASSUME NEW uf \in Forests
  PROVE  \A y \in Known(uf) :
           /\ Way(uf, y) \subseteq Known(uf)
           /\ Way(uf, y) = {y} \cup IF uf.parent[y] = y THEN {} ELSE Way(uf, uf.parent[y])
<1> DEFINE body(f) == [y \in Known(uf) |-> {y} \cup IF uf.parent[y] = y THEN {} ELSE f[uf.parent[y]]]
           up == CHOOSE f : f = body(f)
<1>1. uf.parent \in [Known(uf) -> Known(uf)]
  BY DEF Forests
<1>2. up = body(up)
  <2>1. PICK w : w = Upwards(uf, w)
    BY UpwardsExists
  <2>2. w = body(w)
    BY <2>1 DEF Upwards
  <2> HIDE DEF body
  <2> QED BY <2>2
<1>3. \A y : Way(uf, y) = up[y]
  BY DEF Way
<1> HIDE DEF up
<1>4. \A y \in Known(uf) : Way(uf, y) = {y} \cup IF uf.parent[y] = y THEN {} ELSE Way(uf, uf.parent[y])
  BY <1>1, <1>2, <1>3
<1> DEFINE P == {y \in Known(uf) : Way(uf, y) \subseteq Known(uf)}
<1>5. ASSUME NEW y \in Known(uf), uf.parent[y] = y \/ uf.parent[y] \in P PROVE y \in P
  BY <1>4, <1>5
<1>6. P = Known(uf)
  <2> HIDE DEF P
  <2>1. P \in SUBSET Known(uf)
    BY DEF P
  <2> QED BY <1>5, <2>1, UpwardInduction
<1> QED BY <1>4, <1>6

\* Every wallet has one root, that of its parent unless it is one.
LEMMA RootIs ==
  ASSUME NEW uf \in Forests
  PROVE  \A y \in Known(uf) :
           /\ Root(uf, y) \in Known(uf) /\ uf.parent[Root(uf, y)] = Root(uf, y)
           /\ Root(uf, y) = IF uf.parent[y] = y THEN y ELSE Root(uf, uf.parent[y])
<1> DEFINE Top(y) == {r \in Way(uf, y) : uf.parent[r] = r}
           P == {y \in Known(uf) : \E r : Top(y) = {r}}
<1>1. uf.parent \in [Known(uf) -> Known(uf)]
  BY DEF Forests
<1>2. \A y \in Known(uf) : Top(y) = IF uf.parent[y] = y THEN {y} ELSE Top(uf.parent[y])
  BY <1>1, WayIs
<1>3. \A y : Root(uf, y) = CHOOSE r : r \in Top(y)
  <2>1. \A y : Root(uf, y) = CHOOSE r \in Way(uf, y) : uf.parent[r] = r
    BY DEF Root
  <2> SUFFICES ASSUME NEW y PROVE Root(uf, y) = CHOOSE r : r \in Top(y)
    OBVIOUS
  <2>2. \A r : r \in Top(y) <=> r \in Way(uf, y) /\ uf.parent[r] = r
    OBVIOUS
  <2> QED BY <2>1, <2>2
<1> HIDE DEF Top
<1>4. ASSUME NEW y \in Known(uf), uf.parent[y] = y \/ uf.parent[y] \in P PROVE y \in P
  BY <1>2, <1>4
<1>5. P = Known(uf)
  <2> HIDE DEF P
  <2>1. P \in SUBSET Known(uf)
    BY DEF P
  <2> QED BY <1>4, <2>1, UpwardInduction
<1>6. ASSUME NEW y \in Known(uf) PROVE Top(y) = {Root(uf, y)}
  <2>1. PICK r : Top(y) = {r}
    BY <1>5
  <2>2. Root(uf, y) \in Top(y)
    BY <1>3, <2>1
  <2> QED BY <2>1, <2>2
<1>7. ASSUME NEW y \in Known(uf)
      PROVE  /\ Root(uf, y) \in Known(uf) /\ uf.parent[Root(uf, y)] = Root(uf, y)
             /\ Root(uf, y) = IF uf.parent[y] = y THEN y ELSE Root(uf, uf.parent[y])
  <2>1. Root(uf, y) \in Known(uf) /\ uf.parent[Root(uf, y)] = Root(uf, y)
    <3>1. Root(uf, y) \in Top(y)
      BY <1>6
    <3> QED BY <3>1, WayIs DEF Top
  <2>2. CASE uf.parent[y] = y
    BY <1>2, <1>6, <2>1, <2>2
  <2>3. CASE uf.parent[y] # y
    <3>1. uf.parent[y] \in Known(uf)
      BY <1>1
    <3>2. Top(y) = {Root(uf, y)} /\ Top(uf.parent[y]) = {Root(uf, uf.parent[y])}
      BY <1>6, <3>1
    <3> QED BY <1>2, <2>1, <2>3, <3>2
  <2> QED BY <2>1, <2>2, <2>3
<1> QED BY <1>7

\* A root ranks above all that hang from it, and the way up has one root.
LEMMA RootOutranks ==
  ASSUME NEW uf \in Forests
  PROVE  \A y \in Known(uf) : y = Root(uf, y) \/ uf.rank[y] < uf.rank[Root(uf, y)]
<1>1. /\ uf.parent \in [Known(uf) -> Known(uf)] /\ uf.rank \in [Known(uf) -> Nat]
      /\ \A y \in Known(uf) : uf.parent[y] # y => uf.rank[y] < uf.rank[uf.parent[y]]
  BY DEF Forests
<1> DEFINE P == {y \in Known(uf) : y = Root(uf, y) \/ uf.rank[y] < uf.rank[Root(uf, y)]}
<1>2. ASSUME NEW y \in Known(uf), uf.parent[y] = y \/ uf.parent[y] \in P PROVE y \in P
  <2>1. CASE uf.parent[y] = y
    BY <2>1, RootIs
  <2>2. CASE uf.parent[y] # y
    <3>1. /\ uf.parent[y] \in Known(uf) /\ Root(uf, y) = Root(uf, uf.parent[y]) /\ Root(uf, y) \in Known(uf)
          /\ uf.rank[y] < uf.rank[uf.parent[y]] /\ uf.parent[y] \in P
      BY <1>1, <1>2, <2>2, RootIs
    <3>2. uf.rank[y] \in Nat /\ uf.rank[uf.parent[y]] \in Nat /\ uf.rank[Root(uf, y)] \in Nat
      BY <1>1, <3>1
    <3>3. uf.parent[y] = Root(uf, y) \/ uf.rank[uf.parent[y]] < uf.rank[Root(uf, y)]
      BY <3>1
    <3> QED BY <3>1, <3>2, <3>3
  <2> QED BY <2>1, <2>2
<1>3. P = Known(uf)
  <2> HIDE DEF P
  <2>1. P \in SUBSET Known(uf)
    BY DEF P
  <2> QED BY <1>2, <2>1, UpwardInduction
<1> QED BY <1>3

\* The wallets find() passes have the root of the wallet it starts from.
LEMMA WayHasRoot ==
  ASSUME NEW uf \in Forests
  PROVE  \A y \in Known(uf) : \A x \in Way(uf, y) : Root(uf, x) = Root(uf, y)
<1> DEFINE P == {y \in Known(uf) : \A x \in Way(uf, y) : Root(uf, x) = Root(uf, y)}
<1>1. ASSUME NEW y \in Known(uf), uf.parent[y] = y \/ uf.parent[y] \in P PROVE y \in P
  <2>1. CASE uf.parent[y] = y
    <3>1. Way(uf, y) = {y}
      BY <2>1, WayIs
    <3> QED BY <3>1
  <2>2. CASE uf.parent[y] # y
    <3>1. Way(uf, y) = {y} \cup Way(uf, uf.parent[y]) /\ uf.parent[y] \in P
      BY <1>1, <2>2, WayIs
    <3>2. Root(uf, y) = Root(uf, uf.parent[y])
      BY <2>2, RootIs
    <3> QED BY <3>1, <3>2
  <2> QED BY <2>1, <2>2
<1>2. P = Known(uf)
  <2> HIDE DEF P
  <2>1. P \in SUBSET Known(uf)
    BY DEF P
  <2> QED BY <1>1, <2>1, UpwardInduction
<1> QED BY <1>2

\* Only the roots go up from the parents like this.
LEMMA RootsAre ==
  ASSUME NEW uf \in Forests, NEW f,
         \A y \in Known(uf) : f[y] = IF uf.parent[y] = y THEN y ELSE f[uf.parent[y]]
  PROVE  \A y \in Known(uf) : Root(uf, y) = f[y]
<1> DEFINE P == {y \in Known(uf) : Root(uf, y) = f[y]}
<1>1. ASSUME NEW y \in Known(uf), uf.parent[y] = y \/ uf.parent[y] \in P PROVE y \in P
  BY <1>1, RootIs
<1>2. P = Known(uf)
  <2> HIDE DEF P
  <2>1. P \in SUBSET Known(uf)
    BY DEF P
  <2> QED BY <1>1, <2>1, UpwardInduction
<1> QED BY <1>2

\* A record with keys, parents and growing ranks is a forest.
LEMMA ForestOf ==
  ASSUME NEW keys \in Seq(Addresses),
         NEW parent \in [ToSet(keys) -> ToSet(keys)], NEW rank \in [ToSet(keys) -> Nat],
         \A y \in ToSet(keys) : parent[y] # y => rank[y] < rank[parent[y]]
  PROVE  [keys |-> keys, parent |-> parent, rank |-> rank] \in Forests
<1> DEFINE uf == [keys |-> keys, parent |-> parent, rank |-> rank]
           K == ToSet(keys)
<1>1. K \in SUBSET Addresses
  BY DEF ToSet
<1>2. Known(uf) = K
  BY DEF Known
<1> HIDE DEF K
<1>3. parent \in [K -> K] /\ rank \in [K -> Nat]
  BY DEF K
<1>4. parent \in Wallets
  <2>1. parent \in [K -> Addresses]
    BY <1>1, <1>3
  <2> QED BY <1>1, <2>1 DEF Wallets
<1>5. rank \in Ranks
  BY <1>1, <1>3 DEF Ranks
<1>6. uf \in [keys : Seq(Addresses), parent : Wallets, rank : Ranks]
  BY <1>4, <1>5
<1> QED BY <1>2, <1>3, <1>6 DEF Forests, K

\* What a forest consists of.
LEMMA ForestHas ==
  ASSUME NEW uf \in Forests
  PROVE  /\ uf.keys \in Seq(Addresses)
         /\ uf.parent \in [Known(uf) -> Known(uf)] /\ uf.rank \in [Known(uf) -> Nat]
         /\ \A y \in Known(uf) : uf.parent[y] # y => uf.rank[y] < uf.rank[uf.parent[y]]
BY DEF Forests

\* The root of a wallet, once x was met.
RootOnceMet(uf, x, y) == IF y \in Known(uf) THEN Root(uf, y) ELSE x

\* A wallet met for the first time is a root of its own.
LEMMA MeetIs ==
  ASSUME NEW uf \in Forests, NEW x \in Addresses
  PROVE  /\ Meet(uf, x) \in Forests
         /\ Known(Meet(uf, x)) = Known(uf) \cup {x}
         /\ \A y \in Known(uf) \cup {x} : Root(Meet(uf, x), y) = RootOnceMet(uf, x, y)
<1>1. CASE x \in Known(uf)
  BY <1>1 DEF Meet, RootOnceMet
<1>2. CASE x \notin Known(uf)
  <2> DEFINE K == Known(uf) \cup {x}
             keys == Append(uf.keys, x)
             parent == [y \in K |-> IF y = x THEN x ELSE uf.parent[y]]
             rank == [y \in K |-> IF y = x THEN 0 ELSE uf.rank[y]]
             met == [keys |-> keys, parent |-> parent, rank |-> rank]
             f == [y \in K |-> RootOnceMet(uf, x, y)]
  <2>1. met = Meet(uf, x)
    BY <1>2 DEF Meet
  <2>2. keys \in Seq(Addresses) /\ ToSet(keys) = K
    <3>1. uf.keys \in Seq(Addresses)
      BY ForestHas
    <3>2. ToSet(Append(uf.keys, x)) = ToSet(uf.keys) \cup {x}
      BY <3>1, AppendToSet
    <3> QED BY <3>1, <3>2 DEF Known
  <2>3. \A y \in K : y # x => y \in Known(uf) /\ uf.parent[y] \in Known(uf) /\ uf.rank[y] \in Nat /\ uf.parent[y] # x
    BY <1>2, ForestHas
  <2>4. parent \in [K -> K] /\ rank \in [K -> Nat]
    BY <2>3
  <2>5. \A y \in K : parent[y] # y => rank[y] < rank[parent[y]]
    <3> SUFFICES ASSUME NEW y \in K, parent[y] # y PROVE rank[y] < rank[parent[y]]
      OBVIOUS
    <3>1. y # x /\ parent[y] = uf.parent[y] /\ parent[y] \in K /\ parent[y] # x
      BY <2>3
    <3>2. rank[y] = uf.rank[y] /\ rank[parent[y]] = uf.rank[uf.parent[y]]
      BY <3>1
    <3> QED BY <2>3, <3>1, <3>2, ForestHas
  <2> HIDE DEF keys, parent, rank
  <2>6. met \in Forests
    BY <2>2, <2>4, <2>5, ForestOf
  <2>7. Known(met) = K
    BY <2>2 DEF Known
  <2>8. \A y \in K : Root(met, y) = f[y]
    <3>1. ASSUME NEW y \in K PROVE f[y] = IF met.parent[y] = y THEN y ELSE f[met.parent[y]]
      <4>1. CASE y = x
        <5>1. parent[y] = y
          BY <4>1 DEF parent
        <5> QED BY <1>2, <4>1, <5>1 DEF RootOnceMet
      <4>2. CASE y # x
        <5>1. parent[y] = uf.parent[y] /\ uf.parent[y] \in Known(uf) /\ y \in Known(uf)
          BY <2>3, <4>2 DEF parent
        <5>2. f[y] = Root(uf, y) /\ f[uf.parent[y]] = Root(uf, uf.parent[y])
          BY <5>1 DEF RootOnceMet
        <5> QED BY <5>1, <5>2, RootIs
      <4> QED BY <4>1, <4>2
    <3> HIDE DEF f, met
    <3> QED BY <2>6, <2>7, <3>1, RootsAre
  <2> QED BY <2>1, <2>6, <2>7, <2>8
<1> QED BY <1>1, <1>2

\* find(x) meets x and leaves every wallet its root.
LEMMA FindIs ==
  ASSUME NEW uf \in Forests, NEW x \in Addresses
  PROVE  /\ Find(uf, x) \in Forests
         /\ Known(Find(uf, x)) = Known(uf) \cup {x}
         /\ \A y \in Known(uf) \cup {x} : Root(Find(uf, x), y) = RootOnceMet(uf, x, y)
<1> DEFINE met == Meet(uf, x)
           K == Known(met)
           parent == [y \in K |-> IF y \in Way(met, x) THEN Root(met, x) ELSE met.parent[y]]
           found == [keys |-> met.keys, parent |-> parent, rank |-> met.rank]
           f == [y \in K |-> Root(met, y)]
<1>1. found = Find(uf, x)
  BY DEF Find
<1>2. /\ met \in Forests /\ K = Known(uf) \cup {x} /\ x \in K
      /\ \A y \in K : Root(met, y) = RootOnceMet(uf, x, y)
  BY MeetIs
<1> HIDE DEF met
<1>3. K = ToSet(met.keys)
  BY DEF Known
<1>4. \A y \in Way(met, x) : y \in K /\ Root(met, y) = Root(met, x)
  BY <1>2, WayIs, WayHasRoot
<1> HIDE DEF K
<1>5. /\ met.keys \in Seq(Addresses) /\ met.parent \in [K -> K] /\ met.rank \in [K -> Nat]
      /\ \A y \in K : met.parent[y] # y => met.rank[y] < met.rank[met.parent[y]]
  BY <1>2, ForestHas DEF K
<1>6. /\ \A y \in K : Root(met, y) \in K /\ met.parent[Root(met, y)] = Root(met, y)
      /\ \A y \in K : Root(met, y) = IF met.parent[y] = y THEN y ELSE Root(met, met.parent[y])
      /\ \A y \in K : y = Root(met, y) \/ met.rank[y] < met.rank[Root(met, y)]
  BY <1>2, RootIs, RootOutranks DEF K
<1>7. parent \in [K -> K]
  BY <1>2, <1>5, <1>6
<1>8. \A y \in K : parent[y] # y => met.rank[y] < met.rank[parent[y]]
  <2> SUFFICES ASSUME NEW y \in K, parent[y] # y PROVE met.rank[y] < met.rank[parent[y]]
    OBVIOUS
  <2>1. CASE y \in Way(met, x)
    <3>1. parent[y] = Root(met, x) /\ Root(met, x) = Root(met, y)
      BY <1>4, <2>1
    <3> HIDE DEF parent
    <3> QED BY <1>6, <3>1
  <2>2. CASE y \notin Way(met, x)
    BY <1>5, <2>2
  <2> QED BY <2>1, <2>2
<1>9. found \in Forests /\ Known(found) = K
  <2>1. Known(found) = K
    BY <1>3 DEF Known
  <2>2. met.keys \in Seq(Addresses) /\ parent \in [ToSet(met.keys) -> ToSet(met.keys)]
        /\ met.rank \in [ToSet(met.keys) -> Nat]
        /\ \A y \in ToSet(met.keys) : parent[y] # y => met.rank[y] < met.rank[parent[y]]
    BY <1>3, <1>5, <1>7, <1>8
  <2> HIDE DEF parent
  <2> QED BY <2>1, <2>2, ForestOf
<1>10. \A y \in K : Root(found, y) = f[y]
  <2>1. ASSUME NEW y \in K PROVE f[y] = IF parent[y] = y THEN y ELSE f[parent[y]]
    <3>1. CASE y \in Way(met, x)
      <4>1. parent[y] = Root(met, y)
        BY <1>4, <3>1
      <4> HIDE DEF parent
      <4>2. f[y] = Root(met, y) /\ f[Root(met, y)] = Root(met, Root(met, y)) /\ Root(met, Root(met, y)) = Root(met, y)
        BY <1>6
      <4> QED BY <4>1, <4>2
    <3>2. CASE y \notin Way(met, x)
      <4>1. parent[y] = met.parent[y] /\ met.parent[y] \in K
        BY <1>5, <3>2
      <4> HIDE DEF parent
      <4>2. f[y] = Root(met, y) /\ f[met.parent[y]] = Root(met, met.parent[y])
        BY <4>1
      <4> HIDE DEF f
      <4> QED BY <1>6, <4>1, <4>2
    <3> QED BY <3>1, <3>2
  <2>2. found.parent = parent
    OBVIOUS
  <2> HIDE DEF f, found, parent
  <2> QED BY <1>9, <2>1, <2>2, RootsAre
<1> QED BY <1>1, <1>2, <1>9, <1>10

\* Linking two roots joins what hangs from them.
LEMMA LinkIs ==
  ASSUME NEW uf \in Forests, NEW rx \in Known(uf), NEW ry \in Known(uf), rx # ry,
         uf.parent[rx] = rx, uf.parent[ry] = ry, uf.rank[ry] <= uf.rank[rx]
  PROVE  /\ Link(uf, rx, ry) \in Forests
         /\ Known(Link(uf, rx, ry)) = Known(uf)
         /\ \A y \in Known(uf) :
              Root(Link(uf, rx, ry), y) = IF Root(uf, y) = ry THEN rx ELSE Root(uf, y)
<1> DEFINE K == Known(uf)
           parent == [uf.parent EXCEPT ![ry] = rx]
           rank == [uf.rank EXCEPT ![rx] = IF @ = uf.rank[ry] THEN @ + 1 ELSE @]
           link == [keys |-> uf.keys, parent |-> parent, rank |-> rank]
           f == [y \in K |-> IF Root(uf, y) = ry THEN rx ELSE Root(uf, y)]
<1>1. link = Link(uf, rx, ry)
  BY DEF Link
<1>2. /\ uf.keys \in Seq(Addresses) /\ uf.parent \in [K -> K] /\ uf.rank \in [K -> Nat]
      /\ \A y \in K : uf.parent[y] # y => uf.rank[y] < uf.rank[uf.parent[y]]
  BY ForestHas
<1>3. K = ToSet(uf.keys)
  BY DEF Known
<1>4. \A y \in K : /\ Root(uf, y) \in K /\ uf.parent[Root(uf, y)] = Root(uf, y)
                   /\ Root(uf, y) = IF uf.parent[y] = y THEN y ELSE Root(uf, uf.parent[y])
  BY RootIs
<1>5. /\ parent \in [K -> K] /\ parent[ry] = rx
      /\ \A y \in K : y # ry => parent[y] = uf.parent[y]
  BY <1>2
<1>6. /\ rank \in [K -> Nat] /\ rank[ry] < rank[rx] /\ rank[ry] = uf.rank[ry]
      /\ \A y \in K : /\ uf.rank[y] <= rank[y]
                      /\ y # rx => rank[y] = uf.rank[y]
  BY <1>2
<1>7. link.keys = uf.keys /\ link.parent = parent /\ link.rank = rank
  OBVIOUS
<1> HIDE DEF parent, rank
<1>8. \A y \in K : parent[y] # y => rank[y] < rank[parent[y]]
  <2> SUFFICES ASSUME NEW y \in K, parent[y] # y PROVE rank[y] < rank[parent[y]]
    OBVIOUS
  <2>1. CASE y = ry
    BY <1>5, <1>6, <2>1
  <2>2. CASE y # ry
    <3>1. parent[y] = uf.parent[y] /\ uf.parent[y] # y /\ y # rx /\ uf.parent[y] \in K
      BY <1>2, <1>5, <2>2
    <3>2. rank[y] = uf.rank[y] /\ uf.rank[y] < uf.rank[uf.parent[y]] /\ uf.rank[uf.parent[y]] <= rank[uf.parent[y]]
      BY <1>2, <1>6, <3>1
    <3>3. {rank[y], uf.rank[y], uf.rank[uf.parent[y]], rank[uf.parent[y]]} \subseteq Nat
      BY <1>2, <1>6, <3>1
    <3> QED BY <3>1, <3>2, <3>3
  <2> QED BY <2>1, <2>2
<1>9. link \in Forests /\ Known(link) = K
  BY <1>2, <1>3, <1>5, <1>6, <1>8, ForestOf DEF Known
<1>10. \A y \in K : Root(link, y) = f[y]
  <2>1. ASSUME NEW y \in K PROVE f[y] = IF parent[y] = y THEN y ELSE f[parent[y]]
    <3>1. CASE y = ry
      <4>1. Root(uf, ry) = ry /\ Root(uf, rx) = rx
        BY <1>4
      <4> QED BY <1>5, <3>1, <4>1
    <3>2. CASE y # ry
      <4>1. parent[y] = uf.parent[y] /\ uf.parent[y] \in K
        BY <1>2, <1>5, <3>2
      <4>2. CASE uf.parent[y] = y
        BY <1>4, <3>2, <4>1, <4>2
      <4>3. CASE uf.parent[y] # y
        <5>1. Root(uf, y) = Root(uf, uf.parent[y])
          BY <1>4, <4>3
        <5> QED BY <4>1, <4>3, <5>1
      <4> QED BY <4>2, <4>3
    <3> QED BY <3>1, <3>2
  <2> HIDE DEF f, link
  <2> QED BY <1>7, <1>9, <2>1, RootsAre
<1> QED BY <1>1, <1>9, <1>10

-----------------------------------------------------------------------------
\* One wallet, or two under one root.
Same(uf, a, b) == a = b \/ ({a, b} \subseteq Known(uf) /\ Root(uf, a) = Root(uf, b))

\* No cluster of uf is partly in C.
Respects(uf, C) == \A a, b \in Addresses : Same(uf, a, b) => (a \in C <=> b \in C)

\* v joins the pairs of P to what u joins, and nothing else: a set of wallets
\* that no pair and no cluster of u leaves is left by no cluster of v.
Unites(u, v, P) ==
  /\ v \in Forests /\ Known(u) \subseteq Known(v)
  /\ \A a, b \in Addresses : Same(u, a, b) => Same(v, a, b)
  /\ \A p \in P : Same(v, p[1], p[2])
  /\ \A C \in SUBSET Addresses :
       Respects(u, C) /\ (\A p \in P : p[1] \in C <=> p[2] \in C) => Respects(v, C)

\* A forest joins no more pairs than it joins.
LEMMA UnitesNothing == ASSUME NEW u \in Forests PROVE Unites(u, u, {})
BY DEF Unites

\* What is joined first and what is joined then are joined in the end.
LEMMA UnitesTwice ==
  ASSUME NEW u, NEW v, NEW w, NEW P \in SUBSET (Addresses \X Addresses), NEW Q,
         Unites(u, v, P), Unites(v, w, Q)
  PROVE  Unites(u, w, P \cup Q)
<1>1. w \in Forests /\ Known(u) \subseteq Known(w)
  BY DEF Unites
<1>2. \A a, b \in Addresses : Same(u, a, b) => Same(w, a, b)
  BY DEF Unites
<1>3. \A p \in P \cup Q : Same(w, p[1], p[2])
  <2>1. \A p \in P : p[1] \in Addresses /\ p[2] \in Addresses
    OBVIOUS
  <2> QED BY <2>1 DEF Unites
<1>4. ASSUME NEW C \in SUBSET Addresses, Respects(u, C), \A p \in P \cup Q : p[1] \in C <=> p[2] \in C
      PROVE  Respects(w, C)
  BY <1>4 DEF Unites
<1> QED BY <1>1, <1>2, <1>3, <1>4 DEF Unites

\* The order of a pair does not matter.
LEMMA UnitesSwapped ==
  ASSUME NEW u, NEW v, NEW x, NEW y, Unites(u, v, {<<x, y>>})
  PROVE  Unites(u, v, {<<y, x>>})
<1>1. Same(v, y, x)
  BY DEF Unites, Same
<1> QED BY <1>1 DEF Unites

\* Forests that agree on who shares a root join nothing to each other.
LEMMA SameRootsUnite ==
  ASSUME NEW u \in Forests, NEW v \in Forests, Known(u) \subseteq Known(v),
         \A a, b \in Addresses : Same(u, a, b) <=> Same(v, a, b)
  PROVE  Unites(u, v, {})
BY DEF Unites, Respects

\* find() joins nothing.
LEMMA FindUnites ==
  ASSUME NEW uf \in Forests, NEW x \in Addresses
  PROVE  /\ Find(uf, x) \in Forests /\ Known(Find(uf, x)) = Known(uf) \cup {x}
         /\ Unites(uf, Find(uf, x), {})
<1> DEFINE v == Find(uf, x)
<1>1. /\ v \in Forests /\ Known(v) = Known(uf) \cup {x}
      /\ \A y \in Known(uf) \cup {x} : Root(v, y) = RootOnceMet(uf, x, y)
  BY FindIs
<1> HIDE DEF v
<1>2. \A y \in Known(uf) : Root(uf, y) \in Known(uf)
  BY RootIs
<1>3. ASSUME NEW a \in Addresses, NEW b \in Addresses PROVE Same(uf, a, b) <=> Same(v, a, b)
  <2>1. CASE x \in Known(uf)
    BY <1>1, <2>1 DEF Same, RootOnceMet
  <2>2. CASE x \notin Known(uf)
    <3>1. CASE a = x
      BY <1>1, <1>2, <2>2, <3>1 DEF Same, RootOnceMet
    <3>2. CASE b = x
      BY <1>1, <1>2, <2>2, <3>2 DEF Same, RootOnceMet
    <3>3. CASE a # x /\ b # x
      BY <1>1, <1>2, <2>2, <3>3 DEF Same, RootOnceMet
    <3> QED BY <3>1, <3>2, <3>3
  <2> QED BY <2>1, <2>2
<1>4. Unites(uf, v, {})
  <2>1. Known(uf) \subseteq Known(v)
    BY <1>1
  <2> QED BY <1>1, <1>3, <2>1, SameRootsUnite
<1> QED BY <1>1, <1>4 DEF v

\* Hanging one root below another joins their clusters, and no others.
LEMMA LinkUnites ==
  ASSUME NEW uf \in Forests, NEW x \in Known(uf), NEW y \in Known(uf),
         Root(uf, x) # Root(uf, y), uf.rank[Root(uf, y)] <= uf.rank[Root(uf, x)]
  PROVE  Unites(uf, Link(uf, Root(uf, x), Root(uf, y)), {<<x, y>>})
<1> DEFINE rx == Root(uf, x)
           ry == Root(uf, y)
           v == Link(uf, rx, ry)
<1>1. rx \in Known(uf) /\ ry \in Known(uf) /\ uf.parent[rx] = rx /\ uf.parent[ry] = ry
  BY RootIs
<1>2. /\ v \in Forests /\ Known(v) = Known(uf)
      /\ \A z \in Known(uf) : Root(v, z) = IF Root(uf, z) = ry THEN rx ELSE Root(uf, z)
  <2> HIDE DEF rx, ry
  <2>1. uf.rank[ry] <= uf.rank[rx] /\ rx # ry
    BY DEF rx, ry
  <2> QED BY <1>1, <2>1, LinkIs
<1>3. rx = Root(uf, x) /\ ry = Root(uf, y)
  OBVIOUS
<1>4. x \in Addresses /\ y \in Addresses
  BY KnownFinite
<1> HIDE DEF rx, ry, v
<1>5. \A a, b \in Addresses : Same(uf, a, b) => Same(v, a, b)
  BY <1>2 DEF Same
<1>6. Same(v, x, y)
  BY <1>2, <1>3 DEF Same
<1>7. ASSUME NEW C \in SUBSET Addresses, Respects(uf, C), x \in C <=> y \in C
      PROVE  Respects(v, C)
  <2> SUFFICES ASSUME NEW a \in Addresses, NEW b \in Addresses, Same(v, a, b), a # b
               PROVE  a \in C <=> b \in C
    BY DEF Respects
  <2>1. a \in Known(uf) /\ b \in Known(uf) /\ Root(v, a) = Root(v, b)
    BY <1>2 DEF Same
  <2>2. ASSUME NEW c \in {a, b} PROVE Root(uf, c) = ry => (c \in C <=> y \in C)
    BY <1>3, <1>4, <1>7, <2>1, <2>2 DEF Respects, Same
  <2>3. ASSUME NEW c \in {a, b} PROVE Root(uf, c) = rx => (c \in C <=> x \in C)
    BY <1>3, <1>4, <1>7, <2>1, <2>3 DEF Respects, Same
  <2>4. CASE Root(uf, a) = Root(uf, b)
    BY <1>7, <2>1, <2>4 DEF Respects, Same
  <2>5. CASE Root(uf, a) # Root(uf, b)
    <3>1. (Root(uf, a) = ry /\ Root(uf, b) = rx) \/ (Root(uf, a) = rx /\ Root(uf, b) = ry)
      BY <1>2, <2>1, <2>5
    <3> QED BY <1>7, <2>2, <2>3, <3>1
  <2> QED BY <2>4, <2>5
<1>8. Unites(uf, v, {<<x, y>>})
  BY <1>2, <1>5, <1>6, <1>7 DEF Unites
<1> QED BY <1>8 DEF v, rx, ry

\* union(x, y) joins the clusters of x and y, and no others.
LEMMA UniteUnites ==
  ASSUME NEW uf \in Forests, NEW x \in Addresses, NEW y \in Addresses
  PROVE  /\ Unites(uf, Unite(uf, x, y), {<<x, y>>})
         /\ {x, y} \subseteq Known(Unite(uf, x, y))
<1> DEFINE once == Find(uf, x)
           found == Find(once, y)
           rx == Root(found, x)
           ry == Root(found, y)
           v == Unite(uf, x, y)
<1>1. v = CASE rx = ry -> found
            [] found.rank[rx] < found.rank[ry] -> Link(found, ry, rx)
            [] OTHER -> Link(found, rx, ry)
  BY DEF Unite
<1>2. once \in Forests /\ Known(once) = Known(uf) \cup {x} /\ Unites(uf, once, {})
  BY FindUnites
<1> HIDE DEF once
<1>3. found \in Forests /\ Known(found) = Known(once) \cup {y} /\ Unites(once, found, {})
  BY <1>2, FindUnites
<1> HIDE DEF found
<1>4. x \in Known(found) /\ y \in Known(found)
  BY <1>2, <1>3
<1>5. Unites(uf, found, {})
  <2>1. {} \in SUBSET (Addresses \X Addresses) /\ {} \cup {} = {}
    OBVIOUS
  <2> QED BY <1>2, <1>3, <2>1, UnitesTwice
<1>6. found.rank[rx] \in Nat /\ found.rank[ry] \in Nat
  BY <1>3, <1>4, RootIs, ForestHas
<1> HIDE DEF v
<1>7. Unites(found, v, {<<x, y>>})
  <2>1. CASE rx = ry
    <3>0. ~ (found.rank[rx] < found.rank[ry])
      BY <1>6, <2>1
    <3>1. v = found
      BY <1>1, <2>1, <3>0
    <3>2. Same(found, x, y)
      BY <1>4, <2>1 DEF Same
    <3> QED BY <1>3, <3>1, <3>2 DEF Unites
  <2>2. CASE rx # ry /\ found.rank[rx] < found.rank[ry]
    <3>1. v = Link(found, ry, rx)
      BY <1>1, <2>2
    <3>2. found.rank[rx] <= found.rank[ry]
      BY <1>6, <2>2
    <3>3. Unites(found, Link(found, ry, rx), {<<y, x>>})
      BY <1>3, <1>4, <2>2, <3>2, LinkUnites
    <3> QED BY <3>1, <3>3, UnitesSwapped
  <2>3. CASE rx # ry /\ ~ (found.rank[rx] < found.rank[ry])
    <3>1. v = Link(found, rx, ry)
      BY <1>1, <2>3
    <3>2. found.rank[ry] <= found.rank[rx]
      BY <1>6, <2>3
    <3>3. Unites(found, Link(found, rx, ry), {<<x, y>>})
      BY <1>3, <1>4, <2>3, <3>2, LinkUnites
    <3> QED BY <3>1, <3>3
  <2> QED BY <2>1, <2>2, <2>3
<1>8. Unites(uf, v, {<<x, y>>})
  <2>1. {} \in SUBSET (Addresses \X Addresses) /\ {} \cup {<<x, y>>} = {<<x, y>>}
    OBVIOUS
  <2>2. Unites(uf, v, {} \cup {<<x, y>>})
    BY <1>5, <1>7, <2>1, UnitesTwice
  <2> QED BY <2>1, <2>2
<1>9. {x, y} \subseteq Known(v)
  BY <1>4, <1>7 DEF Unites
<1> QED BY <1>8, <1>9 DEF v

\* The pairs of the first n inputs of a transaction.
InputPairs(list, n) == {<<list[1], list[i]>> : i \in 2..n}

\* The inputs of a transaction are joined one after the other.
LEMMA UniteInputsUnfolds ==
  ASSUME NEW uf \in Forests, NEW list \in Seq(Addresses)
  PROVE  \E q : /\ UniteInputs(uf, list) = q[Len(list)]
                /\ \A i \in 0..Len(list) :
                     q[i] = IF i <= 1 THEN uf ELSE Unite(q[i - 1], list[1], list[i])
<1> DEFINE n == Len(list)
           step(i, u) == IF i \in 2..n THEN Unite(u, list[1], list[i]) ELSE u
           d == [i \in Nat |-> [u \in Forests |-> step(i, u)]]
           body(f) == [i \in 0..n |-> IF i <= 1 THEN uf ELSE Unite(f[i - 1], list[1], list[i])]
           q == CHOOSE f : f = body(f)
<1>1. n \in Nat /\ \A i \in 1..n : list[i] \in Addresses
  OBVIOUS
<1>2. UniteInputs(uf, list) = q[n]
  BY DEF UniteInputs
<1> HIDE DEF n
<1>3. Stepwise(d, Forests)
  <2>1. ASSUME NEW i \in Nat, NEW u \in Forests PROVE step(i, u) \in Forests
    <3>1. i \in 2..n => list[1] \in Addresses /\ list[i] \in Addresses
      BY <1>1
    <3> QED BY <3>1, UniteUnites DEF Unites
  <2> HIDE DEF step
  <2> QED BY <2>1 DEF Stepwise
<1>4. PICK f \in [0..n -> Forests] : f[0] = uf /\ \A i \in 1..n : f[i] = d[i][f[i - 1]]
  <2> HIDE DEF d
  <2>1. PICK f : RecursTo(f, n, Forests, uf, d)
    BY <1>1, <1>3, RecursionUpTo
  <2> QED BY <2>1 DEF RecursTo
<1>5. \A i \in 1..n : f[i] = step(i, f[i - 1])
  <2> SUFFICES ASSUME NEW i \in 1..n PROVE f[i] = step(i, f[i - 1])
    OBVIOUS
  <2>1. i \in Nat /\ i - 1 \in 0..n
    BY <1>1
  <2>2. f[i - 1] \in Forests
    BY <2>1
  <2> HIDE DEF step
  <2> QED BY <1>4, <2>1, <2>2
<1>6. f = body(f)
  <2>1. \A i \in 0..n : f[i] = body(f)[i]
    <3> SUFFICES ASSUME NEW i \in 0..n PROVE f[i] = body(f)[i]
      OBVIOUS
    <3>1. CASE i = 0
      BY <1>4, <3>1
    <3>2. CASE i = 1
      BY <1>1, <1>4, <1>5, <3>2
    <3>3. CASE i \in 2..n
      <4>1. i \in 1..n /\ ~ (i <= 1)
        BY <1>1, <3>3
      <4> QED BY <1>5, <3>3, <4>1
    <3>4. i = 0 \/ i = 1 \/ i \in 2..n
      BY <1>1
    <3> QED BY <3>1, <3>2, <3>3, <3>4
  <2> QED BY <2>1
<1>7. q = body(q)
  <2> HIDE DEF body
  <2> QED BY <1>6
<1> HIDE DEF q
<1>8. \A i \in 0..n : q[i] = IF i <= 1 THEN uf ELSE Unite(q[i - 1], list[1], list[i])
  BY <1>7
<1> QED BY <1>2, <1>8 DEF n

\* The inputs of one transaction are joined, and nothing else.
LEMMA UniteInputsUnites ==
  ASSUME NEW uf \in Forests, NEW list \in Seq(Addresses)
  PROVE  Unites(uf, UniteInputs(uf, list), InputPairs(list, Len(list)))
<1> DEFINE n == Len(list)
<1>1. n \in Nat /\ \A i \in 1..n : list[i] \in Addresses
  OBVIOUS
<1>2. PICK q : /\ UniteInputs(uf, list) = q[n]
               /\ \A i \in 0..n : q[i] = IF i <= 1 THEN uf ELSE Unite(q[i - 1], list[1], list[i])
  BY UniteInputsUnfolds
<1> HIDE DEF n
<1> DEFINE I == {k \in Nat : k <= n => Unites(uf, q[k], InputPairs(list, k))}
<1>3. ASSUME NEW k \in {0, 1}, k <= n PROVE Unites(uf, q[k], InputPairs(list, k))
  <2>1. InputPairs(list, k) = {} /\ q[k] = uf
    BY <1>1, <1>2, <1>3 DEF InputPairs
  <2> QED BY <2>1, UnitesNothing
<1>4. 0 \in I
  BY <1>3
<1>5. ASSUME NEW k \in I PROVE k + 1 \in I
  <2> SUFFICES ASSUME k + 1 <= n PROVE Unites(uf, q[k + 1], InputPairs(list, k + 1))
    OBVIOUS
  <2>1. k \in Nat /\ k <= n /\ Unites(uf, q[k], InputPairs(list, k))
    BY <1>1
  <2>2. CASE k = 0
    BY <1>3, <2>2
  <2>3. CASE k # 0
    <3>1. k + 1 \in 0..n /\ ~ (k + 1 <= 1) /\ (k + 1) - 1 = k /\ 1 \in 1..n /\ k + 1 \in 1..n
      BY <1>1, <2>1, <2>3
    <3>2. q[k + 1] = Unite(q[k], list[1], list[k + 1])
      BY <1>2, <3>1
    <3>3. q[k] \in Forests
      BY <2>1 DEF Unites
    <3>4. list[1] \in Addresses /\ list[k + 1] \in Addresses
      BY <1>1, <3>1
    <3>5. Unites(q[k], q[k + 1], {<<list[1], list[k + 1]>>})
      BY <3>2, <3>3, <3>4, UniteUnites
    <3>6. InputPairs(list, k + 1) = InputPairs(list, k) \cup {<<list[1], list[k + 1]>>}
      <4>1. 2..k + 1 = (2..k) \cup {k + 1}
        BY <2>1, <2>3
      <4> QED BY <4>1 DEF InputPairs
    <3>7. InputPairs(list, k) \in SUBSET (Addresses \X Addresses)
      <4>1. \A i \in 2..k : i \in 1..n
        BY <1>1, <2>1
      <4> QED BY <1>1, <3>4, <4>1 DEF InputPairs
    <3> QED BY <2>1, <3>5, <3>6, <3>7, UnitesTwice
  <2> QED BY <2>2, <2>3
<1> HIDE DEF I
<1>6. I = Nat
  <2>1. I \in SUBSET Nat
    BY DEF I
  <2> QED BY <1>4, <1>5, <2>1, NatSetInduction
<1>7. Unites(uf, q[n], InputPairs(list, n))
  BY <1>1, <1>6 DEF I
<1> QED BY <1>2, <1>7 DEF n

\* The transactions of a call are joined one after the other.
LEMMA UniteAllUnfolds ==
  ASSUME NEW uf \in Forests, NEW lists \in Seq(Seq(Addresses))
  PROVE  \E q : /\ UniteAll(uf, lists) = q[Len(lists)] /\ q[0] = uf
                /\ \A i \in 1..Len(lists) : q[i] = UniteInputs(q[i - 1], lists[i])
<1> DEFINE n == Len(lists)
           step(i, u) == IF i \in 1..n THEN UniteInputs(u, lists[i]) ELSE u
           d == [i \in Nat |-> [u \in Forests |-> step(i, u)]]
           body(f) == [i \in 0..n |-> IF i = 0 THEN uf ELSE UniteInputs(f[i - 1], lists[i])]
           q == CHOOSE f : f = body(f)
<1>1. n \in Nat /\ \A i \in 1..n : lists[i] \in Seq(Addresses)
  OBVIOUS
<1>2. UniteAll(uf, lists) = q[n]
  BY DEF UniteAll
<1> HIDE DEF n
<1>3. Stepwise(d, Forests)
  <2>1. ASSUME NEW i \in Nat, NEW u \in Forests PROVE step(i, u) \in Forests
    BY <1>1, UniteInputsUnites DEF Unites
  <2> HIDE DEF step
  <2> QED BY <2>1 DEF Stepwise
<1>4. PICK f \in [0..n -> Forests] : f[0] = uf /\ \A i \in 1..n : f[i] = d[i][f[i - 1]]
  <2> HIDE DEF d
  <2>1. PICK f : RecursTo(f, n, Forests, uf, d)
    BY <1>1, <1>3, RecursionUpTo
  <2> QED BY <2>1 DEF RecursTo
<1>5. \A i \in 1..n : f[i] = UniteInputs(f[i - 1], lists[i])
  <2> SUFFICES ASSUME NEW i \in 1..n PROVE f[i] = UniteInputs(f[i - 1], lists[i])
    OBVIOUS
  <2>1. i \in Nat /\ i - 1 \in 0..n
    BY <1>1
  <2>2. f[i - 1] \in Forests
    BY <2>1
  <2> QED BY <1>4, <2>1, <2>2
<1>6. f = body(f)
  <2>1. \A i \in 0..n : i = 0 \/ i \in 1..n
    BY <1>1
  <2>2. \A i \in 0..n : f[i] = body(f)[i]
    BY <1>4, <1>5, <2>1
  <2> QED BY <2>2
<1>7. q = body(q)
  <2> HIDE DEF body
  <2> QED BY <1>6
<1> HIDE DEF q
<1>8. q[0] = uf /\ \A i \in 1..n : q[i] = UniteInputs(q[i - 1], lists[i])
  <2>1. 0 \in 0..n /\ \A i \in 1..n : i \in 0..n /\ i # 0
    BY <1>1
  <2> QED BY <1>7, <2>1
<1> QED BY <1>2, <1>8 DEF n

\* The pairs of a call are joined, and nothing else.
LEMMA UniteAllUnites ==
  ASSUME NEW uf \in Forests, NEW lists \in Seq(Seq(Addresses))
  PROVE  Unites(uf, UniteAll(uf, lists), Pairs(lists)) /\ Pairs(lists) \subseteq Addresses \X Addresses
<1> DEFINE n == Len(lists)
           pairsOf(i) == InputPairs(lists[i], Len(lists[i]))
           upTo(k) == UNION {pairsOf(i) : i \in 1..k}
<1>1. n \in Nat /\ DOMAIN lists = 1..n /\ \A i \in 1..n : lists[i] \in Seq(Addresses)
  OBVIOUS
<1>2. PICK q : /\ UniteAll(uf, lists) = q[n] /\ q[0] = uf
               /\ \A i \in 1..n : q[i] = UniteInputs(q[i - 1], lists[i])
  BY UniteAllUnfolds
<1> HIDE DEF n
<1>3. \A i \in 1..n : pairsOf(i) \subseteq Addresses \X Addresses
  <2> SUFFICES ASSUME NEW i \in 1..n, NEW k \in 2..Len(lists[i])
               PROVE  <<lists[i][1], lists[i][k]>> \in Addresses \X Addresses
    BY DEF InputPairs
  <2>1. lists[i] \in Seq(Addresses)
    BY <1>1
  <2> QED BY <2>1
<1>4. Pairs(lists) = upTo(n)
  <2>1. ToSet(lists) = {lists[i] : i \in 1..n}
    BY <1>1 DEF ToSet
  <2>2. Pairs(lists) = UNION {InputPairs(list, Len(list)) : list \in ToSet(lists)}
    BY DEF Pairs, InputPairs
  <2> QED BY <2>1, <2>2
<1> HIDE DEF pairsOf
<1> DEFINE I == {k \in Nat : k <= n => Unites(uf, q[k], upTo(k))}
<1>5. 0 \in I
  <2>1. upTo(0) = {}
    OBVIOUS
  <2> QED BY <1>2, <2>1, UnitesNothing
<1>6. ASSUME NEW k \in I PROVE k + 1 \in I
  <2> SUFFICES ASSUME k + 1 <= n PROVE Unites(uf, q[k + 1], upTo(k + 1))
    OBVIOUS
  <2>1. k \in Nat /\ k <= n /\ k + 1 \in 1..n /\ (k + 1) - 1 = k /\ Unites(uf, q[k], upTo(k))
    BY <1>1
  <2>2. q[k + 1] = UniteInputs(q[k], lists[k + 1]) /\ q[k] \in Forests
    BY <1>2, <2>1 DEF Unites
  <2>3. Unites(q[k], q[k + 1], pairsOf(k + 1))
    BY <1>1, <2>1, <2>2, UniteInputsUnites DEF pairsOf
  <2>4. upTo(k + 1) = upTo(k) \cup pairsOf(k + 1)
    <3>1. 1..k + 1 = (1..k) \cup {k + 1}
      BY <2>1
    <3> QED BY <3>1
  <2>5. upTo(k) \in SUBSET (Addresses \X Addresses)
    <3>1. \A i \in 1..k : i \in 1..n
      BY <1>1, <2>1
    <3> QED BY <1>3, <3>1
  <2> HIDE DEF upTo
  <2> QED BY <2>1, <2>3, <2>4, <2>5, UnitesTwice
<1> HIDE DEF I
<1>7. I = Nat
  <2>1. I \in SUBSET Nat
    BY DEF I
  <2> QED BY <1>5, <1>6, <2>1, NatSetInduction
<1>8. Unites(uf, q[n], upTo(n))
  <2>1. n \in I /\ n <= n
    BY <1>1, <1>7
  <2> HIDE DEF upTo
  <2> QED BY <2>1 DEF I
<1>9. upTo(n) \subseteq Addresses \X Addresses
  BY <1>3
<1> QED BY <1>2, <1>4, <1>8, <1>9

\* v is u with shorter ways: the same wallets under the same roots.
Flattens(u, v) ==
  /\ v \in Forests /\ Known(v) = Known(u)
  /\ \A y \in Known(u) : Root(v, y) = Root(u, y)

\* A find() of every wallet leaves every wallet its root.
LEMMA FlattenedIs == ASSUME NEW uf \in Forests PROVE Flattens(uf, Flattened(uf))
<1> DEFINE n == Len(uf.keys)
           W == {v \in Forests : Flattens(uf, v)}
           step(i, u) == IF i \in 1..n THEN Find(u, uf.keys[i]) ELSE u
           d == [i \in Nat |-> [u \in W |-> step(i, u)]]
           body(f) == [i \in 0..n |-> IF i = 0 THEN uf ELSE Find(f[i - 1], uf.keys[i])]
           q == CHOOSE f : f = body(f)
<1>1. n \in Nat /\ \A i \in 1..n : uf.keys[i] \in Known(uf) /\ uf.keys[i] \in Addresses
  <2>1. uf.keys \in Seq(Addresses)
    BY ForestHas
  <2> QED BY <2>1 DEF Known, ToSet
<1>2. Flattened(uf) = q[n]
  BY DEF Flattened
<1> HIDE DEF n
<1>3. uf \in W
  BY DEF Flattens
<1>4. Stepwise(d, W)
  <2>1. ASSUME NEW i \in 1..n, NEW u \in W PROVE Find(u, uf.keys[i]) \in W
    <3>1. /\ u \in Forests /\ Known(u) = Known(uf) /\ \A y \in Known(uf) : Root(u, y) = Root(uf, y)
          /\ uf.keys[i] \in Known(uf) /\ uf.keys[i] \in Addresses
      BY <1>1 DEF Flattens
    <3> DEFINE v == Find(u, uf.keys[i])
    <3>2. /\ v \in Forests /\ Known(v) = Known(u) \cup {uf.keys[i]}
          /\ \A y \in Known(u) \cup {uf.keys[i]} : Root(v, y) = RootOnceMet(u, uf.keys[i], y)
      BY <3>1, FindIs
    <3> HIDE DEF v
    <3>3. Flattens(uf, v)
      BY <3>1, <3>2 DEF Flattens, RootOnceMet
    <3> QED BY <3>2, <3>3 DEF v
  <2>2. ASSUME NEW i \in Nat, NEW u \in W PROVE step(i, u) \in W
    <3> HIDE DEF W
    <3> QED BY <2>1
  <2> HIDE DEF step, W
  <2> QED BY <2>2 DEF Stepwise
<1> HIDE DEF W
<1>5. PICK f \in [0..n -> W] : f[0] = uf /\ \A i \in 1..n : f[i] = d[i][f[i - 1]]
  <2> HIDE DEF d
  <2>1. PICK f : RecursTo(f, n, W, uf, d)
    BY <1>1, <1>3, <1>4, RecursionUpTo
  <2> QED BY <2>1 DEF RecursTo
<1>6. \A i \in 1..n : f[i] = Find(f[i - 1], uf.keys[i])
  <2> SUFFICES ASSUME NEW i \in 1..n PROVE f[i] = Find(f[i - 1], uf.keys[i])
    OBVIOUS
  <2>1. i \in Nat /\ i - 1 \in 0..n
    BY <1>1
  <2>2. f[i - 1] \in W
    BY <2>1
  <2> QED BY <1>5, <2>1, <2>2
<1>7. f = body(f)
  <2>1. \A i \in 0..n : i = 0 \/ i \in 1..n
    BY <1>1
  <2>2. \A i \in 0..n : f[i] = body(f)[i]
    BY <1>5, <1>6, <2>1
  <2> QED BY <2>2
<1>8. q = body(q)
  <2> HIDE DEF body
  <2> QED BY <1>7
<1> HIDE DEF q
<1>9. q[0] = uf /\ \A i \in 1..n : q[i] = Find(q[i - 1], uf.keys[i])
  <2>1. 0 \in 0..n /\ \A i \in 1..n : i \in 0..n /\ i # 0
    BY <1>1
  <2> QED BY <1>8, <2>1
<1> DEFINE I == {k \in Nat : k <= n => q[k] \in W}
<1>10. 0 \in I
  BY <1>3, <1>9
<1>11. ASSUME NEW k \in I PROVE k + 1 \in I
  <2> SUFFICES ASSUME k + 1 <= n PROVE q[k + 1] \in W
    OBVIOUS
  <2>1. k \in Nat /\ q[k] \in W /\ k + 1 \in 1..n /\ k + 1 \in Nat /\ (k + 1) - 1 = k
    BY <1>1
  <2>2. q[k + 1] = d[k + 1][q[k]]
    BY <1>9, <2>1
  <2> HIDE DEF d
  <2> QED BY <1>4, <2>1, <2>2 DEF Stepwise
<1> HIDE DEF I
<1>12. I = Nat
  <2>1. I \in SUBSET Nat
    BY DEF I
  <2> QED BY <1>10, <1>11, <2>1, NatSetInduction
<1>13. q[n] \in W
  BY <1>1, <1>12 DEF I
<1> QED BY <1>2, <1>13 DEF W

\* Shorter ways join nothing.
LEMMA FlattensUnites ==
  ASSUME NEW u \in Forests, NEW v, Flattens(u, v)
  PROVE  Unites(u, v, {})
<1>1. v \in Forests /\ Known(u) \subseteq Known(v)
  BY DEF Flattens
<1>2. \A a, b \in Addresses : Same(u, a, b) <=> Same(v, a, b)
  BY DEF Flattens, Same
<1> QED BY <1>1, <1>2, SameRootsUnite

-----------------------------------------------------------------------------

\* The forest joins the pairs that were inputs together and nothing else; a
\* labelled wallet has its root for a label.
ClustersInv ==
  /\ together \subseteq Addresses \X Addresses
  /\ Unites(Empty, forest, together)
  /\ label \in [Addresses -> Addresses \cup {NoWallet}]
  /\ \A a \in Addresses : label[a] # NoWallet =>
       a \in nodes /\ a \in Known(forest) /\ label[a] = Root(forest, a)

\* The forest without wallets is one.
LEMMA EmptyIsForest == Empty \in Forests /\ Known(Empty) = {}
<1> DEFINE none == <<>>
<1>1. none \in Seq(Addresses) /\ ToSet(none) = {}
  BY DEF ToSet
<1>2. none \in [ToSet(none) -> ToSet(none)] /\ none \in [ToSet(none) -> Nat]
  BY <1>1
<1>3. [keys |-> none, parent |-> none, rank |-> none] \in Forests
  <2> HIDE DEF none
  <2> QED BY <1>1, <1>2, ForestOf
<1> QED BY <1>1, <1>3 DEF Empty, Known

\* Before the first call nothing is joined and no wallet is labelled.
LEMMA ClustersInit == InitGraph => ClustersInv
<1> SUFFICES ASSUME InitGraph PROVE ClustersInv
  OBVIOUS
<1>1. Unites(Empty, forest, together)
  BY EmptyIsForest, UnitesNothing DEF InitGraph
<1> QED BY <1>1 DEF InitGraph, ClustersInv

\* cluster_wallets joins the inputs of its lists, and labels by the roots.
LEMMA ClusterWalletsStep ==
  ASSUME ClustersInv, nodes \subseteq Addresses, NEW lists \in InputLists, ClusterWallets(lists)
  PROVE  ClustersInv' /\ Unites(forest, forest', Pairs(lists))
<1> DEFINE united == UniteAll(forest, lists)
           P == Pairs(lists)
<1>1. /\ forest' = Flattened(united)
      /\ label' = [a \in Addresses |-> IF a \in nodes \cap Known(forest') THEN Root(forest', a) ELSE label[a]]
      /\ together' = together \cup P /\ nodes' = nodes
  BY DEF ClusterWallets, paymentVars
<1>2. forest \in Forests /\ lists \in Seq(Seq(Addresses))
  BY InputAssumption DEF ClustersInv, Unites
<1>3. Unites(forest, united, P) /\ P \in SUBSET (Addresses \X Addresses)
  BY <1>2, UniteAllUnites
<1> HIDE DEF united, P
<1>4. united \in Forests
  BY <1>3 DEF Unites
<1>5. Unites(united, forest', {})
  BY <1>1, <1>4, FlattenedIs, FlattensUnites
<1>6. Unites(forest, forest', P)
  <2>1. P \cup {} = P
    OBVIOUS
  <2> QED BY <1>3, <1>5, <2>1, UnitesTwice
<1>7. Unites(Empty, forest', together')
  <2>1. together \in SUBSET (Addresses \X Addresses) /\ Unites(Empty, forest, together)
    BY DEF ClustersInv
  <2> QED BY <1>1, <1>6, <2>1, UnitesTwice
<1>8. forest' \in Forests /\ Known(forest) \subseteq Known(forest')
  BY <1>6 DEF Unites
<1>9. \A a \in Known(forest') : Root(forest', a) \in Addresses
  BY <1>8, RootIs, KnownFinite
<1>10. label' \in [Addresses -> Addresses \cup {NoWallet}]
  BY <1>1, <1>9 DEF ClustersInv
<1>11. ASSUME NEW a \in Addresses, label'[a] # NoWallet
       PROVE  a \in nodes' /\ a \in Known(forest') /\ label'[a] = Root(forest', a)
  <2>1. CASE a \in nodes \cap Known(forest')
    BY <1>1, <2>1
  <2>2. CASE a \notin nodes \cap Known(forest')
    <3>1. label'[a] = label[a]
      BY <1>1, <2>2
    <3> QED BY <1>8, <1>11, <2>2, <3>1 DEF ClustersInv
  <2> QED BY <2>1, <2>2
<1>12. together' \subseteq Addresses \X Addresses
  BY <1>1, <1>3 DEF ClustersInv
<1> QED BY <1>6, <1>7, <1>10, <1>11, <1>12 DEF ClustersInv, P

\* propagate_cluster_risk shortens ways and joins nothing.
LEMMA PropagateStep ==
  ASSUME ClustersInv, PropagateClusterRisk
  PROVE  ClustersInv' /\ Unites(forest, forest', {})
<1>1. /\ forest' = Flattened(forest) /\ nodes' = nodes /\ label' = label /\ together' = together
      /\ forest \in Forests
  BY DEF PropagateClusterRisk, paymentVars, ClustersInv, Unites
<1>2. Flattens(forest, forest')
  BY <1>1, FlattenedIs
<1>3. Unites(forest, forest', {})
  BY <1>1, <1>2, FlattensUnites
<1>4. Unites(Empty, forest', together)
  <2>1. together \in SUBSET (Addresses \X Addresses) /\ Unites(Empty, forest, together) /\ together \cup {} = together
    BY DEF ClustersInv
  <2> QED BY <1>3, <2>1, UnitesTwice
<1> QED BY <1>1, <1>2, <1>3, <1>4 DEF ClustersInv, Flattens

\* No other step touches the clusters.
LEMMA ClustersStep == GraphInv /\ ClustersInv /\ [NextGraph]_graphVars => ClustersInv'
<1> SUFFICES ASSUME GraphInv, ClustersInv, [NextGraph]_graphVars PROVE ClustersInv'
  OBVIOUS
<1>1. ASSUME UNCHANGED clusterVars, nodes \subseteq nodes' PROVE ClustersInv'
  BY <1>1 DEF clusterVars, ClustersInv
<1>2. CASE \E a \in Addresses, b \in Addresses \cup {NoWallet}, t \in Times : AddTransaction(a, b, t)
  BY <1>1, <1>2 DEF AddTransaction
<1>3. CASE \E a \in Addresses, score \in Scores : FlagAddress(a, score)
  BY <1>1, <1>3 DEF FlagAddress, paymentVars
<1>4. CASE \E lists \in InputLists : ClusterWallets(lists)
  BY <1>4, ClusterWalletsStep DEF GraphInv, Edges
<1>5. CASE PropagateClusterRisk
  BY <1>5, PropagateStep
<1>6. CASE UNCHANGED graphVars
  BY <1>1, <1>6 DEF graphVars, paymentVars
<1> QED BY <1>2, <1>3, <1>4, <1>5, <1>6 DEF NextGraph

\* The links of length up to 2^n between wallets, as the property counts them.
Ways(L) ==
  L \cup {p \in Addresses \X Addresses : \E b \in Addresses : {<<p[1], b>>, <<b, p[2]>>} \subseteq L}

\* The pairs that were inputs together, in both directions.
Inputs == together \cup {<<p[2], p[1]>> : p \in together}

\* The links of the property, doubling by doubling.
LEMMA LinkedUnfolds ==
  ASSUME together \subseteq Addresses \X Addresses, NEW N \in Nat
  PROVE  LET linked[n \in 0..N] ==
               IF n = 0 THEN together \cup {<<p[2], p[1]>> : p \in together}
               ELSE LET L == linked[n - 1] IN
                    L \cup {p \in Addresses \X Addresses :
                             \E b \in Addresses : {<<p[1], b>>, <<b, p[2]>>} \subseteq L}
         IN  \E q : q[N] = linked[N] /\ q[0] = Inputs /\ \A i \in 1..N : q[i] = Ways(q[i - 1])
<1> DEFINE W == SUBSET (Addresses \X Addresses)
           d == [i \in Nat |-> [L \in W |-> Ways(L)]]
           body(f) == [n \in 0..N |->
               IF n = 0 THEN together \cup {<<p[2], p[1]>> : p \in together}
               ELSE LET L == f[n - 1] IN
                    L \cup {p \in Addresses \X Addresses :
                             \E b \in Addresses : {<<p[1], b>>, <<b, p[2]>>} \subseteq L}]
           q == CHOOSE f : f = body(f)
<1>1. Stepwise(d, W)
  <2>1. ASSUME NEW L \in W PROVE Ways(L) \in W
    BY DEF Ways
  <2> HIDE DEF W
  <2> QED BY <2>1 DEF Stepwise
<1>2. Inputs \in W
  BY DEF Inputs
<1>3. PICK f \in [0..N -> W] : f[0] = Inputs /\ \A i \in 1..N : f[i] = d[i][f[i - 1]]
  <2> HIDE DEF d, W
  <2>1. PICK f : RecursTo(f, N, W, Inputs, d)
    BY <1>1, <1>2, RecursionUpTo
  <2> QED BY <2>1 DEF RecursTo
<1>4. \A i \in 1..N : f[i] = Ways(f[i - 1])
  <2> SUFFICES ASSUME NEW i \in 1..N PROVE f[i] = Ways(f[i - 1])
    OBVIOUS
  <2>1. i \in Nat /\ i - 1 \in 0..N
    OBVIOUS
  <2>2. f[i - 1] \in W
    BY <2>1
  <2> HIDE DEF W
  <2> QED BY <1>3, <2>1, <2>2
<1>5. f = body(f)
  <2>1. \A i \in 0..N : i = 0 \/ i \in 1..N
    OBVIOUS
  <2>2. \A i \in 0..N : f[i] = body(f)[i]
    BY <1>3, <1>4, <2>1 DEF Ways, Inputs
  <2> HIDE DEF W
  <2> QED BY <2>2
<1>6. q = body(q)
  <2> HIDE DEF body
  <2> QED BY <1>5
<1> HIDE DEF q
<1>7. q[0] = Inputs /\ \A i \in 1..N : q[i] = Ways(q[i - 1])
  <2>1. 0 \in 0..N /\ \A i \in 1..N : i \in 0..N /\ i # 0
    OBVIOUS
  <2> QED BY <1>6, <2>1 DEF Ways, Inputs
<1>8. \E g : g[N] = q[N] /\ g[0] = Inputs /\ \A i \in 1..N : g[i] = Ways(g[i - 1])
  BY <1>7
<1> QED BY <1>8 DEF q

\* Chains of common inputs, as long as there are wallets, are the clusters.
LEMMA LinkedAreClustered ==
  ASSUME ClustersInv, NEW q, q[0] = Inputs,
         \A i \in 1..Cardinality(Addresses) : q[i] = Ways(q[i - 1]),
         NEW a \in Addresses, NEW b \in Addresses
  PROVE  Same(forest, a, b) <=> (a = b \/ <<a, b>> \in q[Cardinality(Addresses)])
<1> DEFINE N == Cardinality(Addresses)
           S(i) == {c \in Addresses : c = a \/ <<a, c>> \in q[i]}
           Closed(C) == \A p \in together : p[1] \in C <=> p[2] \in C
<1>1. N \in Nat /\ IsFiniteSet(Addresses)
  BY WalletAssumption, FS_CardinalityType
<1>2. /\ together \subseteq Addresses \X Addresses
      /\ \A p \in together : Same(forest, p[1], p[2])
      /\ \A C \in SUBSET Addresses : Closed(C) => Respects(forest, C)
  <2>1. \A C \in SUBSET Addresses : Respects(Empty, C)
    BY EmptyIsForest DEF Respects, Same
  <2> QED BY <2>1 DEF ClustersInv, Unites
<1>3. \A i \in 1..N : q[i] = Ways(q[i - 1])
  OBVIOUS
<1> HIDE DEF N
\* Whoever is linked is clustered.
<1> DEFINE I == {i \in Nat : i <= N => Inputs \subseteq q[i] /\ \A p \in q[i] : Same(forest, p[1], p[2])}
<1>4. 0 \in I
  <2>1. ASSUME NEW p \in Inputs PROVE Same(forest, p[1], p[2])
    BY <1>2 DEF Inputs, Same
  <2> QED BY <2>1
<1>5. ASSUME NEW i \in I PROVE i + 1 \in I
  <2> SUFFICES ASSUME i + 1 <= N
               PROVE  Inputs \subseteq q[i + 1] /\ \A p \in q[i + 1] : Same(forest, p[1], p[2])
    OBVIOUS
  <2>1. i \in Nat /\ i <= N /\ i + 1 \in 1..N /\ (i + 1) - 1 = i
    BY <1>1
  <2>2. Inputs \subseteq q[i] /\ \A p \in q[i] : Same(forest, p[1], p[2])
    BY <2>1
  <2>3. q[i + 1] = Ways(q[i])
    BY <1>3, <2>1
  <2>4. ASSUME NEW p \in Ways(q[i]) PROVE Same(forest, p[1], p[2])
    <3>1. CASE p \in q[i]
      BY <2>2, <3>1
    <3>2. CASE p \notin q[i]
      <4>1. PICK c \in Addresses : <<p[1], c>> \in q[i] /\ <<c, p[2]>> \in q[i]
        BY <2>4, <3>2 DEF Ways
      <4>2. Same(forest, p[1], c) /\ Same(forest, c, p[2])
        BY <2>2, <4>1
      <4> QED BY <4>2 DEF Same
    <3> QED BY <3>1, <3>2
  <2>5. q[i] \subseteq Ways(q[i])
    BY DEF Ways
  <2> QED BY <2>2, <2>3, <2>4, <2>5
<1> HIDE DEF I
<1>6. I = Nat
  <2>1. I \in SUBSET Nat
    BY DEF I
  <2> QED BY <1>4, <1>5, <2>1, NatSetInduction
<1>7. \A i \in 0..N : Inputs \subseteq q[i] /\ \A p \in q[i] : Same(forest, p[1], p[2])
  BY <1>1, <1>6 DEF I
<1>8. <<a, b>> \in q[N] => Same(forest, a, b)
  BY <1>1, <1>7
\* The wallets linked with a become more until nothing leads out of them.
<1>9. ASSUME NEW i \in 0..N - 1 PROVE S(i) \subseteq S(i + 1) /\ (Closed(S(i)) \/ S(i + 1) # S(i))
  <2>1. i + 1 \in 1..N /\ (i + 1) - 1 = i /\ i \in 0..N
    BY <1>1
  <2>2. q[i + 1] = Ways(q[i]) /\ Inputs \subseteq q[i]
    BY <1>3, <1>7, <2>1
  <2>3. S(i) \subseteq S(i + 1)
    BY <2>2 DEF Ways
  <2>4. ASSUME ~ Closed(S(i)) PROVE S(i + 1) # S(i)
    <3>1. PICK p \in together : ~ (p[1] \in S(i) <=> p[2] \in S(i))
      BY <2>4
    <3>2. PICK c \in S(i), e \in Addresses \ S(i) : <<c, e>> \in Inputs
      <4>1. p[1] \in Addresses /\ p[2] \in Addresses /\ <<p[1], p[2]>> \in Inputs /\ <<p[2], p[1]>> \in Inputs
        BY <1>2 DEF Inputs
      <4> QED BY <3>1, <4>1
    <3>3. c # a /\ <<a, c>> \in q[i] /\ <<c, e>> \in q[i]
      BY <2>2, <3>2
    <3>4. <<a, e>> \in Ways(q[i])
      BY <3>2, <3>3 DEF Ways
    <3> QED BY <2>2, <3>2, <3>4
  <2> QED BY <2>3, <2>4
<1>10. \A i : IsFiniteSet(S(i)) /\ Cardinality(S(i)) \in Nat /\ Cardinality(S(i)) <= N
  <2> SUFFICES ASSUME NEW i PROVE IsFiniteSet(S(i)) /\ Cardinality(S(i)) \in Nat /\ Cardinality(S(i)) <= N
    OBVIOUS
  <2>1. S(i) \in SUBSET Addresses
    OBVIOUS
  <2> HIDE DEF S
  <2> QED BY <1>1, <2>1, FS_Subset, FS_CardinalityType DEF N
<1> DEFINE J == {i \in Nat : i <= N =>
                   (\E k \in Nat : Closed(S(k)) /\ S(k) \subseteq S(i)) \/ Cardinality(S(i)) >= i + 1}
<1>11. a \in S(0)
  OBVIOUS
<1>12. \A i : a \in S(i)
  OBVIOUS
<1> HIDE DEF S, Closed
<1>13. 0 \in J
  <2>1. Cardinality(S(0)) # 0
    BY <1>10, <1>11, FS_EmptySet
  <2>2. Cardinality(S(0)) >= 0 + 1
    BY <1>10, <2>1
  <2> QED BY <2>2
<1>14. ASSUME NEW i \in J PROVE i + 1 \in J
  <2> SUFFICES ASSUME i + 1 <= N
               PROVE  (\E k \in Nat : Closed(S(k)) /\ S(k) \subseteq S(i + 1)) \/ Cardinality(S(i + 1)) >= (i + 1) + 1
    OBVIOUS
  <2>1. i \in 0..N - 1 /\ i \in Nat
    BY <1>1
  <2>2. S(i) \subseteq S(i + 1) /\ (Closed(S(i)) \/ S(i + 1) # S(i))
    BY <1>9, <2>1
  <2>3. (\E k \in Nat : Closed(S(k)) /\ S(k) \subseteq S(i)) \/ Cardinality(S(i)) >= i + 1
    BY <1>1, <2>1
  <2>4. CASE \E k \in Nat : Closed(S(k)) /\ S(k) \subseteq S(i)
    BY <2>2, <2>4
  <2>5. CASE Closed(S(i))
    BY <2>1, <2>2, <2>5
  <2>6. CASE S(i + 1) # S(i) /\ Cardinality(S(i)) >= i + 1
    <3>1. Cardinality(S(i)) <= Cardinality(S(i + 1)) /\ (Cardinality(S(i + 1)) = Cardinality(S(i)) => S(i + 1) = S(i))
      BY <1>10, <2>2, FS_Subset
    <3>2. Cardinality(S(i + 1)) >= (i + 1) + 1
      BY <1>10, <2>1, <2>6, <3>1
    <3> QED BY <3>2
  <2> QED BY <2>2, <2>3, <2>4, <2>5, <2>6
<1> HIDE DEF J
<1>15. J = Nat
  <2>1. J \in SUBSET Nat
    BY DEF J
  <2> QED BY <1>13, <1>14, <2>1, NatSetInduction
<1>16. PICK k \in Nat : Closed(S(k)) /\ S(k) \subseteq S(N)
  <2>1. (\E k \in Nat : Closed(S(k)) /\ S(k) \subseteq S(N)) \/ Cardinality(S(N)) >= N + 1
    BY <1>1, <1>15 DEF J
  <2> QED BY <1>1, <1>10, <2>1
<1>17. Same(forest, a, b) => b \in S(N)
  <2>1. S(k) \in SUBSET Addresses
    BY DEF S
  <2>2. Respects(forest, S(k))
    BY <1>2, <1>16, <2>1 DEF Closed
  <2> QED BY <1>12, <1>16, <2>2 DEF Respects
<1>18. b \in S(N) <=> a = b \/ <<a, b>> \in q[N]
  BY DEF S
<1>19. a = b => Same(forest, a, b)
  BY DEF Same
<1> QED BY <1>8, <1>17, <1>18, <1>19 DEF N

\* The clusters are those of the inputs, in every state.
LEMMA ClustersAlways == GraphSpec => [](GraphInv /\ EdgesArePayments /\ ClustersInv)
<1>1. InitGraph => GraphInv /\ EdgesArePayments /\ ClustersInv
  BY GraphInit, PaymentsInit, ClustersInit
<1>2. GraphInv /\ EdgesArePayments /\ ClustersInv /\ [NextGraph]_graphVars
        => (GraphInv /\ EdgesArePayments /\ ClustersInv)'
  BY GraphStep, PaymentsStep, ClustersStep
<1> QED BY <1>1, <1>2, PTL DEF GraphSpec

\* Two wallets are in one cluster exactly if a chain of common inputs links
\* them, for any number of wallets, lists and calls, in any order.
THEOREM ClustersAreCommonOwnershipAlways == GraphSpec => []ClustersAreCommonOwnership
<1>1. ClustersInv => ClustersAreCommonOwnership
  <2> DEFINE N == Cardinality(Addresses)
  <2> SUFFICES ASSUME ClustersInv,
                      NEW a \in Addresses, NEW b \in Addresses
               PROVE  LET linked[n \in 0..N] ==
                            IF n = 0 THEN together \cup {<<p[2], p[1]>> : p \in together}
                            ELSE LET L == linked[n - 1] IN
                                 L \cup {p \in Addresses \X Addresses :
                                          \E c \in Addresses : {<<p[1], c>>, <<c, p[2]>>} \subseteq L}
                      IN  /\ Clustered(a, b) <=> (a = b \/ <<a, b>> \in linked[N])
                          /\ NoWallet \notin {label[a], label[b]} => (label[a] = label[b] <=> Clustered(a, b))
    BY DEF ClustersAreCommonOwnership
  <2>1. Clustered(a, b) <=> Same(forest, a, b)
    BY DEF Clustered, Same
  <2>2. NoWallet \notin {label[a], label[b]} => (label[a] = label[b] <=> Clustered(a, b))
    BY <2>1 DEF ClustersInv, Same
  <2>3. N \in Nat
    BY WalletAssumption, FS_CardinalityType
  <2>4. together \subseteq Addresses \X Addresses
    BY DEF ClustersInv
  <2> HIDE DEF N
  <2> DEFINE linked[n \in 0..N] ==
                            IF n = 0 THEN together \cup {<<p[2], p[1]>> : p \in together}
                            ELSE LET L == linked[n - 1] IN
                                 L \cup {p \in Addresses \X Addresses :
                                          \E c \in Addresses : {<<p[1], c>>, <<c, p[2]>>} \subseteq L}
  <2>5. PICK q : q[N] = linked[N] /\ q[0] = Inputs /\ \A i \in 1..N : q[i] = Ways(q[i - 1])
    BY <2>3, <2>4, LinkedUnfolds
  <2> HIDE DEF linked
  <2>6. Same(forest, a, b) <=> (a = b \/ <<a, b>> \in q[N])
    BY <2>5, LinkedAreClustered DEF N
  <2>7. Clustered(a, b) <=> (a = b \/ <<a, b>> \in linked[N])
    BY <2>1, <2>5, <2>6
  <2> QED BY <2>2, <2>7 DEF linked
<1> QED BY <1>1, ClustersAlways, PTL

-----------------------------------------------------------------------------

\* A wallet that was flagged, or paid one that was, clustered with a.
Source(a) ==
  \E b \in Addresses, f \in flagged : Same(forest, a, b) /\ (b = f \/ Pays(b, f))

\* What RiskHasSource needs, and that no risk is above the highest score.
RiskInv ==
  /\ flagged \subseteq nodes
  /\ top \in Nat
  /\ risk \in [Addresses -> Nat]
  /\ \A a \in Addresses :
       /\ risk[a] <= top
       /\ risk[a] > 0 => Source(a)
       /\ a \in flagged \/ risk[a] * 10 <= top * 7

\* Nobody has a risk at first.
LEMMA RiskInit == InitGraph => RiskInv
BY DEF InitGraph, RiskInv

\* The share of the score that goes to a payer.
LEMMA HalfIs == ASSUME NEW n \in Nat PROVE n \div 2 \in Nat /\ 2 * (n \div 2) <= n
OBVIOUS

\* The share of the highest risk that goes to a cluster.
LEMMA SeventyPercentIs == ASSUME NEW n \in Nat PROVE (n * 7) \div 10 \in Nat /\ 10 * ((n * 7) \div 10) <= n * 7
OBVIOUS

\* The larger of two numbers is one of them and at least both.
LEMMA LargerIs ==
  ASSUME NEW x \in Nat, NEW y \in Nat
  PROVE  Larger(x, y) \in {x, y} /\ Larger(x, y) \in Nat /\ Larger(x, y) >= x /\ Larger(x, y) >= y
BY DEF Larger

\* A source stays one: edges, flags and clusters only become more.
LEMMA SourceStays ==
  ASSUME NEW a \in Addresses, Source(a), flagged \subseteq flagged',
         flagged \subseteq Addresses,
         \A b, c \in Addresses : Same(forest, b, c) => Same(forest', b, c),
         \A b, c \in Addresses : Pays(b, c) => Pays(b, c)'
  PROVE  Source(a)'
<1>1. PICK b \in Addresses, f \in flagged : Same(forest, a, b) /\ (b = f \/ Pays(b, f))
  BY DEF Source
<1>2. f \in Addresses /\ f \in flagged'
  BY <1>1
<1>3. Same(forest', a, b) /\ (b = f \/ Pays(b, f)')
  BY <1>1, <1>2
<1> QED BY <1>2, <1>3 DEF Source

\* flag_address gives a risk to the wallet and to those that paid it.
LEMMA FlagStep ==
  ASSUME GraphInv, ClustersInv, RiskInv, NEW a \in Addresses, NEW score \in Scores, FlagAddress(a, score)
  PROVE  RiskInv'
<1>1. /\ a \in nodes /\ nodes' = nodes /\ out' = out /\ forest' = forest
      /\ flagged' = flagged \cup {a}
      /\ top' = Larger(top, score)
  BY DEF FlagAddress, paymentVars, clusterVars
<1>2. score \in Nat /\ score > 0 /\ top \in Nat /\ nodes \subseteq Addresses /\ flagged \subseteq nodes
  BY ScoreAssumption DEF RiskInv, GraphInv, Edges
<1>3. top' \in Nat /\ top' >= top /\ top' >= score
  BY <1>1, <1>2, LargerIs
<1> DEFINE own(b) == IF b = a THEN score ELSE risk[b]
           new(b) == IF b \in Payers(a) THEN Larger(own(b), score \div 2) ELSE own(b)
<1>4. risk' = [b \in Addresses |-> new(b)]
  BY DEF FlagAddress
<1>5. score \div 2 \in Nat /\ 2 * (score \div 2) <= score
  BY <1>2, HalfIs
<1>6. \A b, c \in Addresses : Pays(b, c) => Pays(b, c)'
  BY <1>1 DEF Pays
<1>7. ASSUME NEW b \in Addresses
      PROVE  /\ new(b) \in Nat /\ new(b) <= top'
             /\ new(b) > 0 => Source(b)'
             /\ b \in flagged' \/ new(b) * 10 <= top' * 7
  <2>1. risk[b] \in Nat /\ risk[b] <= top /\ (risk[b] > 0 => Source(b)) /\ (b \in flagged \/ risk[b] * 10 <= top * 7)
    BY DEF RiskInv
  <2>2. own(b) \in Nat /\ own(b) <= top' /\ (b # a => own(b) = risk[b])
    BY <1>2, <1>3, <2>1
  <2>3. Larger(own(b), score \div 2) \in {own(b), score \div 2} /\ Larger(own(b), score \div 2) \in Nat
    BY <1>5, <2>2, LargerIs
  <2>4. new(b) = own(b) \/ (b \in Payers(a) /\ new(b) = score \div 2)
    BY <2>3
  <2> HIDE DEF own, new
  <2>5. new(b) \in Nat /\ new(b) <= top'
    <3>1. score \div 2 <= top'
      <4> DEFINE h == score \div 2
      <4>1. h \in Nat /\ 2 * h <= score /\ score \in Nat /\ top' \in Nat /\ score <= top'
        BY <1>2, <1>3, <1>5
      <4> HIDE DEF h
      <4>2. h <= top'
        BY <4>1
      <4> QED BY <4>2 DEF h
    <3> QED BY <1>5, <2>2, <2>4, <3>1
  <2>6. b \in Payers(a) => Source(b)'
    <3> SUFFICES ASSUME b \in Payers(a) PROVE Source(b)'
      OBVIOUS
    <3>1. Pays(b, a)'
      BY <1>1 DEF Payers, Pays
    <3> QED BY <1>1, <3>1 DEF Source, Same
  <2>7. b = a => Source(b)'
    BY <1>1 DEF Source, Same
  <2>8. Source(b) => Source(b)'
    <3>1. flagged \subseteq flagged' /\ flagged \subseteq Addresses
      BY <1>1, <1>2
    <3>2. \A c, e \in Addresses : Same(forest, c, e) => Same(forest', c, e)
      BY <1>1
    <3> QED BY <1>6, <3>1, <3>2, SourceStays
  <2>9. new(b) > 0 => Source(b)'
    <3>1. CASE b = a
      BY <2>7, <3>1
    <3>2. CASE b \in Payers(a)
      BY <2>6, <3>2
    <3>3. CASE b # a /\ b \notin Payers(a)
      BY <2>1, <2>2, <2>4, <2>8, <3>3
    <3> QED BY <3>1, <3>2, <3>3
  <2>10. b \in flagged' \/ new(b) * 10 <= top' * 7
    <3> SUFFICES ASSUME b \notin flagged' PROVE new(b) * 10 <= top' * 7
      OBVIOUS
    <3>1. b # a /\ b \notin flagged
      BY <1>1
    <3>2. CASE new(b) = risk[b]
      BY <1>2, <1>3, <2>1, <3>1, <3>2
    <3>3. CASE new(b) = score \div 2
      <4> DEFINE h == score \div 2
      <4>1. h \in Nat /\ 2 * h <= score /\ score \in Nat /\ top' \in Nat /\ score <= top' /\ new(b) = h
        BY <1>2, <1>3, <1>5, <3>3
      <4> HIDE DEF h
      <4>2. \A x, y, z \in Nat : 2 * x <= y /\ y <= z => x * 10 <= z * 7
        OBVIOUS
      <4>3. h * 10 <= top' * 7
        BY <4>1, <4>2
      <4> QED BY <4>1, <4>3
    <3> QED BY <2>2, <2>4, <3>1, <3>2, <3>3
  <2> QED BY <2>5, <2>9, <2>10
<1> HIDE DEF new
<1>8. risk' \in [Addresses -> Nat] /\ \A b \in Addresses : risk'[b] = new(b)
  BY <1>4, <1>7
<1>9. flagged' \subseteq nodes'
  BY <1>1, <1>2
<1> QED BY <1>3, <1>7, <1>8, <1>9 DEF RiskInv

\* A boost comes from a wallet of the same cluster that has a risk, and so a
\* source.
LEMMA BoostStep ==
  ASSUME GraphInv, ClustersInv, RiskInv, PropagateClusterRisk
  PROVE  RiskInv'
<1>1. /\ nodes' = nodes /\ out' = out /\ flagged' = flagged /\ top' = top
  BY DEF PropagateClusterRisk, paymentVars
<1>2. top \in Nat /\ nodes \subseteq Addresses /\ flagged \subseteq nodes /\ forest \in Forests
  BY DEF RiskInv, GraphInv, Edges, ClustersInv, Unites
<1>3. \A b, c \in Addresses : Same(forest, b, c) => Same(forest', b, c)
  BY PropagateStep DEF Unites
<1>4. \A b, c \in Addresses : Pays(b, c) => Pays(b, c)'
  BY <1>1 DEF Pays
<1>5. \A b \in Addresses : Source(b) => Source(b)'
  <2>1. flagged \subseteq flagged' /\ flagged \subseteq Addresses
    BY <1>1, <1>2
  <2> QED BY <1>3, <1>4, <2>1, SourceStays
<1> DEFINE most(a) == HighestRisk(Root(forest, a))
           boosts(a) == /\ a \in nodes \cap Known(forest)
                        /\ Reached(Root(forest, a)) /\ most(a) > 500
           new(a) == IF boosts(a) THEN Larger(risk[a], (most(a) * 7) \div 10) ELSE risk[a]
<1>6. risk' = [a \in Addresses |-> new(a)]
  BY DEF PropagateClusterRisk
<1>7. ASSUME NEW a \in Addresses
      PROVE  /\ new(a) \in Nat /\ new(a) <= top
             /\ new(a) > 0 => Source(a)
             /\ a \in flagged \/ new(a) * 10 <= top * 7
  <2>1. risk[a] \in Nat /\ risk[a] <= top /\ (risk[a] > 0 => Source(a)) /\ (a \in flagged \/ risk[a] * 10 <= top * 7)
    BY DEF RiskInv
  <2>2. CASE ~ boosts(a)
    <3>1. new(a) = risk[a]
      BY <2>2
    <3> HIDE DEF new
    <3> QED BY <2>1, <3>1
  <2>3. CASE boosts(a)
    <3> DEFINE members == Cluster(forest, Root(forest, a)) \cap nodes
               R == {risk[c] : c \in members}
               m == most(a)
    <3>1. a \in members /\ members \subseteq Known(forest) /\ members \subseteq Addresses
      BY <1>2, <2>3 DEF Cluster
    <3>2. IsFiniteSet(R)
      <4>1. members \in SUBSET Addresses
        BY <3>1
      <4>2. IsFiniteSet(members)
        BY <4>1, WalletAssumption, FS_Subset
      <4> HIDE DEF members
      <4> QED BY <4>2, ImageFinite
    <3>3. R # {} /\ R \in SUBSET Int
      BY <3>1 DEF RiskInv
    <3>4. m = Max(R)
      BY DEF HighestRisk
    <3>5. PICK c \in members : m = risk[c]
      <4>1. Max(R) \in R
        BY <3>2, <3>3, MinMaxIn
      <4> QED BY <3>4, <4>1
    <3>6. Same(forest, a, c)
      BY <3>1, <3>5 DEF Cluster, Same
    <3>7. m > 500
      BY <2>3
    <3>8. new(a) = Larger(risk[a], (m * 7) \div 10)
      BY <2>3
    <3> HIDE DEF m, members, R, new, most, boosts
    <3>9. c \in Addresses /\ m \in Nat /\ m <= top /\ Source(c)
      BY <3>1, <3>5, <3>7 DEF RiskInv
    <3>10. Source(a)
      <4>1. PICK b \in Addresses, f \in flagged : Same(forest, c, b) /\ (b = f \/ Pays(b, f))
        BY <3>9 DEF Source
      <4>2. Same(forest, a, b)
        BY <3>6, <4>1 DEF Same
      <4> QED BY <4>1, <4>2 DEF Source
    <3> DEFINE p == (m * 7) \div 10
    <3>11. p \in Nat /\ 10 * p <= m * 7
      BY <3>9, SeventyPercentIs
    <3>12. new(a) = risk[a] \/ new(a) = p
      BY <2>1, <3>8, <3>11, LargerIs
    <3> HIDE DEF p
    <3>13. p <= top /\ p * 10 <= top * 7
      BY <1>2, <3>9, <3>11
    <3> QED BY <2>1, <3>10, <3>11, <3>12, <3>13
  <2> QED BY <2>2, <2>3
<1> HIDE DEF new
<1>8. risk' \in [Addresses -> Nat] /\ \A b \in Addresses : risk'[b] = new(b)
  BY <1>6, <1>7
<1> QED BY <1>1, <1>2, <1>5, <1>7, <1>8 DEF RiskInv

\* No other step changes a risk.
LEMMA RiskStep ==
  GraphInv /\ EdgesArePayments /\ ClustersInv /\ RiskInv /\ [NextGraph]_graphVars => RiskInv'
<1> SUFFICES ASSUME GraphInv, EdgesArePayments, ClustersInv, RiskInv, [NextGraph]_graphVars PROVE RiskInv'
  OBVIOUS
<1>1. ASSUME UNCHANGED riskVars, nodes \subseteq nodes',
             \A b, c \in Addresses : Same(forest, b, c) => Same(forest', b, c),
             \A b, c \in Addresses : Pays(b, c) => Pays(b, c)'
      PROVE  RiskInv'
  <2>1. risk' = risk /\ flagged' = flagged /\ top' = top
    BY <1>1 DEF riskVars
  <2>2. flagged \subseteq Addresses /\ flagged \subseteq flagged' /\ flagged \subseteq nodes
    BY <2>1 DEF RiskInv, GraphInv, Edges
  <2>3. \A a \in Addresses : Source(a) => Source(a)'
    BY <1>1, <2>2, SourceStays
  <2> QED BY <1>1, <2>1, <2>2, <2>3 DEF RiskInv
<1>2. ASSUME NEW a \in Addresses, NEW b \in Addresses \cup {NoWallet}, NEW t \in Times, AddTransaction(a, b, t)
      PROVE  RiskInv'
  <2>1. UNCHANGED riskVars /\ nodes \subseteq nodes' /\ forest' = forest /\ paid \subseteq paid'
    BY <1>2 DEF AddTransaction, clusterVars
  <2>2. ASSUME NEW c \in Addresses, NEW e \in Addresses, Pays(c, e) PROVE Pays(c, e)'
    <3>1. \E u \in Times : <<c, e, u>> \in paid'
      BY <2>1, <2>2 DEF EdgesArePayments
    <3>2. EdgesArePayments'
      BY PaymentsStep
    <3> QED BY <3>1, <3>2 DEF EdgesArePayments
  <2> QED BY <1>1, <2>1, <2>2
<1>3. CASE \E a \in Addresses, score \in Scores : FlagAddress(a, score)
  BY <1>3, FlagStep
<1>4. ASSUME NEW lists \in InputLists, ClusterWallets(lists) PROVE RiskInv'
  <2>1. UNCHANGED riskVars /\ nodes' = nodes /\ out' = out
    BY <1>4 DEF ClusterWallets, paymentVars
  <2>2. \A b, c \in Addresses : Pays(b, c) => Pays(b, c)'
    BY <2>1 DEF Pays
  <2>3. \A b, c \in Addresses : Same(forest, b, c) => Same(forest', b, c)
    <3>1. nodes \subseteq Addresses
      BY DEF GraphInv, Edges
    <3> QED BY <1>4, <3>1, ClusterWalletsStep DEF Unites
  <2> QED BY <1>1, <2>1, <2>2, <2>3
<1>5. CASE PropagateClusterRisk
  BY <1>5, BoostStep
<1>6. CASE UNCHANGED graphVars
  BY <1>1, <1>6 DEF graphVars, paymentVars, clusterVars, Pays
<1> QED BY <1>2, <1>3, <1>4, <1>5, <1>6 DEF NextGraph

\* Risk has a source one payment and one cluster away, and seven tenths of the
\* highest score is all that spreads: for any number of wallets and scores.
THEOREM RiskHasSourceAlways == GraphSpec => []RiskHasSource
<1> DEFINE Inv == GraphInv /\ EdgesArePayments /\ ClustersInv /\ RiskInv
<1>1. InitGraph => Inv
  BY GraphInit, PaymentsInit, ClustersInit, RiskInit
<1>2. Inv /\ [NextGraph]_graphVars => Inv'
  BY GraphStep, PaymentsStep, ClustersStep, RiskStep
<1>3. Inv => RiskHasSource
  BY DEF RiskInv, Source, RiskHasSource, Clustered, Same
<1> QED BY <1>1, <1>2, <1>3, PTL DEF GraphSpec

-----------------------------------------------------------------------------

Names == {"elliptic", "gnn", "autoencoder", "isolation_forest", "dataset_v1",
          "live_v1", "dataset_v2", "live_v2", "baseline", "live_baseline"}

LEMMA ScriptDomain == DOMAIN Script = Names
  BY DEF Script, Names

GraphFiles == {"X_train", "X_test", "y_train", "y_test", "train_mask", "test_mask", "edge_index", "scaler"}
LiveFiles == {"live_model", "live_scaler", "live_model_features"}

LEMMA ArraysAre ==
  /\ Arrays \in Seq(GraphFiles) /\ Len(Arrays) = 7 /\ DOMAIN Arrays = 1..7
  /\ {Arrays[i] : i \in 1..7} = GraphFiles \ {"scaler"}
  /\ Arrays[1] = "X_train" /\ Arrays[7] = "edge_index"
  /\ \A i \in 1..6 : Arrays[i] # "edge_index"
<1>1. /\ Len(Arrays) = 7 /\ DOMAIN Arrays = 1..7
      /\ Arrays[1] = "X_train" /\ Arrays[2] = "X_test" /\ Arrays[3] = "y_train" /\ Arrays[4] = "y_test"
      /\ Arrays[5] = "train_mask" /\ Arrays[6] = "test_mask" /\ Arrays[7] = "edge_index"
  BY DEF Arrays
<1>2. Arrays \in Seq(GraphFiles)
  BY DEF Arrays, GraphFiles
<1>3. {Arrays[i] : i \in 1..7} = GraphFiles \ {"scaler"}
  BY <1>1 DEF GraphFiles
<1> QED BY <1>1, <1>2, <1>3

LEMMA EllipticWrites ==
  LET w == Script["elliptic"].writes IN
  /\ w \in Seq(GraphFiles) /\ Len(w) = 8 /\ w[8] = "scaler"
  /\ \A i \in 1..7 : w[i] = Arrays[i]
<1> DEFINE last == <<"scaler">>
<1>1. Script["elliptic"].writes = Arrays \o last
  BY DEF Script, Elliptic
<1>2. last \in Seq(GraphFiles) /\ Len(last) = 1 /\ last[1] = "scaler"
  BY DEF GraphFiles
<1> HIDE DEF last
<1> DEFINE w == Arrays \o last
<1>3. Arrays \in Seq(GraphFiles) /\ Len(Arrays) = 7
  BY ArraysAre
<1>4. /\ w \in Seq(GraphFiles) /\ Len(w) = Len(Arrays) + Len(last)
      /\ \A i \in 1..Len(Arrays) : w[i] = Arrays[i]
      /\ \A i \in 1..Len(last) : w[Len(Arrays) + i] = last[i]
  <2>1. Arrays \in Seq(GraphFiles) /\ last \in Seq(GraphFiles)
    BY <1>2, <1>3
  <2> QED BY ONLY <2>1, ConcatAt DEF w
<1> HIDE DEF w
<1>5. w[8] = last[1]
  BY <1>2, <1>3, <1>4
<1>6. Script["elliptic"].writes = w
  BY <1>1 DEF w
<1> QED BY <1>2, <1>3, <1>4, <1>5, <1>6

LEMMA OtherWrites ==
  /\ Script["gnn"].writes = <<"gnn_best">>
  /\ Script["autoencoder"].writes = <<"autoencoder">>
  /\ Script["isolation_forest"].writes = <<"isolation_forest">>
  /\ Script["dataset_v1"].writes = <<"live_X", "live_y">>
  /\ Script["live_v1"].writes = <<"live_model", "live_scaler">>
  /\ Script["dataset_v2"].writes = <<"live_X_v2", "live_y_v2">>
  /\ Script["live_v2"].writes = <<"live_model", "live_scaler", "live_model_features">>
  /\ Script["baseline"].writes = <<"drift_baseline">>
  /\ Script["live_baseline"].writes = <<"drift_baseline">>
BY DEF Script, TrainGnn, TrainAutoencoder, TrainIsolationForest, BuildDataset,
     BuildDatasetV2, TrainLiveModel, TrainLiveModelV2, GenerateBaseline, CollectBaseline

LEMMA WritesType ==
  ASSUME NEW s \in Names
  PROVE  LET w == Script[s].writes IN
         /\ Len(w) \in Nat \ {0} /\ DOMAIN w = 1..Len(w)
         /\ \A i \in 1..Len(w) :
              /\ w[i] \in Files
              /\ w[i] \in GraphFiles <=> s = "elliptic"
              /\ w[i] = "gnn_best" <=> s = "gnn"
              /\ w[i] \in LiveFiles <=> s \in {"live_v1", "live_v2"}
<1> DEFINE w == Script[s].writes
<1>1. Len(w) \in Nat \ {0} /\ DOMAIN w = 1..Len(w)
  <2>1. CASE s = "elliptic"
    BY <2>1, EllipticWrites
  <2>2. CASE s # "elliptic"
    BY <2>2, OtherWrites DEF Names
  <2> QED BY <2>1, <2>2
<1>2. ASSUME NEW i \in 1..Len(w) PROVE w[i] \in Files
  BY <1>1, ScriptDomain DEF Files
<1>3. ASSUME NEW i \in 1..Len(w)
      PROVE /\ w[i] \in GraphFiles <=> s = "elliptic"
            /\ w[i] = "gnn_best" <=> s = "gnn"
            /\ w[i] \in LiveFiles <=> s \in {"live_v1", "live_v2"}
  <2>1. CASE s = "elliptic"
    <3>1. w[i] \in GraphFiles
      <4>1. i \in 1..7 \/ i = 8
        BY <2>1, EllipticWrites
      <4> QED BY <2>1, <4>1, EllipticWrites, ArraysAre DEF GraphFiles
    <3> QED BY <2>1, <3>1 DEF GraphFiles, LiveFiles
  <2>2. CASE s # "elliptic"
    BY <1>1, <2>2, OtherWrites DEF Names, GraphFiles, LiveFiles
  <2> QED BY <2>1, <2>2
<1> QED BY <1>1, <1>2, <1>3

GraphSection == <<"gnn_best">> \o Arrays

LEMMA GraphSectionIs ==
  /\ Len(GraphSection) = 8 /\ GraphSection[1] = "gnn_best"
  /\ \A i \in 1..7 : GraphSection[i + 1] = Arrays[i]
<1> DEFINE first == <<"gnn_best">>
           S == GraphFiles \cup {"gnn_best"}
<1>1. first \in Seq(S) /\ Len(first) = 1 /\ first[1] = "gnn_best"
  OBVIOUS
<1>2. Arrays \in Seq(S) /\ Len(Arrays) = 7
  BY ArraysAre, SeqOfSubset
<1>3. GraphSection = first \o Arrays
  BY DEF GraphSection
<1> HIDE DEF first, S
<1>4. /\ Len(GraphSection) = Len(first) + Len(Arrays)
      /\ \A i \in 1..Len(first) : GraphSection[i] = first[i]
      /\ \A i \in 1..Len(Arrays) : GraphSection[Len(first) + i] = Arrays[i]
  <2>1. first \in Seq(S) /\ Arrays \in Seq(S)
    BY <1>1, <1>2
  <2> DEFINE w == first \o Arrays
  <2>2. /\ Len(w) = Len(first) + Len(Arrays)
        /\ \A i \in 1..Len(first) : w[i] = first[i]
        /\ \A i \in 1..Len(Arrays) : w[Len(first) + i] = Arrays[i]
    BY ONLY <2>1, ConcatAt DEF w
  <2> QED BY <1>3, <2>2
<1>5. Len(GraphSection) = 8 /\ GraphSection[1] = "gnn_best"
  BY <1>1, <1>2, <1>4
<1>6. ASSUME NEW i \in 1..7 PROVE GraphSection[i + 1] = Arrays[i]
  BY <1>1, <1>2, <1>4
<1> QED BY <1>5, <1>6

Programmes == {"pipeline", "api", "backtest"}

LEMMA SectionsAre ==
  /\ DOMAIN Sections = Programmes
  /\ Len(Sections["pipeline"]) = 6 /\ Len(Sections["api"]) = 4 /\ Len(Sections["backtest"]) = 1
  /\ Sections["pipeline"][1] = <<"scaler">> /\ Sections["pipeline"][2] = <<"isolation_forest">>
  /\ Sections["pipeline"][3] = <<"autoencoder">> /\ Sections["pipeline"][4] = GraphSection
  /\ Sections["pipeline"][5] = <<"live_model", "live_scaler", "live_model_features">>
  /\ Sections["pipeline"][6] = <<"drift_baseline">>
  /\ Sections["api"][1] = <<"isolation_forest">> /\ Sections["api"][2] = <<"autoencoder">>
  /\ Sections["api"][3] = <<"scaler">> /\ Sections["api"][4] = <<"gnn_best">>
  /\ Sections["backtest"][1] = GraphSection
<1>1. /\ DOMAIN Sections = Programmes /\ Sections["pipeline"] = EngineSections
      /\ Sections["api"] = RegistrySections /\ Sections["backtest"] = BacktesterSections
  BY DEF Sections, Programmes
<1>2. /\ Len(EngineSections) = 6 /\ EngineSections[1] = <<"scaler">>
      /\ EngineSections[2] = <<"isolation_forest">> /\ EngineSections[3] = <<"autoencoder">>
      /\ EngineSections[4] = GraphSection
      /\ EngineSections[5] = <<"live_model", "live_scaler", "live_model_features">>
      /\ EngineSections[6] = <<"drift_baseline">>
  BY DEF EngineSections, GraphSection
<1>3. /\ Len(RegistrySections) = 4 /\ RegistrySections[1] = <<"isolation_forest">>
      /\ RegistrySections[2] = <<"autoencoder">> /\ RegistrySections[3] = <<"scaler">>
      /\ RegistrySections[4] = <<"gnn_best">>
  BY DEF RegistrySections
<1>4. Len(BacktesterSections) = 1 /\ BacktesterSections[1] = GraphSection
  BY DEF BacktesterSections, GraphSection
<1> QED BY <1>1, <1>2, <1>3, <1>4

LEMMA EllipticAll ==
  ASSUME NEW f \in GraphFiles
  PROVE  \E i \in 1..8 : Script["elliptic"].writes[i] = f
<1>1. CASE f = "scaler"
  BY <1>1, EllipticWrites
<1>2. CASE f # "scaler"
  <2>1. PICK i \in 1..7 : Arrays[i] = f
    BY <1>2, ArraysAre
  <2>2. Script["elliptic"].writes[i] = Arrays[i]
    BY EllipticWrites
  <2>3. i \in 1..8
    OBVIOUS
  <2> QED BY <2>1, <2>2, <2>3
<1> QED BY <1>1, <1>2

LEMMA FilesKnown ==
  /\ GraphFiles \subseteq Files /\ LiveFiles \subseteq Files
  /\ {"isolation_forest", "autoencoder", "drift_baseline", "gnn_best", "scaler", "edge_index"} \subseteq Files
<1>1. \A t \in Names : \A i \in 1..Len(Script[t].writes) : Script[t].writes[i] \in Files
  BY WritesType
<1>2. {"isolation_forest", "autoencoder", "live_model", "live_scaler",
       "live_model_features", "drift_baseline", "gnn_best"} \subseteq Files
  <2>1. /\ Script["gnn"].writes[1] = "gnn_best" /\ 1 \in 1..Len(Script["gnn"].writes)
        /\ Script["autoencoder"].writes[1] = "autoencoder" /\ 1 \in 1..Len(Script["autoencoder"].writes)
        /\ Script["baseline"].writes[1] = "drift_baseline" /\ 1 \in 1..Len(Script["baseline"].writes)
    BY OtherWrites
  <2>2. /\ Script["isolation_forest"].writes[1] = "isolation_forest"
        /\ 1 \in 1..Len(Script["isolation_forest"].writes)
    BY OtherWrites
  <2>3. /\ Script["live_v2"].writes[1] = "live_model" /\ Script["live_v2"].writes[2] = "live_scaler"
        /\ Script["live_v2"].writes[3] = "live_model_features"
        /\ {1, 2, 3} \subseteq 1..Len(Script["live_v2"].writes)
    BY OtherWrites
  <2>4. {"gnn", "autoencoder", "isolation_forest", "live_v2", "baseline"} \subseteq Names
    BY DEF Names
  <2> QED BY <1>1, <2>1, <2>2, <2>3, <2>4
<1>3. GraphFiles \subseteq Files
  <2>1. "elliptic" \in Names
    BY DEF Names
  <2>2. \A i \in 1..8 : Script["elliptic"].writes[i] \in Files
    BY <1>1, <2>1, EllipticWrites
  <2> QED BY <2>2, EllipticAll
<1> QED BY <1>2, <1>3 DEF GraphFiles, LiveFiles

\* What the section of a program holds, and where.
LEMMA SectionHolds ==
  ASSUME NEW p \in Programmes, NEW s \in 1..Len(Sections[p])
  PROVE  LET c == Sections[p][s] IN
         /\ Len(c) \in Nat \ {0}
         /\ p = "pipeline" /\ s = 5 => Len(c) = 3
         /\ \A k \in 1..Len(c) :
              /\ c[k] \in Files
              /\ c[k] = "live_model" <=> p = "pipeline" /\ s = 5 /\ k = 1
              /\ c[k] = "live_scaler" <=> p = "pipeline" /\ s = 5 /\ k = 2
              /\ c[k] = "live_model_features" <=> p = "pipeline" /\ s = 5 /\ k = 3
              /\ c[k] = "edge_index" => \A f \in GraphFiles \ {"edge_index", "scaler"} :
                                          \E m \in 1..k - 1 : c[m] = f
<1> DEFINE c == Sections[p][s]
<1>1. CASE c = GraphSection
  <2>1. p # "pipeline" \/ s # 5
    <3>1. Sections["pipeline"][5][1] = "live_model"
      BY SectionsAre
    <3> QED BY <1>1, <3>1, GraphSectionIs
  <2>2. ASSUME NEW k \in 1..8 
        PROVE /\ c[k] \in GraphFiles \cup {"gnn_best"}
              /\ c[k] = "edge_index" => \A f \in GraphFiles \ {"edge_index", "scaler"} :
                                          \E m \in 1..k - 1 : c[m] = f
    <3>1. CASE k = 1
      BY <1>1, <3>1, GraphSectionIs
    <3>2. CASE k # 1
      <4>1. k - 1 \in 1..7 /\ c[(k - 1) + 1] = Arrays[k - 1] /\ (k - 1) + 1 = k
        BY <1>1, <3>2, GraphSectionIs
      <4>2. c[k] \in GraphFiles
        BY <4>1, ArraysAre
      <4>3. ASSUME c[k] = "edge_index", NEW f \in GraphFiles \ {"edge_index", "scaler"}
            PROVE \E m \in 1..k - 1 : c[m] = f
        <5>1. k - 1 = 7
          BY <4>1, <4>3, ArraysAre
        <5>2. PICK i \in 1..7 : Arrays[i] = f
          BY ArraysAre
        <5>3. i \in 1..6 /\ c[i + 1] = f
          BY <1>1, <5>2, ArraysAre, GraphSectionIs
        <5>4. i + 1 \in 1..k - 1
          BY <5>1, <5>3
        <5> QED BY <5>3, <5>4
      <4> QED BY <4>2, <4>3
    <3> QED BY <3>1, <3>2
  <2>3. Len(c) = 8
    BY <1>1, GraphSectionIs
  <2>4. \A k \in 1..8 : c[k] \notin LiveFiles /\ c[k] \in Files
    BY <2>2, FilesKnown DEF GraphFiles, LiveFiles
  <2> HIDE DEF c
  <2>5. \A k \in 1..8 : c[k] \notin {"live_model", "live_scaler", "live_model_features"} /\ c[k] \in Files
    BY <2>4 DEF LiveFiles
  <2>6. Len(c) \in Nat \ {0} /\ 1..Len(c) = 1..8
    BY <2>3
  <2> QED BY ONLY <2>1, <2>2, <2>5, <2>6 DEF c
<1>2. CASE p = "pipeline" /\ s = 5
  BY FilesKnown, <1>2, SectionsAre DEF LiveFiles
<1>3. CASE c # GraphSection /\ ~(p = "pipeline" /\ s = 5)
  <2>1. \E f \in {"scaler", "isolation_forest", "autoencoder", "drift_baseline", "gnn_best"} : c = <<f>>
    <3>1. CASE p = "pipeline"
      <4>1. s \in {1, 2, 3, 4, 5, 6}
        BY <3>1, SectionsAre
      <4> QED BY <1>3, <3>1, <4>1, SectionsAre
    <3>2. CASE p = "api"
      <4>1. s \in {1, 2, 3, 4}
        BY <3>2, SectionsAre
      <4> QED BY <1>3, <3>2, <4>1, SectionsAre
    <3>3. CASE p = "backtest"
      <4>1. s = 1
        BY <3>3, SectionsAre
      <4> QED BY <1>3, <3>3, <4>1, SectionsAre
    <3> QED BY <3>1, <3>2, <3>3 DEF Programmes
  <2>2. Len(c) = 1 /\ c[1] \in {"scaler", "isolation_forest", "autoencoder", "drift_baseline", "gnn_best"}
    BY <2>1
  <2> HIDE DEF c
  <2>3. Len(c) \in Nat \ {0} /\ 1..Len(c) = {1}
    BY <2>2
  <2>4. c[1] \in Files \ {"live_model", "live_scaler", "live_model_features", "edge_index"}
    BY FilesKnown, <2>2
  <2>5. ~(p = "pipeline" /\ s = 5)
    BY <1>3
  <2> QED BY ONLY <2>3, <2>4, <2>5 DEF c
<1> QED BY <1>1, <1>2, <1>3
FileTypes ==
  /\ files \in [Files -> Int]
  /\ \A f \in Files : -1 <= files[f] /\ files[f] <= Run
  /\ runs \in Seq([script : Names \cup {"shipped"}, size : Nat]) /\ Run >= 1
  /\ job \in [script : Names \cup {"none"}, written : Nat, history : Seq(Nat)]
  /\ checkpoint \in [f1 : Int, history : Seq(Nat)]
  /\ engine \in [Files -> Nat]
  /\ \A f \in Files : engine[f] <= Run

\* The section a program reads is one of its own.
LoadingType ==
  loading # NotLoading =>
    /\ loading \in [program : Programmes, section : Nat, file : Nat]
    /\ loading.section \in 1..Len(Sections[loading.program])
    /\ loading.file \in 1..Len(Current)

\* A job is that of the last run and has something left to write.
JobRuns ==
  /\ job.script = "none" => job = NoJob
  /\ job.script # "none" =>
       runs[Run].script = job.script /\ job.written < Len(Script[job.script].writes)
  /\ job.script # "gnn" => job.history = <<>>
  /\ job.script = "gnn" => job.written = 0

\* What a running script has written holds its run.
Writing ==
  job.script # "none" => \A i \in 1..job.written : files[Script[job.script].writes[i]] = Run

\* Between the runs of a group that were not cut short its files are of one run.
GraphWhole ==
  "graph" \notin cut /\ ~(job.script = "elliptic" /\ job.written > 0) =>
    \A f, g \in GraphFiles : files[f] = files[g]

\* A live model and its scaler, and the list of features it came with.
Belong(model, scaler, features) ==
  /\ model = scaler
  /\ model > 0 => /\ runs[model].script \in {"live_v1", "live_v2"}
                  /\ features <= model
                  /\ runs[model].script = "live_v2" => features = model

LiveWhole ==
  "live" \notin cut /\ ~(job.script \in {"live_v1", "live_v2"} /\ job.written > 0) =>
    Belong(files["live_model"], files["live_scaler"], files["live_model_features"])

\* What disturbs a program while it loads is in mixed.
Noted ==
  loading # NotLoading =>
    cut \subseteq mixed /\ (job.script # "none" => Group(job.script) \in mixed)

\* What a program has read of the graph so far.
GraphRead ==
  /\ "graph" \notin mixed =>
       /\ \A f, g \in GraphFiles : engine[f] # 0 /\ engine[g] # 0 => engine[f] = engine[g]
       /\ loading # NotLoading => \A f \in GraphFiles : engine[f] \in {0, files[f]}
  /\ engine["edge_index"] # 0 =>
       \A f \in GraphFiles \ {"edge_index", "scaler"} : engine[f] # 0
  /\ loading # NotLoading => \A m \in 1..loading.file - 1 : engine[Current[m]] # 0

NoLiveModel == \A f \in LiveFiles : engine[f] = 0

LiveLoaded ==
  \/ NoLiveModel
  \/ /\ engine["live_model"] > 0 /\ engine["live_model"] = engine["live_scaler"]
     /\ runs[engine["live_model"]].script \in {"live_v1", "live_v2"}
     /\ engine["live_model_features"] <= engine["live_model"]
     /\ runs[engine["live_model"]].script = "live_v2" => engine["live_model_features"] # 0

Ahead == loading # NotLoading /\ loading.program = "pipeline" /\ loading.section <= 5

\* What a program has read of the live model so far.
LiveRead ==
  "live" \notin mixed =>
    /\ ~Ahead => LiveLoaded
    /\ Ahead /\ (loading.section < 5 \/ loading.file = 1) => NoLiveModel
    /\ Ahead /\ loading.section = 5 /\ loading.file > 1 =>
         /\ engine["live_model"] > 0 /\ engine["live_model"] = files["live_model"]
         /\ engine["live_scaler"] = IF loading.file = 2 THEN 0 ELSE engine["live_model"]
         /\ engine["live_model_features"] = 0

FilesInv ==
  /\ FileTypes /\ LoadingType /\ JobRuns /\ CheckpointIsBest /\ Writing
  /\ GraphWhole /\ LiveWhole /\ Noted /\ GraphRead /\ LiveRead

LEMMA BestExists ==
  ASSUME NEW h \in Seq(Nat)
  PROVE  \E f \in {-1} \cup {h[i] : i \in DOMAIN h} : \A i \in DOMAIN h : f >= h[i]
<1> DEFINE S == {n \in Nat : n <= Len(h) =>
                   \E f \in {-1} \cup {h[i] : i \in 1..n} : \A i \in 1..n : f >= h[i]}
<1>1. 0 \in S
  OBVIOUS
<1>2. ASSUME NEW n \in S PROVE n + 1 \in S
  <2> SUFFICES ASSUME n + 1 <= Len(h)
               PROVE  \E f \in {-1} \cup {h[i] : i \in 1..n + 1} : \A i \in 1..n + 1 : f >= h[i]
    OBVIOUS
  <2>1. n \in Nat /\ n <= Len(h)
    OBVIOUS
  <2>2. PICK f \in {-1} \cup {h[i] : i \in 1..n} : \A i \in 1..n : f >= h[i]
    BY <2>1
  <2>3. h[n + 1] \in Nat /\ f \in Int /\ \A i \in 1..n : h[i] \in Nat
    BY <2>1
  <2>4. CASE f >= h[n + 1]
    <3>1. \A i \in 1..n + 1 : i \in 1..n \/ i = n + 1
      BY <2>1
    <3>2. \A i \in 1..n + 1 : f >= h[i]
      BY <2>2, <2>4, <3>1
    <3>3. f \in {-1} \cup {h[i] : i \in 1..n + 1}
      BY <2>1, <2>2
    <3> QED BY <3>2, <3>3
  <2>5. CASE ~(f >= h[n + 1])
    <3>1. ASSUME NEW i \in 1..n + 1 PROVE h[n + 1] >= h[i]
      <4>1. CASE i = n + 1
        BY <2>3, <4>1
      <4>2. CASE i # n + 1
        <5>1. i \in 1..n
          BY <2>1, <4>2
        <5>2. f >= h[i] /\ h[i] \in Nat
          BY <2>2, <2>3, <5>1
        <5> QED BY <2>3, <2>5, <5>2
      <4> QED BY <4>1, <4>2
    <3>2. n + 1 \in 1..n + 1
      BY <2>1
    <3> QED BY <3>1, <3>2
  <2> QED BY <2>4, <2>5
<1>3. S = Nat
  <2> HIDE DEF S
  <2>1. S \subseteq Nat
    BY DEF S
  <2> QED BY <1>1, <1>2, <2>1, NatSetInduction
<1> HIDE DEF S
<1>4. Len(h) \in S /\ Len(h) <= Len(h) /\ DOMAIN h = 1..Len(h)
  BY <1>3
<1>5. \E f \in {-1} \cup {h[i] : i \in 1..Len(h)} : \A i \in 1..Len(h) : f >= h[i]
  BY <1>4 DEF S
<1> QED BY <1>4, <1>5

LEMMA BestIs ==
  ASSUME NEW h \in Seq(Nat), NEW f \in {-1} \cup {h[i] : i \in DOMAIN h}, \A i \in DOMAIN h : f >= h[i]
  PROVE  BestF1(h) = f
<1> DEFINE S == {-1} \cup {h[i] : i \in DOMAIN h}
           highest(g) == g \in S /\ \A i \in DOMAIN h : g >= h[i]
<1>1. S \subseteq Int /\ \A g \in S : g >= -1
  OBVIOUS
<1>2. \A g : highest(g) => g = f
  <2> SUFFICES ASSUME NEW g, highest(g) PROVE g = f
    OBVIOUS
  <2>1. \A e \in S : g >= e \/ e = -1
    OBVIOUS
  <2>2. \A e \in S : f >= e \/ e = -1
    OBVIOUS
  <2> QED BY <1>1, <2>1, <2>2
<1>3. highest(f)
  OBVIOUS
<1>4. BestF1(h) = CHOOSE g \in S : \A i \in DOMAIN h : g >= h[i]
  BY DEF BestF1
<1> QED BY <1>2, <1>3, <1>4

LEMMA BestAt ==
  ASSUME NEW h \in Seq(Nat)
  PROVE  /\ BestF1(h) \in Int /\ BestF1(h) \in {-1} \cup {h[i] : i \in DOMAIN h}
         /\ \A i \in DOMAIN h : BestF1(h) >= h[i]
<1>1. PICK f \in {-1} \cup {h[i] : i \in DOMAIN h} : \A i \in DOMAIN h : f >= h[i]
  BY BestExists
<1>2. BestF1(h) = f
  BY <1>1, BestIs
<1>3. f \in Int
  BY <1>1
<1> QED BY <1>1, <1>2, <1>3

\* The best F1 with one more epoch.
LEMMA BestAppend ==
  ASSUME NEW h \in Seq(Nat), NEW f1 \in Nat
  PROVE  BestF1(Append(h, f1)) = IF f1 > BestF1(h) THEN f1 ELSE BestF1(h)
<1> DEFINE g == Append(h, f1)
           n == Len(h)
<1>1. /\ g \in Seq(Nat) /\ DOMAIN g = 1..n + 1 /\ g[n + 1] = f1 /\ n \in Nat
      /\ DOMAIN h = 1..n /\ \A i \in 1..n : g[i] = h[i] /\ h[i] \in Nat
  BY AppendAt
<1> HIDE DEF g, n
<1>2. BestF1(h) \in Int /\ BestF1(h) \in {-1} \cup {h[i] : i \in 1..n} /\ \A i \in 1..n : BestF1(h) >= h[i]
  BY <1>1, BestAt
<1>3. CASE f1 > BestF1(h)
  <2>1. ASSUME NEW i \in 1..n + 1 PROVE f1 >= g[i]
    <3>1. CASE i = n + 1
      BY <1>1, <3>1
    <3>2. CASE i # n + 1
      <4>1. i \in 1..n
        BY <1>1, <3>2
      <4>2. BestF1(h) >= h[i] /\ h[i] \in Nat /\ g[i] = h[i]
        BY <1>1, <1>2, <4>1
      <4> QED BY <1>2, <1>3, <4>2
    <3> QED BY <3>1, <3>2
  <2>2. f1 \in {g[i] : i \in 1..n + 1}
    BY <1>1
  <2>3. BestF1(g) = f1
    BY <1>1, <2>1, <2>2, BestIs
  <2> QED BY <1>3, <2>3 DEF g
<1>4. CASE ~(f1 > BestF1(h))
  <2>1. \A i \in 1..n + 1 : BestF1(h) >= g[i]
    BY <1>1, <1>2, <1>4
  <2>2. BestF1(h) \in {-1} \cup {g[i] : i \in 1..n + 1}
    <3>1. CASE BestF1(h) = -1
      BY <3>1
    <3>2. CASE BestF1(h) # -1
      <4>1. PICK i \in 1..n : BestF1(h) = h[i]
        BY <1>2, <3>2
      <4> QED BY <1>1, <4>1
    <3> QED BY <3>1, <3>2
  <2>3. BestF1(g) = BestF1(h)
    BY <1>1, <2>1, <2>2, BestIs
  <2> QED BY <1>4, <2>3 DEF g
<1> QED BY <1>3, <1>4

LEMMA FilesInit == InitFiles => FilesInv
<1> SUFFICES ASSUME InitFiles PROVE FilesInv
  OBVIOUS
<1>1. /\ runs = <<[script |-> "shipped", size |-> 0]>> /\ Run = 1 /\ runs[1].script = "shipped"
      /\ runs \in Seq([script : Names \cup {"shipped"}, size : Nat])
  BY DEF InitFiles, Run
<1>2. /\ \A f \in Files : files[f] \in {0, 1} /\ engine[f] = 0
      /\ files \in [Files -> Int] /\ engine \in [Files -> Nat]
      /\ \A f \in Files \ Shipped : files[f] = 0
  BY DEF InitFiles, Absent, Nothing
<1>3. /\ job = NoJob /\ job.script = "none" /\ job.history = <<>> /\ job.written = 0
      /\ job \in [script : Names \cup {"none"}, written : Nat, history : Seq(Nat)]
  BY DEF InitFiles, NoJob
<1>4. loading = NotLoading /\ checkpoint = [f1 |-> -1, history |-> <<>>]
      /\ checkpoint \in [f1 : Int, history : Seq(Nat)] /\ ~Ahead
  BY DEF InitFiles, Ahead
<1>5. /\ GraphFiles \subseteq Files \ Shipped /\ "gnn_best" \in Files \ Shipped
      /\ {"live_model", "live_scaler"} \subseteq Files \ Shipped /\ "live_model_features" \in Files
  BY FilesKnown DEF Shipped, GraphFiles, LiveFiles
<1>6. FileTypes
  BY <1>1, <1>2, <1>3, <1>4 DEF FileTypes
<1>7. LoadingType /\ JobRuns /\ Writing /\ Noted
  BY <1>3, <1>4 DEF LoadingType, JobRuns, Writing, Noted
<1>8. CheckpointIsBest
  BY <1>2, <1>3, <1>5 DEF CheckpointIsBest
<1>9. GraphWhole /\ LiveWhole
  BY <1>2, <1>5 DEF GraphWhole, LiveWhole, Belong
<1>10. GraphRead
  BY <1>2, <1>4, <1>5, FilesKnown DEF GraphRead
<1>11. LiveRead
  BY <1>2, <1>4, <1>5 DEF LiveRead, LiveLoaded, NoLiveModel, LiveFiles
<1> QED BY <1>6, <1>7, <1>8, <1>9, <1>10, <1>11 DEF FilesInv

\* A script that is running.
LEMMA Running ==
  ASSUME FileTypes, JobRuns, job # NoJob
  PROVE  /\ job.script \in Names /\ job.script # "none" /\ job.written \in Nat /\ job.history \in Seq(Nat)
         /\ runs[Run].script = job.script /\ Run \in Nat \ {0}
         /\ LET w == Script[job.script].writes IN
            job.written < Len(w) /\ Len(w) \in Nat \ {0} /\ job.written + 1 \in 1..Len(w)
<1>1. job.script \in Names /\ job.script # "none" /\ job.written \in Nat /\ job.history \in Seq(Nat)
  BY DEF FileTypes, JobRuns
<1>2. runs[Run].script = job.script /\ job.written < Len(Script[job.script].writes)
  BY <1>1 DEF JobRuns
<1>3. Run \in Nat \ {0}
  BY DEF FileTypes, Run
<1>4. Len(Script[job.script].writes) \in Nat \ {0}
  BY <1>1, WritesType
<1> QED BY <1>1, <1>2, <1>3, <1>4

LEMMA NextOutputIs ==
  ASSUME FileTypes, JobRuns, job # NoJob
  PROVE  /\ NextOutput \in Files
         /\ NextOutput \in GraphFiles <=> job.script = "elliptic"
         /\ NextOutput = "gnn_best" <=> job.script = "gnn"
         /\ NextOutput \in LiveFiles <=> job.script \in {"live_v1", "live_v2"}
BY Running, WritesType DEF NextOutput

LEMMA GroupIs ==
  ASSUME NEW s \in Names
  PROVE  /\ Group(s) = "graph" <=> s = "elliptic"
         /\ Group(s) = "live" <=> s \in {"live_v1", "live_v2"}
BY DEF Group, Names

\* Steps of the scripts: what a program has read it keeps, and the files it is
\* reading do not change unless that is noted.
LEMMA ReadKept ==
  ASSUME FilesInv, engine' = engine, loading' = loading, mixed \subseteq mixed',
         \A r \in 1..Run : runs'[r] = runs[r],
         loading # NotLoading /\ "graph" \notin mixed' => \A f \in GraphFiles : files'[f] = files[f],
         loading # NotLoading /\ "live" \notin mixed' => \A f \in LiveFiles : files'[f] = files[f]
  PROVE  LoadingType' /\ GraphRead' /\ LiveRead'
<1>1. LoadingType'
  BY DEF FilesInv, LoadingType, Current
<1>2. GraphRead'
  BY DEF FilesInv, GraphRead, Current
<1>3. LiveLoaded => LiveLoaded'
  <2>1. engine["live_model"] \in Nat /\ engine["live_model"] <= Run /\ Run \in Nat
    BY FilesKnown DEF FilesInv, FileTypes, Run, LiveFiles
  <2>2. engine["live_model"] > 0 => runs'[engine["live_model"]] = runs[engine["live_model"]]
    BY <2>1
  <2> QED BY <2>2 DEF LiveLoaded, NoLiveModel
<1>4. LiveRead'
  <2>1. (NoLiveModel => NoLiveModel') /\ (Ahead <=> Ahead')
    BY DEF NoLiveModel, Ahead
  <2>2. Ahead => loading # NotLoading
    BY DEF Ahead
  <2> QED BY <1>3, <2>1, <2>2 DEF FilesInv, LiveRead, LiveFiles
<1> QED BY <1>1, <1>2, <1>4

LEMMA StartStep ==
  ASSUME FilesInv, NEW s \in Scripts, Start(s)
  PROVE  FilesInv'
<1>1. PICK n \in Sizes :
        runs' = Append(runs, [script |-> s, size |-> IF Script[s].reads = <<>> THEN n ELSE 0])
  BY DEF Start
<1>2. /\ job = NoJob /\ job.script = "none" /\ job' = [NoJob EXCEPT !.script = s]
      /\ files' = files /\ checkpoint' = checkpoint /\ engine' = engine /\ loading' = loading /\ cut' = cut
      /\ mixed' = IF loading = NotLoading THEN mixed ELSE mixed \cup {Group(s)}
  BY DEF Start, NoJob
<1>3. s \in Names /\ n \in Nat
  BY NamesAssumption, SizeAssumption, ScriptDomain
<1>4. job'.script = s /\ job'.written = 0 /\ job'.history = <<>> /\ s # "none"
  BY <1>2, <1>3 DEF NoJob, Names
<1> DEFINE T == [script : Names \cup {"shipped"}, size : Nat]
           e == [script |-> s, size |-> IF Script[s].reads = <<>> THEN n ELSE 0]
<1>5. runs \in Seq(T) /\ Run \in Nat \ {0} /\ Run = Len(runs) /\ e \in T
  BY <1>3 DEF FilesInv, FileTypes, Run
<1>6. /\ runs' \in Seq(T) /\ Run' = Run + 1 /\ runs'[Run'] = e
      /\ \A r \in 1..Run : runs'[r] = runs[r]
  <2>1. runs' = Append(runs, e)
    BY <1>1
  <2> HIDE DEF T, e
  <2> QED BY <1>5, <2>1, AppendAt DEF Run
<1>7. runs'[Run'].script = s
  BY <1>6
<1>8. FileTypes'
  <2>1. job' \in [script : Names \cup {"none"}, written : Nat, history : Seq(Nat)]
    <3>1. NoJob \in [script : Names \cup {"none"}, written : Nat, history : Seq(Nat)]
      BY DEF NoJob
    <3> QED BY <1>2, <1>3, <3>1
  <2>2. /\ files \in [Files -> Int] /\ engine \in [Files -> Nat]
        /\ \A f \in Files : -1 <= files[f] /\ files[f] <= Run /\ engine[f] <= Run
        /\ checkpoint \in [f1 : Int, history : Seq(Nat)]
    BY DEF FilesInv, FileTypes
  <2>3. \A f \in Files : files[f] <= Run + 1 /\ engine[f] <= Run + 1 /\ -1 <= files[f]
    BY <1>5, <2>2
  <2>4. Run' >= 1
    BY <1>5, <1>6
  <2> QED BY <1>2, <1>6, <2>1, <2>2, <2>3, <2>4 DEF FileTypes
<1>9. JobRuns'
  <2>1. 0 < Len(Script[s].writes)
    BY <1>3, WritesType
  <2> QED BY <1>4, <1>7, <2>1 DEF JobRuns
<1>10. CheckpointIsBest' /\ Writing'
  <2>1. \A i \in 1..job'.written : FALSE
    BY <1>4
  <2> QED BY <1>2, <1>4, <2>1 DEF CheckpointIsBest, Writing, FilesInv
<1>11. GraphWhole'
  BY <1>2, <1>4 DEF FilesInv, GraphWhole
<1>12. LiveWhole'
  <2>1. files["live_model"] > 0 => runs'[files["live_model"]] = runs[files["live_model"]]
    <3>1. files["live_model"] \in Int /\ files["live_model"] <= Run
      BY FilesKnown DEF FilesInv, FileTypes, LiveFiles
    <3> QED BY <1>5, <1>6, <3>1
  <2> QED BY <1>2, <1>4, <2>1 DEF FilesInv, LiveWhole, Belong
<1>13. Noted'
  BY <1>2, <1>4 DEF FilesInv, Noted
<1>14. LoadingType' /\ GraphRead' /\ LiveRead'
  BY <1>2, <1>6, ReadKept
<1> QED BY <1>8, <1>9, <1>10, <1>11, <1>12, <1>13, <1>14 DEF FilesInv

LEMMA WriteStep ==
  ASSUME FilesInv, Write
  PROVE  FilesInv'
<1> DEFINE w == Script[job.script].writes
           f == NextOutput
<1>1. /\ job # NoJob /\ job.script # "gnn" /\ files' = [files EXCEPT ![f] = Run]
      /\ runs' = runs /\ checkpoint' = checkpoint /\ engine' = engine /\ loading' = loading
      /\ mixed' = mixed /\ Run' = Run
  BY DEF Write, Run
<1>2. FileTypes /\ JobRuns
  BY DEF FilesInv
<1>3. /\ job.script \in Names /\ job.script # "none" /\ job.written \in Nat /\ job.history \in Seq(Nat)
      /\ runs[Run].script = job.script /\ Run \in Nat \ {0}
      /\ job.written < Len(w) /\ Len(w) \in Nat \ {0} /\ job.written + 1 \in 1..Len(w)
  BY <1>1, <1>2, Running
<1>4. /\ f \in Files /\ f # "gnn_best" /\ f = w[job.written + 1]
      /\ f \in GraphFiles <=> job.script = "elliptic"
      /\ f \in LiveFiles <=> job.script \in {"live_v1", "live_v2"}
  BY <1>1, <1>2, NextOutputIs DEF NextOutput
<1>5. files \in [Files -> Int] /\ \A g \in Files : -1 <= files[g] /\ files[g] <= Run
  BY <1>2 DEF FileTypes
<1> HIDE DEF f
<1>6. files'[f] = Run /\ \A g \in Files \ {f} : files'[g] = files[g]
  BY <1>1, <1>4, <1>5
<1>7. \A i \in 1..job.written + 1 : files'[w[i]] = Run
  <2> SUFFICES ASSUME NEW i \in 1..job.written + 1 PROVE files'[w[i]] = Run
    OBVIOUS
  <2>1. CASE w[i] = f
    BY <1>6, <2>1
  <2>2. CASE w[i] # f
    <3>1. i \in 1..job.written /\ i \in 1..Len(w)
      BY <1>3, <1>4, <2>2
    <3>2. files[w[i]] = Run
      BY <1>3, <3>1 DEF FilesInv, Writing
    <3>3. w[i] \in Files
      BY <1>3, <3>1, WritesType
    <3> QED BY <1>6, <2>2, <3>2, <3>3
  <2> QED BY <2>1, <2>2
<1>8. FileTypes'
  <2>1. job' \in [script : Names \cup {"none"}, written : Nat, history : Seq(Nat)]
    <3>1. job \in [script : Names \cup {"none"}, written : Nat, history : Seq(Nat)]
      BY <1>2 DEF FileTypes
    <3>2. NoJob \in [script : Names \cup {"none"}, written : Nat, history : Seq(Nat)]
      BY DEF NoJob
    <3>3. job' = NoJob \/ job' = [job EXCEPT !.written = @ + 1]
      BY DEF Write
    <3> QED BY <3>1, <3>2, <3>3
  <2>2. files' \in [Files -> Int]
    <3>1. Run \in Int
      BY <1>3
    <3> QED BY ONLY <1>1, <1>5, <3>1
  <2>3. \A g \in Files : -1 <= files'[g] /\ files'[g] <= Run
    BY <1>3, <1>5, <1>6
  <2> QED BY <1>1, <1>2, <2>1, <2>2, <2>3 DEF FileTypes
<1>9. LoadingType' /\ GraphRead' /\ LiveRead'
  <2>1. ASSUME loading # NotLoading PROVE Group(job.script) \in mixed
    BY <1>3, <2>1 DEF FilesInv, Noted
  <2>2. ASSUME loading # NotLoading, "graph" \notin mixed, NEW g \in GraphFiles PROVE files'[g] = files[g]
    BY <1>3, <1>4, <1>6, <2>1, <2>2, GroupIs, FilesKnown
  <2>3. ASSUME loading # NotLoading, "live" \notin mixed, NEW g \in LiveFiles PROVE files'[g] = files[g]
    BY <1>3, <1>4, <1>6, <2>1, <2>3, GroupIs, FilesKnown
  <2> QED BY <1>1, <2>2, <2>3, ReadKept
<1>10. CASE job.written + 1 = Len(w)
  <2>1. job' = NoJob /\ job'.script = "none" /\ job'.history = <<>> /\ cut' = cut \ {Group(job.script)}
    BY <1>10 DEF Write, NoJob
  <2>2. \A i \in 1..Len(w) : files'[w[i]] = Run
    BY <1>7, <1>10
  <2>3. JobRuns' /\ Writing' /\ CheckpointIsBest'
    <3>1. files'["gnn_best"] = files["gnn_best"]
      BY <1>4, <1>6, FilesKnown
    <3> QED BY <1>1, <2>1, <3>1 DEF JobRuns, Writing, CheckpointIsBest, FilesInv
  <2>4. GraphWhole'
    <3>1. CASE job.script = "elliptic"
      <4>1. ASSUME NEW g \in GraphFiles PROVE files'[g] = Run
        <5>1. PICK i \in 1..8 : Script["elliptic"].writes[i] = g
          BY EllipticAll
        <5>2. w[i] = g /\ i \in 1..Len(w)
          BY <3>1, <5>1, EllipticWrites
        <5> QED BY <2>2, <5>2
      <4> QED BY <4>1 DEF GraphWhole
    <3>2. CASE job.script # "elliptic"
      <4>1. "graph" \notin cut' => "graph" \notin cut
        BY <1>3, <2>1, <3>2, GroupIs
      <4>2. \A g \in GraphFiles : files'[g] = files[g]
        BY <1>4, <1>6, <3>2, FilesKnown
      <4> QED BY <3>2, <4>1, <4>2 DEF FilesInv, GraphWhole
    <3> QED BY <3>1, <3>2
  <2>5. LiveWhole'
    <3>1. CASE job.script = "live_v1"
      <4>1. files'["live_model"] = Run /\ files'["live_scaler"] = Run
        BY <2>2, <3>1, OtherWrites
      <4>2. files'["live_model_features"] <= Run
        BY <1>8, <1>1, FilesKnown DEF FileTypes, LiveFiles
      <4>3. runs'[Run].script = "live_v1"
        BY <1>1, <1>3, <3>1
      <4> QED BY <4>1, <4>2, <4>3 DEF LiveWhole, Belong
    <3>2. CASE job.script = "live_v2"
      <4>1. /\ files'["live_model"] = Run /\ files'["live_scaler"] = Run
            /\ files'["live_model_features"] = Run
        BY <2>2, <3>2, OtherWrites
      <4>2. runs'[Run].script = "live_v2"
        BY <1>1, <1>3, <3>2
      <4> QED BY <1>3, <4>1, <4>2 DEF LiveWhole, Belong
    <3>3. CASE job.script \notin {"live_v1", "live_v2"}
      <4>1. "live" \notin cut' => "live" \notin cut
        BY <1>3, <2>1, <3>3, GroupIs
      <4>2. \A g \in LiveFiles : files'[g] = files[g]
        BY <1>4, <1>6, <3>3, FilesKnown
      <4> QED BY <1>1, <3>3, <4>1, <4>2 DEF FilesInv, LiveWhole, Belong, LiveFiles
    <3> QED BY <3>1, <3>2, <3>3
  <2>6. Noted'
    BY <1>1, <2>1 DEF FilesInv, Noted
  <2> QED BY <1>8, <1>9, <2>3, <2>4, <2>5, <2>6 DEF FilesInv
<1>11. CASE job.written + 1 # Len(w)
  <2>1. /\ job' = [job EXCEPT !.written = job.written + 1] /\ cut' = cut
        /\ job'.script = job.script /\ job'.written = job.written + 1 /\ job'.history = job.history
    <3>1. job' = [job EXCEPT !.written = job.written + 1] /\ cut' = cut
      BY <1>11 DEF Write
    <3>2. job \in [script : Names \cup {"none"}, written : Nat, history : Seq(Nat)]
      BY <1>2 DEF FileTypes
    <3> QED BY <3>1, <3>2
  <2>2. JobRuns' /\ CheckpointIsBest'
    <3>1. files'["gnn_best"] = files["gnn_best"]
      BY <1>4, <1>6, FilesKnown
    <3>2. job.written + 1 < Len(w)
      BY <1>3, <1>11
    <3>3. job.history = <<>>
      BY <1>1, <1>2 DEF JobRuns
    <3>4. CheckpointIsBest'
      BY <1>1, <2>1, <3>1 DEF CheckpointIsBest, FilesInv
    <3> QED BY <1>1, <1>3, <2>1, <3>2, <3>3, <3>4 DEF JobRuns
  <2>3. Writing'
    BY <1>1, <1>7, <2>1 DEF Writing
  <2>4. job'.written > 0
    BY <1>3, <2>1
  <2>5. GraphWhole'
    <3>1. CASE job.script = "elliptic"
      BY <2>1, <2>4, <3>1 DEF GraphWhole
    <3>2. CASE job.script # "elliptic"
      <4>1. \A g \in GraphFiles : files'[g] = files[g]
        BY <1>4, <1>6, <3>2, FilesKnown
      <4> QED BY <2>1, <3>2, <4>1 DEF FilesInv, GraphWhole
    <3> QED BY <3>1, <3>2
  <2>6. LiveWhole'
    <3>1. CASE job.script \in {"live_v1", "live_v2"}
      BY <2>1, <2>4, <3>1 DEF LiveWhole
    <3>2. CASE job.script \notin {"live_v1", "live_v2"}
      <4>1. \A g \in LiveFiles : files'[g] = files[g]
        BY <1>4, <1>6, <3>2, FilesKnown
      <4> QED BY <1>1, <2>1, <3>2, <4>1 DEF FilesInv, LiveWhole, Belong, LiveFiles
    <3> QED BY <3>1, <3>2
  <2>7. Noted'
    BY <1>1, <1>3, <2>1 DEF FilesInv, Noted
  <2> QED BY <1>8, <1>9, <2>2, <2>3, <2>5, <2>6, <2>7 DEF FilesInv
<1> QED BY <1>10, <1>11

LEMMA EpochStep ==
  ASSUME FilesInv, NEW f1 \in F1s, Epoch(f1)
  PROVE  FilesInv'
<1> DEFINE h == job.history
           longer == Append(h, f1)
<1>1. /\ job # NoJob /\ job.script = "gnn" /\ job' = [job EXCEPT !.history = longer]
      /\ runs' = runs /\ engine' = engine /\ loading' = loading /\ cut' = cut /\ mixed' = mixed /\ Run' = Run
  BY DEF Epoch, Run, NoJob
<1>2. FileTypes /\ JobRuns /\ CheckpointIsBest
  BY DEF FilesInv
<1>3. h \in Seq(Nat) /\ Run \in Nat \ {0} /\ f1 \in Nat
  BY <1>1, <1>2, Running, F1Assumption
<1>4. /\ longer \in Seq(Nat) /\ Len(longer) = Len(h) + 1 /\ longer[Len(h) + 1] = f1
      /\ \A i \in 1..Len(h) : longer[i] = h[i]
  BY <1>3, AppendAt
<1>5. job \in [script : Names \cup {"none"}, written : Nat, history : Seq(Nat)]
  BY <1>2 DEF FileTypes
<1> HIDE DEF longer
<1>6. /\ job' \in [script : Names \cup {"none"}, written : Nat, history : Seq(Nat)]
      /\ job'.script = "gnn" /\ job'.written = job.written /\ job'.history = longer
  BY <1>1, <1>4, <1>5
<1>7. files \in [Files -> Int] /\ \A g \in Files : -1 <= files[g] /\ files[g] <= Run
  BY <1>2 DEF FileTypes
<1>8. /\ BestF1(h) \in Int /\ BestF1(h) \in {-1} \cup {h[i] : i \in DOMAIN h}
      /\ \A i \in DOMAIN h : BestF1(h) >= h[i]
  BY <1>3, BestAt
<1>9. BestF1(longer) = IF f1 > BestF1(h) THEN f1 ELSE BestF1(h)
  BY <1>3, BestAppend DEF longer
<1>10. "gnn_best" \in Files /\ "gnn_best" \notin GraphFiles /\ "gnn_best" \notin LiveFiles
  BY FilesKnown DEF GraphFiles, LiveFiles
<1>11. \/ /\ f1 > BestF1(h) /\ files' = [files EXCEPT !["gnn_best"] = Run]
          /\ checkpoint' = [f1 |-> f1, history |-> longer]
       \/ ~(f1 > BestF1(h)) /\ files' = files /\ checkpoint' = checkpoint
  BY <1>1 DEF Epoch, longer
<1>12. /\ \A g \in Files \ {"gnn_best"} : files'[g] = files[g]
       /\ \A g \in GraphFiles \cup LiveFiles : files'[g] = files[g]
  BY <1>7, <1>10, <1>11, FilesKnown
<1>13. FileTypes'
  <2>1. files' \in [Files -> Int] /\ checkpoint' \in [f1 : Int, history : Seq(Nat)]
    <3>1. checkpoint \in [f1 : Int, history : Seq(Nat)]
      BY <1>2 DEF FileTypes
    <3> QED BY <1>3, <1>4, <1>7, <1>11, <3>1
  <2>2. \A g \in Files : -1 <= files'[g] /\ files'[g] <= Run
    BY <1>3, <1>7, <1>10, <1>11
  <2> QED BY <1>1, <1>2, <1>6, <2>1, <2>2 DEF FileTypes
<1>14. LoadingType' /\ GraphRead' /\ LiveRead'
  BY <1>1, <1>12, ReadKept
<1>15. JobRuns'
  BY <1>1, <1>2, <1>6 DEF JobRuns
<1>16. CheckpointIsBest'
  <2>1. CASE f1 > BestF1(h)
    <3>1. /\ files'["gnn_best"] = Run /\ checkpoint'.f1 = f1 /\ checkpoint'.history = longer
      BY <1>7, <1>10, <1>11, <2>1
    <3>2. \A i \in 1..Len(longer) - 1 : longer[i] < f1
      <4>1. Len(longer) - 1 = Len(h) /\ DOMAIN h = 1..Len(h) /\ \A i \in 1..Len(h) : h[i] \in Nat
        BY <1>3, <1>4
      <4>2. ASSUME NEW i \in 1..Len(h) PROVE longer[i] < f1
        <5>1. longer[i] = h[i] /\ h[i] \in Nat /\ BestF1(h) >= h[i]
          BY <1>4, <1>8, <4>1
        <5> QED BY <1>3, <1>8, <2>1, <5>1
      <4> QED BY <4>1, <4>2
    <3>3. longer[Len(longer)] = f1
      BY <1>4
    <3> QED BY <1>1, <1>6, <1>9, <2>1, <3>1, <3>2, <3>3 DEF CheckpointIsBest
  <2>2. CASE ~(f1 > BestF1(h))
    <3>1. h # <<>>
      <4>1. BestF1(h) # -1
        BY <1>3, <2>2
      <4> QED BY <1>8, <4>1
    <3>2. files["gnn_best"] = Run /\ checkpoint.f1 = BestF1(h)
      BY <1>1, <1>2, <3>1 DEF CheckpointIsBest
    <3>3. files' = files /\ checkpoint' = checkpoint
      BY <1>11, <2>2
    <3> QED BY <1>1, <1>2, <1>6, <1>9, <2>2, <3>2, <3>3 DEF CheckpointIsBest
  <2> QED BY <2>1, <2>2
<1>17. Writing'
  <2>1. job'.written = 0
    BY <1>1, <1>2, <1>6 DEF JobRuns
  <2> QED BY <2>1 DEF Writing
<1>18. GraphWhole' /\ LiveWhole'
  BY <1>1, <1>6, <1>12 DEF FilesInv, GraphWhole, LiveWhole, Belong, LiveFiles
<1>19. Noted'
  BY <1>1, <1>6 DEF FilesInv, Noted
<1> QED BY <1>13, <1>14, <1>15, <1>16, <1>17, <1>18, <1>19 DEF FilesInv

LEMMA TrainingEndsStep ==
  ASSUME FilesInv, TrainingEnds
  PROVE  FilesInv'
<1>1. /\ job.script = "gnn" /\ job' = NoJob /\ job'.script = "none" /\ job'.history = <<>>
      /\ UNCHANGED <<files, runs, checkpoint, engine, loading, cut, mixed>> /\ Run' = Run
      /\ job' \in [script : Names \cup {"none"}, written : Nat, history : Seq(Nat)]
  BY DEF TrainingEnds, NoJob, Run
<1>2. FileTypes' /\ JobRuns' /\ Writing' /\ CheckpointIsBest'
  BY <1>1 DEF FilesInv, FileTypes, JobRuns, Writing, CheckpointIsBest
<1>3. LoadingType' /\ GraphRead' /\ LiveRead'
  BY <1>1, ReadKept
<1>4. GraphWhole' /\ LiveWhole' /\ Noted'
  BY <1>1 DEF FilesInv, GraphWhole, LiveWhole, Belong, Noted
<1> QED BY <1>2, <1>3, <1>4 DEF FilesInv

LEMMA CrashStep ==
  ASSUME FilesInv, Crash
  PROVE  FilesInv'
<1> DEFINE f == IF job.script = "gnn" THEN "gnn_best" ELSE NextOutput
<1>1. /\ job # NoJob /\ files' \in {files, [files EXCEPT ![f] = -1]} /\ job' = NoJob
      /\ cut' = IF job.written > 0 \/ files' # files THEN cut \cup {Group(job.script)} ELSE cut
      /\ job'.script = "none" /\ job'.history = <<>>
      /\ job' \in [script : Names \cup {"none"}, written : Nat, history : Seq(Nat)]
      /\ UNCHANGED <<runs, checkpoint, engine, loading, mixed>> /\ Run' = Run
  BY DEF Crash, NoJob, Run, Torn
<1>2. FileTypes /\ JobRuns
  BY DEF FilesInv
<1>3. /\ job.script \in Names /\ job.script # "none" /\ Run \in Nat \ {0} /\ job.written \in Nat
  BY <1>1, <1>2, Running
<1>4. /\ f \in Files /\ f = "gnn_best" <=> job.script = "gnn"
      /\ f \in GraphFiles <=> job.script = "elliptic"
      /\ f \in LiveFiles <=> job.script \in {"live_v1", "live_v2"}
  <2>1. CASE job.script = "gnn"
    BY <2>1, FilesKnown DEF GraphFiles, LiveFiles
  <2>2. CASE job.script # "gnn"
    BY <1>1, <1>2, <2>2, NextOutputIs
  <2> QED BY <2>1, <2>2
<1>5. files \in [Files -> Int] /\ \A g \in Files : -1 <= files[g] /\ files[g] <= Run
  BY <1>2 DEF FileTypes
<1> HIDE DEF f
<1>6. \A g \in Files \ {f} : files'[g] = files[g]
  BY <1>1, <1>4, <1>5
<1>7. \A g \in Files : files'[g] \in {files[g], -1}
  BY <1>1, <1>5
<1>8. FileTypes'
  <2>1. files' \in [Files -> Int]
    BY <1>1, <1>5
  <2>2. \A g \in Files : -1 <= files'[g] /\ files'[g] <= Run
    BY <1>3, <1>5, <1>7
  <2> QED BY <1>1, <1>2, <2>1, <2>2 DEF FileTypes
<1>9. JobRuns' /\ Writing'
  BY <1>1 DEF JobRuns, Writing
<1>10. CheckpointIsBest'
  <2>1. files'["gnn_best"] > 0 => files'["gnn_best"] = files["gnn_best"]
    BY <1>7, FilesKnown
  <2> QED BY <1>1, <2>1 DEF FilesInv, CheckpointIsBest
<1>11. GraphWhole'
  <2>1. CASE job.script = "elliptic" /\ "graph" \notin cut'
    <3>1. ~(job.written > 0) /\ files' = files /\ cut' = cut
      BY <1>1, <1>3, <2>1, GroupIs
    <3> QED BY <1>1, <3>1 DEF FilesInv, GraphWhole
  <2>2. CASE job.script # "elliptic"
    <3>1. \A g \in GraphFiles : files'[g] = files[g]
      BY <1>4, <1>6, <2>2, FilesKnown
    <3>2. cut \subseteq cut'
      BY <1>1
    <3> QED BY <2>2, <3>1, <3>2 DEF FilesInv, GraphWhole
  <2>3. CASE "graph" \in cut'
    BY <2>3 DEF GraphWhole
  <2> QED BY <2>1, <2>2, <2>3
<1>12. LiveWhole'
  <2>1. CASE job.script \in {"live_v1", "live_v2"} /\ "live" \notin cut'
    <3>1. ~(job.written > 0) /\ files' = files /\ cut' = cut
      BY <1>1, <1>3, <2>1, GroupIs
    <3> QED BY <1>1, <3>1 DEF FilesInv, LiveWhole, Belong
  <2>2. CASE job.script \notin {"live_v1", "live_v2"}
    <3>1. \A g \in LiveFiles : files'[g] = files[g]
      BY <1>4, <1>6, <2>2, FilesKnown
    <3>2. cut \subseteq cut'
      BY <1>1
    <3> QED BY <1>1, <2>2, <3>1, <3>2 DEF FilesInv, LiveWhole, Belong, LiveFiles
  <2>3. CASE "live" \in cut'
    BY <2>3 DEF LiveWhole
  <2> QED BY <2>1, <2>2, <2>3
<1>13. Noted'
  BY <1>1, <1>3 DEF FilesInv, Noted
<1>14. LoadingType' /\ GraphRead' /\ LiveRead'
  <2>1. ASSUME loading # NotLoading PROVE Group(job.script) \in mixed
    BY <1>3, <2>1 DEF FilesInv, Noted
  <2>2. ASSUME loading # NotLoading, "graph" \notin mixed, NEW g \in GraphFiles PROVE files'[g] = files[g]
    BY <1>3, <1>4, <1>6, <2>1, <2>2, GroupIs, FilesKnown
  <2>3. ASSUME loading # NotLoading, "live" \notin mixed, NEW g \in LiveFiles PROVE files'[g] = files[g]
    BY <1>3, <1>4, <1>6, <2>1, <2>3, GroupIs, FilesKnown
  <2> QED BY <1>1, <2>2, <2>3, ReadKept
<1> QED BY <1>8, <1>9, <1>10, <1>11, <1>12, <1>13, <1>14 DEF FilesInv

LEMMA BeginStep ==
  ASSUME FilesInv, NEW p \in Programs, Begin(p)
  PROVE  FilesInv'
<1>1. /\ loading' = [program |-> p, section |-> 1, file |-> 1] /\ engine' = Nothing
      /\ mixed' = cut \cup (IF job = NoJob THEN {} ELSE {Group(job.script)})
      /\ UNCHANGED <<files, runs, job, checkpoint, cut>> /\ Run' = Run
  BY DEF Begin, Run
<1>2. p \in Programmes
  BY NamesAssumption, SectionsAre
<1>3. engine' \in [Files -> Nat] /\ \A f \in Files : engine'[f] = 0
  BY <1>1 DEF Nothing, Absent
<1>4. 1 \in 1..Len(Sections[p])
  BY <1>2, SectionsAre DEF Programmes
<1>5. 1 \in 1..Len(Sections[p][1])
  <2>1. Len(Sections[p][1]) \in Nat \ {0}
    BY <1>2, <1>4, SectionHolds
  <2> QED BY <2>1
<1>6. FileTypes'
  <2>1. \A f \in Files : engine'[f] <= Run
    <3>1. Run \in Nat
      BY DEF FilesInv, FileTypes, Run
    <3> QED BY <1>3, <3>1
  <2> QED BY <1>1, <1>3, <2>1 DEF FilesInv, FileTypes
<1>7. LoadingType'
  BY <1>1, <1>2, <1>4, <1>5 DEF LoadingType, Current
<1>8. JobRuns' /\ Writing' /\ CheckpointIsBest'
  BY <1>1 DEF FilesInv, JobRuns, Writing, CheckpointIsBest
<1>9. GraphWhole' /\ LiveWhole'
  BY <1>1 DEF FilesInv, GraphWhole, LiveWhole, Belong
<1>10. Noted'
  BY <1>1 DEF Noted, NoJob
<1>11. GraphRead'
  <2>1. \A m \in 1..loading'.file - 1 : FALSE
    BY <1>1
  <2> QED BY <1>3, <2>1, FilesKnown DEF GraphRead
<1>12. LiveRead'
  <2>1. NoLiveModel'
    BY <1>3, FilesKnown DEF NoLiveModel
  <2>2. loading'.file = 1
    BY <1>1
  <2> QED BY <2>1, <2>2 DEF LiveRead, LiveLoaded
<1> QED BY <1>6, <1>7, <1>8, <1>9, <1>10, <1>11, <1>12 DEF FilesInv

\* How a program goes on: it reads the file, or leaves the section.
LEMMA LoadCases ==
  ASSUME FilesInv, Load
  PROVE  LET f == Current[loading.file] IN
         /\ loading # NotLoading
         /\ \/ /\ files[f] > 0 /\ engine' = [engine EXCEPT ![f] = files[f]] /\ loading' = NextFile
            \/ /\ engine' = engine
               /\ loading' = NextSection \/ (f = "live_model_features" /\ loading' = NextFile)
               /\ f \in {"live_scaler", "live_model_features"} /\ "live" \notin mixed =>
                    files[f] <= 0 \/ Missing
<1> DEFINE f == Current[loading.file]
<1>1. loading # NotLoading /\ f \in Files /\ files[f] \in Int
  <2>1. loading # NotLoading
    BY DEF Load
  <2>2. f \in Files
    <3>1. /\ loading.program \in Programmes /\ loading.section \in 1..Len(Sections[loading.program])
          /\ loading.file \in 1..Len(Sections[loading.program][loading.section])
      BY <2>1 DEF FilesInv, LoadingType, Current
    <3>2. Sections[loading.program][loading.section][loading.file] \in Files
      <4>1. \A p \in Programmes : \A n \in 1..Len(Sections[p]) : \A k \in 1..Len(Sections[p][n]) :
              Sections[p][n][k] \in Files
        BY SectionHolds
      <4> QED BY <3>1, <4>1
    <3> QED BY <3>2 DEF Current
  <2> QED BY <2>1, <2>2 DEF FilesInv, FileTypes
<1>2. ASSUME f \in LiveFiles, "live" \notin mixed PROVE Seen(f) = {files[f]}
  <2>1. ASSUME job # NoJob PROVE job.script \notin {"live_v1", "live_v2"} /\ job.script \in Names
    <3>1. job.script \in Names /\ job.script # "none"
      BY <2>1, Running DEF FilesInv
    <3>2. Group(job.script) \in mixed
      BY <1>1, <3>1 DEF FilesInv, Noted
    <3> QED BY <1>2, <3>1, <3>2, GroupIs
  <2>2. ASSUME job # NoJob PROVE f # NextOutput /\ f # "gnn_best"
    <3>1. NextOutput \notin LiveFiles
      BY <2>1, <2>2, NextOutputIs DEF FilesInv
    <3> QED BY <1>2, <3>1 DEF LiveFiles
  <2> HIDE DEF f
  <2> QED BY <2>2 DEF Seen
<1>3. CASE Missing
  BY <1>1, <1>3 DEF Load
<1>4. CASE ~Missing
  <2>1. PICK v \in Seen(f) :
       \/ /\ v > 0
          /\ engine' = [engine EXCEPT ![f] = v]
          /\ loading' = NextFile
       \/ /\ v = Absent /\ f = "live_model_features"
          /\ loading' = NextFile /\ UNCHANGED engine
       \/ /\ v = Torn \/ (v = Absent /\ f # "live_model_features") \/ (v > 0 /\ f = "edge_index" /\ ~Builds)
          /\ loading' = NextSection /\ UNCHANGED engine
    BY <1>4 DEF Load
  <2>2. v = files[f] \/ v = -1
    BY DEF Seen, Torn
  <2>3. f \in {"live_scaler", "live_model_features"} => f \in LiveFiles /\ f # "edge_index"
    BY DEF LiveFiles
  <2>4. f \in {"live_scaler", "live_model_features"} /\ "live" \notin mixed => v = files[f]
    BY <1>2, <2>3
  <2> HIDE DEF f
  <2>5. CASE v > 0 /\ engine' = [engine EXCEPT ![f] = v] /\ loading' = NextFile
    <3>1. v = files[f]
      BY <2>2, <2>5
    <3> QED BY <1>1, <2>5, <3>1 DEF f
  <2>6. CASE v = Absent /\ f = "live_model_features" /\ loading' = NextFile /\ UNCHANGED engine
    <3>1. "live" \notin mixed => files[f] <= 0
      BY <2>4, <2>6 DEF Absent
    <3> QED BY <1>1, <2>6, <3>1 DEF f
  <2>7. CASE /\ v = Torn \/ (v = Absent /\ f # "live_model_features") \/ (v > 0 /\ f = "edge_index" /\ ~Builds)
             /\ loading' = NextSection /\ UNCHANGED engine
    <3>1. f \in {"live_scaler", "live_model_features"} /\ "live" \notin mixed => files[f] <= 0
      BY <2>3, <2>4, <2>7 DEF Absent, Torn
    <3> QED BY <1>1, <2>7, <3>1 DEF f
  <2> QED BY <2>1, <2>5, <2>6, <2>7
<1> QED BY <1>3, <1>4

\* Where a program goes on.
LEMMA LoadGoesOn ==
  ASSUME LoadingType, loading # NotLoading
  PROVE  LET p == loading.program s == loading.section k == loading.file IN
         /\ p \in Programmes /\ s \in 1..Len(Sections[p]) /\ k \in 1..Len(Sections[p][s])
         /\ Len(Sections[p]) \in Nat /\ Len(Sections[p][s]) \in Nat \ {0}
         /\ Current = Sections[p][s]
         /\ NextSection = IF s = Len(Sections[p]) THEN NotLoading
                          ELSE [program |-> p, section |-> s + 1, file |-> 1]
         /\ NextFile = IF k = Len(Sections[p][s]) THEN NextSection
                       ELSE [program |-> p, section |-> s, file |-> k + 1]
         /\ [program |-> p, section |-> s + 1, file |-> 1] # NotLoading
         /\ [program |-> p, section |-> s, file |-> k + 1] # NotLoading
<1>1. /\ loading \in [program : Programmes, section : Nat, file : Nat]
      /\ loading.section \in 1..Len(Sections[loading.program])
      /\ loading.file \in 1..Len(Sections[loading.program][loading.section])
      /\ Current = Sections[loading.program][loading.section]
  BY DEF LoadingType, Current
<1>2. Len(Sections[loading.program]) \in Nat
  BY <1>1, SectionsAre DEF Programmes
<1>3. Len(Sections[loading.program][loading.section]) \in Nat \ {0}
  BY <1>1, SectionHolds
<1>4. NextSection = IF loading.section = Len(Sections[loading.program]) THEN NotLoading
                    ELSE [program |-> loading.program, section |-> loading.section + 1, file |-> 1]
  BY DEF NextSection
<1>5. NextFile = IF loading.file = Len(Current) THEN NextSection
                 ELSE [program |-> loading.program, section |-> loading.section, file |-> loading.file + 1]
  BY <1>1 DEF NextFile
<1>6. /\ [program |-> loading.program, section |-> loading.section + 1, file |-> 1] # NotLoading
      /\ [program |-> loading.program, section |-> loading.section, file |-> loading.file + 1] # NotLoading
  BY <1>1 DEF NotLoading, Programmes
<1> QED BY <1>1, <1>2, <1>3, <1>4, <1>5, <1>6

LEMMA LoadStep ==
  ASSUME FilesInv, Load
  PROVE  FilesInv'
<1> DEFINE p == loading.program
           s == loading.section
           k == loading.file
           c == Sections[p][s]
           f == c[k]
<1>1. loading # NotLoading /\ LoadingType /\ GraphRead /\ LiveRead
  BY DEF Load, FilesInv
<1>2. /\ p \in Programmes /\ s \in 1..Len(Sections[p]) /\ k \in 1..Len(c)
      /\ Len(Sections[p]) \in Nat /\ Len(c) \in Nat \ {0} /\ Current = c
      /\ NextSection = IF s = Len(Sections[p]) THEN NotLoading
                       ELSE [program |-> p, section |-> s + 1, file |-> 1]
      /\ NextFile = IF k = Len(c) THEN NextSection ELSE [program |-> p, section |-> s, file |-> k + 1]
      /\ [program |-> p, section |-> s + 1, file |-> 1] # NotLoading
      /\ [program |-> p, section |-> s, file |-> k + 1] # NotLoading
  BY <1>1, LoadGoesOn
<1>0. /\ s \in Nat /\ k \in Nat /\ s >= 1 /\ k >= 1 /\ k <= Len(c)
      /\ p = "pipeline" => Len(Sections[p]) = 6 /\ s <= 6
  <2>1. s \in 1..Len(Sections[p]) /\ k \in 1..Len(c) /\ Len(Sections[p]) \in Nat /\ Len(c) \in Nat
    BY <1>2
  <2>2. p = "pipeline" => Len(Sections[p]) = 6
    BY SectionsAre
  <2> HIDE DEF p, s, k, c
  <2>3. s \in Nat /\ s >= 1 /\ s <= Len(Sections[p])
    BY ONLY <2>1
  <2>4. k \in Nat /\ k >= 1 /\ k <= Len(c)
    BY ONLY <2>1
  <2>5. p = "pipeline" => Len(Sections[p]) = 6 /\ s <= 6
    BY ONLY <2>2, <2>3
  <2> QED BY <2>3, <2>4, <2>5
<1> HIDE DEF p, s, k
<1>3. /\ p = "pipeline" /\ s = 5 => Len(c) = 3
      /\ f \in Files
      /\ f = "live_model" <=> p = "pipeline" /\ s = 5 /\ k = 1
      /\ f = "live_scaler" <=> p = "pipeline" /\ s = 5 /\ k = 2
      /\ f = "live_model_features" <=> p = "pipeline" /\ s = 5 /\ k = 3
      /\ f = "edge_index" => \A g \in GraphFiles \ {"edge_index", "scaler"} : \E m \in 1..k - 1 : c[m] = g
  <2>1. \A m \in 1..Len(c) :
              /\ c[m] \in Files
              /\ c[m] = "live_model" <=> p = "pipeline" /\ s = 5 /\ m = 1
              /\ c[m] = "live_scaler" <=> p = "pipeline" /\ s = 5 /\ m = 2
              /\ c[m] = "live_model_features" <=> p = "pipeline" /\ s = 5 /\ m = 3
              /\ c[m] = "edge_index" => \A g \in GraphFiles \ {"edge_index", "scaler"} :
                                          \E l \in 1..m - 1 : c[l] = g
    BY <1>2, SectionHolds
  <2>2. p = "pipeline" /\ s = 5 => Len(c) = 3
    BY <1>2, SectionHolds
  <2>3. k \in 1..Len(c) /\ f = c[k]
    BY <1>2
  <2> HIDE DEF c, f
  <2> QED BY <2>1, <2>2, <2>3
<1>4. UNCHANGED <<files, runs, job, checkpoint, cut, mixed>> /\ Run' = Run
  BY DEF Load, Run
<1>5. /\ files \in [Files -> Int] /\ engine \in [Files -> Nat] /\ Run \in Nat
      /\ \A g \in Files : files[g] <= Run /\ engine[g] <= Run
  BY DEF FilesInv, FileTypes, Run
<1>6. \A m \in 1..k - 1 : engine[c[m]] # 0
  BY <1>1, <1>2 DEF GraphRead, k
<1>7. p = "pipeline" => Len(Sections[p]) = 6
  BY SectionsAre
<1>8. "graph" \notin mixed => \A g, h \in GraphFiles : files[g] = files[h]
  <2> SUFFICES ASSUME "graph" \notin mixed PROVE \A g, h \in GraphFiles : files[g] = files[h]
    OBVIOUS
  <2>1. job.script # "elliptic"
    BY <1>1, GroupIs DEF FilesInv, Noted, Names
  <2> QED BY <1>1, <2>1 DEF FilesInv, Noted, GraphWhole
<1>9. "live" \notin mixed =>
        Belong(files["live_model"], files["live_scaler"], files["live_model_features"])
  <2> SUFFICES ASSUME "live" \notin mixed
               PROVE  Belong(files["live_model"], files["live_scaler"], files["live_model_features"])
    OBVIOUS
  <2>1. job.script \notin {"live_v1", "live_v2"}
    BY <1>1, GroupIs DEF FilesInv, Noted, Names
  <2> QED BY <1>1, <2>1 DEF FilesInv, Noted, LiveWhole
<1>10. JobRuns' /\ Writing' /\ CheckpointIsBest' /\ GraphWhole' /\ LiveWhole'
  BY <1>4 DEF FilesInv, JobRuns, Writing, CheckpointIsBest, GraphWhole, LiveWhole, Belong
<1>11. Noted'
  BY <1>1, <1>4 DEF FilesInv, Noted
<1> HIDE DEF p, s, k, c, f
<1>12. LoadingType'
  <2>1. loading' = NextSection \/ loading' = NextFile
    BY LoadCases
  <2>2. CASE loading' = NotLoading
    BY <2>2 DEF LoadingType
  <2>3. CASE s # Len(Sections[p]) /\ loading' = [program |-> p, section |-> s + 1, file |-> 1]
    <3>1. s + 1 \in 1..Len(Sections[p]) /\ s + 1 \in Nat
      BY <1>2, <2>3
    <3>2. 1 \in 1..Len(Sections[p][s + 1])
      <4>1. Len(Sections[p][s + 1]) \in Nat \ {0}
        BY <1>2, <3>1, SectionHolds
      <4> QED BY <4>1
    <3> QED BY <1>2, <2>3, <3>1, <3>2 DEF LoadingType, Current
  <2>4. CASE k # Len(c) /\ loading' = [program |-> p, section |-> s, file |-> k + 1]
    <3>1. k + 1 \in 1..Len(c) /\ k + 1 \in Nat /\ s \in Nat
      BY <1>2, <2>4
    <3>2. Current' = c
      BY <2>4 DEF Current, c
    <3> QED BY <1>2, <2>4, <3>1, <3>2 DEF LoadingType
  <2> QED BY <1>2, <2>1, <2>2, <2>3, <2>4
<1>13. CASE files[f] > 0 /\ engine' = [engine EXCEPT ![f] = files[f]] /\ loading' = NextFile
  <2>1. /\ engine' \in [Files -> Nat] /\ engine'[f] = files[f] /\ engine'[f] # 0
        /\ \A g \in Files \ {f} : engine'[g] = engine[g]
        /\ \A g \in Files : engine'[g] <= Run
        /\ \A g \in Files : engine[g] # 0 => engine'[g] # 0
    <3>1. files[f] \in Nat
      BY <1>3, <1>5, <1>13
    <3>2. engine'[f] = files[f] /\ \A g \in Files \ {f} : engine'[g] = engine[g]
      BY <1>3, <1>5, <1>13
    <3> QED BY <1>3, <1>5, <1>13, <3>1, <3>2
  <2>2. FileTypes'
    BY <1>4, <2>1 DEF FilesInv, FileTypes
  <2>3. GraphRead'
    <3>1. ASSUME "graph" \notin mixed, NEW g \in GraphFiles
          PROVE  engine'[g] \in {0, files[g]}
      <4>1. engine[g] \in {0, files[g]}
        BY <1>1, <3>1 DEF GraphRead
      <4> QED BY <2>1, <4>1, FilesKnown
    <3>2. ASSUME engine'["edge_index"] # 0, NEW g \in GraphFiles \ {"edge_index", "scaler"}
          PROVE  engine'[g] # 0
      <4>1. CASE f = "edge_index"
        <5>1. PICK m \in 1..k - 1 : c[m] = g
          BY <1>3, <4>1
        <5>2. engine[g] # 0
          BY <1>6, <5>1
        <5> QED BY <2>1, <5>2, FilesKnown
      <4>2. CASE f # "edge_index"
        <5>1. engine["edge_index"] # 0
          BY <2>1, <3>2, <4>2, FilesKnown
        <5> QED BY <1>1, <2>1, <5>1, FilesKnown DEF GraphRead
      <4> QED BY <4>1, <4>2
    <3>3. ASSUME loading' # NotLoading, NEW m \in 1..loading'.file - 1 PROVE engine'[Current'[m]] # 0
      <4>1. CASE loading' = NextSection
        <5>1. loading'.file = 1
          BY <1>2, <3>3, <4>1
        <5> QED BY <3>3, <5>1
      <4>2. CASE loading' # NextSection
        <5>1. loading' = [program |-> p, section |-> s, file |-> k + 1]
          BY <1>2, <1>13, <4>2
        <5>2. Current' = c /\ m \in 1..k
          BY <1>2, <3>3, <5>1 DEF Current, c
        <5>3. CASE m = k
          BY <2>1, <5>2, <5>3 DEF f
        <5>4. CASE m # k
          <6>1. m \in 1..k - 1 /\ m \in 1..Len(c)
            BY <1>2, <5>2, <5>4
          <6>2. c[m] \in Files
            BY <1>2, <6>1, SectionHolds DEF c
          <6> QED BY <1>6, <2>1, <5>2, <6>1, <6>2
        <5> QED BY <5>3, <5>4
      <4> QED BY <4>1, <4>2
    <3>4. "graph" \notin mixed =>
            \A g, h \in GraphFiles : engine'[g] # 0 /\ engine'[h] # 0 => engine'[g] = engine'[h]
      BY <1>8, <3>1
    <3> QED BY <1>4, <3>1, <3>2, <3>3, <3>4 DEF GraphRead
  <2>4. LiveRead'
    <3> SUFFICES ASSUME "live" \notin mixed
                 PROVE  /\ ~Ahead' => LiveLoaded'
                        /\ Ahead' /\ (loading'.section < 5 \/ loading'.file = 1) => NoLiveModel'
                        /\ Ahead' /\ loading'.section = 5 /\ loading'.file > 1 =>
                             /\ engine'["live_model"] > 0 /\ engine'["live_model"] = files'["live_model"]
                             /\ engine'["live_scaler"] = IF loading'.file = 2 THEN 0 ELSE engine'["live_model"]
                             /\ engine'["live_model_features"] = 0
      BY <1>4 DEF LiveRead
    <3>1. CASE p = "pipeline" /\ s = 5
      <4>1. k \in {1, 2, 3} /\ Ahead
        <5>1. k \in {1, 2, 3}
          <6>1. Len(c) = 3 /\ k \in Nat /\ k >= 1 /\ k <= Len(c)
            BY <1>0, <1>3, <3>1
          <6> QED BY ONLY <6>1
        <5> QED BY <1>1, <3>1, <5>1 DEF Ahead, p, s
      <4>2. CASE k = 1
        <5>1. NoLiveModel /\ f = "live_model"
          BY <1>1, <1>3, <3>1, <4>1, <4>2 DEF LiveRead, k
        <5>2. loading' = [program |-> p, section |-> s, file |-> 2]
          <6>1. k # Len(c) /\ k + 1 = 2
            BY <1>3, <3>1, <4>2
          <6> QED BY <1>2, <1>13, <6>1
        <5>3. /\ engine'["live_model"] > 0 /\ engine'["live_model"] = files["live_model"]
              /\ engine'["live_scaler"] = 0 /\ engine'["live_model_features"] = 0
          BY <1>13, <2>1, <5>1, FilesKnown DEF NoLiveModel, LiveFiles
        <5>4. Ahead' /\ loading'.section = 5 /\ loading'.file = 2
          BY <1>2, <3>1, <5>2 DEF Ahead, NotLoading
        <5> QED BY <1>4, <5>3, <5>4
      <4>3. CASE k = 2
        <5>1. /\ f = "live_scaler" /\ engine["live_model"] > 0 /\ engine["live_model"] = files["live_model"]
              /\ engine["live_model_features"] = 0
          BY <1>1, <1>3, <3>1, <4>1, <4>3 DEF LiveRead, k, s
        <5>2. loading' = [program |-> p, section |-> s, file |-> 3]
          <6>1. k # Len(c) /\ k + 1 = 3
            BY <1>3, <3>1, <4>3
          <6> QED BY <1>2, <1>13, <6>1
        <5>3. /\ engine'["live_model"] > 0 /\ engine'["live_model"] = files["live_model"]
              /\ engine'["live_scaler"] = files["live_scaler"] /\ engine'["live_model_features"] = 0
          BY <2>1, <5>1, FilesKnown DEF LiveFiles
        <5>4. Ahead' /\ loading'.section = 5 /\ loading'.file = 3
          BY <1>2, <3>1, <5>2 DEF Ahead, NotLoading
        <5>5. files["live_scaler"] = files["live_model"]
          BY <1>9 DEF Belong
        <5> QED BY <1>4, <5>3, <5>4, <5>5
      <4>4. CASE k = 3
        <5>1. /\ f = "live_model_features" /\ engine["live_model"] > 0
              /\ engine["live_model"] = files["live_model"] /\ engine["live_scaler"] = engine["live_model"]
          BY <1>1, <1>3, <3>1, <4>1, <4>4 DEF LiveRead, k, s
        <5>2. loading' = [program |-> p, section |-> 6, file |-> 1]
          <6>1. k = Len(c) /\ s # Len(Sections[p]) /\ s + 1 = 6
            <7>1. Len(c) = 3 /\ Len(Sections[p]) = 6
              BY <1>0, <1>3, <3>1
            <7> QED BY <3>1, <4>4, <7>1
          <6> QED BY <1>2, <1>13, <6>1
        <5>3. ~Ahead'
          BY <5>2 DEF Ahead
        <5>4. /\ engine'["live_model"] = files["live_model"] /\ engine'["live_scaler"] = files["live_model"]
              /\ engine'["live_model_features"] = files["live_model_features"] /\ files["live_model"] > 0
              /\ files["live_model_features"] > 0
          BY <1>13, <2>1, <5>1, FilesKnown DEF LiveFiles
        <5>5. LiveLoaded'
          BY <1>4, <1>9, <5>4 DEF LiveLoaded, Belong
        <5> QED BY <5>3, <5>5
      <4> QED BY <4>1, <4>2, <4>3, <4>4
    <3>2. CASE ~(p = "pipeline" /\ s = 5)
      <4>1. \A g \in LiveFiles : engine'[g] = engine[g]
        BY <1>3, <2>1, <3>2, FilesKnown DEF LiveFiles
      <4>2. (NoLiveModel => NoLiveModel') /\ (LiveLoaded => LiveLoaded')
        BY <1>4, <4>1 DEF NoLiveModel, LiveLoaded, LiveFiles
      <4>3. NoLiveModel' => LiveLoaded'
        BY DEF LiveLoaded
      <4>4. CASE p = "pipeline" /\ s < 5
        <5>1. NoLiveModel
          <6>1. Ahead /\ loading.section < 5
            BY <1>0, <1>1, <4>4 DEF Ahead, p, s
          <6> QED BY <1>1, <6>1 DEF LiveRead
        <5>2. loading'.section # 5 \/ loading'.file = 1
          <6>1. s # 5 /\ s # Len(Sections[p])
            BY <1>0, <4>4
          <6> QED BY <1>2, <1>13, <6>1
        <5>3. ~(loading'.section = 5 /\ loading'.file > 1)
          BY <5>2
        <5> QED BY <4>2, <4>3, <5>1, <5>3
      <4>5. CASE p # "pipeline" \/ s > 5
        <5>1. ~Ahead
          BY <1>2, <4>5 DEF Ahead, p, s
        <5>2. ~Ahead'
          BY <1>2, <1>7, <1>13, <4>5 DEF Ahead
        <5> QED BY <1>1, <4>2, <5>1, <5>2 DEF LiveRead
      <4> QED BY <1>2, <3>2, <4>4, <4>5
    <3> QED BY <3>1, <3>2
  <2> QED BY <1>10, <1>11, <1>12, <2>2, <2>3, <2>4 DEF FilesInv
<1>14. CASE /\ engine' = engine
            /\ loading' = NextSection \/ (f = "live_model_features" /\ loading' = NextFile)
            /\ f \in {"live_scaler", "live_model_features"} /\ "live" \notin mixed =>
                 files[f] <= 0 \/ Missing
  <2>1. loading' = NextSection
    BY <1>2, <1>3, <1>14
  <2>2. FileTypes'
    BY <1>4, <1>14 DEF FilesInv, FileTypes
  <2>3. GraphRead'
    <3>1. loading' # NotLoading => loading'.file = 1
      BY <1>2, <2>1
    <3>2. loading' # NotLoading => \A m \in 1..loading'.file - 1 : FALSE
      BY <3>1
    <3> QED BY <1>1, <1>4, <1>14, <3>2 DEF GraphRead
  <2>4. LiveRead'
    <3> SUFFICES ASSUME "live" \notin mixed
                 PROVE  /\ ~Ahead' => LiveLoaded'
                        /\ Ahead' => NoLiveModel' /\ ~(loading'.section = 5 /\ loading'.file > 1)
      BY <1>4 DEF LiveRead
    <3>0. (NoLiveModel => NoLiveModel') /\ (LiveLoaded => LiveLoaded') /\ (NoLiveModel' => LiveLoaded')
      BY <1>4, <1>14 DEF NoLiveModel, LiveLoaded
    <3>1. CASE p = "pipeline" /\ s = 5 /\ k = 1
      <4>1. NoLiveModel
        BY <1>1, <3>1 DEF LiveRead, Ahead, p, s, k
      <4>2. ~Ahead'
        BY <1>2, <1>7, <2>1, <3>1 DEF Ahead
      <4> QED BY <3>0, <4>1, <4>2
    <3>2. CASE p = "pipeline" /\ s = 5 /\ k # 1
      <4>1. ~Ahead'
        BY <1>2, <1>7, <2>1, <3>2 DEF Ahead
      <4>2. ~Missing /\ k \in {2, 3} /\ Ahead
        <5>1. ~Missing
          BY <3>2 DEF Missing, k
        <5>2. k \in {2, 3}
          <6>1. Len(c) = 3 /\ k \in Nat /\ k >= 1 /\ k <= Len(c) /\ k # 1
            BY <1>0, <1>3, <3>2
          <6> QED BY ONLY <6>1
        <5> QED BY <1>1, <3>2, <5>1, <5>2 DEF Ahead, p, s
      <4>3. /\ engine["live_model"] > 0 /\ engine["live_model"] = files["live_model"]
            /\ engine["live_scaler"] = IF k = 2 THEN 0 ELSE engine["live_model"]
            /\ engine["live_model_features"] = 0
        BY <1>1, <1>2, <3>2, <4>2 DEF LiveRead, s, k
      <4>4. k = 3 /\ files["live_model_features"] <= 0
        <5>1. f \in {"live_scaler", "live_model_features"} /\ files[f] <= 0
          BY <1>3, <1>14, <3>2, <4>2
        <5>2. files["live_scaler"] = files["live_model"]
          BY <1>9 DEF Belong
        <5>3. f # "live_scaler"
          <6>1. files["live_model"] \in Int
            BY <1>5, FilesKnown DEF LiveFiles
          <6> QED BY <4>3, <5>1, <5>2, <6>1
        <5> QED BY <1>3, <5>1, <5>3
      <4>5. runs[files["live_model"]].script = "live_v1"
        <5>1. files["live_model"] > 0 /\ files["live_model"] \in Int /\ ~(files["live_model_features"] = files["live_model"])
          BY <1>5, <4>3, <4>4, FilesKnown DEF LiveFiles
        <5> QED BY <1>9, <5>1 DEF Belong
      <4>6. LiveLoaded
        <5>1. engine["live_model"] \in Nat
          BY <1>5, FilesKnown DEF LiveFiles
        <5> QED BY <4>3, <4>4, <4>5, <5>1 DEF LiveLoaded
      <4> QED BY <3>0, <4>1, <4>6
    <3>3. CASE p = "pipeline" /\ s < 5
      <4>1. NoLiveModel
        <5>1. Ahead /\ loading.section < 5
          BY <1>0, <1>1, <3>3 DEF Ahead, p, s
        <5> QED BY <1>1, <5>1 DEF LiveRead
      <4>2. loading'.section # 5 \/ loading'.file = 1
        <5>1. s # 5 /\ s # Len(Sections[p])
          BY <1>0, <3>3
        <5> QED BY <1>2, <2>1, <5>1
      <4>3. ~(loading'.section = 5 /\ loading'.file > 1)
        BY <4>2
      <4> QED BY <3>0, <4>1, <4>3
    <3>4. CASE p # "pipeline" \/ s > 5
      <4>1. ~Ahead
        BY <1>2, <3>4 DEF Ahead, p, s
      <4>2. ~Ahead'
        BY <1>2, <1>7, <2>1, <3>4 DEF Ahead
      <4> QED BY <1>1, <3>0, <4>1, <4>2 DEF LiveRead
    <3> QED BY <1>2, <3>1, <3>2, <3>3, <3>4
  <2> QED BY <1>10, <1>11, <1>12, <2>2, <2>3, <2>4 DEF FilesInv
<1>15. f = Current[loading.file]
  BY <1>2 DEF f, k
<1> QED BY <1>13, <1>14, <1>15, LoadCases

LEMMA FilesStep == FilesInv /\ [NextFiles]_fileVars => FilesInv'
<1> SUFFICES ASSUME FilesInv, [NextFiles]_fileVars PROVE FilesInv'
  OBVIOUS
<1>1. CASE \E s \in Scripts : Start(s)
  BY <1>1, StartStep
<1>2. CASE Write
  BY <1>2, WriteStep
<1>3. CASE TrainingEnds
  BY <1>3, TrainingEndsStep
<1>4. CASE Crash
  BY <1>4, CrashStep
<1>5. CASE \E f1 \in F1s : Epoch(f1)
  BY <1>5, EpochStep
<1>6. CASE \E p \in Programs : Begin(p)
  BY <1>6, BeginStep
<1>7. CASE Load
  BY <1>7, LoadStep
<1>8. CASE UNCHANGED fileVars
  <2>1. UNCHANGED <<files, runs, job, checkpoint, engine, loading, cut, mixed>> /\ Run' = Run
    BY <1>8 DEF fileVars, Run
  <2>2. LoadingType' /\ GraphRead' /\ LiveRead'
    BY <2>1, ReadKept
  <2>3. FileTypes' /\ JobRuns' /\ CheckpointIsBest' /\ Writing' /\ Noted'
    BY <2>1 DEF FilesInv, FileTypes, JobRuns, CheckpointIsBest, Writing, Noted
  <2>4. GraphWhole' /\ LiveWhole'
    BY <2>1 DEF FilesInv, GraphWhole, LiveWhole, Belong
  <2> QED BY <2>2, <2>3, <2>4 DEF FilesInv
<1> QED BY <1>1, <1>2, <1>3, <1>4, <1>5, <1>6, <1>7, <1>8 DEF NextFiles

LEMMA FilesAlways == FilesSpec => []FilesInv
BY FilesInit, FilesStep, PTL DEF FilesSpec

\* From the first epoch of a run on, gnn_best.pt is the first of its epochs
\* with the highest F1, wherever that run or an older one was stopped.
THEOREM CheckpointIsBestAlways == FilesSpec => []CheckpointIsBest
<1>1. FilesInv => CheckpointIsBest
  BY DEF FilesInv
<1> QED BY <1>1, FilesAlways, PTL

LEMMA LoadedBelongs ==
  ASSUME FilesInv, loading = NotLoading
  PROVE  /\ "graph" \notin mixed /\ GraphAnswers => \A f \in GraphFiles \ {"scaler"} : engine[f] = engine["X_train"]
         /\ "graph" \notin mixed /\ engine["scaler"] # 0 /\ GraphAnswers => engine["scaler"] = engine["X_train"]
         /\ "live" \notin mixed => LiveLoaded
<1>1. ASSUME "graph" \notin mixed, GraphAnswers, NEW f \in GraphFiles, engine[f] # 0 \/ f # "scaler"
      PROVE  engine[f] = engine["X_train"]
  <2>1. engine["edge_index"] # 0
    BY <1>1 DEF GraphAnswers, Absent
  <2>2. engine[f] # 0
    BY <1>1, <2>1 DEF FilesInv, GraphRead
  <2>3. engine["X_train"] # 0 /\ "X_train" \in GraphFiles
    BY <2>1 DEF FilesInv, GraphRead, GraphFiles
  <2> QED BY <1>1, <2>2, <2>3 DEF FilesInv, GraphRead
<1>2. "scaler" \in GraphFiles
  BY DEF GraphFiles
<1>3. "live" \notin mixed => LiveLoaded
  BY DEF FilesInv, LiveRead, Ahead
<1> QED BY <1>1, <1>2, <1>3

\* A program that was not started over half a save, or during one, scores
\* with files that belong together, for any number of runs of the scripts,
\* stopped anywhere.
THEOREM LoadedTogetherAlways == FilesSpec => []LoadedTogether
<1>1. FilesInv => LoadedTogether
  <2> SUFFICES ASSUME FilesInv, loading = NotLoading
      PROVE  /\ "graph" \notin mixed /\ GraphAnswers =>
                  \A i \in DOMAIN Arrays : engine[Arrays[i]] = engine["X_train"]
             /\ "graph" \notin mixed /\ engine["scaler"] # Absent /\ GraphAnswers =>
                  engine["scaler"] = engine["X_train"]
             /\ "live" \notin mixed =>
                  /\ engine["live_model"] = engine["live_scaler"]
                  /\ engine["live_model_features"] <= engine["live_model"]
    BY DEF LoadedTogether
  <2>1. \A i \in DOMAIN Arrays : Arrays[i] \in GraphFiles \ {"scaler"}
    BY ArraysAre
  <2>2. LiveLoaded => /\ engine["live_model"] = engine["live_scaler"]
                      /\ engine["live_model_features"] <= engine["live_model"]
    BY DEF LiveLoaded, NoLiveModel, LiveFiles
  <2> QED BY <2>1, <2>2, LoadedBelongs DEF Absent
<1> QED BY <1>1, FilesAlways, PTL

\* The live model such a program loaded answers, but for one of the first
\* trainer beside a list of features of the second.
THEOREM LiveModelAnswersAlways == FilesSpec => []LiveModelAnswers
<1>1. FilesInv => LiveModelAnswers
  <2> SUFFICES ASSUME FilesInv, loading = NotLoading, "live" \notin mixed, engine["live_model"] # Absent
      PROVE  LiveAnswers <=> ~(/\ runs[engine["live_model"]].script = "live_v1"
                               /\ engine["live_model_features"] # Absent)
    BY DEF LiveModelAnswers
  <2>1. LiveLoaded /\ ~NoLiveModel
    BY LoadedBelongs DEF NoLiveModel, LiveFiles, Absent
  <2>2. /\ engine["live_model"] # Absent /\ engine["live_scaler"] = engine["live_model"]
        /\ runs[engine["live_model"]].script \in {"live_v1", "live_v2"}
        /\ runs[engine["live_model"]].script = "live_v2" => engine["live_model_features"] # Absent
    BY <2>1 DEF LiveLoaded, Absent
  <2> QED BY <2>2 DEF LiveAnswers, Width
<1> QED BY <1>1, FilesAlways, PTL

-----------------------------------------------------------------------------
(* The inputs of the scanner, the scores, the backtest and the Elliptic    *)
(* graph, and the database: what every reachable state holds.              *)

Opcode == Bytes \cup {"selfdestruct"}
RawRow == [id : Ids, step : 1..LastTestStep]
RawClass == [id : Ids, class : {1, 2}]
Sample == [score : RawScores, label : {0, 1}]

InputTypes ==
  /\ contract \in Seq(Lines) /\ code \in Seq(Opcode)
  /\ rows \in Seq(RawRow) /\ classes \subseteq RawClass
  /\ IsFiniteSet(edges) /\ edges \subseteq Ids \X Ids
  /\ samples \in Seq(Sample)

\* A transaction is once in the features file, which is in the order of the
\* time steps, and has at most one class.
RowsInOrder ==
  \A i, j \in DOMAIN rows : i < j => rows[i].id # rows[j].id /\ rows[i].step <= rows[j].step
ClassesOfRows ==
  \A c \in classes :
    /\ \E i \in DOMAIN rows : rows[i].id = c.id
    /\ \A d \in classes : c.id = d.id => c = d

SavedRow == [id : Nat, severity : Severities, created : Nat, acknowledged : BOOLEAN]

DatabaseTypes ==
  /\ server.id \in Nat /\ now \in Nat /\ starts \in Nat
  /\ IsFiniteSet(alerts) /\ alerts \subseteq SavedRow
  /\ session \in [Processes -> [step : {"none", "added", "flushed"}, severity : Severities \cup {"none"},
                                id : Nat, created : Nat]]
  /\ \A p \in Processes : session[p].step # "none" => session[p].severity \in Severities
  /\ available \in [Processes -> BOOLEAN]
  /\ server \in [up : BOOLEAN, id : Nat]

\* What save_alert returned is in the table.
ReturnedIsSaved == \A id \in returned : \E r \in alerts : r.id = id

StandaloneInv == InputTypes /\ RowsInOrder /\ ClassesOfRows /\ DatabaseTypes /\ ReturnedIsSaved

\* Empty inputs and an empty database.
LEMMA StandaloneInit == Init => StandaloneInv
<1> SUFFICES ASSUME Init PROVE StandaloneInv
  OBVIOUS
<1>1. code \in Seq(Opcode)
  <2>1. code = <<>> \/ code = <<"selfdestruct">>
    BY DEF Init
  <2>4. <<>> \in Seq(Opcode)
    OBVIOUS
  <2>2. <<"selfdestruct">> \in Seq({"selfdestruct"})
    OBVIOUS
  <2>3. <<"selfdestruct">> \in Seq(Opcode)
    BY <2>2, SeqOfSubset, {"selfdestruct"} \subseteq Opcode DEF Opcode
  <2> QED BY <2>1, <2>3, <2>4
<1>2. IsFiniteSet(edges)
  BY FS_EmptySet DEF Init
<1>3. InputTypes /\ RowsInOrder /\ ClassesOfRows
  BY <1>1, <1>2 DEF Init, InputTypes, RowsInOrder, ClassesOfRows
<1>4. DatabaseTypes /\ ReturnedIsSaved
  BY FS_EmptySet DEF Init, InitDatabase, DatabaseTypes, ReturnedIsSaved, NoSession
<1> QED BY <1>3, <1>4 DEF StandaloneInv

\* One step per kind of input and per database operation.
LEMMA StandaloneStep == StandaloneInv /\ [Next]_vars => StandaloneInv'
<1> SUFFICES ASSUME StandaloneInv, [Next]_vars PROVE StandaloneInv'
  OBVIOUS
<1> USE DEF StandaloneInv
<1>1. ASSUME dbvars' = dbvars PROVE (DatabaseTypes /\ ReturnedIsSaved)'
  BY <1>1 DEF dbvars, DatabaseTypes, ReturnedIsSaved
<1>2. ASSUME NEW line \in Lines, AddLine(line) PROVE StandaloneInv'
  BY <1>1, <1>2 DEF AddLine, InputTypes, RowsInOrder, ClassesOfRows
<1>3. ASSUME NEW byte \in Bytes, AddByte(byte) PROVE StandaloneInv'
  BY <1>1, <1>3 DEF AddByte, InputTypes, RowsInOrder, ClassesOfRows, Opcode
<1>4. ASSUME NEW id \in Ids, NEW step \in 1..LastTestStep, NEW class \in 0..2, AddRow(id, step, class)
      PROVE  StandaloneInv'
  <2> DEFINE row == [id |-> id, step |-> step]
  <2>1. rows' = Append(rows, row) /\ row \in RawRow /\ rows \in Seq(RawRow)
    BY <1>4 DEF AddRow, RawRow, InputTypes
  <2>2. /\ rows' \in Seq(RawRow) /\ Len(rows') = Len(rows) + 1 /\ rows'[Len(rows) + 1] = row
        /\ \A i \in 1..Len(rows) : rows'[i] = rows[i]
    BY <2>1, AppendAt
  <2>3. DOMAIN rows = 1..Len(rows) /\ DOMAIN rows' = 1..(Len(rows) + 1) /\ Len(rows) \in Nat
    BY <2>1, <2>2
  <2>4. classes' = IF class = 0 THEN classes ELSE classes \cup {[id |-> id, class |-> class]}
    BY <1>4 DEF AddRow
  <2>5. InputTypes'
    BY <1>4, <2>2, <2>4 DEF AddRow, InputTypes, RawClass
  <2>6. \A i \in DOMAIN rows : rows[i].id # id /\ rows[i].step <= step
    BY <1>4 DEF AddRow
  <2>7. RowsInOrder'
    BY <2>2, <2>3, <2>6 DEF RowsInOrder
  <2>8. ClassesOfRows'
    <3>1. ASSUME NEW c \in classes' PROVE \E i \in DOMAIN rows' : rows'[i].id = c.id
      BY <2>2, <2>3, <2>4, <3>1 DEF ClassesOfRows
    <3>2. \A c \in classes : c.id # id
      BY <2>6 DEF ClassesOfRows
    <3>3. ASSUME NEW c \in classes', NEW d \in classes', c.id = d.id PROVE c = d
      BY <2>4, <3>2, <3>3 DEF ClassesOfRows
    <3> QED BY <3>1, <3>3 DEF ClassesOfRows
  <2> QED BY <1>1, <1>4, <2>5, <2>7, <2>8 DEF AddRow
<1>5. ASSUME NEW from \in Ids, NEW to \in Ids, AddEdge(from, to) PROVE StandaloneInv'
  <2>1. IsFiniteSet(edges \cup {<<from, to>>})
    BY FS_AddElement DEF InputTypes
  <2> QED BY <1>1, <1>5, <2>1 DEF AddEdge, InputTypes, RowsInOrder, ClassesOfRows
<1>6. ASSUME NEW score \in RawScores, NEW class \in {0, 1}, AddSample(score, class) PROVE StandaloneInv'
  BY <1>1, <1>6 DEF AddSample, InputTypes, RowsInOrder, ClassesOfRows, Sample
<1>7. CASE part = "database" /\ NextDatabase /\ UNCHANGED <<part, inputs>>
  <2>1. (InputTypes /\ RowsInOrder /\ ClassesOfRows)'
    BY <1>7 DEF inputs, InputTypes, RowsInOrder, ClassesOfRows
  <2> USE DEF DatabaseTypes
  <2>2. ASSUME NEW p \in Processes, InitDb(p) PROVE (DatabaseTypes /\ ReturnedIsSaved)'
    BY <2>2 DEF InitDb, NoSession, ReturnedIsSaved
  <2>3. ASSUME NEW p \in Processes, Flush(p) PROVE (DatabaseTypes /\ ReturnedIsSaved)'
    BY <2>3 DEF Flush, NoSession, ReturnedIsSaved
  <2>4. ASSUME NEW p \in Processes, Commit(p) PROVE (DatabaseTypes /\ ReturnedIsSaved)'
    <3> DEFINE row == Row(session[p], FALSE)
    <3>1. row \in SavedRow /\ row.id = session[p].id
      <4>1. session[p].step = "flushed"
        BY <2>4 DEF Commit
      <4>2. session[p].severity \in Severities
        BY <4>1
      <4> QED BY <4>2 DEF Row, SavedRow
    <3>2. IsFiniteSet(alerts \cup {row})
      BY FS_AddElement
    <3>3. alerts' \in {alerts, alerts \cup {row}} /\ returned' \in {returned, returned \cup {session[p].id}}
      BY <2>4 DEF Commit
    <3>4. returned' # returned => alerts' = alerts \cup {row}
      BY <2>4 DEF Commit
    <3>5. ReturnedIsSaved'
      BY <3>1, <3>3, <3>4 DEF ReturnedIsSaved
    <3>6. IsFiniteSet(alerts') /\ alerts' \subseteq SavedRow
      BY <3>1, <3>2, <3>3
    <3>7. /\ session' = [session EXCEPT ![p] = NoSession]
          /\ UNCHANGED <<server, available, starts, now>>
      BY <2>4 DEF Commit
    <3> QED BY <3>5, <3>6, <3>7 DEF NoSession
  <2>5. ASSUME NEW p \in Processes, NEW severity \in Severities, SaveAlert(p, severity)
        PROVE  (DatabaseTypes /\ ReturnedIsSaved)'
    BY <2>5 DEF SaveAlert, ReturnedIsSaved
  <2>6. ASSUME NEW p \in Processes, NEW severity \in Severities, AcknowledgeAlertDb(p, severity)
        PROVE  (DatabaseTypes /\ ReturnedIsSaved)'
    <3> DEFINE unseen == {r \in alerts : r.severity = severity /\ ~r.acknowledged}
               ack == [r \in alerts |-> IF r \in unseen THEN Row(r, TRUE) ELSE r]
    <3>1. alerts' = (alerts \ unseen) \cup {Row(r, TRUE) : r \in unseen}
      BY <2>6 DEF AcknowledgeAlertDb
    <3>2. alerts' = {ack[r] : r \in alerts}
      BY <3>1
    <3>3. \A r \in alerts : ack[r] \in SavedRow /\ ack[r].id = r.id
      BY DEF SavedRow, Row
    <3>4. ack \in [alerts -> {ack[r] : r \in alerts}]
      OBVIOUS
    <3> HIDE DEF ack, unseen
    <3>5. ack \in Surjection(alerts, alerts')
      BY <3>2, <3>4 DEF Surjection
    <3>6. IsFiniteSet(alerts') /\ alerts' \subseteq SavedRow
      BY <3>2, <3>3, <3>5, FS_Surjection
    <3>7. returned' = returned
      BY <2>6 DEF AcknowledgeAlertDb
    <3>8. ReturnedIsSaved'
      BY <3>2, <3>3, <3>7 DEF ReturnedIsSaved
    <3> QED BY <2>6, <3>6, <3>8 DEF AcknowledgeAlertDb
  <2>7. ASSUME ServerFailsOrReturns PROVE (DatabaseTypes /\ ReturnedIsSaved)'
    <3>1. server' = [up |-> ~server.up, id |-> server.id]
      BY <2>7 DEF ServerFailsOrReturns
    <3> QED BY <2>7, <3>1 DEF ServerFailsOrReturns, ReturnedIsSaved
  <2>8. ASSUME Wait PROVE (DatabaseTypes /\ ReturnedIsSaved)'
    BY <2>8 DEF Wait, ReturnedIsSaved
  <2> QED BY <1>7, <2>1, <2>2, <2>3, <2>4, <2>5, <2>6, <2>7, <2>8 DEF NextDatabase
<1>8. CASE UNCHANGED vars
  BY <1>1, <1>8 DEF vars, inputs, InputTypes, RowsInOrder, ClassesOfRows
<1> QED BY <1>2, <1>3, <1>4, <1>5, <1>6, <1>7, <1>8 DEF Next

\* The inputs stay well formed and every returned row is in the table.
THEOREM StandaloneAlways == Spec => []StandaloneInv
BY StandaloneInit, StandaloneStep, PTL DEF Spec

\* A row that a reader is not shown is no newer than any row it is shown, and
\* a reader is shown as many as it asked for, whenever one is missing.
LEMMA RecentIsNewest ==
  ASSUME NEW rs, IsFiniteSet(rs), NEW shown \in Recent(rs), NEW r \in rs, r \notin shown
  PROVE  Cardinality(shown) = HistoryLimit /\ \A o \in shown : o.created >= r.created
<1>1. /\ shown \subseteq rs
      /\ Cardinality(shown) = IF Cardinality(rs) < HistoryLimit THEN Cardinality(rs) ELSE HistoryLimit
      /\ \A x \in shown, o \in rs \ shown : x.created >= o.created
  BY DEF Recent
<1>2. Cardinality(shown) # Cardinality(rs)
  BY <1>1, FS_Subset
<1> QED BY <1>1, <1>2

\* An alert whose id save_alert returned is in the table and in the history a
\* reader is shown, unless that is full of alerts no older: for any number of
\* rows, failures and restarts.
THEOREM ReturnedIsShownAlways == Spec => []ReturnedIsShown
<1>1. StandaloneInv => ReturnedIsShown
  BY RecentIsNewest DEF StandaloneInv, DatabaseTypes, ReturnedIsSaved, ReturnedIsShown
<1> QED BY <1>1, StandaloneAlways, PTL

-----------------------------------------------------------------------------
(* The Elliptic graph.  Kept is a recursive function: what it returns when *)
(* the indices kept follow each other.                                     *)

KeepStep(s, keep, i, v) == IF i \in keep THEN Append(v, s[i]) ELSE v

\* Kept, one row at a time.
LEMMA KeptUnfolds ==
  ASSUME NEW S, NEW s \in Seq(S), NEW keep
  PROVE  \E q : /\ Kept(s, keep) = q[Len(s)] /\ q[0] = <<>>
                /\ \A i \in 1..Len(s) : q[i] = KeepStep(s, keep, i, q[i - 1])
<1> DEFINE n == Len(s)
           W == Seq(S)
           body(f) == [i \in 0..n |->
             IF i = 0 THEN <<>> ELSE IF i \in keep THEN Append(f[i - 1], s[i]) ELSE f[i - 1]]
           d == [i \in Nat |-> [v \in W |-> IF i \in 1..n THEN KeepStep(s, keep, i, v) ELSE v]]
           q == CHOOSE f : f = body(f)
<1>1. Stepwise(d, W)
  <2>1. ASSUME NEW i \in Nat, NEW v \in W, i \in 1..n PROVE KeepStep(s, keep, i, v) \in W
    <3>1. s[i] \in S
      BY <2>1
    <3> QED BY <3>1 DEF KeepStep
  <2> HIDE DEF n, W
  <2> QED BY <2>1 DEF Stepwise
<1>2. PICK f \in [0..n -> W] : f[0] = <<>> /\ \A i \in 1..n : f[i] = d[i][f[i - 1]]
  <2> DEFINE z == <<>>
  <2>1. z \in W /\ n \in Nat
    OBVIOUS
  <2> HIDE DEF d, W, n, z
  <2>2. PICK f : RecursTo(f, n, W, z, d)
    BY <1>1, <2>1, RecursionUpTo
  <2> QED BY <2>2 DEF z, RecursTo
<1>3. f = body(f)
  <2>1. ASSUME NEW i \in 1..n PROVE f[i] = KeepStep(s, keep, i, f[i - 1])
    <3>1. i \in Nat /\ i - 1 \in 0..n
      OBVIOUS
    <3>2. f[i - 1] \in W
      BY <3>1
    <3> QED BY <1>2, <3>1, <3>2
  <2>2. \A i \in 0..n : i = 0 \/ i \in 1..n
    OBVIOUS
  <2>3. \A i \in 0..n : f[i] = body(f)[i]
    <3> HIDE DEF n
    <3> QED BY <1>2, <2>1, <2>2 DEF KeepStep
  <2> QED BY <2>3
<1>4. q = body(q)
  <2> HIDE DEF body
  <2> QED BY <1>3
<1>5. Kept(s, keep) = q[n]
  BY DEF Kept
<1> HIDE DEF q
<1>6. q[0] = <<>> /\ \A i \in 1..n : q[i] = KeepStep(s, keep, i, q[i - 1])
  <2>1. 0 \in 0..n /\ \A i \in 1..n : i \in 0..n /\ i # 0
    OBVIOUS
  <2> QED BY <1>4, <2>1 DEF KeepStep
<1> QED BY <1>5, <1>6

\* How many of the indices from a to b are at most i.
UpTo(a, b, i) == IF i < a THEN 0 ELSE IF i <= b THEN i - a + 1 ELSE b - a + 1

\* The rows from a to b, kept in their order.
LEMMA KeptIs ==
  ASSUME NEW S, NEW s \in Seq(S), NEW keep
  PROVE  /\ Kept(s, keep) \in Seq(S)
         /\ \A a \in 1..Len(s) + 1 : \A b \in a - 1..Len(s) :
              (\A i \in 1..Len(s) : i \in keep <=> i \in a..b) =>
                /\ Len(Kept(s, keep)) = b - a + 1
                /\ \A x \in 1..b - a + 1 : Kept(s, keep)[x] = s[a - 1 + x]
<1>1. PICK q : /\ Kept(s, keep) = q[Len(s)] /\ q[0] = <<>>
               /\ \A i \in 1..Len(s) : q[i] = KeepStep(s, keep, i, q[i - 1])
  BY KeptUnfolds
<1> DEFINE n == Len(s)
           I == {i \in Nat : i <= n => q[i] \in Seq(S)}
<1>2. n \in Nat /\ \A i \in 1..n : s[i] \in S
  OBVIOUS
<1> HIDE DEF n
<1>3. I = Nat
  <2>1. 0 \in I
    <3>1. <<>> \in Seq(S)
      OBVIOUS
    <3> QED BY <1>1, <3>1
  <2>2. ASSUME NEW i \in I PROVE i + 1 \in I
    <3> SUFFICES ASSUME i + 1 <= n PROVE q[i + 1] \in Seq(S)
      OBVIOUS
    <3>1. i + 1 \in 1..n /\ (i + 1) - 1 = i /\ q[i] \in Seq(S)
      BY <1>2
    <3>2. q[i + 1] = KeepStep(s, keep, i + 1, q[i])
      BY <1>1, <3>1 DEF n
    <3> QED BY <1>2, <3>1, <3>2 DEF KeepStep
  <2> HIDE DEF I
  <2>3. I \in SUBSET Nat
    BY DEF I
  <2> QED BY <2>1, <2>2, <2>3, NatSetInduction
<1>4. \A i \in 0..n : q[i] \in Seq(S)
  BY <1>3
<1>5. ASSUME NEW a \in 1..n + 1, NEW b \in a - 1..n, \A i \in 1..n : i \in keep <=> i \in a..b
      PROVE  Len(q[n]) = b - a + 1 /\ \A x \in 1..b - a + 1 : q[n][x] = s[a - 1 + x]
  <2> DEFINE Right(i) == Len(q[i]) = UpTo(a, b, i) /\ \A x \in 1..UpTo(a, b, i) : q[i][x] = s[a - 1 + x]
             J == {i \in Nat : i <= n => Right(i)}
  <2>0. a \in Nat /\ b \in Int /\ a >= 1 /\ b >= a - 1 /\ b <= n
    BY <1>2
  <2>1. 0 \in J
    BY <1>1, <2>0 DEF UpTo
  <2>2. ASSUME NEW i \in J PROVE i + 1 \in J
    <3> SUFFICES ASSUME i + 1 <= n PROVE Right(i + 1)
      OBVIOUS
    <3> DEFINE w == q[i]  m == UpTo(a, b, i)
    <3>1. i + 1 \in 1..n /\ (i + 1) - 1 = i /\ w \in Seq(S) /\ i \in Nat
      BY <1>2, <1>4
    <3>2. Len(w) = m /\ \A x \in 1..m : w[x] = s[a - 1 + x]
      <4>1. i <= n /\ i \in J
        BY <1>2, <3>1
      <4> QED BY <4>1
    <3>3. q[i + 1] = KeepStep(s, keep, i + 1, w)
      BY <1>1, <3>1 DEF n
    <3> HIDE DEF w
    <3>4. CASE i + 1 \in a..b
      <4>1. q[i + 1] = Append(w, s[i + 1])
        BY <1>5, <3>1, <3>3, <3>4 DEF KeepStep
      <4>2. m = i + 1 - a /\ UpTo(a, b, i + 1) = m + 1 /\ m \in Nat /\ a - 1 + (m + 1) = i + 1
        BY <2>0, <3>1, <3>4 DEF UpTo
      <4> HIDE DEF m
      <4>3. s[i + 1] \in S
        BY <1>2, <3>1
      <4>4. /\ Len(q[i + 1]) = m + 1 /\ q[i + 1][m + 1] = s[i + 1]
            /\ \A x \in 1..m : q[i + 1][x] = w[x]
        BY <3>1, <3>2, <4>1, <4>3, AppendAt
      <4>5. ASSUME NEW x \in 1..m + 1 PROVE q[i + 1][x] = s[a - 1 + x]
        <5>1. x = m + 1 \/ x \in 1..m
          BY <4>2
        <5> QED BY <3>2, <4>2, <4>4, <5>1
      <4> QED BY <4>2, <4>4, <4>5
    <3>5. CASE i + 1 \notin a..b
      <4>1. q[i + 1] = w
        BY <1>5, <3>1, <3>3, <3>5 DEF KeepStep
      <4>2. UpTo(a, b, i + 1) = m
        BY <2>0, <3>1, <3>5 DEF UpTo
      <4> QED BY <3>2, <4>1, <4>2
    <3> QED BY <3>4, <3>5
  <2>3. J = Nat
    <3> HIDE DEF J
    <3>1. J \in SUBSET Nat
      BY DEF J
    <3> QED BY <2>1, <2>2, <3>1, NatSetInduction
  <2>4. Right(n)
    BY <1>2, <2>3
  <2>5. UpTo(a, b, n) = b - a + 1
    BY <1>2, <2>0 DEF UpTo
  <2> QED BY <2>4, <2>5
<1> QED BY <1>1, <1>2, <1>4, <1>5 DEF n

\* What an interval of rows keeps is a subsequence.
LEMMA KeptInterval ==
  ASSUME NEW S, NEW s \in Seq(S), NEW keep, NEW a \in 1..Len(s) + 1, NEW b \in a - 1..Len(s),
         \A i \in 1..Len(s) : i \in keep <=> i \in a..b
  PROVE  /\ Len(Kept(s, keep)) = b - a + 1
         /\ \A x \in 1..b - a + 1 : Kept(s, keep)[x] = s[a - 1 + x]
<1>1. a \in 1..Len(s) + 1 /\ b \in a - 1..Len(s) /\ \A i \in 1..Len(s) : i \in keep <=> i \in a..b
  OBVIOUS
<1>2. \A x \in 1..Len(s) + 1 : \A y \in x - 1..Len(s) :
        (\A i \in 1..Len(s) : i \in keep <=> i \in x..y) =>
          /\ Len(Kept(s, keep)) = y - x + 1
          /\ \A i \in 1..y - x + 1 : Kept(s, keep)[i] = s[x - 1 + i]
  BY KeptIs
<1> QED BY <1>1, <1>2

RowRecord == [id : Ids, step : 1..LastTestStep, label : 0..2]
ClassesOf(id) == {c.class : c \in {x \in classes : x.id = id}}

\* What merge_labels makes of the rows.
LEMMA MergedIs ==
  ASSUME InputTypes, ClassesOfRows
  PROVE  LET table == Merged(rows, classes) IN
         /\ table \in Seq(RowRecord) /\ Len(table) = Len(rows) /\ DOMAIN table = 1..Len(rows)
         /\ \A i \in 1..Len(rows) : table[i].id = rows[i].id /\ table[i].step = rows[i].step
         /\ \A i \in 1..Len(rows) : HasLabel(table[i]) => ClassesOf(table[i].id) = {table[i].label}
<1> DEFINE known(i) == {c \in classes : c.id = rows[i].id}
           class(i) == IF known(i) = {} THEN 0 ELSE (CHOOSE c \in known(i) : TRUE).class
           table == Merged(rows, classes)
           n == Len(rows)
<1>1. table = [i \in 1..n |-> [id |-> rows[i].id, step |-> rows[i].step, label |-> class(i)]]
  BY DEF InputTypes, Merged
<1>2. ASSUME NEW i \in 1..n
      PROVE  /\ class(i) \in 0..2
             /\ class(i) \in {1, 2} => ClassesOf(rows[i].id) = {class(i)}
  <2>1. CASE known(i) = {}
    BY <2>1
  <2>2. CASE known(i) # {}
    <3>1. PICK c \in known(i) : class(i) = c.class
      BY <2>2
    <3>2. c \in classes /\ c.id = rows[i].id /\ \A x \in classes : x.id = c.id => x = c
      BY <3>1 DEF ClassesOfRows
    <3>3. {x \in classes : x.id = rows[i].id} = {c}
      BY <3>2
    <3>4. ClassesOf(rows[i].id) = {c.class} /\ c.class \in {1, 2}
      BY <3>2, <3>3 DEF ClassesOf, InputTypes, RawClass
    <3> HIDE DEF class
    <3>5. class(i) \in 0..2
      BY <3>1, <3>4
    <3> QED BY <3>1, <3>4, <3>5
  <2> QED BY <2>1, <2>2
<1>3. n \in Nat /\ \A i \in 1..n : rows[i].id \in Ids /\ rows[i].step \in 1..LastTestStep
  <2>1. \A i \in 1..n : rows[i] \in RawRow
    BY DEF InputTypes
  <2> QED BY <2>1 DEF InputTypes, RawRow
<1> HIDE DEF class, n
<1>4. \A i \in 1..n : table[i] \in RowRecord
  BY <1>1, <1>2, <1>3 DEF RowRecord
<1>5. /\ DOMAIN table = 1..n
      /\ \A i \in 1..n : table[i].id = rows[i].id /\ table[i].step = rows[i].step /\ table[i].label = class(i)
  BY <1>1
<1> HIDE DEF table
<1>6. table \in [1..n -> RowRecord]
  BY <1>1, <1>4
<1>7. table \in Seq(RowRecord) /\ Len(table) = n
  BY <1>3, <1>6
<1>8. \A i \in 1..n : HasLabel(table[i]) => ClassesOf(table[i].id) = {table[i].label}
  BY <1>2, <1>5 DEF HasLabel
<1> QED BY <1>5, <1>7, <1>8 DEF table, n

\* In a table in the order of the time steps the training rows come first.
LEMMA TrainComesFirst ==
  ASSUME NEW table \in Seq(RowRecord),
         \A i, j \in 1..Len(table) : i < j => table[i].step <= table[j].step
  PROVE  \E k \in 0..Len(table) : \A i \in 1..Len(table) : i <= k <=> table[i].step <= LastTrainStep
<1> DEFINE n == Len(table)
           S == {0} \cup {i \in 1..n : table[i].step <= LastTrainStep}
<1>1. n \in Nat /\ \A i \in 1..n : table[i].step \in Int
  <2>1. \A i \in 1..n : table[i] \in RowRecord
    OBVIOUS
  <2> QED BY <2>1, StepAssumption DEF RowRecord
<1> HIDE DEF n
<1>2. S \in SUBSET (0..n) /\ 0 \in S
  BY <1>1
<1>3. IsFiniteSet(S) /\ S \in SUBSET Int /\ S # {}
  <2>1. IsFiniteSet(0..n)
    <3>1. 0 \in Int /\ n \in Int
      BY <1>1
    <3> QED BY <3>1, FS_Interval
  <2> QED BY <1>1, <1>2, <2>1, FS_Subset
<1>4. Max(S) \in S /\ \A o \in S : Max(S) >= o
  <2> HIDE DEF S
  <2> QED BY <1>3, MinMaxIn
<1> DEFINE k == Max(S)
<1> HIDE DEF k
<1>5. k \in S /\ \A o \in S : k >= o
  BY <1>4 DEF k
<1>6. k \in 0..n /\ \A i \in 1..n : i <= k <=> table[i].step <= LastTrainStep
  <2>1. k \in 0..n /\ k \in Int
    BY <1>1, <1>2, <1>5
  <2>2. ASSUME NEW i \in 1..n, i <= k PROVE table[i].step <= LastTrainStep
    <3>1. k \in 1..n /\ table[k].step <= LastTrainStep
      BY <1>5, <2>1, <2>2
    <3>2. i = k \/ i < k
      BY <2>1, <2>2
    <3>3. table[i].step <= table[k].step
      BY <1>1, <3>1, <3>2 DEF n
    <3> QED BY <1>1, <3>1, <3>3, StepAssumption
  <2>3. ASSUME NEW i \in 1..n, table[i].step <= LastTrainStep PROVE i <= k
    BY <1>5, <2>3
  <2> QED BY <2>1, <2>2, <2>3
<1> QED BY <1>6 DEF n

\* Stacking the training and the test rows of such a table gives it back.
LEMMA StackedIs ==
  ASSUME NEW table \in Seq(RowRecord), NEW k \in 0..Len(table),
         \A i \in 1..Len(table) : i <= k <=> table[i].step <= LastTrainStep
  PROVE  /\ Len(Train(table)) = k
         /\ Len(Train(table) \o Test(table)) = Len(table)
         /\ DOMAIN (Train(table) \o Test(table)) = 1..Len(table)
         /\ \A i \in 1..Len(table) : (Train(table) \o Test(table))[i] = table[i]
<1> DEFINE n == Len(table)
           first == {i \in DOMAIN table : table[i].step \in 1..LastTrainStep}
           rest == {i \in DOMAIN table : table[i].step \in (LastTrainStep + 1)..LastTestStep}
           u == Train(table)
           v == Test(table)
<1>1. n \in Nat /\ DOMAIN table = 1..n /\ \A i \in 1..n : table[i].step \in 1..LastTestStep
  <2>1. \A i \in 1..n : table[i] \in RowRecord
    OBVIOUS
  <2> QED BY <2>1 DEF RowRecord
<1>2. u = Kept(table, first) /\ v = Kept(table, rest)
  BY DEF Train, Test, OfSteps
<1>3. LastTrainStep \in Nat /\ LastTestStep \in Nat /\ k \in Nat /\ k <= n
  BY <1>1, StepAssumption
<1>4. ASSUME NEW i \in 1..n PROVE (i \in first <=> i \in 1..k) /\ (i \in rest <=> i \in k + 1..n)
  BY <1>1, <1>3
<1> HIDE DEF first, rest
<1>5. u \in Seq(RowRecord) /\ v \in Seq(RowRecord)
  BY <1>2, KeptIs
<1>6. Len(u) = k /\ \A x \in 1..k : u[x] = table[x]
  <2>1. 1 \in 1..n + 1 /\ k \in 1 - 1..n /\ k - 1 + 1 = k
    BY <1>1, <1>3
  <2>2. /\ Len(Kept(table, first)) = k - 1 + 1
        /\ \A x \in 1..k - 1 + 1 : Kept(table, first)[x] = table[1 - 1 + x]
    BY <1>4, <2>1, KeptInterval
  <2>3. \A x \in 1..k : 1 - 1 + x = x
    BY <1>3
  <2> QED BY <1>2, <2>1, <2>2, <2>3
<1>7. Len(v) = n - k /\ \A x \in 1..n - k : v[x] = table[k + x]
  <2> DEFINE a == k + 1
  <2>1. a \in 1..n + 1 /\ n \in a - 1..n /\ n - a + 1 = n - k /\ \A i \in 1..n : i \in rest <=> i \in a..n
    BY <1>1, <1>3, <1>4
  <2>2. \A x \in 1..n - k : a - 1 + x = k + x
    BY <1>1, <1>3
  <2> HIDE DEF a
  <2>3. Len(Kept(table, rest)) = n - a + 1 /\ \A x \in 1..n - a + 1 : Kept(table, rest)[x] = table[a - 1 + x]
    BY <2>1, KeptInterval
  <2> QED BY <1>2, <2>1, <2>2, <2>3
<1> HIDE DEF u, v
<1>8. /\ u \o v \in Seq(RowRecord) /\ Len(u \o v) = k + (n - k)
      /\ \A i \in 1..k : (u \o v)[i] = u[i]
      /\ \A i \in 1..n - k : (u \o v)[k + i] = v[i]
  BY <1>5, <1>6, <1>7, ConcatAt
<1>9. \A i \in 1..n : (u \o v)[i] = table[i]
  <2> SUFFICES ASSUME NEW i \in 1..n PROVE (u \o v)[i] = table[i]
    OBVIOUS
  <2>1. CASE i \in 1..k
    BY <1>6, <1>8, <2>1
  <2>2. CASE i \notin 1..k
    <3>1. i - k \in 1..n - k /\ k + (i - k) = i
      BY <1>1, <1>3, <2>2
    <3> QED BY <1>7, <1>8, <3>1
  <2> QED BY <2>1, <2>2
<1>10. k + (n - k) = n
  BY <1>1, <1>3
<1>11. DOMAIN (u \o v) = 1..n
  BY <1>8, <1>10
<1> QED BY <1>6, <1>8, <1>9, <1>10, <1>11 DEF u, v, n

\* The number of an edge's end is the place of its transaction.
LEMMA IndexIs ==
  ASSUME NEW table \in Seq(RowRecord), \A i, j \in 1..Len(table) : i < j => table[i].id # table[j].id,
         NEW i \in 1..Len(table)
  PROVE  Index(table, table[i].id) = i
<1> DEFINE at == {j \in DOMAIN table : table[j].id = table[i].id}
<1>1. at = {i}
  <2>1. Len(table) \in Nat /\ DOMAIN table = 1..Len(table)
    OBVIOUS
  <2> QED BY <2>1
<1>2. Index(table, table[i].id) = CHOOSE j \in DOMAIN table : table[j].id = table[i].id
  BY DEF Index
<1>3. (CHOOSE j \in DOMAIN table : table[j].id = table[i].id) \in at
  BY <1>1
<1> QED BY <1>1, <1>2, <1>3

\* The two numberings of the nodes agree, for any file in the order of its
\* time steps, any labels and any edges.
THEOREM EdgesJoinTheirTransactionsAlways == Spec => []EdgesJoinTheirTransactions
<1>1. ASSUME InputTypes, RowsInOrder, ClassesOfRows PROVE EdgesJoinTheirTransactions
  <2> DEFINE table == Merged(rows, classes)
             n == Len(rows)
             numbered == Train(table) \o Test(table)
             data == Data(rows, classes, edges)
  <2>1. /\ table \in Seq(RowRecord) /\ Len(table) = n /\ DOMAIN table = 1..n
        /\ \A i \in 1..n : table[i].id = rows[i].id /\ table[i].step = rows[i].step
        /\ \A i \in 1..n : HasLabel(table[i]) => ClassesOf(table[i].id) = {table[i].label}
    BY <1>1, MergedIs
  <2>2. n \in Nat /\ DOMAIN rows = 1..n
    BY <1>1 DEF InputTypes
  <2> HIDE DEF table
  <2>3. \A i, j \in 1..n : i < j => table[i].id # table[j].id /\ table[i].step <= table[j].step
    BY <1>1, <2>1, <2>2 DEF RowsInOrder
  <2>4. \A i \in 1..n : table[i].step \in Int
    <3>1. \A i \in 1..n : table[i] \in RowRecord
      BY <2>1
    <3> QED BY <3>1, StepAssumption DEF RowRecord
  <2> HIDE DEF n
  <2>5. PICK k \in 0..n : \A i \in 1..n : i <= k <=> table[i].step <= LastTrainStep
    BY <2>1, <2>3, TrainComesFirst
  <2>6. /\ Len(Train(table)) = k /\ Len(numbered) = n /\ DOMAIN numbered = 1..n
        /\ \A i \in 1..n : numbered[i] = table[i]
    BY <2>1, <2>5, StackedIs
  <2> DEFINE D == [ids |-> [i \in DOMAIN numbered |-> numbered[i].id],
                   steps |-> [i \in DOMAIN numbered |-> numbered[i].step],
                   y |-> [i \in DOMAIN numbered |-> Label(numbered[i])],
                   train |-> {i \in 1..Len(Train(table)) : HasLabel(numbered[i])},
                   test |-> {i \in (Len(Train(table)) + 1)..Len(numbered) : HasLabel(numbered[i])},
                   edges |-> EdgeIndex(table, edges)]
  <2>7. data = D
    BY DEF Data, table
  <2>8. /\ data.ids = [i \in 1..n |-> numbered[i].id] /\ data.steps = [i \in 1..n |-> numbered[i].step]
        /\ data.y = [i \in 1..n |-> Label(numbered[i])]
        /\ data.train = {i \in 1..k : HasLabel(numbered[i])} /\ data.test = {i \in k + 1..n : HasLabel(numbered[i])}
        /\ data.edges = EdgeIndex(table, edges)
    BY <2>6, <2>7
  <2> HIDE DEF D, data, numbered
  <2>9. /\ DOMAIN data.ids = 1..n
        /\ \A i \in 1..n : /\ data.ids[i] = table[i].id /\ data.steps[i] = table[i].step
                           /\ data.y[i] = Label(table[i])
    BY <2>6, <2>8
  <2>10. /\ data.train \subseteq 1..k /\ data.test \subseteq k + 1..n
         /\ \A i \in data.train \cup data.test : i \in 1..n /\ HasLabel(table[i])
    BY <2>2, <2>5, <2>6, <2>8
  <2>11. Len(data.ids) = n
    BY <2>2, <2>8
  <2> DEFINE ids == {table[i].id : i \in 1..n}
             kept == {e \in edges : e[1] \in ids /\ e[2] \in ids}
  <2>12. data.edges = {<<Index(table, e[1]), Index(table, e[2])>> : e \in kept}
    BY <2>1, <2>8 DEF EdgeIndex
  <2>13. \A id \in ids : Index(table, id) \in 1..n /\ data.ids[Index(table, id)] = id
    <3> SUFFICES ASSUME NEW i \in 1..n
                 PROVE  Index(table, table[i].id) \in 1..n /\ data.ids[Index(table, table[i].id)] = table[i].id
      OBVIOUS
    <3>1. Index(table, table[i].id) = i
      BY <2>1, <2>3, IndexIs
    <3> QED BY <2>9, <3>1
  <2>14. \A e \in data.edges : e[1] \in 1..n /\ e[2] \in 1..n
    BY <2>12, <2>13
  <2>15. {<<data.ids[e[1]], data.ids[e[2]]>> : e \in data.edges} = kept
    <3>1. \A e \in kept : e = <<e[1], e[2]>>
      BY <1>1 DEF InputTypes
    <3>2. ASSUME NEW f \in kept
          PROVE  LET e == <<Index(table, f[1]), Index(table, f[2])>> IN <<data.ids[e[1]], data.ids[e[2]]>> = f
      <4>1. f[1] \in ids /\ f[2] \in ids
        OBVIOUS
      <4> HIDE DEF kept, ids
      <4>2. <<data.ids[Index(table, f[1])], data.ids[Index(table, f[2])]>> = f
        BY <2>13, <3>1, <4>1
      <4> QED BY <4>2
    <3> HIDE DEF kept
    <3>3. ASSUME NEW e \in data.edges PROVE <<data.ids[e[1]], data.ids[e[2]]>> \in kept
      <4>1. PICK f \in kept : e = <<Index(table, f[1]), Index(table, f[2])>>
        BY <2>12
      <4> QED BY <3>2, <4>1
    <3>4. ASSUME NEW f \in kept PROVE \E e \in data.edges : f = <<data.ids[e[1]], data.ids[e[2]]>>
      <4>1. <<Index(table, f[1]), Index(table, f[2])>> \in data.edges
        BY <2>12
      <4> QED BY <3>2, <4>1
    <3> QED BY <3>3, <3>4
  <2>16. kept = {e \in edges : \A i \in 1..2 : \E j \in DOMAIN rows : rows[j].id = e[i]}
    <3>1. \A id : id \in ids <=> \E j \in DOMAIN rows : rows[j].id = id
      BY <2>1, <2>2
    <3>2. \A e \in edges : (e[1] \in ids /\ e[2] \in ids) <=> \A i \in 1..2 : e[i] \in ids
      <4>1. 1..2 = {1, 2}
        OBVIOUS
      <4> QED BY <4>1
    <3> HIDE DEF ids
    <3> QED BY <3>1, <3>2
  <2>17. ASSUME NEW i \in data.train \cup data.test
         PROVE  ClassesOf(data.ids[i]) = {IF data.y[i] = 1 THEN 1 ELSE 2}
    <3>1. i \in 1..n /\ HasLabel(table[i])
      BY <2>10
    <3>2. ClassesOf(table[i].id) = {table[i].label}
      BY <2>1, <3>1
    <3>3. table[i].label = IF Label(table[i]) = 1 THEN 1 ELSE 2
      BY <3>1 DEF HasLabel, Label
    <3> QED BY <2>9, <3>1, <3>2, <3>3
  <2>18. ASSUME NEW i \in data.train, NEW j \in data.test PROVE data.steps[i] < data.steps[j]
    <3>1. i \in 1..n /\ j \in 1..n /\ i <= k /\ ~ (j <= k)
      BY <2>2, <2>5, <2>10
    <3>2. table[i].step <= LastTrainStep /\ ~ (table[j].step <= LastTrainStep)
      BY <2>5, <3>1
    <3> QED BY <2>4, <2>9, <3>1, <3>2, StepAssumption
  <2> HIDE DEF kept, ids
  <2> QED BY <2>11, <2>14, <2>15, <2>16, <2>17, <2>18 DEF EdgesJoinTheirTransactions, ClassesOf, data
<1>2. StandaloneInv => EdgesJoinTheirTransactions
  BY <1>1 DEF StandaloneInv
<1> QED BY <1>2, StandaloneAlways, PTL

-----------------------------------------------------------------------------
(* The backtest. *)

Counts == [tp : Nat, fp : Nat, tn : Nat, fn : Nat]

\* The samples a threshold decides one way, of one label.
Decided(ss, threshold, found, class) ==
  {i \in DOMAIN ss : (ss[i].score >= threshold) = found /\ ss[i].label = class}

\* The four counts of the backtest are sizes of four sets of samples.
LEMMA ConfusionIs ==
  ASSUME NEW ss \in Seq(Sample), NEW t \in Int
  PROVE  /\ \A found \in BOOLEAN, class \in {0, 1} : IsFiniteSet(Decided(ss, t, found, class))
         /\ Confusion(ss, t) \in Counts
         /\ Confusion(ss, t).fn = Cardinality(Decided(ss, t, FALSE, 1))
<1>1. IsFiniteSet(DOMAIN ss)
  BY FS_Interval
<1>2. ASSUME NEW found \in BOOLEAN, NEW class \in {0, 1}
      PROVE  /\ IsFiniteSet(Decided(ss, t, found, class))
             /\ Cardinality(Decided(ss, t, found, class)) \in Nat
  <2>1. Decided(ss, t, found, class) \in SUBSET (DOMAIN ss)
    BY DEF Decided
  <2> QED BY <1>1, <2>1, FS_Subset, FS_CardinalityType
<1> DEFINE tp == Cardinality(Decided(ss, t, TRUE, 1))  fp == Cardinality(Decided(ss, t, TRUE, 0))
           tn == Cardinality(Decided(ss, t, FALSE, 0))  fn == Cardinality(Decided(ss, t, FALSE, 1))
<1>3. Confusion(ss, t) = [tp |-> tp, fp |-> fp, tn |-> tn, fn |-> fn]
  BY DEF Confusion, Decided
<1>4. tp \in Nat /\ fp \in Nat /\ tn \in Nat /\ fn \in Nat
  BY <1>2
<1> HIDE DEF tp, fp, tn, fn
<1>5. Confusion(ss, t) \in Counts /\ Confusion(ss, t).fn = fn
  BY <1>3, <1>4 DEF Counts
<1> QED BY <1>2, <1>5 DEF fn

\* F1 is a number, without positives too.
LEMMA F1Type == ASSUME NEW c \in Counts PROVE F1(c) \in Int
<1> DEFINE den == 2 * c.tp + c.fp + c.fn
<1>1. c.tp \in Nat /\ c.fp \in Nat /\ c.fn \in Nat
  BY DEF Counts
<1>2. CASE c.tp = 0
  BY <1>2 DEF F1
<1>3. CASE c.tp # 0
  <2>1. den \in Nat /\ den > 0
    BY <1>1, <1>3
  <2>2. (2 * 10000 * c.tp) + (den \div 2) \in Nat
    BY <1>1, <2>1
  <2>3. F1(c) = ((2 * 10000 * c.tp) + (den \div 2)) \div den
    BY <1>3 DEF F1
  <2> HIDE DEF den
  <2> QED BY <2>1, <2>2, <2>3
<1> QED BY <1>2, <1>3

\* A lower threshold misses no sample that a higher one finds.
LEMMA LowerMissesFewer ==
  ASSUME NEW ss \in Seq(Sample), NEW t \in Int, NEW u \in Int, t <= u
  PROVE  Confusion(ss, t).fn <= Confusion(ss, u).fn
<1>1. Decided(ss, t, FALSE, 1) \in SUBSET Decided(ss, u, FALSE, 1)
  <2> SUFFICES ASSUME NEW i \in DOMAIN ss, (ss[i].score >= t) = FALSE, ss[i].label = 1
               PROVE  (ss[i].score >= u) = FALSE
    BY DEF Decided
  <2>1. ss[i] \in Sample
    OBVIOUS
  <2>2. ss[i].score \in Int
    BY <2>1, RawInputAssumption DEF Sample
  <2> QED BY <2>2
<1>2. IsFiniteSet(Decided(ss, u, FALSE, 1))
  BY ConfusionIs
<1>3. Cardinality(Decided(ss, t, FALSE, 1)) <= Cardinality(Decided(ss, u, FALSE, 1))
  BY <1>1, <1>2, FS_Subset
<1> QED BY <1>3, ConfusionIs

\* There are thresholds, finitely many.
LEMMA ThresholdsAre == Thresholds \subseteq Int /\ IsFiniteSet(Thresholds) /\ Thresholds # {}
<1> DEFINE g == [k \in 0..(Steps - 1) |-> 5 + (90 * k) \div (Steps - 1)]
<1>1. Steps \in Nat /\ Steps - 1 > 0
  BY SweepAssumption
<1>2. Thresholds = {g[k] : k \in 0..(Steps - 1)}
  BY DEF Thresholds
<1>3. \A k \in 0..(Steps - 1) : g[k] \in Int
  BY <1>1
<1>4. IsFiniteSet(0..(Steps - 1)) /\ 0 \in 0..(Steps - 1)
  BY <1>1, FS_Interval
<1> HIDE DEF g
<1>5. IsFiniteSet({g[k] : k \in 0..(Steps - 1)})
  BY <1>4, ImageFinite
<1> QED BY <1>2, <1>3, <1>4, <1>5

\* Best is a point of the sweep, none is better, and of those as good none has
\* a lower threshold.
LEMMA BestIsBest ==
  ASSUME NEW ss \in Seq(Sample)
  PROVE  LET best == Best(Sweep(ss)) IN
         /\ best \in Sweep(ss)
         /\ \A m \in Sweep(ss) : best.f1 >= m.f1
         /\ \A m \in Sweep(ss) : m.f1 = best.f1 => best.threshold <= m.threshold
<1> DEFINE e == [t \in Thresholds |-> Evaluated(ss, t)]
           higher == {p \in Thresholds \X Thresholds : e[p[1]].f1 >= e[p[2]].f1}
           lower == {p \in Thresholds \X Thresholds : p[1] <= p[2]}
           high == {t \in Thresholds : \A u \in Thresholds : e[t].f1 >= e[u].f1}
           worst == {m \in Sweep(ss) : \A o \in Sweep(ss) : m.f1 >= o.f1}
<1>1. \A t \in Thresholds : e[t].f1 \in Int /\ e[t].threshold = t /\ t \in Int
  <2> SUFFICES ASSUME NEW t \in Thresholds PROVE e[t].f1 \in Int /\ e[t].threshold = t /\ t \in Int
    OBVIOUS
  <2>1. t \in Int
    BY ThresholdsAre
  <2>2. F1(Confusion(ss, t)) \in Int
    BY <2>1, ConfusionIs, F1Type
  <2> QED BY <2>1, <2>2 DEF Evaluated
<1>2. Sweep(ss) = {e[t] : t \in Thresholds}
  BY DEF Sweep
<1> HIDE DEF e
<1>3. PICK t \in Thresholds : \A u \in Thresholds : <<t, u>> \in higher
  <2>1. \A x, y \in Thresholds : <<x, y>> \in higher \/ <<y, x>> \in higher
    BY <1>1
  <2>2. \A x, y, z \in Thresholds : <<x, y>> \in higher /\ <<y, z>> \in higher => <<x, z>> \in higher
    BY <1>1
  <2> HIDE DEF higher
  <2> QED BY <2>1, <2>2, ThresholdsAre, FirstExists
<1>4. t \in high /\ high \in SUBSET Thresholds
  BY <1>3
<1>5. IsFiniteSet(high) /\ high # {}
  BY <1>4, ThresholdsAre, FS_Subset
<1>6. PICK l \in high : \A u \in high : <<l, u>> \in lower
  <2>1. \A x, y \in high : <<x, y>> \in lower \/ <<y, x>> \in lower
    BY <1>1
  <2>2. \A x, y, z \in high : <<x, y>> \in lower /\ <<y, z>> \in lower => <<x, z>> \in lower
    BY <1>1
  <2> HIDE DEF lower, high
  <2> QED BY <1>5, <2>1, <2>2, FirstExists
<1>7. worst = {e[u] : u \in high}
  BY <1>2
<1>8. e[l] \in worst /\ \A o \in worst : e[l].threshold <= o.threshold
  <2>1. \A u \in high : e[u].threshold = u /\ l <= u
    BY <1>1, <1>4, <1>6
  <2> QED BY <1>7, <2>1
<1>9. Best(Sweep(ss)) = CHOOSE m \in worst : \A o \in worst : m.threshold <= o.threshold
  BY DEF Best
<1>10. /\ Best(Sweep(ss)) \in worst
       /\ \A o \in worst : Best(Sweep(ss)).threshold <= o.threshold
  <2> HIDE DEF worst
  <2> QED BY <1>8, <1>9
<1>11. \A m \in Sweep(ss) : m.f1 = Best(Sweep(ss)).f1 => m \in worst
  BY <1>10
<1> QED BY <1>10, <1>11

\* With the production threshold on the grid, as 0.5 is on a sweep of 19, the
\* recommended point is no worse than the production one, and of all points as
\* good it misses the fewest: for any scores and labels.
THEOREM BestBeatsProductionAlways ==
  ASSUME ProductionThreshold \in Thresholds
  PROVE  Spec => []BestBeatsProduction
<1>1. StandaloneInv => BestBeatsProduction
  <2> SUFFICES ASSUME samples \in Seq(Sample) PROVE BestBeatsProduction
    BY DEF StandaloneInv, InputTypes
  <2> DEFINE best == Best(Sweep(samples))
  <2>1. /\ best \in Sweep(samples)
        /\ \A m \in Sweep(samples) : best.f1 >= m.f1
        /\ \A m \in Sweep(samples) : m.f1 = best.f1 => best.threshold <= m.threshold
    BY BestIsBest
  <2>2. Evaluated(samples, ProductionThreshold) \in Sweep(samples)
    BY DEF Sweep
  <2> HIDE DEF best
  <2>3. PICK b \in Thresholds : best = Evaluated(samples, b)
    BY <2>1 DEF Sweep
  <2>4. ASSUME NEW m \in Sweep(samples), m.f1 = best.f1
        PROVE  m.confusion.fn >= best.confusion.fn
    <3>1. PICK t \in Thresholds : m = Evaluated(samples, t)
      BY DEF Sweep
    <3>2. m.threshold = t /\ m.confusion = Confusion(samples, t)
      BY <3>1 DEF Evaluated
    <3>3. best.threshold = b /\ best.confusion = Confusion(samples, b)
      BY <2>3 DEF Evaluated
    <3>4. b <= t /\ b \in Int /\ t \in Int
      BY <2>1, <2>4, <3>2, <3>3, ThresholdsAre
    <3>5. Confusion(samples, b).fn <= Confusion(samples, t).fn
      BY <3>4, LowerMissesFewer
    <3>6. Confusion(samples, b).fn \in Nat /\ Confusion(samples, t).fn \in Nat
      BY <3>4, ConfusionIs DEF Counts
    <3> QED BY <3>2, <3>3, <3>5, <3>6
  <2> QED BY <2>1, <2>2, <2>4 DEF BestBeatsProduction, best
<1> QED BY <1>1, StandaloneAlways, PTL

-----------------------------------------------------------------------------
(* The anomaly scores. *)

\* Scaling by a positive number keeps the order.
LEMMA Scaled ==
  ASSUME NEW a \in Int, NEW b \in Int, NEW d \in Nat, d > 0
  PROVE  a * d >= b * d <=> a >= b
OBVIOUS

\* The lowest and the highest raw score of a batch.
LEMMA LowAndHigh ==
  ASSUME NEW raw \in Seq(Int), raw # <<>>
  PROVE  /\ Min(Range(raw)) \in Range(raw) /\ \A i \in DOMAIN raw : raw[i] >= Min(Range(raw))
         /\ Max(Range(raw)) \in Range(raw) /\ \A i \in DOMAIN raw : raw[i] <= Max(Range(raw))
         /\ Range(raw) \subseteq Int /\ IsFiniteSet(Range(raw)) /\ \A i \in DOMAIN raw : raw[i] \in Range(raw)
<1> DEFINE S == Range(raw)
<1>1. S = {raw[i] : i \in DOMAIN raw} /\ DOMAIN raw = 1..Len(raw) /\ Len(raw) > 0
  BY DEF Range
<1>2. IsFiniteSet(S) /\ S # {} /\ S \subseteq Int
  <2>1. IsFiniteSet(DOMAIN raw)
    BY FS_Interval
  <2>2. IsFiniteSet({raw[i] : i \in DOMAIN raw})
    BY <2>1, ImageFinite
  <2> QED BY <1>1, <2>2
<1> HIDE DEF S
<1>3. /\ Min(S) \in S /\ \A o \in S : Min(S) <= o
      /\ Max(S) \in S /\ \A o \in S : Max(S) >= o
  BY <1>2, MinMaxIn
<1>4. \A i \in DOMAIN raw : raw[i] \in S /\ raw[i] \in Int
  BY <1>1
<1> QED BY <1>2, <1>3, <1>4 DEF S

\* Scores of one batch compare as the raw scores do.
LEMMA ScoresCompare ==
  ASSUME NEW raw \in Seq(Int), raw # <<>>
  PROVE  LET s == ScoreSamples(raw) IN
         /\ DOMAIN s = DOMAIN raw
         /\ \A i, j \in DOMAIN raw : AtLeast(s[i], s[j]) <=> raw[i] >= raw[j]
<1> DEFINE low == Min(Range(raw))
           high == Max(Range(raw))
           s == ScoreSamples(raw)
<1>1. /\ low \in Int /\ high \in Int /\ low <= high
      /\ \A i \in DOMAIN raw : raw[i] \in Int /\ low <= raw[i] /\ raw[i] <= high
  <2>1. Range(raw) # {} /\ DOMAIN raw # {}
    BY LowAndHigh
  <2> QED BY <2>1, LowAndHigh
<1> HIDE DEF low, high
<1>2. DOMAIN s = DOMAIN raw
  BY DEF ScoreSamples
<1>3. SUFFICES ASSUME NEW i \in DOMAIN raw, NEW j \in DOMAIN raw
               PROVE  AtLeast(s[i], s[j]) <=> raw[i] >= raw[j]
  BY <1>2
<1>4. CASE high > low
  <2>1. s[i] = [num |-> raw[i] - low, den |-> high - low] /\ s[j] = [num |-> raw[j] - low, den |-> high - low]
    BY <1>4 DEF ScoreSamples, low, high
  <2>2. AtLeast(s[i], s[j]) <=> (raw[i] - low) * (high - low) >= (raw[j] - low) * (high - low)
    BY <2>1 DEF AtLeast
  <2>3. /\ raw[i] - low \in Int /\ raw[j] - low \in Int
        /\ high - low \in Nat /\ high - low > 0
    BY <1>1, <1>4
  <2>4. AtLeast(s[i], s[j]) <=> raw[i] - low >= raw[j] - low
    BY <2>2, <2>3, Scaled
  <2> QED BY <1>1, <2>4
<1>5. CASE ~ (high > low)
  <2>1. s[i] = [num |-> 1, den |-> 2] /\ s[j] = [num |-> 1, den |-> 2]
    BY <1>5 DEF ScoreSamples, low, high
  <2>2. AtLeast(s[i], s[j])
    BY <2>1 DEF AtLeast
  <2>3. raw[i] = raw[j]
    BY <1>1, <1>5
  <2> QED BY <1>1, <2>2, <2>3
<1> QED BY <1>4, <1>5

\* More flagged samples hold at least as many fraudulent ones.
LEMMA HitsGrow ==
  ASSUME NEW n \in Nat, NEW f \in SUBSET (1..n), NEW g \in SUBSET f, NEW labels
  PROVE  Hits(g, labels) <= Hits(f, labels)
<1>1. IsFiniteSet(f)
  <2>1. IsFiniteSet(1..n)
    BY FS_Interval
  <2> QED BY <2>1, FS_Subset
<1>2. IsFiniteSet({i \in f : labels[i] = 1}) /\ {i \in g : labels[i] = 1} \in SUBSET {i \in f : labels[i] = 1}
  <2>1. {i \in f : labels[i] = 1} \in SUBSET f
    OBVIOUS
  <2> QED BY <1>1, <2>1, FS_Subset
<1>3. Cardinality({i \in g : labels[i] = 1}) <= Cardinality({i \in f : labels[i] = 1})
  BY <1>2, FS_Subset
<1> QED BY <1>3 DEF Hits

\* Where a cut of the raw scores is precise enough, the tuned threshold flags a
\* superset of what the cut flags and is precise enough too.
LEMMA TunedIsLowest ==
  ASSUME NEW raw \in Seq(Int), raw # <<>>, NEW labels, NEW j \in DOMAIN raw,
         Precise({i \in DOMAIN raw : raw[i] >= raw[j]}, labels)
  PROVE  LET found == Predict(raw, TuneThreshold(raw, labels)) IN
         /\ Precise(found, labels)
         /\ {i \in DOMAIN raw : raw[i] >= raw[j]} \subseteq found
         /\ found \subseteq DOMAIN raw
<1> DEFINE s == ScoreSamples(raw)
           precise == {t \in Range(s) : Precise(Predict(raw, t), labels)}
           order == {p \in precise \X precise : AtLeast(p[2], p[1])}
           tuned == CHOOSE t \in precise : \A u \in precise : AtLeast(u, t)
<1>1. DOMAIN s = DOMAIN raw /\ \A i, k \in DOMAIN raw : AtLeast(s[i], s[k]) <=> raw[i] >= raw[k]
  BY ScoresCompare
<1>2. \A k \in DOMAIN raw : Predict(raw, s[k]) = {i \in DOMAIN raw : raw[i] >= raw[k]}
  BY <1>1 DEF Predict
<1>3. \A t \in Range(s) : \E k \in DOMAIN raw : t = s[k]
  BY <1>1 DEF Range
<1>4. s[j] \in precise
  BY <1>1, <1>2 DEF Range
<1>5. \A i \in DOMAIN raw : raw[i] \in Int
  OBVIOUS
<1> HIDE DEF s
<1>6. IsFiniteSet(precise)
  <2>1. Range(s) = {s[k] : k \in DOMAIN raw}
    BY <1>1 DEF Range
  <2>2. IsFiniteSet(DOMAIN raw)
    BY FS_Interval
  <2>3. IsFiniteSet(Range(s))
    BY <2>1, <2>2, ImageFinite
  <2> QED BY <2>3, FS_Subset
<1>7. \A t \in precise : t \in Range(s)
  OBVIOUS
<1>8. \A x, y \in precise : <<x, y>> \in order \/ <<y, x>> \in order
  <2> SUFFICES ASSUME NEW x \in precise, NEW y \in precise PROVE AtLeast(y, x) \/ AtLeast(x, y)
    OBVIOUS
  <2>1. PICK k \in DOMAIN raw : x = s[k]
    BY <1>3
  <2>2. PICK l \in DOMAIN raw : y = s[l]
    BY <1>3
  <2> QED BY <1>1, <1>5, <2>1, <2>2
<1>9. \A x, y, z \in precise : <<x, y>> \in order /\ <<y, z>> \in order => <<x, z>> \in order
  <2> SUFFICES ASSUME NEW x \in precise, NEW y \in precise, NEW z \in precise, AtLeast(y, x), AtLeast(z, y)
               PROVE  AtLeast(z, x)
    OBVIOUS
  <2>1. PICK k \in DOMAIN raw : x = s[k]
    BY <1>3
  <2>2. PICK l \in DOMAIN raw : y = s[l]
    BY <1>3
  <2>3. PICK m \in DOMAIN raw : z = s[m]
    BY <1>3
  <2> QED BY <1>1, <1>5, <2>1, <2>2, <2>3
<1>10. \E t \in precise : \A u \in precise : AtLeast(u, t)
  <2>1. \E t \in precise : \A u \in precise : <<t, u>> \in order
    <3> HIDE DEF precise, order
    <3> QED BY <1>4, <1>6, <1>8, <1>9, FirstExists
  <2> QED BY <2>1
<1>11. tuned \in precise /\ \A u \in precise : AtLeast(u, tuned)
  <2> HIDE DEF precise
  <2> QED BY <1>10
<1>12. TuneThreshold(raw, labels) = tuned
  BY <1>4 DEF TuneThreshold, s
<1> HIDE DEF tuned
<1>13. PICK k \in DOMAIN raw : tuned = s[k]
  BY <1>3, <1>11
<1>14. raw[j] >= raw[k]
  BY <1>1, <1>4, <1>11, <1>13
<1>15. {i \in DOMAIN raw : raw[i] >= raw[j]} \subseteq {i \in DOMAIN raw : raw[i] >= raw[k]}
  BY <1>5, <1>14
<1> QED BY <1>2, <1>11, <1>12, <1>13, <1>15

\* The raw scores of the samples.
LEMMA RawIs ==
  ASSUME samples \in Seq(Sample)
  PROVE  /\ Raw \in Seq(Int) /\ DOMAIN Raw = 1..Len(samples) /\ Len(samples) \in Nat
         /\ samples # <<>> => Raw # <<>>
<1>1. \A i \in DOMAIN samples : samples[i].score \in Int
  <2> SUFFICES ASSUME NEW i \in DOMAIN samples PROVE samples[i].score \in Int
    OBVIOUS
  <2>1. samples[i] \in Sample
    OBVIOUS
  <2> QED BY <2>1, RawInputAssumption DEF Sample
<1> QED BY <1>1 DEF Raw

\* The tuned isolation forest finds as many illicit samples as any precise
\* enough cut of the raw scores, for any batch.
THEOREM TunedFindsMostAlways == Spec => []TunedFindsMost
<1>1. StandaloneInv => TunedFindsMost
  <2> SUFFICES ASSUME samples \in Seq(Sample), samples # <<>>, NEW cutoff \in Range(Raw),
                      Precise({i \in DOMAIN Raw : Raw[i] >= cutoff}, Labels)
               PROVE  LET found == Predict(Raw, TuneThreshold(Raw, Labels)) IN
                      /\ Precise(found, Labels)
                      /\ Hits({i \in DOMAIN Raw : Raw[i] >= cutoff}, Labels) <= Hits(found, Labels)
    BY DEF StandaloneInv, InputTypes, TunedFindsMost
  <2>1. Raw \in Seq(Int) /\ Raw # <<>> /\ DOMAIN Raw = 1..Len(samples) /\ Len(samples) \in Nat
    BY RawIs
  <2>2. PICK j \in DOMAIN Raw : cutoff = Raw[j]
    BY DEF Range
  <2> DEFINE found == Predict(Raw, TuneThreshold(Raw, Labels))
             above == {i \in DOMAIN Raw : Raw[i] >= Raw[j]}
  <2>3. Precise(found, Labels) /\ above \subseteq found /\ found \subseteq DOMAIN Raw
    BY <2>1, <2>2, TunedIsLowest
  <2> HIDE DEF found, above
  <2>4. Hits(above, Labels) <= Hits(found, Labels)
    BY <2>1, <2>3, HitsGrow
  <2> QED BY <2>2, <2>3, <2>4 DEF found, above
<1> QED BY <1>1, StandaloneAlways, PTL

\* The k-th lowest score of a batch is one of its scores.
LEMMA RankedIsOne ==
  ASSUME NEW raw \in Seq(Int), raw # <<>>, NEW k \in 1..Len(raw)
  PROVE  Ranked(raw, k) \in Range(raw)
<1> DEFINE S == {v \in Range(raw) : Cardinality({i \in DOMAIN raw : raw[i] <= v}) >= k}
<1>1. {i \in DOMAIN raw : raw[i] <= Max(Range(raw))} = 1..Len(raw)
  BY LowAndHigh
<1>2. Cardinality(1..Len(raw)) = Len(raw)
  <2>1. Len(raw) \in Nat
    OBVIOUS
  <2> QED BY <2>1, IntervalSize
<1>3. Max(Range(raw)) \in S
  <2>1. k <= Len(raw)
    OBVIOUS
  <2> QED BY <1>1, <1>2, <2>1, LowAndHigh
<1>4. S \in SUBSET Int /\ IsFiniteSet(S)
  BY LowAndHigh, FS_Subset
<1>5. Min(S) \in S
  <2> HIDE DEF S
  <2> QED BY <1>3, <1>4, MinMaxIn
<1> QED BY <1>5 DEF Ranked

\* The percentile's place lies in the batch.
LEMMA PlaceInBatch ==
  ASSUME NEW n \in Nat, n > 0
  PROVE  LET place == (n - 1) * Percentile IN
         /\ place \in Nat /\ (place \div 100) + 1 \in 1..n
         /\ place % 100 # 0 => (place \div 100) + 2 \in 1..n
<1> DEFINE place == (n - 1) * Percentile
<1>1. Percentile \in Nat /\ Percentile <= 100 /\ n - 1 \in Nat
  BY PercentAssumption
<1>2. place \in Nat /\ place <= 100 * (n - 1)
  BY <1>1
<1> HIDE DEF place
<1> QED BY <1>2 DEF place

\* The threshold is a number, and the one raw score there is when all are one.
LEMMA RawThresholdIs ==
  ASSUME NEW raw \in Seq(Int), raw # <<>>
  PROVE  /\ RawThreshold(raw) \in Int
         /\ \A v \in Int : Range(raw) = {v} => RawThreshold(raw) = 100 * v
<1> DEFINE place == (Len(raw) - 1) * Percentile
           below == Ranked(raw, (place \div 100) + 1)
           above == IF place % 100 = 0 THEN below ELSE Ranked(raw, (place \div 100) + 2)
<1>1. Len(raw) \in Nat /\ Len(raw) > 0
  OBVIOUS
<1>2. place \in Nat /\ below \in Range(raw) /\ above \in Range(raw)
  BY <1>1, PlaceInBatch, RankedIsOne
<1>3. Range(raw) \subseteq Int
  BY LowAndHigh
<1>4. RawThreshold(raw) = 100 * below + (place % 100) * (above - below)
  BY DEF RawThreshold
<1> HIDE DEF place, below, above
<1>5. (place % 100) \in Int /\ below \in Int /\ above \in Int
  BY <1>2, <1>3
<1>6. RawThreshold(raw) \in Int
  BY <1>4, <1>5
<1>7. ASSUME NEW v \in Int, Range(raw) = {v} PROVE RawThreshold(raw) = 100 * v
  <2>1. below = v /\ above - below = 0
    BY <1>2, <1>5, <1>7
  <2>2. (place % 100) * 0 = 0
    BY <1>5
  <2> QED BY <1>4, <2>1, <2>2
<1> QED BY <1>6, <1>7

\* On the licit samples it was set from, the autoencoder's threshold flags all
\* errors above the percentile and none below, for any batch.
THEOREM FlagsAbovePercentileAlways == Spec => []FlagsAbovePercentile
<1>1. ASSUME NEW raw \in Seq(Int), raw # <<>>, NEW i \in DOMAIN raw
      PROVE  LET found == Predict(raw, SetThreshold(raw)) IN
             /\ 100 * raw[i] > RawThreshold(raw) => i \in found
             /\ i \in found => 100 * raw[i] >= RawThreshold(raw)
  <2> DEFINE low == Min(Range(raw))
             high == Max(Range(raw))
             rt == RawThreshold(raw)
             found == Predict(raw, SetThreshold(raw))
  <2>1. /\ low \in Int /\ high \in Int /\ low <= high /\ low \in Range(raw)
        /\ \A k \in DOMAIN raw : raw[k] \in Int /\ low <= raw[k] /\ raw[k] <= high
    BY LowAndHigh
  <2>2. rt \in Int
    BY RawThresholdIs
  <2>3. i \in found <=> AtLeast(ScoreSamples(raw)[i], SetThreshold(raw))
    BY DEF Predict
  <2> HIDE DEF low, high, rt, found
  <2>4. CASE high > low
    <3>1. /\ ScoreSamples(raw)[i] = [num |-> raw[i] - low, den |-> high - low]
          /\ SetThreshold(raw) = [num |-> rt - 100 * low, den |-> 100 * (high - low)]
      BY <2>4 DEF ScoreSamples, SetThreshold, low, high, rt
    <3>2. i \in found <=> (raw[i] - low) * (100 * (high - low)) >= (rt - 100 * low) * (high - low)
      BY <2>3, <3>1 DEF AtLeast
    <3>3. (raw[i] - low) * (100 * (high - low)) = (100 * (raw[i] - low)) * (high - low)
      BY <2>1
    <3>4. /\ 100 * (raw[i] - low) \in Int /\ rt - 100 * low \in Int
          /\ high - low \in Nat /\ high - low > 0
      BY <2>1, <2>2, <2>4
    <3>5. i \in found <=> 100 * (raw[i] - low) >= rt - 100 * low
      BY <3>2, <3>3, <3>4, Scaled
    <3> QED BY <2>1, <2>2, <3>5 DEF rt, found
  <2>5. CASE ~ (high > low)
    <3>1. Range(raw) = {low} /\ raw[i] = low
      <4>1. \A k \in DOMAIN raw : raw[k] = low
        BY <2>1, <2>5
      <4> QED BY <2>1, <4>1 DEF Range
    <3>2. rt = 100 * raw[i]
      BY <2>1, <3>1, RawThresholdIs DEF rt
    <3>3. /\ ScoreSamples(raw)[i] = [num |-> 1, den |-> 2]
          /\ SetThreshold(raw) = [num |-> 95, den |-> 100]
      BY <2>5 DEF ScoreSamples, SetThreshold, low, high
    <3>4. i \notin found
      BY <2>3, <3>3 DEF AtLeast
    <3> QED BY <2>1, <3>2, <3>4 DEF rt, found
  <2> QED BY <2>4, <2>5
<1>2. StandaloneInv => FlagsAbovePercentile
  <2> SUFFICES ASSUME samples \in Seq(Sample), Licit # <<>> PROVE FlagsAbovePercentile
    BY DEF StandaloneInv, InputTypes, FlagsAbovePercentile
  <2>1. Licit \in Seq(Int)
    BY RawIs, KeptIs DEF Licit
  <2> QED BY <1>1, <2>1 DEF FlagsAbovePercentile
<1> QED BY <1>2, StandaloneAlways, PTL

-----------------------------------------------------------------------------
(* The contract scanner. *)

Severity == {"critical", "high", "medium", "low"}

\* The weights of the four severities.
LEMMA ScoreIs == DOMAIN Score = Severity /\ Score \in [Severity -> {25, 50, 75, 100}]
BY DEF Score, Severity

\* A source has finitely many findings, each of a known severity, and an empty
\* one has none.
LEMMA FindingsAre ==
  ASSUME NEW S, NEW lines \in Seq(S)
  PROVE  /\ IsFiniteSet(Scan(lines))
         /\ \A f \in Scan(lines) : f.severity \in Severity
         /\ lines = <<>> => Scan(lines) = {}
<1> DEFINE D == DOMAIN lines
           P == {x \in D \X CallPatterns : x[2] \in lines[x[1]]}
           call == [x \in P |->
             Finding("REENTRANCY", x[1], x[2], "critical",
                     IF "update" \in Within(lines, x[1] + 1, x[1] + AfterCall) THEN 90 ELSE 65)]
           T == {j \in D : "block.timestamp" \in lines[j]}
           time == [i \in T |->
             Finding("TIMESTAMP_DEPENDENCY", i, "", IF "critical word" \in lines[i] THEN "medium" ELSE "low", 80)]
           A == {j \in D : /\ "public function" \in lines[j]
                           /\ LET context == Within(lines, j + 1, j + AfterFunction) IN
                              "state change" \in context /\ context \cap Protections = {}}
           access == [i \in A |-> Finding("ACCESS_CONTROL", i, "", "high", 70)]
           U == {j \in D : ".transfer(" \in lines[j] /\ lines[j] \cap {"require", "assert"} = {}}
           unchecked == [i \in U |-> Finding("UNCHECKED_RETURN", i, "", "medium", 75)]
           K == {j \in D : "selfdestruct(" \in lines[j]}
           destruct == [i \in K |->
             Finding("SELFDESTRUCT", i, "",
                     IF Within(lines, i - BeforeDestruct + 1, i) \cap {"onlyOwner", "require(msg.sender"} = {}
                     THEN "critical" ELSE "low", 95)]
<1>1. IsFiniteSet(D) /\ (lines = <<>> => D = {})
  <2>1. Len(lines) \in Nat /\ D = 1..Len(lines)
    OBVIOUS
  <2> QED BY <2>1, FS_Interval
<1>2. IsFiniteSet(P) /\ IsFiniteSet(T) /\ IsFiniteSet(A) /\ IsFiniteSet(U) /\ IsFiniteSet(K)
  <2>1. IsFiniteSet(CallPatterns)
    <3>1. CallPatterns = ({".call.value("} \cup {".call{value:"}) \cup {".call(\"\")"}
      BY DEF CallPatterns
    <3> QED BY <3>1, FS_Singleton, FS_Union
  <2>2. IsFiniteSet(D \X CallPatterns)
    BY <1>1, <2>1, FS_Product
  <2>3. P \in SUBSET (D \X CallPatterns) /\ T \in SUBSET D /\ A \in SUBSET D /\ U \in SUBSET D /\ K \in SUBSET D
    OBVIOUS
  <2> HIDE DEF P, T, A, U, K, D
  <2> QED BY <1>1, <2>2, <2>3, FS_Subset
<1>3. /\ Reentrancy(lines) = {call[x] : x \in P}
      /\ TimestampDependency(lines) = {time[i] : i \in T}
      /\ AccessControl(lines) = {access[i] : i \in A}
      /\ UncheckedReturn(lines) = {unchecked[i] : i \in U}
      /\ Selfdestruct(lines) = {destruct[i] : i \in K}
  BY DEF Reentrancy, TimestampDependency, AccessControl, UncheckedReturn, Selfdestruct
<1>4. /\ \A x \in P : call[x].severity \in Severity
      /\ \A i \in T : time[i].severity \in Severity
      /\ \A i \in A : access[i].severity \in Severity
      /\ \A i \in U : unchecked[i].severity \in Severity
      /\ \A i \in K : destruct[i].severity \in Severity
  BY DEF Severity, Finding
<1>5. D = {} => P = {} /\ T = {} /\ A = {} /\ U = {} /\ K = {}
  OBVIOUS
<1> HIDE DEF P, T, A, U, K, call, time, access, unchecked, destruct
<1>6. /\ IsFiniteSet(Reentrancy(lines)) /\ IsFiniteSet(TimestampDependency(lines))
      /\ IsFiniteSet(AccessControl(lines)) /\ IsFiniteSet(UncheckedReturn(lines))
      /\ IsFiniteSet(Selfdestruct(lines))
  BY <1>2, <1>3, ImageFinite
<1>7. /\ IsFiniteSet(IntegerOverflow(lines))
      /\ \A f \in IntegerOverflow(lines) : f.severity \in Severity
      /\ D = {} => IntegerOverflow(lines) = {}
  <2> DEFINE arithmetic == {i \in D : "arithmetic" \in lines[i]}
             overflow == Finding("INTEGER_OVERFLOW", Min(arithmetic), "", "high", 85)
  <2>1. IntegerOverflow(lines) = {overflow} \/ IntegerOverflow(lines) = {}
    BY DEF IntegerOverflow
  <2>2. arithmetic = {} => IntegerOverflow(lines) = {}
    BY DEF IntegerOverflow
  <2>3. overflow.severity \in Severity
    BY DEF Finding, Severity
  <2>4. D = {} => arithmetic = {}
    OBVIOUS
  <2> HIDE DEF overflow, arithmetic
  <2> QED BY <2>1, <2>2, <2>3, <2>4, FS_EmptySet, FS_Singleton
<1>8. Scan(lines) = (((((Reentrancy(lines) \cup TimestampDependency(lines)) \cup AccessControl(lines))
                        \cup IntegerOverflow(lines)) \cup UncheckedReturn(lines)) \cup Selfdestruct(lines))
  BY DEF Scan
<1>9. IsFiniteSet(Scan(lines))
  BY <1>6, <1>7, <1>8, FS_Union
<1>10. \A f \in Scan(lines) : f.severity \in Severity
  BY <1>3, <1>4, <1>7, <1>8
<1>11. D = {} => Scan(lines) = {}
  BY <1>3, <1>5, <1>7, <1>8
<1> QED BY <1>1, <1>9, <1>10, <1>11

\* Integer division of a sum that lies between two multiples.
LEMMA DivBounds ==
  ASSUME NEW a \in Int, NEW b \in Nat, b > 0
  PROVE  (a \div b) \in Int /\ b * (a \div b) <= a /\ a < b * (a \div b) + b
OBVIOUS

\* The worst of the findings decides their risk.
LEMMA RiskBetween ==
  ASSUME NEW findings, IsFiniteSet(findings), findings # {}, \A f \in findings : f.severity \in Severity
  PROVE  LET n == Cardinality(findings)
             score == (20 * RiskTimes(findings) + n) \div (2 * n) IN
         /\ Worst(findings) \in {25, 50, 75, 100} /\ score \in Int
         /\ score <= 100 * Worst(findings)
         /\ \A lower \in {25, 50, 75} : lower < Worst(findings) => score > 100 * lower
<1> DEFINE scores == [f \in findings |-> Score[f.severity]]
           R == {Score[f.severity] : f \in findings}
           n == Cardinality(findings)
           w == Worst(findings)
           t == Total(findings)
           score == (20 * RiskTimes(findings) + n) \div (2 * n)
<1>1. scores \in [findings -> Nat] /\ \A f \in findings : scores[f] \in {25, 50, 75, 100}
  BY ScoreIs
<1>2. n \in Nat /\ n > 0
  BY FS_CardinalityType, FS_EmptySet
<1>3. w \in {25, 50, 75, 100} /\ \A f \in findings : scores[f] <= w
  <2>1. R = {scores[f] : f \in findings}
    OBVIOUS
  <2> HIDE DEF scores
  <2>2. IsFiniteSet(R) /\ R # {} /\ R \in SUBSET {25, 50, 75, 100}
    <3>1. IsFiniteSet({scores[f] : f \in findings})
      BY ImageFinite
    <3>2. \A f \in findings : scores[f] \in R
      BY <2>1
    <3>3. R \in SUBSET {25, 50, 75, 100}
      <4>1. \A f \in findings : scores[f] \in {25, 50, 75, 100}
        BY <1>1
      <4> HIDE DEF R
      <4> QED BY <2>1, <4>1
    <3> QED BY <2>1, <3>1, <3>2, <3>3
  <2>3. R \in SUBSET Int
    BY <2>2
  <2>4. w = Max(R)
    BY DEF Worst
  <2> HIDE DEF R
  <2>5. w \in R /\ \A o \in R : w >= o
    BY <2>2, <2>3, <2>4, MinMaxIn
  <2>6. \A f \in findings : scores[f] \in R
    BY <2>1
  <2> HIDE DEF w
  <2>7. w \in Int
    BY <2>2, <2>5
  <2>8. \A f \in findings : scores[f] \in Int
    BY <2>3, <2>6
  <2> QED BY <2>2, <2>5, <2>6, <2>7, <2>8 DEF w
<1>4. n * 25 <= t /\ t <= n * w /\ t \in Nat
  <2>1. t = SumFunction(scores)
    BY DEF Total
  <2> HIDE DEF scores, t, w, n
  <2>2. w \in Nat /\ 25 \in Nat
    BY <1>3
  <2>3. \A f \in findings : 25 <= scores[f] /\ scores[f] <= w
    BY <1>1, <1>3
  <2>4. Cardinality(findings) * 25 <= SumFunction(scores) /\ SumFunction(scores) <= Cardinality(findings) * w
    BY <1>1, <2>2, <2>3, SumBetween
  <2>5. SumFunction(scores) \in Nat
    BY <1>1, SumType
  <2> QED BY <2>1, <2>4, <2>5 DEF n
<1>5. RiskTimes(findings) = 7 * w * n + 3 * t
  BY DEF RiskTimes
<1> HIDE DEF scores, R, n, w, t
<1> DEFINE a == 20 * (7 * w * n + 3 * t) + n
<1>6. score = a \div (2 * n) /\ 2 * n \in Nat /\ 2 * n > 0 /\ a \in Int
  BY <1>2, <1>3, <1>4, <1>5
<1>7. score \in Int /\ (2 * n) * score <= a /\ a < (2 * n) * score + 2 * n
  <2> HIDE DEF a, score
  <2> QED BY <1>6, DivBounds
<1>8. a <= 200 * w * n + n
  BY <1>2, <1>3, <1>4
<1> HIDE DEF score
<1>9. score <= 100 * w
  <2> SUFFICES ASSUME score >= 100 * w + 1 PROVE FALSE
    BY <1>3, <1>7
  <2> DEFINE m == 100 * w + 1
  <2>1. m \in Int /\ score >= m
    BY <1>3
  <2>2. (2 * n) * score >= (2 * n) * m
    <3> HIDE DEF m
    <3> QED BY <1>2, <1>7, <2>1
  <2>3. (2 * n) * m = 200 * w * n + 2 * n
    BY <1>2, <1>3
  <2> QED BY <1>2, <1>3, <1>6, <1>7, <1>8, <2>2, <2>3
<1>10. ASSUME NEW lower \in {25, 50, 75}, lower < w PROVE score > 100 * lower
  <2> SUFFICES ASSUME score <= 100 * lower PROVE FALSE
    BY <1>7
  <2>1. (2 * n) * score <= (2 * n) * (100 * lower)
    <3> DEFINE m == 100 * lower
    <3>1. m \in Int /\ score <= m
      OBVIOUS
    <3> HIDE DEF m
    <3>2. (2 * n) * score <= (2 * n) * m
      BY <1>2, <1>7, <3>1
    <3> QED BY <3>2 DEF m
  <2>2. w >= lower + 25 /\ lower <= 75
    BY <1>3, <1>10
  <2>3. a >= (140 * lower + 5001) * n
    <3>1. w * n >= (lower + 25) * n
      BY <1>2, <1>3, <2>2
    <3> QED BY <1>2, <1>3, <1>4, <3>1
  <2>4. (2 * n) * (100 * lower) + 2 * n <= (140 * lower + 5001) * n
    BY <1>2, <2>2
  <2> HIDE DEF a
  <2> QED BY <1>2, <1>6, <1>7, <2>1, <2>3, <2>4
<1> QED BY <1>3, <1>7, <1>9, <1>10 DEF score, n, w

\* The risk of bytecode is a number.
LEMMA BytecodeRiskType == ASSUME NEW bytes \in Seq(Opcode) PROVE BytecodeRisk(bytes) \in Int
<1> DEFINE factor(applies, weight) == IF applies THEN weight ELSE 0
<1>1. \A applies \in BOOLEAN : \A weight \in Int : factor(applies, weight) \in Int
  OBVIOUS
<1> QED BY DEF BytecodeRisk

\* A contract whose worst finding is more severe scores higher, however many
\* findings dilute the mean: for contracts of any length.
THEOREM WorstDecidesAlways == Spec => []WorstDecides
<1>1. ASSUME InputTypes PROVE WorstDecides
  <2> DEFINE findings == Scan(contract)
             score == CombinedRisk(contract, code)
             source == SourceRisk(contract)
             bytes == BytecodeRisk(code)
             R == {0} \cup (IF contract = <<>> THEN {} ELSE {source}) \cup (IF code = <<>> THEN {} ELSE {bytes})
  <2> SUFFICES ASSUME findings # {}
               PROVE  /\ score <= 100 * Worst(findings) \/ score = bytes
                      /\ \A lower \in {25, 50, 75} : lower < Worst(findings) => score > 100 * lower
    BY DEF WorstDecides
  <2>1. IsFiniteSet(findings) /\ contract # <<>> /\ \A f \in findings : f.severity \in Severity
    BY <1>1, FindingsAre DEF InputTypes
  <2>2. /\ Worst(findings) \in {25, 50, 75, 100} /\ source \in Int
        /\ source <= 100 * Worst(findings)
        /\ \A lower \in {25, 50, 75} : lower < Worst(findings) => source > 100 * lower
    BY <2>1, RiskBetween DEF SourceRisk
  <2>3. bytes \in Int
    BY <1>1, BytecodeRiskType DEF InputTypes
  <2>4. score = Max(R)
    BY DEF CombinedRisk
  <2> HIDE DEF findings, source, bytes, score
  <2>5. R \in SUBSET {0, source, bytes} /\ source \in R
    BY <2>1
  <2>6. IsFiniteSet(R) /\ R \in SUBSET Int /\ R # {}
    <3>2. IsFiniteSet({0, source, bytes})
      BY TripleFinite
    <3> QED BY <2>2, <2>3, <2>5, <3>2, FS_Subset
  <2> HIDE DEF R
  <2>7. score \in {0, source, bytes} /\ score >= source /\ score \in Int
    BY <2>4, <2>5, <2>6, MinMaxIn
  <2> QED BY <2>2, <2>7
<1>2. StandaloneInv => WorstDecides
  BY <1>1 DEF StandaloneInv
<1> QED BY <1>2, StandaloneAlways, PTL

\* What a finding finds does not depend on what follows its context.
LEMMA WithinGrows ==
  ASSUME NEW S, NEW lines \in Seq(S), NEW more \in Seq(S), Len(lines) <= Len(more),
         \A i \in 1..Len(lines) : more[i] = lines[i], NEW first \in Int, NEW last \in Int
  PROVE  /\ Within(lines, first, last) \subseteq Within(more, first, last)
         /\ last <= Len(lines) => Within(more, first, last) = Within(lines, first, last)
<1>1. DOMAIN lines = 1..Len(lines) /\ DOMAIN more = 1..Len(more) /\ Len(lines) \in Nat /\ Len(more) \in Nat
  OBVIOUS
<1>2. ASSUME NEW x \in Within(lines, first, last) PROVE x \in Within(more, first, last)
  <2>1. PICK i \in DOMAIN lines : first <= i /\ i <= last /\ x \in lines[i]
    BY DEF Within
  <2>2. i \in DOMAIN more /\ more[i] = lines[i]
    BY <1>1, <2>1
  <2> QED BY <2>1, <2>2 DEF Within
<1>3. ASSUME last <= Len(lines), NEW x \in Within(more, first, last) PROVE x \in Within(lines, first, last)
  <2>1. PICK i \in DOMAIN more : first <= i /\ i <= last /\ x \in more[i]
    BY DEF Within
  <2>2. i \in DOMAIN lines /\ more[i] = lines[i]
    BY <1>1, <1>3, <2>1
  <2> QED BY <2>1, <2>2 DEF Within
<1> QED BY <1>2, <1>3

\* g says the same as f and is at least as sure.
AtLeastAsSure(g, f) == [g EXCEPT !.confidence = f.confidence] = f /\ g.confidence >= f.confidence

\* A higher confidence in the same finding.
LEMMA SureIs ==
  ASSUME NEW type, NEW i, NEW p, NEW s, NEW c \in Int, NEW d \in Int, d >= c
  PROVE  AtLeastAsSure(Finding(type, i, p, s, d), Finding(type, i, p, s, c))
BY DEF AtLeastAsSure, Finding

\* A finding is as sure as itself.
LEMMA SureItself ==
  ASSUME NEW type, NEW i, NEW p, NEW s, NEW c \in Int
  PROVE  AtLeastAsSure(Finding(type, i, p, s, c), Finding(type, i, p, s, c))
BY SureIs

\* Lines appended to a source keep what was found before them.
LEMMA FindingsGrow ==
  ASSUME NEW S, NEW lines \in Seq(S), NEW more \in Seq(S), Len(lines) <= Len(more),
         \A i \in 1..Len(lines) : more[i] = lines[i],
         NEW f \in Scan(lines), f.type \notin {"ACCESS_CONTROL", "INTEGER_OVERFLOW"}
  PROVE  \E g \in Scan(more) : AtLeastAsSure(g, f)
<1>1. /\ DOMAIN lines = 1..Len(lines) /\ DOMAIN lines \subseteq DOMAIN more /\ DOMAIN lines \subseteq Nat
      /\ \A i \in DOMAIN lines : more[i] = lines[i] /\ i <= Len(lines)
      /\ AfterCall \in Nat /\ BeforeDestruct \in Nat
  <2>1. /\ Len(lines) \in Nat /\ Len(more) \in Nat
        /\ DOMAIN lines = 1..Len(lines) /\ DOMAIN more = 1..Len(more)
    OBVIOUS
  <2>2. AfterCall \in Nat /\ BeforeDestruct \in Nat
    BY ContextAssumption
  <2>3. DOMAIN lines \subseteq DOMAIN more /\ DOMAIN lines \subseteq Nat /\ \A i \in DOMAIN lines : i <= Len(lines)
    BY <2>1
  <2> QED BY <2>1, <2>2, <2>3
<1>2. f \in Reentrancy(lines) \cup TimestampDependency(lines) \cup UncheckedReturn(lines) \cup Selfdestruct(lines)
  <2>1. \A g \in AccessControl(lines) : g.type = "ACCESS_CONTROL"
    <3> SUFFICES ASSUME NEW g \in AccessControl(lines) PROVE g.type = "ACCESS_CONTROL"
      OBVIOUS
    <3>1. PICK i \in DOMAIN lines : g = Finding("ACCESS_CONTROL", i, "", "high", 70)
      BY DEF AccessControl
    <3> QED BY <3>1 DEF Finding
  <2>2. \A g \in IntegerOverflow(lines) : g.type = "INTEGER_OVERFLOW"
    <3> SUFFICES ASSUME NEW g \in IntegerOverflow(lines) PROVE g.type = "INTEGER_OVERFLOW"
      OBVIOUS
    <3>1. PICK i : g = Finding("INTEGER_OVERFLOW", i, "", "high", 85)
      BY DEF IntegerOverflow
    <3> QED BY <3>1 DEF Finding
  <2> QED BY <2>1, <2>2 DEF Scan
<1>3. CASE f \in Reentrancy(lines)
  <2> DEFINE sure(ls, x) == IF "update" \in Within(ls, x[1] + 1, x[1] + AfterCall) THEN 90 ELSE 65
             found(ls, x) == Finding("REENTRANCY", x[1], x[2], "critical", sure(ls, x))
  <2>1. PICK x \in (DOMAIN lines) \X CallPatterns : x[2] \in lines[x[1]] /\ f = found(lines, x)
    BY <1>3 DEF Reentrancy
  <2>2. x \in (DOMAIN more) \X CallPatterns /\ x[2] \in more[x[1]]
    BY <1>1, <2>1
  <2>3. found(more, x) \in Scan(more)
    BY <2>2 DEF Scan, Reentrancy
  <2>4. Within(lines, x[1] + 1, x[1] + AfterCall) \subseteq Within(more, x[1] + 1, x[1] + AfterCall)
    <3>1. x[1] + 1 \in Int /\ x[1] + AfterCall \in Int
      BY <1>1
    <3> QED BY <3>1, WithinGrows
  <2>5. sure(lines, x) \in Int /\ sure(more, x) \in Int /\ sure(more, x) >= sure(lines, x)
    BY <2>4
  <2> HIDE DEF sure
  <2>6. AtLeastAsSure(found(more, x), f)
    BY <2>1, <2>5, SureIs
  <2> QED BY <2>3, <2>6
<1>4. CASE f \in TimestampDependency(lines)
  <2> DEFINE found(ls, i) ==
               Finding("TIMESTAMP_DEPENDENCY", i, "", IF "critical word" \in ls[i] THEN "medium" ELSE "low", 80)
  <2>1. PICK i \in DOMAIN lines : "block.timestamp" \in lines[i] /\ f = found(lines, i)
    BY <1>4 DEF TimestampDependency
  <2>2. i \in DOMAIN more /\ more[i] = lines[i]
    BY <1>1
  <2>3. f \in Scan(more)
    BY <2>1, <2>2 DEF Scan, TimestampDependency
  <2>4. AtLeastAsSure(found(lines, i), found(lines, i))
    BY 80 \in Int, 95 \in Int, SureItself
  <2> QED BY <2>1, <2>3, <2>4
<1>5. CASE f \in UncheckedReturn(lines)
  <2>1. PICK i \in DOMAIN lines : /\ ".transfer(" \in lines[i] /\ lines[i] \cap {"require", "assert"} = {}
                                  /\ f = Finding("UNCHECKED_RETURN", i, "", "medium", 75)
    BY <1>5 DEF UncheckedReturn
  <2>2. i \in DOMAIN more /\ more[i] = lines[i]
    BY <1>1
  <2>3. f \in Scan(more)
    BY <2>1, <2>2 DEF Scan, UncheckedReturn
  <2>4. AtLeastAsSure(Finding("UNCHECKED_RETURN", i, "", "medium", 75),
                      Finding("UNCHECKED_RETURN", i, "", "medium", 75))
    BY 75 \in Int, SureItself
  <2> QED BY <2>1, <2>3, <2>4
<1>6. CASE f \in Selfdestruct(lines)
  <2> DEFINE found(ls, i) ==
               Finding("SELFDESTRUCT", i, "",
                       IF Within(ls, i - BeforeDestruct + 1, i) \cap {"onlyOwner", "require(msg.sender"} = {}
                       THEN "critical" ELSE "low", 95)
  <2>1. PICK i \in DOMAIN lines : "selfdestruct(" \in lines[i] /\ f = found(lines, i)
    BY <1>6 DEF Selfdestruct
  <2>2. i \in DOMAIN more /\ more[i] = lines[i]
    BY <1>1
  <2>3. Within(more, i - BeforeDestruct + 1, i) = Within(lines, i - BeforeDestruct + 1, i)
    <3>1. i - BeforeDestruct + 1 \in Int /\ i \in Int /\ i <= Len(lines)
      BY <1>1
    <3> QED BY <3>1, WithinGrows
  <2>4. found(more, i) \in Scan(more)
    BY <2>1, <2>2 DEF Scan, Selfdestruct
  <2>5. f = found(more, i)
    BY <2>1, <2>3
  <2>6. AtLeastAsSure(found(lines, i), found(lines, i))
    BY 80 \in Int, 95 \in Int, SureItself
  <2> QED BY <2>1, <2>4, <2>5, <2>6
<1> QED BY <1>2, <1>3, <1>4, <1>5, <1>6

\* A line at the end of a source of any length takes no finding away and makes
\* none milder, but for the two exceptions of the property.
THEOREM FindingsOutliveAlways == Spec => FindingsOutlive
<1>1. StandaloneInv /\ [Next]_vars =>
        [\A f \in Scan(contract) : f.type \notin {"ACCESS_CONTROL", "INTEGER_OVERFLOW"} =>
           \E g \in Scan(contract') :
             /\ [g EXCEPT !.confidence = f.confidence] = f
             /\ g.confidence >= f.confidence]_contract
  <2> SUFFICES ASSUME StandaloneInv, [Next]_vars, contract' # contract
               PROVE  \A f \in Scan(contract) : f.type \notin {"ACCESS_CONTROL", "INTEGER_OVERFLOW"} =>
                        \E g \in Scan(contract') : AtLeastAsSure(g, f)
    BY DEF AtLeastAsSure
  <2>1. PICK line \in Lines : contract' = Append(contract, line)
    BY DEF Next, AddLine, AddByte, AddRow, AddEdge, AddSample, inputs, vars
  <2>2. contract \in Seq(Lines)
    BY DEF StandaloneInv, InputTypes
  <2>3. contract' \in Seq(Lines) /\ Len(contract') = Len(contract) + 1
        /\ \A i \in 1..Len(contract) : contract'[i] = contract[i]
    BY <2>1, <2>2, AppendAt
  <2>4. Len(contract) <= Len(contract')
    BY <2>2, <2>3
  <2> QED BY <2>2, <2>3, <2>4, FindingsGrow
<1> QED BY <1>1, StandaloneAlways, PTL DEF Spec, FindingsOutlive

\* A push carries at most two bytes of data here.
LEMMA PushSizeType == ASSUME NEW byte PROVE PushSize(byte) \in 0..2
BY DEF PushSize

\* What a byte does to the bytes to skip and the opcodes seen.
ReadStep(bytes, i, r) ==
  IF r.skip > 0 THEN [skip |-> r.skip - 1, seen |-> r.seen]
  ELSE [skip |-> PushSize(bytes[i]), seen |-> Append(r.seen, bytes[i])]

\* The walk over the bytes, one byte at a time.
LEMMA OpcodesUnfold ==
  ASSUME NEW S, NEW bytes \in Seq(S)
  PROVE  \E q : /\ Opcodes(bytes) = q[Len(bytes)].seen /\ q[0] = [skip |-> 0, seen |-> <<>>]
                /\ \A i \in 1..Len(bytes) : q[i] = ReadStep(bytes, i, q[i - 1])
<1> DEFINE n == Len(bytes)
           W == [skip : Nat, seen : Seq(S)]
           z == [skip |-> 0, seen |-> <<>>]
           body(f) == [i \in 0..n |->
             IF i = 0 THEN [skip |-> 0, seen |-> <<>>]
             ELSE IF f[i - 1].skip > 0
             THEN [skip |-> f[i - 1].skip - 1, seen |-> f[i - 1].seen]
             ELSE [skip |-> PushSize(bytes[i]), seen |-> Append(f[i - 1].seen, bytes[i])]]
           d == [i \in Nat |-> [r \in W |-> IF i \in 1..n THEN ReadStep(bytes, i, r) ELSE r]]
           q == CHOOSE f : f = body(f)
<1>1. Stepwise(d, W)
  <2>1. ASSUME NEW i \in Nat, NEW r \in W, i \in 1..n PROVE ReadStep(bytes, i, r) \in W
    <3>1. bytes[i] \in S /\ PushSize(bytes[i]) \in Nat
      BY <2>1, PushSizeType
    <3> QED BY <3>1 DEF ReadStep
  <2> HIDE DEF n, W
  <2> QED BY <2>1 DEF Stepwise
<1>2. PICK f \in [0..n -> W] : f[0] = z /\ \A i \in 1..n : f[i] = d[i][f[i - 1]]
  <2>1. z \in W /\ n \in Nat
    OBVIOUS
  <2> HIDE DEF d, W, n, z
  <2>2. PICK f : RecursTo(f, n, W, z, d)
    BY <1>1, <2>1, RecursionUpTo
  <2> QED BY <2>2 DEF RecursTo
<1>3. f = body(f)
  <2>1. ASSUME NEW i \in 1..n PROVE f[i] = ReadStep(bytes, i, f[i - 1])
    <3>1. i \in Nat /\ i - 1 \in 0..n
      OBVIOUS
    <3>2. f[i - 1] \in W
      BY <3>1
    <3> HIDE DEF W
    <3> QED BY <1>2, <3>1, <3>2
  <2>2. \A i \in 0..n : i = 0 \/ i \in 1..n
    OBVIOUS
  <2>3. \A i \in 0..n : f[i] = body(f)[i]
    <3> HIDE DEF n
    <3> QED BY <1>2, <2>1, <2>2 DEF ReadStep
  <2> QED BY <2>3
<1>4. q = body(q)
  <2> HIDE DEF body
  <2> QED BY <1>3
<1>5. Opcodes(bytes) = q[n].seen
  BY DEF Opcodes
<1> HIDE DEF q
<1>6. q[0] = z /\ \A i \in 1..n : q[i] = ReadStep(bytes, i, q[i - 1])
  <2>1. 0 \in 0..n /\ \A i \in 1..n : i \in 0..n /\ i # 0
    OBVIOUS
  <2> QED BY <1>4, <2>1 DEF ReadStep
<1> QED BY <1>5, <1>6

\* The bytes instructions start at: the first, and the one after each.
StartsAre(begun, bytes) ==
  /\ begun \subseteq 1..Len(bytes)
  /\ \A i \in 1..Len(bytes) :
       i \in begun <=> i = 1 \/ \E j \in begun : j < i /\ j + PushSize(bytes[j]) + 1 = i

\* The function of CountsInstructions is defined.
LEMMA StartsExist ==
  ASSUME NEW S, NEW bytes \in Seq(S)
  PROVE  LET Starts[i \in 1..Len(bytes)] ==
               i = 1 \/ \E j \in 1..(i - 1) : Starts[j] /\ j + PushSize(bytes[j]) + 1 = i IN
         StartsAre({i \in 1..Len(bytes) : Starts[i]}, bytes)
<1> DEFINE n == Len(bytes)
           W == SUBSET Nat
           Begins(begun, i) == i = 1 \/ \E j \in begun : j < i /\ j + PushSize(bytes[j]) + 1 = i
           Add(begun, i) == begun \cup {k \in {i} : Begins(begun, i)}
           d == [i \in Nat |-> [begun \in W |-> Add(begun, i)]]
           body(f) == [i \in 1..n |-> i = 1 \/ \E j \in 1..(i - 1) : f[j] /\ j + PushSize(bytes[j]) + 1 = i]
           q == CHOOSE f : f = body(f)
<1>1. Stepwise(d, W)
  BY DEF Stepwise
<1>2. PICK f : RecursTo(f, n, W, {}, d)
  <2>1. {} \in W /\ n \in Nat
    OBVIOUS
  <2> HIDE DEF d, W, n
  <2> QED BY <1>1, <2>1, RecursionUpTo
<1>3. /\ f[0] = {} /\ \A i \in 0..n : f[i] \in SUBSET Nat
      /\ \A i \in 1..n : f[i] = Add(f[i - 1], i)
  <2>1. f \in [0..n -> W] /\ f[0] = {} /\ \A i \in 1..n : f[i] = d[i][f[i - 1]]
    BY <1>2 DEF RecursTo
  <2>2. ASSUME NEW i \in 1..n PROVE i \in Nat /\ f[i - 1] \in W
    BY <2>1
  <2>3. \A i \in 1..n : f[i] = Add(f[i - 1], i)
    BY <2>1, <2>2
  <2> QED BY <2>1, <2>3
<1>4. n \in Nat
  OBVIOUS
<1> HIDE DEF d, n, W
<1> DEFINE Settled(k) == \A i \in 1..n : i <= k => (i \in f[k] <=> Begins(f[k], i))
           Below(k) == f[k] \subseteq 1..k
           I == {k \in Nat : k <= n => Below(k) /\ Settled(k)}
<1>5. I = Nat
  <2>1. 0 \in I
    BY <1>3, <1>4
  <2>2. ASSUME NEW k \in I PROVE k + 1 \in I
    <3> SUFFICES ASSUME k + 1 <= n PROVE Below(k + 1) /\ Settled(k + 1)
      OBVIOUS
    <3>1. k + 1 \in 1..n /\ (k + 1) - 1 = k /\ k <= n /\ k \in Nat
      BY <1>4
    <3>2. Below(k) /\ Settled(k)
      BY <3>1
    <3>3. f[k + 1] = Add(f[k], k + 1)
      BY <1>3, <3>1
    <3> HIDE DEF n, I
    <3>4. f[k + 1] \subseteq f[k] \cup {k + 1} /\ f[k] \subseteq f[k + 1] /\ (k + 1 \in f[k + 1] <=> Begins(f[k], k + 1))
      BY <3>1, <3>2, <3>3
    <3>5. Below(k + 1)
      BY <3>1, <3>2, <3>4
    <3>6. \A i \in 1..n : i <= k + 1 => (Begins(f[k + 1], i) <=> Begins(f[k], i))
      BY <1>4, <3>1, <3>4
    <3>7. Settled(k + 1)
      <4> SUFFICES ASSUME NEW i \in 1..n, i <= k + 1 PROVE i \in f[k + 1] <=> Begins(f[k + 1], i)
        OBVIOUS
      <4>1. Begins(f[k + 1], i) <=> Begins(f[k], i)
        BY <3>6
      <4> HIDE DEF Begins
      <4>2. CASE i = k + 1
        BY <3>4, <4>1, <4>2
      <4>3. CASE i # k + 1
        <5>1. i <= k
          BY <3>1, <4>3
        <5>2. i \in f[k + 1] <=> i \in f[k]
          BY <3>4, <4>3
        <5> QED BY <3>2, <4>1, <5>1, <5>2
      <4> QED BY <4>2, <4>3
    <3> QED BY <3>5, <3>7
  <2> HIDE DEF I
  <2>3. I \in SUBSET Nat
    BY DEF I
  <2> QED BY <2>1, <2>2, <2>3, NatSetInduction
<1>6. Below(n) /\ Settled(n)
  <2>1. n \in I
    BY <1>4, <1>5
  <2> QED BY <1>4, <2>1
<1> DEFINE g == [i \in 1..n |-> i \in f[n]]
<1>7. g = body(g)
  <2>1. ASSUME NEW i \in 1..n PROVE g[i] = body(g)[i]
    <3>1. i \in f[n] <=> Begins(f[n], i)
      BY <1>4, <1>6
    <3>2. \A j : (j \in f[n] /\ j < i) <=> (j \in 1..(i - 1) /\ g[j])
      <4>1. \A j \in 1..n : g[j] <=> j \in f[n]
        OBVIOUS
      <4>2. \A j \in f[n] : j \in 1..n
        BY <1>6
      <4>3. \A j \in 1..n : j < i <=> j \in 1..(i - 1)
        BY <1>4
      <4>4. \A j \in 1..(i - 1) : j \in 1..n
        BY <1>4
      <4> HIDE DEF g
      <4> QED BY <4>1, <4>2, <4>3, <4>4
    <3>3. Begins(f[n], i) <=> (i = 1 \/ \E j \in 1..(i - 1) : g[j] /\ j + PushSize(bytes[j]) + 1 = i)
      <4> HIDE DEF g
      <4> QED BY <3>2
    <3> QED BY <3>1, <3>3
  <2> QED BY <2>1
<1>8. q = body(q)
  <2> HIDE DEF g, body
  <2> QED BY <1>7
<1> HIDE DEF q
<1>9. \A i \in 1..n : q[i] = (i = 1 \/ \E j \in 1..(i - 1) : q[j] /\ j + PushSize(bytes[j]) + 1 = i)
  BY <1>8
<1> DEFINE begun == {i \in 1..n : q[i]}
<1>10. ASSUME NEW i \in 1..n PROVE i \in begun <=> Begins(begun, i)
  <2>1. \A j : (j \in begun /\ j < i) <=> (j \in 1..(i - 1) /\ q[j])
    BY <1>4
  <2>2. Begins(begun, i) <=> (i = 1 \/ \E j \in 1..(i - 1) : q[j] /\ j + PushSize(bytes[j]) + 1 = i)
    <3> HIDE DEF begun
    <3> QED BY <2>1
  <2>3. i \in begun <=> q[i]
    OBVIOUS
  <2> QED BY <1>9, <2>2, <2>3
<1>11. StartsAre(begun, bytes)
  BY <1>10 DEF StartsAre, n
<1> QED BY <1>11 DEF q, n

\* The places of a sequence that hold an element.
Places(w, o) == {k \in DOMAIN w : w[k] = o}

\* An appended element is at the last place.
LEMMA AppendPlaces ==
  ASSUME NEW S, NEW w \in Seq(S), NEW e \in S, NEW o
  PROVE  /\ IsFiniteSet(Places(w, o)) /\ Cardinality(Places(w, o)) \in Nat
         /\ Cardinality(Places(Append(w, e), o)) = Cardinality(Places(w, o)) + (IF e = o THEN 1 ELSE 0)
<1> DEFINE n == Len(w)
<1>1. n \in Nat /\ DOMAIN w = 1..n /\ DOMAIN Append(w, e) = 1..n + 1
  OBVIOUS
<1>2. Append(w, e)[n + 1] = e /\ \A i \in 1..n : Append(w, e)[i] = w[i]
  BY AppendAt
<1> HIDE DEF n
<1>3. Places(Append(w, e), o) = IF e = o THEN Places(w, o) \cup {n + 1} ELSE Places(w, o)
  BY <1>1, <1>2 DEF Places
<1>4. n + 1 \notin Places(w, o)
  BY <1>1 DEF Places
<1>5. IsFiniteSet(Places(w, o))
  <2>1. IsFiniteSet(1..n)
    BY <1>1, FS_Interval
  <2>2. Places(w, o) \in SUBSET (1..n)
    BY <1>1 DEF Places
  <2> QED BY <2>1, <2>2, FS_Subset
<1>6. Cardinality(Places(w, o) \cup {n + 1}) = Cardinality(Places(w, o)) + 1
  BY <1>4, <1>5, FS_AddElement
<1>7. Cardinality(Places(w, o)) \in Nat
  BY <1>5, FS_CardinalityType
<1> QED BY <1>3, <1>5, <1>6, <1>7

\* Opcodes sees the bytes instructions start at, each once.
LEMMA OpcodesAreStarts ==
  ASSUME NEW S, NEW bytes \in Seq(S), NEW begun, StartsAre(begun, bytes), NEW o
  PROVE  Count(bytes, o) = Cardinality({i \in begun : bytes[i] = o})
<1> DEFINE n == Len(bytes)
           push(j) == PushSize(bytes[j])
<1>1. PICK q : /\ Opcodes(bytes) = q[n].seen /\ q[0] = [skip |-> 0, seen |-> <<>>]
               /\ \A i \in 1..n : q[i] = ReadStep(bytes, i, q[i - 1])
  BY OpcodesUnfold
<1>2. n \in Nat /\ \A i \in 1..n : bytes[i] \in S
  OBVIOUS
<1> HIDE DEF n
<1>3. \A j : push(j) \in Nat
  BY PushSizeType
<1>4. /\ \A j \in begun : j \in 1..n
      /\ \A i \in 1..n : i \in begun <=> i = 1 \/ \E j \in begun : j < i /\ j + push(j) + 1 = i
  BY DEF StartsAre, n
<1> HIDE DEF push
<1> DEFINE Targets(i) == {1} \cup {j + push(j) + 1 : j \in {k \in begun : k <= i}}
           E(i) == i + q[i].skip + 1
           Found(i) == {j \in begun : j <= i /\ bytes[j] = o}
           Reads(i) == /\ q[i].skip \in Nat /\ q[i].seen \in Seq(S)
                       /\ E(i) \in Targets(i) /\ \A t \in Targets(i) : t <= i \/ t = E(i)
                       /\ IsFiniteSet(Found(i)) /\ Cardinality(Places(q[i].seen, o)) = Cardinality(Found(i))
           I == {i \in Nat : i <= n => Reads(i)}
<1>5. 0 \in I
  <2>1. q[0].skip = 0 /\ q[0].seen = <<>> /\ <<>> \in Seq(S)
    BY <1>1
  <2>2. Found(0) = {} /\ Places(<<>>, o) = {}
    BY <1>2, <1>4 DEF Places
  <2>3. E(0) = 1 /\ Targets(0) = {1}
    BY <1>2, <1>4, <2>1
  <2>4. IsFiniteSet({}) /\ Cardinality({}) = 0
    BY FS_EmptySet
  <2> HIDE DEF Found, E, Targets
  <2>5. q[0].skip \in Nat /\ q[0].seen \in Seq(S) /\ Places(q[0].seen, o) = {}
    BY <2>1, <2>2
  <2>6. E(0) \in Targets(0) /\ \A t \in Targets(0) : t <= 0 \/ t = E(0)
    BY <2>3
  <2>7. IsFiniteSet(Found(0)) /\ Cardinality(Places(q[0].seen, o)) = Cardinality(Found(0))
    BY <2>2, <2>4, <2>5
  <2>8. Reads(0)
    BY <2>5, <2>6, <2>7
  <2> QED BY <2>8
<1>6. ASSUME NEW i \in I PROVE i + 1 \in I
  <2> SUFFICES ASSUME i + 1 <= n PROVE Reads(i + 1)
    OBVIOUS
  <2> DEFINE r == q[i]  m == i + 1  b == bytes[i + 1]
  <2>1. i \in Nat /\ m \in 1..n /\ m - 1 = i /\ m = i + 1 /\ i <= n /\ m \in Nat
    BY <1>2
  <2>2. Reads(i)
    BY <2>1
  <2>3. r.skip \in Nat /\ r.seen \in Seq(S) /\ b \in S
    BY <1>2, <2>1, <2>2
  <2>4. q[m] = ReadStep(bytes, m, r)
    BY <1>1, <2>1
  <2>5. m \in begun <=> m \in Targets(i)
    <3>1. \A j \in begun : j < m <=> j <= i
      BY <1>2, <1>4, <2>1
    <3> HIDE DEF m
    <3>2. m \in begun <=> m = 1 \/ \E j \in begun : j <= i /\ j + push(j) + 1 = m
      BY <1>4, <2>1, <3>1
    <3> QED BY <3>2
  <2>6. m \in Targets(i) <=> r.skip = 0
    <3>0. \A k \in Nat : i + k + 1 = m + k
      BY <2>1
    <3>1. E(i) = m + r.skip
      BY <2>3, <3>0
    <3>2. ~ (m <= i)
      BY <2>1
    <3>3. E(i) = m <=> r.skip = 0
      BY <2>1, <2>3, <3>1
    <3> HIDE DEF E, Targets, m
    <3> QED BY <2>2, <3>2, <3>3
  <2>7. /\ m \in begun => Targets(m) = Targets(i) \cup {m + push(m) + 1}
        /\ m \notin begun => Targets(m) = Targets(i)
    <3>1. \A j \in begun : j <= m <=> j <= i \/ j = m
      BY <1>2, <1>4, <2>1
    <3> HIDE DEF m
    <3> QED BY <3>1, <2>1
  <2>8. /\ Found(m) = IF m \in begun /\ b = o THEN Found(i) \cup {m} ELSE Found(i)
        /\ m \notin Found(i)
    <3>1. \A j \in begun : j <= m <=> j <= i \/ j = m
      BY <1>2, <1>4, <2>1
    <3>2. ~ (m <= i)
      BY <2>1
    <3>3. b = bytes[m]
      OBVIOUS
    <3> HIDE DEF m, b
    <3> QED BY <2>1, <3>1, <3>2, <3>3
  <2>9. \A t \in Targets(i) : t \in Nat
    <3>1. \A j \in begun : j \in Nat
      BY <1>2, <1>4
    <3> QED BY <1>3, <3>1
  <2>10. CASE r.skip > 0
    <3>1. q[m] = [skip |-> r.skip - 1, seen |-> r.seen]
      BY <2>4, <2>10 DEF ReadStep
    <3>2. m \notin begun /\ Targets(m) = Targets(i) /\ Found(m) = Found(i)
      BY <2>3, <2>5, <2>6, <2>7, <2>8, <2>10
    <3>3. q[m].skip \in Nat /\ q[m].seen = r.seen /\ E(m) = E(i)
      <4>1. q[m].skip = r.skip - 1 /\ q[m].seen = r.seen
        BY <3>1
      <4>2. r.skip \in Nat /\ r.skip - 1 \in Nat
        BY <2>3, <2>10
      <4>3. \A k \in Nat : i + k + 1 = (i + 1) + (k - 1) + 1
        BY <2>1
      <4>4. E(m) = (i + 1) + (r.skip - 1) + 1 /\ E(i) = i + r.skip + 1
        BY <4>1
      <4> HIDE DEF E
      <4> QED BY <4>1, <4>2, <4>3, <4>4
    <3>4. \A t \in Targets(i) : t <= i => t <= m
      <4> HIDE DEF Targets
      <4> QED BY <2>1, <2>9
    <3> HIDE DEF E, Targets, Found, m
    <3> QED BY <2>1, <2>2, <2>3, <3>2, <3>3, <3>4
  <2>11. CASE r.skip = 0
    <3>1. q[m] = [skip |-> push(m), seen |-> Append(r.seen, b)]
      BY <2>4, <2>11 DEF ReadStep, push
    <3>2. m \in begun /\ Targets(m) = Targets(i) \cup {m + push(m) + 1}
      BY <2>5, <2>6, <2>7, <2>11
    <3>3. q[m].skip = push(m) /\ q[m].seen = Append(r.seen, b) /\ push(m) \in Nat
      BY <1>3, <3>1
    <3>4. E(m) = m + push(m) + 1
      BY <3>3
    <3>5. E(i) = m
      BY <2>1, <2>11
    <3>6. \A t \in Targets(i) : t <= m
      <4>1. \A t \in Targets(i) : t <= i \/ t = m
        BY <2>2, <3>5
      <4> HIDE DEF Targets
      <4> QED BY <2>1, <2>9, <4>1
    <3>7. Append(r.seen, b) \in Seq(S)
      BY <2>3
    <3>8. /\ Cardinality(Places(r.seen, o)) \in Nat
          /\ Cardinality(Places(Append(r.seen, b), o)) = Cardinality(Places(r.seen, o)) + (IF b = o THEN 1 ELSE 0)
      BY <2>3, AppendPlaces
    <3>9. /\ IsFiniteSet(Found(m))
          /\ Cardinality(Found(m)) = Cardinality(Found(i)) + (IF b = o THEN 1 ELSE 0)
      <4>1. IsFiniteSet(Found(i)) /\ Cardinality(Found(i)) \in Nat
        BY <2>2, FS_CardinalityType
      <4>2. Found(m) = IF b = o THEN Found(i) \cup {m} ELSE Found(i)
        BY <2>8, <3>2
      <4> HIDE DEF Found, m, b
      <4>3. /\ IsFiniteSet(Found(i) \cup {m})
            /\ Cardinality(Found(i) \cup {m}) = Cardinality(Found(i)) + 1
        BY <2>8, <4>1, FS_AddElement
      <4> QED BY <4>1, <4>2, <4>3
    <3>10. Cardinality(Places(r.seen, o)) = Cardinality(Found(i))
      BY <2>2
    <3> HIDE DEF E, Targets, Found, b, r, m
    <3>11. E(m) \in Targets(m) /\ \A t \in Targets(m) : t <= m \/ t = E(m)
      BY <3>2, <3>4, <3>6
    <3> QED BY <2>1, <3>3, <3>7, <3>8, <3>9, <3>10, <3>11
  <2> QED BY <2>3, <2>10, <2>11
<1>7. Reads(n)
  <2>1. I = Nat
    <3> HIDE DEF I
    <3>1. I \in SUBSET Nat
      BY DEF I
    <3> QED BY <1>5, <1>6, <3>1, NatSetInduction
  <2>2. n \in Nat /\ n <= n
    BY <1>2
  <2> HIDE DEF Reads
  <2> QED BY <2>1, <2>2
<1>8. Found(n) = {i \in begun : bytes[i] = o}
  BY <1>2, <1>4
<1>9. Count(bytes, o) = Cardinality(Places(q[n].seen, o))
  BY <1>1 DEF Count, Places
<1> QED BY <1>7, <1>8, <1>9

\* An opcode is counted exactly where an instruction starts, and no byte of a
\* PUSH's data is, for bytecode of any length.
THEOREM CountsInstructionsAlways == Spec => []CountsInstructions
<1>1. ASSUME code \in Seq(Opcode) PROVE CountsInstructions
  <2> DEFINE body(f) == [i \in 1..Len(code) |->
               i = 1 \/ \E j \in 1..(i - 1) : f[j] /\ j + PushSize(code[j]) + 1 = i]
             q == CHOOSE f : f = body(f)
             begun == {i \in 1..Len(code) : q[i]}
  <2>1. StartsAre(begun, code)
    BY <1>1, StartsExist
  <2>2. \A o : Count(code, o) = Cardinality({i \in begun : code[i] = o})
    <3> HIDE DEF begun
    <3> QED BY <1>1, <2>1, OpcodesAreStarts
  <2>3. \A o : {i \in begun : code[i] = o} = {i \in DOMAIN code : q[i] /\ code[i] = o}
    BY <1>1
  <2>4. \A o : Count(code, o) = Cardinality({i \in DOMAIN code : q[i] /\ code[i] = o})
    BY <2>2, <2>3
  <2> QED BY <2>4 DEF CountsInstructions
<1>2. StandaloneInv => CountsInstructions
  BY <1>1 DEF StandaloneInv, InputTypes
<1> QED BY <1>2, StandaloneAlways, PTL
=============================================================================
