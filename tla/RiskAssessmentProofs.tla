------------------------ MODULE RiskAssessmentProofs ------------------------
(***************************************************************************)
(* The composite score is monotone in its signals, the velocity window is  *)
(* complete, and a boost is what the observed transactions justify, for    *)
(* every set of wallets, chains, workers and timestamps.                   *)
(***************************************************************************)
EXTENDS RiskAssessment, FiniteSetTheorems, TLAPS

-----------------------------------------------------------------------------
(* The score *)

\* The weights that answered are among 10 .. 100, and weigh at most 1.0.
LEMMA WeightFacts ==
  ASSUME NEW m \in ModelScores
  PROVE  /\ TotalWeight(m) \in 10 .. 100
         /\ TotalWeight(m) * Unit \in Nat
         /\ Weighted(m) \in 0 .. TotalWeight(m) * Unit
<1>1. /\ m.gnn \in -1 .. Unit /\ m.autoencoder \in -1 .. Unit
      /\ m.isolation_forest \in -1 .. Unit /\ m.graph_centrality \in 0 .. Unit
  BY DEF ModelScores
<1>2. TotalWeight(m) \in 10 .. 100
  BY <1>1 DEF TotalWeight, Share, Available
<1>3. TotalWeight(m) * Unit
        = Share(m.gnn, 55) * Unit + Share(m.autoencoder, 25) * Unit
            + Share(m.isolation_forest, 10) * Unit + 10 * Unit
  BY <1>1, UnitAssumption DEF TotalWeight, Share, Available
<1>4. \A w \in {10, 25, 55}, x \in -1 .. Unit :
        /\ Part(x, w) \in Int /\ Share(x, w) \in Int
        /\ 0 <= Part(x, w) /\ Part(x, w) <= Share(x, w) * Unit
  BY UnitAssumption DEF Part, Share, Available
<1>5. 0 <= Weighted(m) /\ Weighted(m) <= TotalWeight(m) * Unit /\ Weighted(m) \in Int
  BY <1>1, <1>3, <1>4, UnitAssumption DEF Weighted
<1>6. TotalWeight(m) * Unit \in Nat
  BY <1>2, UnitAssumption
<1> QED
  BY <1>2, <1>5, <1>6

\* The composite is between 0 and 1 (the clamp of score).
THEOREM ScoreInRange ==
  ASSUME NEW m \in ModelScores, NEW boost \in Boosts, NEW live \in BOOLEAN
  PROVE  Score(m, boost, live) \in 0 .. Full(m)
<1> DEFINE one == TotalWeight(m) * Unit
<1>1. one \in Nat /\ Weighted(m) \in 0 .. one
  BY WeightFacts
<1> HIDE DEF one
<1>2. Average(m, live) \in 0 .. 2 * one
  BY <1>1 DEF Average
<1>3. Spurred(m, live) \in 0 .. 20 * one
  BY <1>1, <1>2 DEF Spurred, Least, one
<1>4. Floored(m, live) \in 0 .. 20 * one
  BY <1>1, <1>3 DEF Floored, Greatest, one
<1>5. Full(m) = 2000 * one
  BY DEF Full, one
<1>6. boost * Floored(m, live) \in Nat
  BY <1>1, <1>4 DEF Boosts
<1> QED
  BY <1>1, <1>5, <1>6 DEF Score, Greatest, Least

\* m and h have the same models answering, and h says the same or more.
SaysMore(h, m) ==
  /\ \A k \in Signals : h[k] >= m[k] /\ (Available(h[k]) <=> Available(m[k]))
  /\ m.velocity_flag => h.velocity_flag
  /\ m.known_bad_address => h.known_bad_address

LEMMA SaysMoreFacts ==
  ASSUME NEW m \in ModelScores, NEW h \in ModelScores, SaysMore(h, m)
  PROVE  /\ TotalWeight(h) = TotalWeight(m)
         /\ Weighted(h) >= Weighted(m)
         /\ Lone(h) <=> Lone(m)
<1>1. /\ m.gnn \in -1 .. Unit /\ m.autoencoder \in -1 .. Unit
      /\ m.isolation_forest \in -1 .. Unit /\ m.graph_centrality \in 0 .. Unit
  BY DEF ModelScores
<1>2. /\ h.gnn \in -1 .. Unit /\ h.autoencoder \in -1 .. Unit
      /\ h.isolation_forest \in -1 .. Unit /\ h.graph_centrality \in 0 .. Unit
  BY DEF ModelScores
<1>3. /\ h.gnn >= m.gnn /\ h.autoencoder >= m.autoencoder
      /\ h.isolation_forest >= m.isolation_forest
      /\ h.graph_centrality >= m.graph_centrality
      /\ Available(h.gnn) <=> Available(m.gnn)
      /\ Available(h.autoencoder) <=> Available(m.autoencoder)
      /\ Available(h.isolation_forest) <=> Available(m.isolation_forest)
  BY DEF SaysMore, Signals, Models
<1>4. TotalWeight(h) = TotalWeight(m)
  BY <1>3 DEF TotalWeight, Share
<1>5. \A w \in {10, 25, 55}, x, y \in -1 .. Unit :
        x >= y /\ (Available(x) <=> Available(y)) =>
          Part(x, w) \in Int /\ Part(y, w) \in Int /\ Part(x, w) >= Part(y, w)
  BY UnitAssumption DEF Part, Available
<1>6. Weighted(h) >= Weighted(m)
  <2>1. /\ Part(h.gnn, 55) \in Int /\ Part(m.gnn, 55) \in Int
        /\ Part(h.gnn, 55) >= Part(m.gnn, 55)
    BY <1>1, <1>2, <1>3, <1>5
  <2>2. /\ Part(h.autoencoder, 25) \in Int /\ Part(m.autoencoder, 25) \in Int
        /\ Part(h.autoencoder, 25) >= Part(m.autoencoder, 25)
    BY <1>1, <1>2, <1>3, <1>5
  <2>3. /\ Part(h.isolation_forest, 10) \in Int /\ Part(m.isolation_forest, 10) \in Int
        /\ Part(h.isolation_forest, 10) >= Part(m.isolation_forest, 10)
    BY <1>1, <1>2, <1>3, <1>5
  <2> QED
    BY <1>1, <1>2, <1>3, <2>1, <2>2, <2>3, UnitAssumption DEF Weighted
<1>7. Lone(h) <=> Lone(m)
  BY DEF Lone, SaysMore, Signals
<1> QED
  BY <1>4, <1>6, <1>7

\* No signal lowers the composite: with the same models answering, higher
\* scores, more flags and a higher boost never give a lower one (score).
THEOREM ScoreIsMonotone ==
  ASSUME NEW m \in ModelScores, NEW h \in ModelScores, SaysMore(h, m),
         NEW boost \in Boosts, NEW higher \in Boosts, higher >= boost,
         NEW live \in BOOLEAN
  PROVE  Score(h, higher, live) >= Score(m, boost, live)
<1> DEFINE one == TotalWeight(m) * Unit
<1>1. one \in Nat /\ Weighted(m) \in 0 .. one
  BY WeightFacts
<1>2. TotalWeight(h) * Unit = one /\ Weighted(h) \in 0 .. one
  BY WeightFacts, SaysMoreFacts
<1>3. Weighted(h) >= Weighted(m) /\ (Lone(h) <=> Lone(m))
  BY SaysMoreFacts
<1>a. TotalWeight(m) * Unit = one
  OBVIOUS
<1> HIDE DEF one
<1>4. /\ Average(h, live) >= Average(m, live)
      /\ Average(m, live) \in 0 .. 2 * one /\ Average(h, live) \in 0 .. 2 * one
  BY <1>1, <1>2, <1>3 DEF Average
<1>5. /\ Spurred(h, live) >= Spurred(m, live)
      /\ Spurred(m, live) \in 0 .. 20 * one /\ Spurred(h, live) \in 0 .. 20 * one
  BY <1>1, <1>2, <1>a, <1>4 DEF Spurred, Least, SaysMore, ModelScores
<1>6. /\ Floored(h, live) >= Floored(m, live)
      /\ Floored(m, live) \in Nat /\ Floored(h, live) \in Nat
  BY <1>1, <1>2, <1>a, <1>5 DEF Floored, Greatest, SaysMore, ModelScores
<1>7. /\ higher * Floored(h, live) >= boost * Floored(m, live)
      /\ higher * Floored(h, live) \in Nat /\ boost * Floored(m, live) \in Nat
  <2> DEFINE x == Floored(m, live)
             y == Floored(h, live)
  <2>1. x \in Nat /\ y \in Nat /\ y >= x
    BY <1>6
  <2> HIDE DEF x, y
  <2>2. higher * y >= boost * x /\ higher * y \in Nat /\ boost * x \in Nat
    BY <2>1 DEF Boosts
  <2> QED
    BY <2>2 DEF x, y
<1>8. Full(m) = 2000 * one /\ Full(h) = 2000 * one
  BY <1>2, <1>a DEF Full
<1> QED
  BY <1>1, <1>7, <1>8 DEF Score, Greatest, Least
-----------------------------------------------------------------------------
(* The velocity window *)

HistoryTypeOK ==
  /\ history \in [Processes -> [Addresses -> [Times -> Nat]]]
  /\ arrived \in [Processes -> [Addresses -> [Times -> Nat]]]

\* An address's history h and its arrivals r: h holds all of r inside the window.
Complete(h, r) ==
  \A x \in Times :
    /\ h[x] <= r[x]
    /\ (\A y \in Times : r[y] > 0 => x >= y - Window) => h[x] = r[x]

\* One transaction at time now keeps the history complete (_update_history).
LEMMA UpdatedIsComplete ==
  ASSUME NEW h \in [Times -> Nat], NEW r \in [Times -> Nat], NEW now \in Times, Complete(h, r)
  PROVE  /\ Updated(h, now) \in [Times -> Nat]
         /\ [r EXCEPT ![now] = @ + 1] \in [Times -> Nat]
         /\ Complete(Updated(h, now), [r EXCEPT ![now] = @ + 1])
<1> DEFINE s == [r EXCEPT ![now] = @ + 1]
           g == Updated(h, now)
<1>1. s \in [Times -> Nat] /\ g \in [Times -> Nat]
  BY DEF Updated
<1>2. \A y \in Times : s[y] = IF y = now THEN r[y] + 1 ELSE r[y]
  OBVIOUS
<1>3. \A y \in Times : g[y] = IF y >= now - Window THEN h[y] + (IF y = now THEN 1 ELSE 0) ELSE 0
  BY DEF Updated
<1>4. now \in Nat /\ Window \in Nat /\ Times \subseteq Nat
  BY TimeAssumption
<1> HIDE DEF s, g
<1>5. ASSUME NEW x \in Times
      PROVE  /\ g[x] <= s[x]
             /\ (\A y \in Times : s[y] > 0 => x >= y - Window) => g[x] = s[x]
  <2>1. h[x] \in Nat /\ r[x] \in Nat /\ h[x] <= r[x]
    BY DEF Complete
  <2>2. g[x] <= s[x]
    BY <1>2, <1>3, <2>1
  <2>3. ASSUME \A y \in Times : s[y] > 0 => x >= y - Window
        PROVE  g[x] = s[x]
    <3>1. s[now] > 0
      BY <1>2
    <3>2. x >= now - Window
      BY <2>3, <3>1
    <3>3. \A y \in Times : r[y] > 0 => s[y] > 0
      BY <1>2
    <3>4. h[x] = r[x]
      BY <2>3, <3>3 DEF Complete
    <3> QED
      BY <1>2, <1>3, <2>1, <3>2, <3>4
  <2> QED
    BY <2>2, <2>3
<1> QED
  BY <1>1, <1>5 DEF Complete, s, g

HistoryInv ==
  /\ HistoryTypeOK
  /\ \A p \in Processes, a \in Addresses : Complete(history[p][a], arrived[p][a])

LEMMA ExtractKeepsHistory ==
  ASSUME HistoryInv, NEW p \in Processes, NEW t \in Transactions, ExtractIn(p, t)
  PROVE  HistoryInv'
<1>1. t.from \in Addresses /\ t.time \in Times
  BY TransactionAssumption DEF Payloads
<1> DEFINE h == history[p][t.from]
           r == arrived[p][t.from]
<1>2. h \in [Times -> Nat] /\ r \in [Times -> Nat] /\ Complete(h, r)
  BY <1>1 DEF HistoryInv, HistoryTypeOK
<1>3. /\ Updated(h, t.time) \in [Times -> Nat]
      /\ [r EXCEPT ![t.time] = @ + 1] \in [Times -> Nat]
      /\ Complete(Updated(h, t.time), [r EXCEPT ![t.time] = @ + 1])
  BY <1>1, <1>2, UpdatedIsComplete
<1>4. history' = [history EXCEPT ![p] = [history[p] EXCEPT ![t.from] = Updated(h, t.time)]]
  BY DEF ExtractIn
<1>5. arrived' = [arrived EXCEPT ![p] =
                    [arrived[p] EXCEPT ![t.from] = [r EXCEPT ![t.time] = @ + 1]]]
  BY DEF ExtractIn
<1> HIDE DEF h, r
<1>6. HistoryTypeOK'
  BY <1>1, <1>3, <1>4, <1>5 DEF HistoryInv, HistoryTypeOK
<1>7. ASSUME NEW q \in Processes, NEW a \in Addresses
      PROVE  Complete(history'[q][a], arrived'[q][a])
  <2>1. CASE q = p /\ a = t.from
    BY <1>1, <1>3, <1>4, <1>5, <2>1 DEF HistoryInv, HistoryTypeOK
  <2>2. CASE ~(q = p /\ a = t.from)
    <3>1. history'[q][a] = history[q][a] /\ arrived'[q][a] = arrived[q][a]
      BY <1>4, <1>5, <2>2 DEF HistoryInv, HistoryTypeOK
    <3> QED
      BY <3>1 DEF HistoryInv
  <2> QED
    BY <2>1, <2>2
<1> QED
  BY <1>6, <1>7 DEF HistoryInv

THEOREM HistoryInvAlways == Spec => []HistoryInv
<1>1. Init => HistoryInv
  <2> SUFFICES ASSUME Init PROVE HistoryInv
    OBVIOUS
  <2>1. NoEntries \in [Addresses -> [Times -> Nat]]
    BY DEF NoEntries
  <2>2. \A a \in Addresses : Complete(NoEntries[a], NoEntries[a])
    BY DEF NoEntries, Complete
  <2> QED
    BY <2>1, <2>2 DEF Init, HistoryInv, HistoryTypeOK
<1>2. HistoryInv /\ [Next]_vars => HistoryInv'
  <2> SUFFICES ASSUME HistoryInv, [Next]_vars PROVE HistoryInv'
    OBVIOUS
  <2>1. ASSUME NEW w \in Workers, NEW t \in Transactions, Extract(w, t) PROVE HistoryInv'
    BY <2>1, ExtractKeepsHistory DEF Extract, Processes
  <2>2. ASSUME NEW t \in Transactions, AnalyzeTransaction(t) PROVE HistoryInv'
    BY <2>2, ExtractKeepsHistory DEF AnalyzeTransaction, Processes
  <2>3. CASE UNCHANGED <<history, arrived>>
    BY <2>3 DEF HistoryInv, HistoryTypeOK
  <2> QED
    BY <2>1, <2>2, <2>3
    DEF Next, vars, Observe, ScoreTransaction, ScoringFails, Leave, AnalyzeWallet
<1> QED
  BY <1>1, <1>2, PTL DEF Spec

\* Every transaction of a sender that is inside the window behind its newest is
\* in its history, in the pipeline and in the API (_update_history).
THEOREM WindowIsCompleteAlways == Spec => []WindowIsComplete
<1>1. HistoryInv => WindowIsComplete
  BY DEF HistoryInv, Complete, WindowIsComplete
<1> QED
  BY <1>1, HistoryInvAlways, PTL

-----------------------------------------------------------------------------
(* The index and the boost *)

IndexTypeOK ==
  /\ observed \subseteq Transactions
  /\ chainsOf \in [Addresses -> SUBSET Chains]
  /\ bridgeHits \in [Addresses -> Nat]
  /\ assetHits \in [Addresses -> Nat]

Mine(a) == {t \in observed : a \in {t.from, t.to}}
Bridged(a) == \E t \in Mine(a) : {t.from, t.to} \cap Bridges # {}
HoldsAsset(a) == \E t \in Mine(a) : t.from = a /\ t.to \in Assets

\* The index of a wallet says what the observed transactions say.
IndexInv ==
  /\ IndexTypeOK
  /\ \A a \in Wallets :
       /\ chainsOf[a] = {t.chain : t \in Mine(a)}
       /\ bridgeHits[a] > 0 <=> Bridged(a)
       /\ assetHits[a] > 0 <=> HoldsAsset(a)

\* Among wallets, the actor of a bridge interaction is who traded with a bridge.
LEMMA ActorIsTrader ==
  ASSUME NEW t \in Transactions, NEW a \in Wallets
  PROVE  a \in BridgeActor(t) <=> a \in {t.from, t.to} /\ {t.from, t.to} \cap Bridges # {}
<1>1. a \notin Bridges /\ a # Creates /\ t.from \in Addresses
  BY TransactionAssumption, AddressAssumption DEF Payloads, Addresses
<1>2. CASE t.to \in Bridges
  BY <1>1, <1>2 DEF BridgeActor
<1>3. CASE t.to \notin Bridges /\ t.from \in Bridges
  BY <1>1, <1>3 DEF BridgeActor
<1>4. CASE t.to \notin Bridges /\ t.from \notin Bridges
  BY <1>1, <1>4 DEF BridgeActor
<1> QED
  BY <1>2, <1>3, <1>4

LEMMA ObserveKeepsIndex ==
  ASSUME IndexInv, NEW t \in Transactions, ObserveChains(t)
  PROVE  IndexInv'
<1>1. t.from \in Addresses /\ t.chain \in Chains
  BY TransactionAssumption DEF Payloads
<1>2. observed' = observed \cup {t} /\ observed' \subseteq Transactions
  BY DEF ObserveChains, IndexInv, IndexTypeOK
<1>3. IndexTypeOK'
  <2>1. chainsOf' \in [Addresses -> SUBSET Chains]
    <3>1. \A a \in Addresses :
            chainsOf[a] \cup (IF a \in {t.from, t.to} THEN {t.chain} ELSE {}) \in SUBSET Chains
      BY <1>1 DEF IndexInv, IndexTypeOK
    <3> QED
      BY <3>1 DEF ObserveChains
  <2>2. bridgeHits' \in [Addresses -> Nat]
    BY DEF ObserveChains, IndexInv, IndexTypeOK
  <2>3. assetHits' \in [Addresses -> Nat]
    BY DEF ObserveChains, IndexInv, IndexTypeOK
  <2> QED
    BY <1>2, <2>1, <2>2, <2>3 DEF IndexTypeOK
<1>4. ASSUME NEW a \in Wallets
      PROVE  /\ chainsOf'[a] = {u.chain : u \in Mine(a)'}
             /\ bridgeHits'[a] > 0 <=> Bridged(a)'
             /\ assetHits'[a] > 0 <=> HoldsAsset(a)'
  <2>1. a \in Addresses
    BY DEF Addresses
  <2>2. Mine(a)' = Mine(a) \cup (IF a \in {t.from, t.to} THEN {t} ELSE {})
    BY <1>2 DEF Mine
  <2>3. chainsOf'[a] = {u.chain : u \in Mine(a)'}
    <3>1. chainsOf'[a] = chainsOf[a] \cup (IF a \in {t.from, t.to} THEN {t.chain} ELSE {})
      BY <2>1 DEF ObserveChains
    <3>2. chainsOf[a] = {u.chain : u \in Mine(a)}
      BY DEF IndexInv
    <3>3. CASE a \in {t.from, t.to}
      <4>1. Mine(a)' = Mine(a) \cup {t}
        BY <2>2, <3>3
      <4>2. chainsOf'[a] = {u.chain : u \in Mine(a)} \cup {t.chain}
        BY <3>1, <3>2, <3>3
      <4> QED
        BY <4>1, <4>2
    <3>4. CASE a \notin {t.from, t.to}
      BY <2>2, <3>1, <3>2, <3>4
    <3> QED
      BY <3>3, <3>4
  <2>4. bridgeHits'[a] > 0 <=> Bridged(a)'
    <3>1. bridgeHits[a] \in Nat /\ (bridgeHits[a] > 0 <=> Bridged(a))
      BY <2>1 DEF IndexInv, IndexTypeOK
    <3>2. bridgeHits'[a] = bridgeHits[a] + (IF a \in BridgeActor(t) THEN 1 ELSE 0)
      BY <2>1 DEF ObserveChains
    <3>3. bridgeHits'[a] > 0 <=> Bridged(a) \/ a \in BridgeActor(t)
      BY <3>1, <3>2
    <3>4. Bridged(a)' <=> Bridged(a) \/ (a \in {t.from, t.to} /\ {t.from, t.to} \cap Bridges # {})
      BY <2>2 DEF Bridged
    <3> QED
      BY <3>3, <3>4, ActorIsTrader
  <2>5. assetHits'[a] > 0 <=> HoldsAsset(a)'
    <3>1. assetHits[a] \in Nat /\ (assetHits[a] > 0 <=> HoldsAsset(a))
      BY <2>1 DEF IndexInv, IndexTypeOK
    <3>2. assetHits'[a] = assetHits[a] + (IF a = t.from /\ t.to \in Assets THEN 1 ELSE 0)
      BY <2>1 DEF ObserveChains
    <3>3. HoldsAsset(a)' <=> HoldsAsset(a) \/ (a = t.from /\ t.to \in Assets)
      BY <2>2 DEF HoldsAsset
    <3> QED
      BY <3>1, <3>2, <3>3
  <2> QED
    BY <2>3, <2>4, <2>5
<1> QED
  BY <1>3, <1>4 DEF IndexInv

\* The order of its tests is the order of its factors: a boost grows with each
\* of the signals (cross_chain_risk_boost).
LEMMA BoostIsMonotone ==
  ASSUME NEW c \in SUBSET Chains, NEW d \in SUBSET Chains, c \subseteq d,
         NEW hits \in Nat, NEW moreHits \in Nat, hits <= moreHits,
         NEW asset \in Nat, NEW moreAsset \in Nat, asset <= moreAsset
  PROVE  /\ BoostFor(c, hits, asset) \in Boosts
         /\ BoostFor(d, moreHits, moreAsset) \in Boosts
         /\ BoostFor(c, hits, asset) <= BoostFor(d, moreHits, moreAsset)
<1>1. IsFiniteSet(c) /\ IsFiniteSet(d)
  BY TransactionAssumption, FS_Subset
<1>2. Cardinality(c) \in Nat /\ Cardinality(d) \in Nat /\ Cardinality(c) <= Cardinality(d)
  BY <1>1, FS_Subset, FS_CardinalityType
<1>3. Cardinality(c) > 1 => Cardinality(d) > 1
  BY <1>2
<1> QED
  BY <1>3 DEF BoostFor, Boosts

\* Observing a transaction takes no boost back.
LEMMA ObserveRaisesBoosts ==
  ASSUME IndexInv, NEW t \in Transactions, ObserveChains(t), NEW a \in Addresses
  PROVE  Boost(a) \in Boosts /\ Boost(a)' \in Boosts /\ Boost(a) <= Boost(a)'
<1>1. IndexTypeOK /\ IndexTypeOK'
  BY ObserveKeepsIndex DEF IndexInv
<1>2. chainsOf[a] \in SUBSET Chains /\ chainsOf'[a] \in SUBSET Chains
  BY <1>1 DEF IndexTypeOK
<1>3. bridgeHits[a] \in Nat /\ bridgeHits'[a] \in Nat
  BY <1>1 DEF IndexTypeOK
<1>4. assetHits[a] \in Nat /\ assetHits'[a] \in Nat
  BY <1>1 DEF IndexTypeOK
<1>5. chainsOf[a] \subseteq chainsOf'[a]
  BY DEF ObserveChains
<1>6. bridgeHits[a] <= bridgeHits'[a]
  BY <1>3 DEF ObserveChains
<1>7. assetHits[a] <= assetHits'[a]
  BY <1>4 DEF ObserveChains
<1> QED
  BY <1>2, <1>3, <1>4, <1>5, <1>6, <1>7, BoostIsMonotone DEF Boost

LEMMA CentralityFacts ==
  ASSUME NEW G, NEW H, G \subseteq H, IsFiniteSet(H), NEW a \in Addresses
  PROVE  /\ Centrality(G, a) \in 0 .. Unit /\ Centrality(H, a) \in 0 .. Unit
         /\ Centrality(G, a) <= Centrality(H, a)
<1> DEFINE out(S) == {e \in S : e[1] = a}
           in(S) == {e \in S : e[2] = a}
           step == Unit \div FullDegree
<1>1. /\ IsFiniteSet(out(H)) /\ IsFiniteSet(in(H))
      /\ out(G) \subseteq out(H) /\ in(G) \subseteq in(H)
  <2>1. out(H) \subseteq H /\ in(H) \subseteq H
    OBVIOUS
  <2> QED
    BY <2>1, FS_Subset
<1>2. /\ Cardinality(out(G)) \in Nat /\ Cardinality(out(H)) \in Nat
      /\ Cardinality(out(G)) <= Cardinality(out(H))
  BY <1>1, FS_Subset, FS_CardinalityType
<1>3. /\ Cardinality(in(G)) \in Nat /\ Cardinality(in(H)) \in Nat
      /\ Cardinality(in(G)) <= Cardinality(in(H))
  BY <1>1, FS_Subset, FS_CardinalityType
<1>4. Degree(G, a) \in Nat /\ Degree(H, a) \in Nat /\ Degree(G, a) <= Degree(H, a)
  <2>1. /\ Degree(G, a) = Cardinality(out(G)) + Cardinality(in(G))
        /\ Degree(H, a) = Cardinality(out(H)) + Cardinality(in(H))
    BY DEF Degree
  <2> HIDE DEF out, in
  <2> QED
    BY <1>2, <1>3, <2>1
<1>5. step \in Nat
  BY UnitAssumption, DegreeAssumption
<1> HIDE DEF step
<1>6. \A d, e \in Nat : d <= e => d * step \in Nat /\ e * step \in Nat /\ d * step <= e * step
  BY <1>5
<1>7. /\ Degree(G, a) * step \in Nat /\ Degree(H, a) * step \in Nat
      /\ Degree(G, a) * step <= Degree(H, a) * step
  BY <1>4, <1>6
<1> QED
  BY <1>7, UnitAssumption DEF Centrality, Least, step

-----------------------------------------------------------------------------
(* Workers and assessments *)

GraphInv == edges \subseteq Addresses \X Addresses /\ IsFiniteSet(edges)

\* What a worker carries is of its type and not ahead of the graph or the index.
JobOK(w) ==
  /\ job[w].tx \in Transactions
  /\ job[w].centrality \in 0 .. Unit
  /\ job[w].boost \in Boosts
  /\ wpc[w] = "live" => /\ job[w].boost <= Boost(job[w].tx.from)
                        /\ job[w].centrality <= Centrality(edges, job[w].tx.from)

WorkerInv ==
  /\ wpc \in [Workers -> {"idle", "models", "live"}]
  /\ job = [w \in Workers |-> job[w]]
  /\ \A w \in Workers : wpc[w] # "idle" => JobOK(w)

AssessmentInv ==
  assessment # None =>
    /\ assessment.model_scores \in ModelScores
    /\ assessment.boost \in Boosts
    /\ assessment.live \in BOOLEAN
    /\ assessment.score = Score(assessment.model_scores, assessment.boost, assessment.live)

IInv == IndexInv /\ GraphInv /\ WorkerInv /\ trusted \in BOOLEAN /\ AssessmentInv

LEMMA AssessmentIsTyped ==
  ASSUME NEW a, NEW m \in ModelScores, NEW boost \in Boosts, NEW live \in BOOLEAN,
         Assess(a, m, boost, live)
  PROVE  AssessmentInv'
BY DEF Assess, AssessmentInv

LEMMA ExtractKeepsIInv ==
  ASSUME IInv, NEW w \in Workers, NEW t \in Transactions, Extract(w, t)
  PROVE  IInv'
<1>1. IndexInv' /\ GraphInv' /\ trusted' \in BOOLEAN
  BY DEF Extract, IInv, indexVars, IndexInv, IndexTypeOK, GraphInv, Mine, Bridged, HoldsAsset
<1>2. AssessmentInv'
  BY DEF Extract, AssessmentInv
<1>3. wpc' \in [Workers -> {"idle", "models", "live"}]
  BY DEF Extract, IInv, WorkerInv
<1>4. job' = [v \in Workers |-> job'[v]]
  BY DEF Extract, IInv, WorkerInv
<1>5. ASSUME NEW v \in Workers, wpc'[v] # "idle"
      PROVE  JobOK(v)'
  <2>1. CASE v = w
    <3>1. wpc'[v] = "models" /\ job'[v].tx = t /\ job'[v].centrality = 0 /\ job'[v].boost = 100
      BY <2>1 DEF Extract, IInv, WorkerInv
    <3> QED
      BY <3>1, UnitAssumption DEF JobOK, Boosts
  <2>2. CASE v # w
    <3>1. wpc'[v] = wpc[v] /\ job'[v] = job[v]
      BY <2>2 DEF Extract, IInv, WorkerInv
    <3>2. JobOK(v)
      BY <1>5, <3>1 DEF IInv, WorkerInv
    <3> QED
      BY <3>1, <3>2 DEF JobOK, Extract, indexVars, Boost
  <2> QED
    BY <2>1, <2>2
<1> QED
  BY <1>1, <1>2, <1>3, <1>4, <1>5 DEF IInv, WorkerInv

LEMMA ObserveKeepsIInv ==
  ASSUME IInv, NEW w \in Workers, Observe(w)
  PROVE  IInv'
<1>0. wpc[w] = "models" /\ JobOK(w)
  BY DEF Observe, IInv, WorkerInv
<1>t. PICK t \in Transactions : t = job[w].tx
  BY <1>0 DEF JobOK
<1>1. ObserveChains(t)
  BY <1>t DEF Observe
<1>2. t.from \in Addresses /\ t.to \in Addresses \cup {Creates}
  BY <1>1, TransactionAssumption DEF Payloads
<1>3. IndexInv'
  BY <1>1, ObserveKeepsIndex DEF IInv
<1>4. edges' = edges \cup {<<t.from, a>> : a \in {t.to} \ {Creates}}
  BY <1>t DEF Observe
<1>5. GraphInv' /\ edges \subseteq edges'
  <2>1. {<<t.from, a>> : a \in {t.to} \ {Creates}} \subseteq {<<t.from, t.to>>}
    OBVIOUS
  <2>2. IsFiniteSet({<<t.from, t.to>>})
    BY FS_Singleton
  <2>3. IsFiniteSet({<<t.from, a>> : a \in {t.to} \ {Creates}})
    BY <2>1, <2>2, FS_Subset
  <2>4. IsFiniteSet(edges')
    BY <1>4, <2>3, FS_Union DEF IInv, GraphInv
  <2>5. {<<t.from, a>> : a \in {t.to} \ {Creates}} \subseteq Addresses \X Addresses
    BY <1>2
  <2> QED
    BY <1>4, <2>4, <2>5 DEF IInv, GraphInv
<1>6. AssessmentInv' /\ trusted' \in BOOLEAN
  BY DEF Observe, AssessmentInv, IInv
<1>7. wpc' = [wpc EXCEPT ![w] = "live"]
  BY DEF Observe
<1>8. job' = [job EXCEPT ![w] =
               [tx |-> t, count |-> job[w].count, centrality |-> Centrality(edges', t.from),
                boost |-> BoostFor(chainsOf'[t.from], bridgeHits'[t.from], assetHits'[t.from])]]
  BY <1>t DEF Observe
<1>9. \A a \in Addresses : /\ Boost(a)' \in Boosts /\ Boost(a) <= Boost(a)'
                           /\ Centrality(edges', a) \in 0 .. Unit
                           /\ Centrality(edges, a) \in 0 .. Unit
                           /\ Centrality(edges, a) <= Centrality(edges', a)
  BY <1>1, <1>5, ObserveRaisesBoosts, CentralityFacts DEF IInv, GraphInv
<1>10. ASSUME NEW v \in Workers, wpc'[v] # "idle"
       PROVE  JobOK(v)'
  <2>1. CASE v = w
    <3>1. /\ job'[v].tx = t /\ job'[v].centrality = Centrality(edges', t.from)
          /\ job'[v].boost = BoostFor(chainsOf'[t.from], bridgeHits'[t.from], assetHits'[t.from])
      BY <1>8, <2>1 DEF IInv, WorkerInv
    <3>2. job'[v].boost = Boost(t.from)'
      BY <3>1 DEF Boost
    <3>3. Boost(t.from)' \in Int /\ Boost(t.from)' \in Boosts
      BY <1>2, <1>9 DEF Boosts
    <3>4. Boost(job[v].tx.from)' = Boost(t.from)'
      BY <3>1 DEF Boost
    <3>5. Centrality(edges, job[v].tx.from)' = Centrality(edges', t.from)
      BY <3>1
    <3> QED
      BY <1>1, <1>2, <1>9, <3>1, <3>2, <3>3, <3>4, <3>5 DEF JobOK
  <2>2. CASE v # w
    <3>1. wpc'[v] = wpc[v] /\ job'[v] = job[v]
      BY <1>7, <1>8, <2>2 DEF IInv, WorkerInv
    <3>2. JobOK(v)
      BY <1>10, <3>1 DEF IInv, WorkerInv
    <3>3. PICK a \in Addresses : a = job[v].tx.from
      BY <3>2, TransactionAssumption DEF JobOK, Payloads
    <3>4. job[v].boost \in Int /\ job[v].centrality \in Int
      BY <3>2 DEF JobOK, Boosts
    <3>5. /\ Boost(a)' \in Int /\ Boost(a) \in Int /\ Boost(a) <= Boost(a)'
      BY <1>1, ObserveRaisesBoosts DEF Boosts, IInv
    <3>6. Boost(job[v].tx.from)' = Boost(a)'
      BY <3>1, <3>3 DEF Boost
    <3>7. Centrality(edges, job[v].tx.from)' = Centrality(edges', a)
      BY <3>1, <3>3
    <3>8. /\ Centrality(edges', a) \in Int /\ Centrality(edges, a) \in Int
          /\ Centrality(edges, a) <= Centrality(edges', a)
      BY <1>9, UnitAssumption
    <3>9. wpc[v] = "live" => job[v].boost <= Boost(a) /\ job[v].centrality <= Centrality(edges, a)
      BY <3>2, <3>3 DEF JobOK
    <3>10. wpc[v] = "live" => job[v].boost <= Boost(a)' /\ job[v].centrality <= Centrality(edges', a)
      BY <3>4, <3>5, <3>8, <3>9
    <3> QED
      BY <3>1, <3>2, <3>6, <3>7, <3>10 DEF JobOK
  <2> QED
    BY <2>1, <2>2
<1>11. wpc' \in [Workers -> {"idle", "models", "live"}] /\ job' = [v \in Workers |-> job'[v]]
  BY <1>7, <1>8 DEF IInv, WorkerInv
<1> QED
  BY <1>3, <1>5, <1>6, <1>10, <1>11 DEF IInv, WorkerInv

LEMMA LeaveKeepsIInv ==
  ASSUME IInv, NEW w \in Workers, Leave(w), AssessmentInv'
  PROVE  IInv'
<1>1. IndexInv' /\ GraphInv' /\ trusted' \in BOOLEAN
  BY DEF Leave, IInv, indexVars, IndexInv, IndexTypeOK, GraphInv, Mine, Bridged, HoldsAsset
<1>2. wpc' \in [Workers -> {"idle", "models", "live"}] /\ job' = [v \in Workers |-> job'[v]]
  BY DEF Leave, IInv, WorkerInv
<1>3. ASSUME NEW v \in Workers, wpc'[v] # "idle"
      PROVE  JobOK(v)'
  <2>1. v # w /\ wpc'[v] = wpc[v] /\ job'[v] = job[v]
    BY <1>3 DEF Leave, IInv, WorkerInv
  <2>2. JobOK(v)
    BY <1>3, <2>1 DEF IInv, WorkerInv
  <2> QED
    BY <2>1, <2>2 DEF JobOK, Leave, indexVars, Boost
<1> QED
  BY <1>1, <1>2, <1>3 DEF IInv, WorkerInv

LEMMA ScoreKeepsIInv ==
  ASSUME IInv, NEW w \in Workers, ScoreTransaction(w)
  PROVE  IInv'
<1>1. wpc[w] = "live" /\ Leave(w)
  BY DEF ScoreTransaction
<1>2. JobOK(w)
  BY <1>1 DEF IInv, WorkerInv
<1>3. \A k : Answers(k) \subseteq -1 .. Unit
  BY ScoreAssumption, UnitAssumption DEF Answers
<1>4. PICK gnn \in Answers(IF trusted THEN "gnn" ELSE "live_model"),
           ae \in (IF trusted THEN Answers("autoencoder") ELSE {-1}),
           forest \in (IF trusted THEN Answers("isolation_forest") ELSE {-1}) :
        Assess(job[w].tx.from,
               [gnn |-> gnn, autoencoder |-> ae, isolation_forest |-> forest,
                graph_centrality |-> job[w].centrality,
                velocity_flag |-> job[w].count > VelocityLimit, known_bad_address |-> FALSE],
               job[w].boost, ~trusted)
  BY DEF ScoreTransaction
<1>5. gnn \in -1 .. Unit /\ ae \in -1 .. Unit /\ forest \in -1 .. Unit
  BY <1>3, UnitAssumption
<1>6. [gnn |-> gnn, autoencoder |-> ae, isolation_forest |-> forest,
       graph_centrality |-> job[w].centrality,
       velocity_flag |-> job[w].count > VelocityLimit, known_bad_address |-> FALSE] \in ModelScores
  BY <1>2, <1>5 DEF ModelScores, JobOK
<1>7. AssessmentInv'
  BY <1>2, <1>4, <1>6, AssessmentIsTyped DEF JobOK, IInv
<1> QED
  BY <1>1, <1>7, LeaveKeepsIInv
LEMMA AnalyzeWalletKeepsIInv ==
  ASSUME IInv, NEW a \in Addresses, AnalyzeWallet(a)
  PROVE  IInv'
<1>1. IndexInv' /\ GraphInv' /\ trusted' \in BOOLEAN
  BY DEF AnalyzeWallet, IInv, indexVars, IndexInv, IndexTypeOK, GraphInv, Mine, Bridged, HoldsAsset
<1>2. WorkerInv'
  BY DEF AnalyzeWallet, IInv, indexVars, WorkerInv, JobOK, Boost
<1>3. PICK degree \in 0 .. FullDegree :
        Assess(a, [gnn |-> -1, autoencoder |-> -1, isolation_forest |-> -1,
                   graph_centrality |-> degree * (Unit \div FullDegree),
                   velocity_flag |-> FALSE, known_bad_address |-> a \in KnownBad], 100, FALSE)
  BY DEF AnalyzeWallet
<1>4. degree * (Unit \div FullDegree) \in 0 .. Unit
  <2> DEFINE step == Unit \div FullDegree
  <2>1. step \in Nat /\ Unit = FullDegree * step
    BY UnitAssumption, DegreeAssumption
  <2> HIDE DEF step
  <2>2. \A d \in 0 .. FullDegree : d * step \in Nat /\ d * step <= FullDegree * step
    BY <2>1, DegreeAssumption
  <2>3. degree * step \in 0 .. Unit
    BY <2>1, <2>2, UnitAssumption
  <2> QED
    BY <2>3 DEF step
<1>5. [gnn |-> -1, autoencoder |-> -1, isolation_forest |-> -1,
       graph_centrality |-> degree * (Unit \div FullDegree),
       velocity_flag |-> FALSE, known_bad_address |-> a \in KnownBad] \in ModelScores
  BY <1>4, UnitAssumption DEF ModelScores
<1>6. AssessmentInv'
  BY <1>3, <1>5, AssessmentIsTyped DEF Boosts
<1> QED
  BY <1>1, <1>2, <1>6 DEF IInv

LEMMA AnalyzeTransactionKeepsIInv ==
  ASSUME IInv, NEW t \in Transactions, AnalyzeTransaction(t)
  PROVE  IInv'
<1>1. IndexInv' /\ GraphInv' /\ trusted' \in BOOLEAN
  BY DEF AnalyzeTransaction, IInv, indexVars, IndexInv, IndexTypeOK, GraphInv, Mine, Bridged,
         HoldsAsset
<1>2. WorkerInv'
  BY DEF AnalyzeTransaction, IInv, indexVars, WorkerInv, JobOK, Boost
<1>3. PICK ae \in Answers("autoencoder"), forest \in Answers("isolation_forest") :
        Assess(t.from, [gnn |-> -1, autoencoder |-> ae, isolation_forest |-> forest,
                        graph_centrality |-> 0,
                        velocity_flag |-> FALSE, known_bad_address |-> t.from \in KnownBad],
               100, FALSE)
  BY DEF AnalyzeTransaction
<1>4. ae \in -1 .. Unit /\ forest \in -1 .. Unit
  BY ScoreAssumption, UnitAssumption DEF Answers
<1>5. [gnn |-> -1, autoencoder |-> ae, isolation_forest |-> forest, graph_centrality |-> 0,
       velocity_flag |-> FALSE, known_bad_address |-> t.from \in KnownBad] \in ModelScores
  BY <1>4, UnitAssumption DEF ModelScores
<1>6. AssessmentInv'
  BY <1>3, <1>5, AssessmentIsTyped DEF Boosts
<1> QED
  BY <1>1, <1>2, <1>6 DEF IInv

\* The inductive invariant of the index, the workers and the assessment.
THEOREM IInvAlways == Spec => []IInv
<1>1. Init => IInv
  <2> SUFFICES ASSUME Init PROVE IInv
    OBVIOUS
  <2>1. IndexInv
    BY DEF Init, IndexInv, IndexTypeOK, Mine, Bridged, HoldsAsset, Addresses
  <2>2. GraphInv
    BY FS_EmptySet DEF Init, GraphInv
  <2>3. WorkerInv /\ trusted \in BOOLEAN /\ AssessmentInv
    BY DEF Init, WorkerInv, AssessmentInv
  <2> QED
    BY <2>1, <2>2, <2>3 DEF IInv
<1>2. IInv /\ [Next]_vars => IInv'
  <2> SUFFICES ASSUME IInv, [Next]_vars PROVE IInv'
    OBVIOUS
  <2>1. ASSUME NEW w \in Workers, NEW t \in Transactions, Extract(w, t) PROVE IInv'
    BY <2>1, ExtractKeepsIInv
  <2>2. ASSUME NEW w \in Workers, Observe(w) PROVE IInv'
    BY <2>2, ObserveKeepsIInv
  <2>3. ASSUME NEW w \in Workers, ScoreTransaction(w) PROVE IInv'
    BY <2>3, ScoreKeepsIInv
  <2>4. ASSUME NEW w \in Workers, ScoringFails(w) PROVE IInv'
    BY <2>4, LeaveKeepsIInv DEF ScoringFails, AssessmentInv
  <2>5. ASSUME NEW a \in Addresses, AnalyzeWallet(a) PROVE IInv'
    BY <2>5, AnalyzeWalletKeepsIInv
  <2>6. ASSUME NEW t \in Transactions, AnalyzeTransaction(t) PROVE IInv'
    BY <2>6, AnalyzeTransactionKeepsIInv
  <2>7. CASE UNCHANGED vars
    BY <2>7 DEF vars, indexVars, IInv, IndexInv, IndexTypeOK, GraphInv, WorkerInv, JobOK,
                AssessmentInv, Boost, Mine, Bridged, HoldsAsset
  <2> QED
    BY <2>1, <2>2, <2>3, <2>4, <2>5, <2>6, <2>7 DEF Next
<1> QED
  BY <1>1, <1>2, PTL DEF Spec

\* A wallet's boost is exactly what the transactions observed so far justify
\* (observe, cross_chain_risk_boost).
THEOREM BoostIsEarnedAlways == Spec => []BoostIsEarned
<1>1. IInv => BoostIsEarned
  <2> SUFFICES ASSUME IInv, NEW a \in Wallets
               PROVE  LET mine == {t \in observed : a \in {t.from, t.to}}
                          crossed == Cardinality({t.chain : t \in mine}) > 1
                          bridged == \E t \in mine : {t.from, t.to} \cap Bridges # {}
                          asset == \E t \in mine : t.from = a /\ t.to \in Assets
                      IN /\ Boost(a) >= 125 <=> bridged
                         /\ Boost(a) = 140 <=> bridged /\ crossed
                         /\ Boost(a) >= 115 <=> bridged \/ crossed
                         /\ Boost(a) > 100 <=> bridged \/ crossed \/ asset
    BY DEF BoostIsEarned
  <2>1. /\ chainsOf[a] = {t.chain : t \in Mine(a)}
        /\ bridgeHits[a] > 0 <=> Bridged(a)
        /\ assetHits[a] > 0 <=> HoldsAsset(a)
    BY DEF IInv, IndexInv
  <2>2. bridgeHits[a] \in Nat /\ assetHits[a] \in Nat
    BY DEF IInv, IndexInv, IndexTypeOK, Addresses
  <2> DEFINE crossed == Cardinality({t.chain : t \in Mine(a)}) > 1
  <2>3. Boost(a) = (CASE bridgeHits[a] > 0 /\ crossed -> 140
                      [] bridgeHits[a] > 0 /\ ~crossed -> 125
                      [] bridgeHits[a] = 0 /\ crossed -> 115
                      [] bridgeHits[a] = 0 /\ ~crossed /\ assetHits[a] > 0 -> 108
                      [] OTHER -> 100)
    BY <2>1 DEF Boost, BoostFor
  <2> HIDE DEF crossed
  <2>4. /\ Boost(a) >= 125 <=> Bridged(a)
        /\ Boost(a) = 140 <=> Bridged(a) /\ crossed
        /\ Boost(a) >= 115 <=> Bridged(a) \/ crossed
        /\ Boost(a) > 100 <=> Bridged(a) \/ crossed \/ HoldsAsset(a)
    BY <2>1, <2>2, <2>3
  <2> QED
    BY <2>4 DEF Mine, Bridged, HoldsAsset, crossed
<1> QED
  BY <1>1, IInvAlways, PTL

\* What a worker uses after its second await never says more than the graph and
\* the index do by then (scoring_worker).
THEOREM JobsNeverOverstateAlways == Spec => []JobsNeverOverstate
<1>1. IInv => JobsNeverOverstate
  BY DEF IInv, WorkerInv, JobOK, JobsNeverOverstate
<1> QED
  BY <1>1, IInvAlways, PTL

\* No step takes a boost back (cross_chain_risk_boost).
THEOREM BoostNeverFallsAlways == Spec => BoostNeverFalls
<1>1. IInv /\ [Next]_vars => [\A a \in Addresses : Boost(a)' >= Boost(a)]_vars
  <2> SUFFICES ASSUME IInv, Next, NEW a \in Addresses
               PROVE  Boost(a)' >= Boost(a)
    OBVIOUS
  <2>1. Boost(a) \in Int
    <3>1. /\ chainsOf[a] \in SUBSET Chains /\ bridgeHits[a] \in Nat /\ assetHits[a] \in Nat
      BY DEF IInv, IndexInv, IndexTypeOK
    <3> QED
      BY <3>1, BoostIsMonotone DEF Boost, Boosts
  <2>2. ASSUME NEW w \in Workers, Observe(w) PROVE Boost(a)' >= Boost(a)
    <3>1. PICK t \in Transactions : ObserveChains(t)
      BY <2>2 DEF Observe, IInv, WorkerInv, JobOK
    <3> QED
      BY <3>1, ObserveRaisesBoosts DEF IInv, Boosts
  <2>3. CASE UNCHANGED indexVars
    <3>1. Boost(a)' = Boost(a)
      BY <2>3 DEF indexVars, Boost
    <3> QED
      BY <2>1, <3>1
  <2> QED
    BY <2>2, <2>3
    DEF Next, Extract, ScoreTransaction, ScoringFails, Leave, AnalyzeWallet, AnalyzeTransaction
<1> QED
  BY <1>1, IInvAlways, PTL DEF Spec, BoostNeverFalls

\* In every assessment made, a higher signal would not have given a lower score
\* (score).
THEOREM SignalsNeverLowerAlways == Spec => []SignalsNeverLower
<1>1. IInv => SignalsNeverLower
  <2> SUFFICES ASSUME IInv, assessment # None,
                      NEW gnn \in Raised(assessment.model_scores.gnn),
                      NEW ae \in Raised(assessment.model_scores.autoencoder),
                      NEW forest \in Raised(assessment.model_scores.isolation_forest),
                      NEW centrality \in Raised(assessment.model_scores.graph_centrality),
                      NEW velocity \in Flags(assessment.model_scores.velocity_flag),
                      NEW bad \in Flags(assessment.model_scores.known_bad_address),
                      NEW boost \in {b \in Boosts : b >= assessment.boost}
               PROVE  LET higher == [gnn |-> gnn, autoencoder |-> ae,
                                     isolation_forest |-> forest,
                                     graph_centrality |-> centrality,
                                     velocity_flag |-> velocity, known_bad_address |-> bad]
                      IN Score(higher, boost, assessment.live)
                             * TotalWeight(assessment.model_scores)
                           >= assessment.score * TotalWeight(higher)
    BY DEF SignalsNeverLower
  <2> DEFINE m == assessment.model_scores
             h == [gnn |-> gnn, autoencoder |-> ae, isolation_forest |-> forest,
                   graph_centrality |-> centrality,
                   velocity_flag |-> velocity, known_bad_address |-> bad]
  <2>1. /\ m \in ModelScores /\ assessment.boost \in Boosts /\ assessment.live \in BOOLEAN
        /\ assessment.score = Score(m, assessment.boost, assessment.live)
    BY DEF IInv, AssessmentInv
  <2>2. \A x \in -1 .. Unit : \A y \in Raised(x) :
          y \in -1 .. Unit /\ y >= x /\ (Available(y) <=> Available(x))
    BY ScoreAssumption, UnitAssumption DEF Raised, Available
  <2>3. /\ m.gnn \in -1 .. Unit /\ m.autoencoder \in -1 .. Unit
        /\ m.isolation_forest \in -1 .. Unit /\ m.graph_centrality \in 0 .. Unit
        /\ m.velocity_flag \in BOOLEAN /\ m.known_bad_address \in BOOLEAN
    BY <2>1 DEF ModelScores
  <2> HIDE DEF m
  <2>a. /\ gnn \in Raised(m.gnn) /\ ae \in Raised(m.autoencoder)
        /\ forest \in Raised(m.isolation_forest) /\ centrality \in Raised(m.graph_centrality)
        /\ velocity \in Flags(m.velocity_flag) /\ bad \in Flags(m.known_bad_address)
    BY DEF m
  <2>4. /\ gnn \in -1 .. Unit /\ gnn >= m.gnn /\ (Available(gnn) <=> Available(m.gnn))
        /\ ae \in -1 .. Unit /\ ae >= m.autoencoder
        /\ (Available(ae) <=> Available(m.autoencoder))
        /\ forest \in -1 .. Unit /\ forest >= m.isolation_forest
        /\ (Available(forest) <=> Available(m.isolation_forest))
    BY <2>2, <2>3, <2>a
  <2>5. /\ centrality \in 0 .. Unit /\ centrality >= m.graph_centrality
        /\ (Available(centrality) <=> Available(m.graph_centrality))
    BY <2>2, <2>3, <2>a, UnitAssumption DEF Available
  <2>6. /\ velocity \in BOOLEAN /\ bad \in BOOLEAN
        /\ (m.velocity_flag => velocity) /\ (m.known_bad_address => bad)
    BY <2>3, <2>a DEF Flags
  <2>7. h \in ModelScores
    BY <2>4, <2>5, <2>6 DEF ModelScores
  <2>8. SaysMore(h, m)
    BY <2>4, <2>5, <2>6 DEF SaysMore, Signals, Models
  <2> HIDE DEF h
  <2>9. Score(h, boost, assessment.live) >= Score(m, assessment.boost, assessment.live)
    BY <2>1, <2>7, <2>8, ScoreIsMonotone
  <2>10. /\ Score(h, boost, assessment.live) \in Int
         /\ Score(m, assessment.boost, assessment.live) \in Int
    <3>1. /\ Full(m) \in Int /\ Full(h) \in Int
      BY <2>1, <2>7, WeightFacts DEF Full
    <3> QED
      BY <2>1, <2>7, <3>1, ScoreInRange
  <2>11. TotalWeight(h) = TotalWeight(m) /\ TotalWeight(m) \in 10 .. 100
    BY <2>1, <2>7, <2>8, SaysMoreFacts, WeightFacts
  <2>12. \A x, y, n \in Int : x >= y /\ n >= 10 => x * n >= y * n
    OBVIOUS
  <2>13. Score(h, boost, assessment.live) * TotalWeight(m) >= assessment.score * TotalWeight(h)
    BY <2>1, <2>9, <2>10, <2>11, <2>12
  <2> QED
    BY <2>13 DEF h, m
<1> QED
  BY <1>1, IInvAlways, PTL
=============================================================================
