--------------------------- MODULE RiskAssessment ---------------------------
(***************************************************************************)
(* What an assessment is made of and when each part is read: the history   *)
(* of src/ml/tabular/feature_engineer.py when a worker takes the           *)
(* transaction, the graph's degree and the index of                        *)
(* src/graph/cross_chain.py after its first models, the live model's score *)
(* after another await.  Beside the workers, the two handlers of           *)
(* src/api/routes/analysis.py, in a process of their own with their own    *)
(* history and graph.  What becomes of the assessment is modelled in       *)
(* AlertManager and ScoringPipeline.                                       *)
(***************************************************************************)
EXTENDS RiskScorer, FiniteSets, Functions

CONSTANTS
  Wallets,          \* addresses that are no known contract
  Bridges,          \* KNOWN_BRIDGES
  Assets,           \* BRIDGED_ASSETS
  Creates,          \* no to_addr
  KnownBad,         \* the addresses of known_bad_addresses.json
  Chains,
  Times,            \* block timestamps
  Transactions,     \* those that may be taken from the queue
  Scores,           \* what a model may answer
  Loaded,           \* the models load() found at startup
  Window,           \* history_window_seconds
  VelocityLimit,    \* 20
  FullDegree,       \* 100
  Workers,
  MaxTransactions,  \* bound on the transactions taken and requests answered
  None

Addresses == Wallets \cup Bridges \cup Assets
Payloads == [from : Addresses, to : Addresses \cup {Creates}, chain : Chains, time : Times]

ASSUME AddressAssumption ==
  /\ Creates \notin Addresses /\ KnownBad \subseteq Addresses
  /\ Wallets \cap (Bridges \cup Assets) = {} /\ Bridges \cap Assets = {}
ASSUME TransactionAssumption == Transactions \subseteq Payloads /\ IsFiniteSet(Chains)
ASSUME ScoreAssumption ==
  /\ Scores \subseteq 0 .. Unit
  /\ Loaded \subseteq {"isolation_forest", "autoencoder", "gnn", "live_model"}
ASSUME TimeAssumption == Times \subseteq Nat /\ Window \in Nat
ASSUME DegreeAssumption ==
  /\ FullDegree \in Nat \ {0} /\ Unit % FullDegree = 0
  /\ VelocityLimit \in Nat /\ MaxTransactions \in Nat
ASSUME NoneAssumption == None \notin [tx : Transactions, count : Nat, centrality : Nat, boost : Nat]

VARIABLES
  trusted,     \* settings.trust_live_model_scores
  history,     \* _address_history of a process: entries of an address by timestamp
  edges,       \* the pipeline's graph: who paid whom
  chainsOf,    \* _chains_by_address
  bridgeHits,  \* _bridge_hits
  assetHits,   \* _bridged_asset_hits
  wpc,         \* where a worker is
  job,         \* the transaction it scores and what it has read for it
  assessment,  \* the assessment made in this step
  taken,       \* transactions taken and requests answered so far
  arrived,     \* history variable: all entries ever made, by process
  observed     \* history variable: transactions the index has seen

indexVars == <<edges, chainsOf, bridgeHits, assetHits, observed>>
vars == <<trusted, history, indexVars, wpc, job, assessment, taken, arrived>>

Processes == {"pipeline", "api"}
NoEntries == [a \in Addresses |-> [x \in Times |-> 0]]

Init ==
  /\ trusted \in BOOLEAN
  /\ history = [p \in Processes |-> NoEntries]
  /\ edges = {} /\ observed = {}
  /\ chainsOf = [a \in Addresses |-> {}]
  /\ bridgeHits = [a \in Addresses |-> 0]
  /\ assetHits = [a \in Addresses |-> 0]
  /\ wpc = [w \in Workers |-> "idle"]
  /\ job = [w \in Workers |-> None]
  /\ assessment = None
  /\ taken = 0
  /\ arrived = [p \in Processes |-> NoEntries]

-----------------------------------------------------------------------------
(* Features *)

\* Mutant: the entry on the edge of the window is dropped.
UpdatedAfterCutoff(h, now) ==
  [x \in Times |-> IF x > now - Window THEN h[x] + (IF x = now THEN 1 ELSE 0) ELSE 0]

\* _update_history: append, then prune by the time of this transaction.
Updated(h, now) ==
  [x \in Times |-> IF x >= now - Window THEN h[x] + (IF x = now THEN 1 ELSE 0) ELSE 0]

\* tx_count_1h
Count(h) == FoldFunction(LAMBDA n, m : n + m, 0, h)

\* extract() in process p.
ExtractIn(p, t) ==
  /\ history' = [history EXCEPT ![p][t.from] = Updated(@, t.time)]
  /\ arrived' = [arrived EXCEPT ![p][t.from][t.time] = @ + 1]

\* A worker takes a transaction; the features are extracted before any await.
Extract(w, t) ==
  /\ wpc[w] = "idle" /\ taken < MaxTransactions
  /\ taken' = taken + 1
  /\ ExtractIn("pipeline", t)
  /\ job' = [job EXCEPT ![w] = [tx |-> t, count |-> Count(history'["pipeline"][t.from]),
                                centrality |-> 0, boost |-> 100]]
  /\ wpc' = [wpc EXCEPT ![w] = "models"]
  /\ assessment' = None
  /\ UNCHANGED <<trusted, indexVars>>

-----------------------------------------------------------------------------
(* Graph and cross-chain index *)

Degree(G, a) == Cardinality({e \in G : e[1] = a}) + Cardinality({e \in G : e[2] = a})
Centrality(G, a) == Least(Unit, Degree(G, a) * (Unit \div FullDegree))

\* cross_chain_risk_boost, in hundredths.
BoostFor(chains, hits, asset) ==
  LET cross == Cardinality(chains) > 1 IN
  CASE hits > 0 /\ cross -> 140
    [] hits > 0 /\ ~cross -> 125
    [] hits = 0 /\ cross -> 115
    [] hits = 0 /\ ~cross /\ asset > 0 -> 108
    [] OTHER -> 100

Boost(a) == BoostFor(chainsOf[a], bridgeHits[a], assetHits[a])

\* Mutant: the sender is always the one that used the bridge.
SenderCrossed(t) == IF {t.from, t.to} \cap Bridges = {} THEN {} ELSE {t.from}

\* Who gets the hit of a bridge interaction, if anyone.
BridgeActor(t) ==
  CASE t.to \in Bridges -> {t.from}
    [] t.to \notin Bridges /\ t.from \in Bridges -> {t.to} \ {Creates}
    [] OTHER -> {}

\* CrossChainAnalyzer.observe
ObserveChains(t) ==
  /\ chainsOf' = [a \in Addresses |->
                    chainsOf[a] \cup (IF a \in {t.from, t.to} THEN {t.chain} ELSE {})]
  /\ bridgeHits' = [a \in Addresses |->
                      bridgeHits[a] + (IF a \in BridgeActor(t) THEN 1 ELSE 0)]
  /\ assetHits' = [a \in Addresses |->
                     assetHits[a] + (IF a = t.from /\ t.to \in Assets THEN 1 ELSE 0)]
  /\ observed' = observed \cup {t}

\* Mutant: the boost of the receiver.
ObserveReceiver(w) ==
  LET t == job[w].tx
      a == IF t.to = Creates THEN t.from ELSE t.to
  IN
  /\ wpc[w] = "models"
  /\ edges' = edges \cup {<<t.from, b>> : b \in {t.to} \ {Creates}}
  /\ ObserveChains(t)
  /\ job' = [job EXCEPT ![w] =
               [tx |-> t, count |-> job[w].count, centrality |-> Centrality(edges', t.from),
                boost |-> BoostFor(chainsOf'[a], bridgeHits'[a], assetHits'[a])]]
  /\ wpc' = [wpc EXCEPT ![w] = "live"]
  /\ assessment' = None
  /\ UNCHANGED <<trusted, history, arrived, taken>>

\* The first models answered: add_transaction, the degree, the index, the boost.
Observe(w) ==
  LET t == job[w].tx IN
  /\ wpc[w] = "models"
  /\ edges' = edges \cup {<<t.from, a>> : a \in {t.to} \ {Creates}}
  /\ ObserveChains(t)
  /\ job' = [job EXCEPT ![w] =
               [tx |-> t, count |-> job[w].count, centrality |-> Centrality(edges', t.from),
                boost |-> BoostFor(chainsOf'[t.from], bridgeHits'[t.from], assetHits'[t.from])]]
  /\ wpc' = [wpc EXCEPT ![w] = "live"]
  /\ assessment' = None
  /\ UNCHANGED <<trusted, history, arrived, taken>>

-----------------------------------------------------------------------------
(* Assessments *)

\* A model that is not loaded, or that raises, gives -1.
Answers(k) == {-1} \cup (IF k \in Loaded THEN Scores ELSE {})

Assess(a, m, boost, live) ==
  assessment' = [address |-> a, model_scores |-> m, boost |-> boost, live |-> live,
                 score |-> Score(m, boost, live),
                 action |-> Tier(Score(m, boost, live), Full(m)),
                 agreeing |-> Cardinality(Agreeing(m))]

Leave(w) ==
  /\ wpc' = [wpc EXCEPT ![w] = "idle"]
  /\ job' = [job EXCEPT ![w] = None]
  /\ UNCHANGED <<trusted, history, arrived, indexVars, taken>>

\* The live model answered.  Untrusted, its score takes the gnn slot and the
\* Elliptic models none.
ScoreTransaction(w) ==
  /\ wpc[w] = "live"
  /\ \E gnn \in Answers(IF trusted THEN "gnn" ELSE "live_model"),
        ae \in (IF trusted THEN Answers("autoencoder") ELSE {-1}),
        forest \in (IF trusted THEN Answers("isolation_forest") ELSE {-1}) :
       Assess(job[w].tx.from,
              [gnn |-> gnn, autoencoder |-> ae, isolation_forest |-> forest,
               graph_centrality |-> job[w].centrality,
               velocity_flag |-> job[w].count > VelocityLimit, known_bad_address |-> FALSE],
              job[w].boost, ~trusted)
  /\ Leave(w)

\* Anything raises at an await.
ScoringFails(w) ==
  /\ wpc[w] \in {"models", "live"}
  /\ assessment' = None
  /\ Leave(w)

\* POST /analyze/wallet: the degree of the API's own graph, and the watchlist.
AnalyzeWallet(a) ==
  /\ taken < MaxTransactions /\ taken' = taken + 1
  /\ \E degree \in 0 .. FullDegree :
       Assess(a, [gnn |-> -1, autoencoder |-> -1, isolation_forest |-> -1,
                  graph_centrality |-> degree * (Unit \div FullDegree),
                  velocity_flag |-> FALSE, known_bad_address |-> a \in KnownBad],
              100, FALSE)
  /\ UNCHANGED <<trusted, history, arrived, indexVars, wpc, job>>

\* POST /analyze/transaction: the tabular models, and the watchlist.
AnalyzeTransaction(t) ==
  /\ taken < MaxTransactions /\ taken' = taken + 1
  /\ ExtractIn("api", t)
  /\ \E ae \in Answers("autoencoder"), forest \in Answers("isolation_forest") :
       Assess(t.from, [gnn |-> -1, autoencoder |-> ae, isolation_forest |-> forest,
                       graph_centrality |-> 0,
                       velocity_flag |-> FALSE, known_bad_address |-> t.from \in KnownBad],
              100, FALSE)
  /\ UNCHANGED <<trusted, indexVars, wpc, job>>

Next ==
  \/ \E w \in Workers :
       \/ \E t \in Transactions : Extract(w, t)
       \/ Observe(w)
       \/ ScoreTransaction(w)
       \/ ScoringFails(w)
  \/ \E a \in Addresses : AnalyzeWallet(a)
  \/ \E t \in Transactions : AnalyzeTransaction(t)

Spec == Init /\ [][Next]_vars

-----------------------------------------------------------------------------
(* Properties *)

Jobs == [tx : Transactions, count : Nat, centrality : 0 .. Unit, boost : Boosts]

\* Every score lies between 0 and 1 and some signal agrees with it
\* (score, compute_confidence).
TypeOK ==
  /\ trusted \in BOOLEAN
  /\ history \in [Processes -> [Addresses -> [Times -> Nat]]]
  /\ arrived \in [Processes -> [Addresses -> [Times -> Nat]]]
  /\ edges \subseteq Addresses \X Addresses /\ observed \subseteq Transactions
  /\ chainsOf \in [Addresses -> SUBSET Chains]
  /\ bridgeHits \in [Addresses -> Nat] /\ assetHits \in [Addresses -> Nat]
  /\ wpc \in [Workers -> {"idle", "models", "live"}]
  /\ \A w \in Workers : job[w] \in (IF wpc[w] = "idle" THEN {None} ELSE Jobs)
  /\ assessment # None =>
       /\ assessment.address \in Addresses
       /\ assessment.model_scores \in ModelScores
       /\ assessment.boost \in Boosts /\ assessment.live \in BOOLEAN
       /\ assessment.score \in 0 .. Full(assessment.model_scores)
       /\ assessment.action \in Tiers
       /\ assessment.agreeing \in 1 .. Cardinality(Given(assessment.model_scores))
  /\ taken \in 0 .. MaxTransactions

\* The velocity features count the last hour: every transaction of a sender
\* whose timestamp is no more than the window behind the sender's newest is
\* still in its history, and nothing is there that was not sent
\* (_update_history, whatever order two chains' clocks arrive in).
WindowIsComplete ==
  \A p \in Processes, a \in Addresses, x \in Times :
    /\ history[p][a][x] <= arrived[p][a][x]
    /\ (\A y \in Times : arrived[p][a][y] > 0 => x >= y - Window) =>
         history[p][a][x] = arrived[p][a][x]

\* Scores that say the same or more.
Raised(x) == IF x = -1 THEN {-1} ELSE {y \in Scores \cup {x} : y >= x}
Flags(f) == IF f THEN {TRUE} ELSE BOOLEAN

\* No signal speaks for an address: a model's score, a flag or a boost that is
\* higher, with the same models answering, never gives a lower score or tier
\* (score: renormalised weights, dampening, velocity, floor, boost, clamp).
SignalsNeverLower ==
  assessment # None =>
    LET m == assessment.model_scores IN
    \A gnn \in Raised(m.gnn), ae \in Raised(m.autoencoder),
       forest \in Raised(m.isolation_forest), centrality \in Raised(m.graph_centrality),
       velocity \in Flags(m.velocity_flag), bad \in Flags(m.known_bad_address),
       boost \in {b \in Boosts : b >= assessment.boost} :
         LET higher == [gnn |-> gnn, autoencoder |-> ae, isolation_forest |-> forest,
                        graph_centrality |-> centrality, velocity_flag |-> velocity,
                        known_bad_address |-> bad]
         IN Score(higher, boost, assessment.live) * TotalWeight(m)
              >= assessment.score * TotalWeight(higher)

\* A wallet is boosted for what it did: x1.25 and x1.4 exactly if it traded
\* with a bridge, x1.15 and x1.4 only for two chains, and some boost for any of
\* the three signals, whatever order workers observe in (observe,
\* cross_chain_risk_boost).
BoostIsEarned ==
  \A a \in Wallets :
    LET mine == {t \in observed : a \in {t.from, t.to}}
        crossed == Cardinality({t.chain : t \in mine}) > 1
        bridged == \E t \in mine : {t.from, t.to} \cap Bridges # {}
        asset == \E t \in mine : t.from = a /\ t.to \in Assets
    IN /\ Boost(a) >= 125 <=> bridged
       /\ Boost(a) = 140 <=> bridged /\ crossed
       /\ Boost(a) >= 115 <=> bridged \/ crossed
       /\ Boost(a) > 100 <=> bridged \/ crossed \/ asset

\* What a worker carries over its second await may be stale but never says more
\* than the graph and the index say when it is used (scoring_worker).
JobsNeverOverstate ==
  \A w \in Workers : wpc[w] = "live" =>
    /\ job[w].boost <= Boost(job[w].tx.from)
    /\ job[w].centrality <= Centrality(edges, job[w].tx.from)

\* Another transaction never takes a boost back (cross_chain_risk_boost: the
\* order of its tests is the order of its factors).
BoostNeverFalls == [][\A a \in Addresses : Boost(a)' >= Boost(a)]_vars
=============================================================================
