----------------------------- MODULE ThreatGraph -----------------------------
(***************************************************************************)
(* ThreatGraph of src/graph/threat_graph.py: the directed graph of who     *)
(* paid whom, flags and the risk they spread, the clusters of wallets that *)
(* sign together, and the three searches the API runs over the graph.      *)
(*                                                                         *)
(* Every method is synchronous and is one action.  Risks are in            *)
(* thousandths.  No caller passes add_transaction a risk_score.            *)
(***************************************************************************)
EXTENDS UnionFind, FiniteSets, FiniteSetsExt

CONSTANTS
  Addresses,        \* wallets
  NoWallet,         \* the empty to_addr, and the label of a wallet without one
  Times,            \* block timestamps
  Window,           \* _round_trip_window
  Scores,           \* risk scores an address is flagged with, in thousandths
  InputLists,       \* arguments of cluster_wallets_union_find
  MaxTurns,         \* bound: turns of the loop of find_laundering_paths
  MaxTransactions,  \* bound: calls of add_transaction
  MaxMarks          \* bound: calls of the other three methods that change state

ASSUME WalletAssumption == IsFiniteSet(Addresses) /\ NoWallet \notin Addresses
ASSUME TimeAssumption == Times \subseteq Nat \ {0} /\ Window \in Nat
ASSUME ScoreAssumption == Scores \subseteq 1..1000
ASSUME InputAssumption == \A lists \in InputLists : lists \in Seq(Seq(Addresses))
\* No path comes up twice, so a loop has at most as many turns as there are
\* ways to go through some wallets, none of them twice.
Tours(a) ==
  {tour \in UNION {[1..n -> Addresses] : n \in 1..Cardinality(Addresses)} :
     tour[1] = a /\ IsInjective(tour)}
ASSUME TurnAssumption ==
  MaxTurns \in Nat /\ \A a \in Addresses : Cardinality(Tours(a)) <= MaxTurns
ASSUME CallsAssumption == MaxTransactions \in Nat /\ MaxMarks \in Nat

VARIABLES
  nodes,     \* wallets in the graph
  out,       \* out[a]: successors of a, in the order of their first edge
  timestamp, \* timestamp[a][b] of the edge, 0 without one
  risk,      \* risk_score of a node
  flagged,   \* is_flagged
  label,     \* cluster_id, named by the root of the cluster
  forest,    \* _union_find
  paid,      \* history: <<from, to, time>> of every transaction added
  together,  \* history: pairs of wallets that were inputs together
  top,       \* history: highest score flagged so far
  calls,     \* calls of add_transaction
  marks      \* calls of the other methods

paymentVars == <<nodes, out, timestamp, paid, calls>>
riskVars == <<risk, flagged, top>>
clusterVars == <<label, forest, together>>
graphVars == <<paymentVars, riskVars, clusterVars, marks>>

Pays(a, b) == b \in ToSet(out[a])
Payers(b) == {a \in nodes : Pays(a, b)}

InitGraph ==
  /\ nodes = {} /\ flagged = {} /\ paid = {} /\ together = {}
  /\ out = [a \in Addresses |-> <<>>]
  /\ timestamp = [a \in Addresses |-> [b \in Addresses |-> 0]]
  /\ risk = [a \in Addresses |-> 0]
  /\ label = [a \in Addresses |-> NoWallet]
  /\ forest = Empty
  /\ top = 0 /\ calls = 0 /\ marks = 0

\* A contract creation enters its sender only.  An edge that exists keeps its
\* place and takes the timestamp of the call, later or not.
AddTransaction(a, b, t) ==
  /\ calls < MaxTransactions
  /\ calls' = calls + 1
  /\ nodes' = nodes \cup ({a, b} \ {NoWallet})
  /\ IF b = NoWallet
     THEN UNCHANGED <<out, timestamp, paid>>
     ELSE /\ out' = [out EXCEPT ![a] = IF Pays(a, b) THEN @ ELSE Append(@, b)]
          /\ timestamp' = [timestamp EXCEPT ![a][b] = t]
          /\ paid' = paid \cup {<<a, b, t>>}
  /\ UNCHANGED <<riskVars, clusterVars, marks>>

Larger(x, y) == IF x > y THEN x ELSE y

\* Mutant: the risk goes to those the flagged wallet paid.
FlagAddressForward(a, score) ==
  /\ marks < MaxMarks /\ a \in nodes
  /\ marks' = marks + 1
  /\ flagged' = flagged \cup {a}
  /\ risk' = [b \in Addresses |->
       LET own == IF b = a THEN score ELSE risk[b] IN
       IF Pays(a, b) THEN Larger(own, score \div 2) ELSE own]
  /\ top' = Larger(top, score)
  /\ UNCHANGED <<paymentVars, clusterVars>>

\* The flagged wallet takes the score, lower or not; who paid it has at least
\* half of it from then on.
FlagAddress(a, score) ==
  /\ marks < MaxMarks /\ a \in nodes
  /\ marks' = marks + 1
  /\ flagged' = flagged \cup {a}
  /\ risk' = [b \in Addresses |->
       LET own == IF b = a THEN score ELSE risk[b] IN
       IF b \in Payers(a) THEN Larger(own, score \div 2) ELSE own]
  /\ top' = Larger(top, score)
  /\ UNCHANGED <<paymentVars, clusterVars>>

\* The wallets that were inputs of one transaction.
Pairs(lists) ==
  UNION {{<<list[1], list[i]>> : i \in 2..Len(list)} : list \in ToSet(lists)}

\* cluster_wallets_union_find: every cluster labels its wallets that are in
\* the graph.
ClusterWallets(lists) ==
  /\ marks < MaxMarks
  /\ marks' = marks + 1
  /\ forest' = Flattened(UniteAll(forest, lists))
  /\ label' = [a \in Addresses |->
       IF a \in nodes \cap Known(forest') THEN Root(forest', a) ELSE label[a]]
  /\ together' = together \cup Pairs(lists)
  /\ UNCHANGED <<paymentVars, riskVars>>

\* max() of no value raises: the clusters from the first one on that has no
\* wallet in the graph are left out.
Reached(r) ==
  \A s \in Roots(forest) :
    Cluster(forest, s) \cap nodes = {} => r # s /\ ComesBefore(forest, r, s)

HighestRisk(r) == Max({risk[a] : a \in Cluster(forest, r) \cap nodes})

\* propagate_cluster_risk: 70% of the highest risk of a cluster, if that is
\* more than a half, for all its wallets.
PropagateClusterRisk ==
  /\ marks < MaxMarks
  /\ marks' = marks + 1
  /\ forest' = Flattened(forest)
  /\ risk' = [a \in Addresses |->
       IF a \in nodes \cap Known(forest)
       THEN LET r == Root(forest, a) IN
            IF Reached(r) /\ HighestRisk(r) > 500
            THEN Larger(risk[a], (HighestRisk(r) * 7) \div 10) ELSE risk[a]
       ELSE risk[a]]
  /\ UNCHANGED <<paymentVars, flagged, top, label, together>>

NextGraph ==
  \/ \E a \in Addresses, b \in Addresses \cup {NoWallet}, t \in Times : AddTransaction(a, b, t)
  \/ \E a \in Addresses, score \in Scores : FlagAddress(a, score)
  \/ \E lists \in InputLists : ClusterWallets(lists)
  \/ PropagateClusterRisk

GraphSpec == InitGraph /\ [][NextGraph]_graphVars

----------------------------------------------------------------------------
(* The searches *)

\* Mutant: a wallet may return to the path.
OnwardsAgain(path) == [i \in DOMAIN out[Last(path)] |-> Append(path, out[Last(path)][i])]

\* The path, one hop longer, to every successor it has not visited.
Onwards(path) ==
  LET next == out[Last(path)]
      upTo[i \in 0..Len(next)] ==
        IF i = 0 THEN <<>>
        ELSE IF next[i] \in ToSet(path) THEN upTo[i - 1]
        ELSE Append(upTo[i - 1], Append(path, next[i]))
  IN  upTo[Len(next)]

\* One turn of the loop of find_laundering_paths.  A path of full depth goes
\* on to the next one at once, without the look at maxPaths.
Search(s, maxDepth, maxPaths) ==
  LET path == Head(s.frontier)
      paths == IF Len(path) > 1 THEN Append(s.paths, path) ELSE s.paths
  IN  [paths |-> paths,
       frontier |->
         CASE Len(path) >= maxDepth + 1 -> Tail(s.frontier)
           [] Len(path) < maxDepth + 1 /\ Len(paths) >= maxPaths -> <<>>
           [] OTHER -> Tail(s.frontier) \o Onwards(path)]

FindLaunderingPaths(source, maxDepth, maxPaths) ==
  LET turn[n \in 0..MaxTurns] ==
        IF n = 0 THEN [paths |-> <<>>, frontier |-> <<<<source>>>>]
        ELSE LET s == turn[n - 1]
             IN  IF s.frontier = <<>> THEN s ELSE Search(s, maxDepth, maxPaths)
  IN  IF source \in nodes THEN turn[MaxTurns].paths ELSE <<>>

\* Mutant: one level too many.
PeelBackDeeper(a, maxDepth) ==
  LET level[d \in 0..maxDepth + 1] ==
        IF d = 0 THEN [ancestors |-> {}, frontier |-> {a}]
        ELSE LET s == level[d - 1]
                 new == (UNION {Payers(b) : b \in s.frontier}) \ (s.ancestors \cup {a})
             IN  [ancestors |-> s.ancestors \cup new, frontier |-> new]
  IN  IF a \in nodes THEN level[maxDepth + 1].ancestors ELSE {}

\* peel_back: payers, and their payers, level by level.
PeelBack(a, maxDepth) ==
  LET level[d \in 0..maxDepth] ==
        IF d = 0 THEN [ancestors |-> {}, frontier |-> {a}]
        ELSE LET s == level[d - 1]
                 new == (UNION {Payers(b) : b \in s.frontier}) \ (s.ancestors \cup {a})
             IN  [ancestors |-> s.ancestors \cup new, frontier |-> new]
  IN  IF a \in nodes THEN level[maxDepth].ancestors ELSE {}

\* detect_round_trips: the wallets money came back from within the window,
\* as far as the timestamps of the edges tell.
RoundTrips(a) ==
  {b \in Payers(a) :
     /\ Pays(a, b)
     /\ timestamp[b][a] - timestamp[a][b] > 0
     /\ timestamp[b][a] - timestamp[a][b] < Window}

----------------------------------------------------------------------------
Depths == 1..2
NoLimit == MaxTurns + 1

\* Ways to go from a to b over at most d transactions, visiting no wallet twice.
SimplePaths(a, d) ==
  {path \in UNION {[1..n -> Addresses] : n \in 2..d + 1} :
     /\ path[1] = a
     /\ \A i, j \in DOMAIN path : i # j => path[i] # path[j]
     /\ \A i \in 1..Len(path) - 1 : \E t \in Times : <<path[i], path[i + 1], t>> \in paid}

Clustered(a, b) ==
  a = b \/ ({a, b} \subseteq Known(forest) /\ Root(forest, a) = Root(forest, b))

\* Two wallets are in one cluster exactly if a chain of common inputs links
\* them, whatever the order of the unions; equal labels mean the same.
ClustersAreCommonOwnership ==
  LET linked[n \in 0..Cardinality(Addresses)] ==
        IF n = 0 THEN together \cup {<<p[2], p[1]>> : p \in together}
        ELSE LET L == linked[n - 1] IN
             L \cup {p \in Addresses \X Addresses :
                      \E b \in Addresses : {<<p[1], b>>, <<b, p[2]>>} \subseteq L}
  IN  \A a, b \in Addresses :
        /\ Clustered(a, b) <=> (a = b \/ <<a, b>> \in linked[Cardinality(Addresses)])
        /\ NoWallet \notin {label[a], label[b]} => (label[a] = label[b] <=> Clustered(a, b))

\* Without a limit in the way, the search returns every simple path of at most
\* maxDepth transactions from the source, once each, shorter ones first; a limit
\* cuts that list short, but never below the limit.
PathsAreComplete ==
  \A a \in nodes, d \in Depths :
    LET found == FindLaunderingPaths(a, d, NoLimit) IN
    /\ ToSet(found) = SimplePaths(a, d)
    /\ IsInjective(found)
    /\ \A i, j \in DOMAIN found : i < j => Len(found[i]) <= Len(found[j])
    /\ \A limit \in 1..2 :
         LET cut == FindLaunderingPaths(a, d, limit) IN
         IsPrefix(cut, found) /\ (cut = found \/ Len(cut) >= limit)

\* Tracing backwards finds the wallets from which a simple path of at most
\* maxDepth transactions leads here: it agrees with the forward search.
PeelBackIsConverse ==
  \A a \in Addresses, d \in Depths :
    PeelBack(a, d) = {b \in Addresses : \E path \in SimplePaths(b, d) : Last(path) = a}

\* A reported round trip took place: money left, and came back later, within
\* the window, though an edge keeps one timestamp for all its transactions.
RoundTripsTookPlace ==
  \A a \in Addresses : \A b \in RoundTrips(a) :
    \E left, back \in Times :
      /\ <<a, b, left>> \in paid /\ <<b, a, back>> \in paid
      /\ left < back /\ back < left + Window

\* Risk spreads one payment back and one cluster wide and no further: a wallet
\* with a risk is clustered with a wallet that was flagged or paid one; and
\* none but a flagged wallet has more than 70% of the highest score flagged.
RiskHasSource ==
  \A a \in Addresses : risk[a] > 0 =>
    /\ \E b \in Addresses, f \in flagged : Clustered(a, b) /\ (b = f \/ Pays(b, f))
    /\ a \in flagged \/ risk[a] * 10 <= top * 7
=============================================================================
