----------------------------- MODULE RiskScorer -----------------------------
(***************************************************************************)
(* The composite score of src/response/risk_scorer.py.  A model's score is *)
(* a whole number of Unit-ths, -1 when the model gave none.  The composite *)
(* is kept exact: a whole number of parts of which Full(m) make 1.0, where *)
(* the code rounds to doubles.                                             *)
(***************************************************************************)
EXTENDS Integers

CONSTANT Unit   \* parts of a model's score that make 1.0

ASSUME UnitAssumption == Unit \in Nat \ {0}

Models == {"gnn", "autoencoder", "isolation_forest"}
Signals == Models \cup {"graph_centrality"}
ModelScores ==
  [gnn : -1 .. Unit, autoencoder : -1 .. Unit, isolation_forest : -1 .. Unit,
   graph_centrality : 0 .. Unit, velocity_flag : BOOLEAN, known_bad_address : BOOLEAN]

Tiers == {"LOG_ONLY", "WATCHLIST", "QUARANTINE", "EMERGENCY"}
Boosts == {100, 108, 115, 125, 140}   \* the factors, in hundredths

Least(x, y) == IF x <= y THEN x ELSE y
Greatest(x, y) == IF x >= y THEN x ELSE y

\* Mutant: a score of zero counts as a model that gave none.
AvailableAboveZero(x) == x > 0

Available(x) == x >= 0

Part(x, weight) == IF Available(x) THEN weight * x ELSE 0
Share(x, weight) == IF Available(x) THEN weight ELSE 0

\* ENSEMBLE_WEIGHTS, in hundredths, over the models that answered.
Weighted(m) ==
  Part(m.gnn, 55) + Part(m.autoencoder, 25) + Part(m.isolation_forest, 10)
    + 10 * m.graph_centrality

TotalWeight(m) ==
  Share(m.gnn, 55) + Share(m.autoencoder, 25) + Share(m.isolation_forest, 10) + 10

Full(m) == 2000 * (TotalWeight(m) * Unit)

\* Live mode halves a centrality that is the only signal.
Lone(m) == \A k \in Models : ~Available(m[k])
Average(m, live) == IF live /\ Lone(m) THEN Weighted(m) ELSE 2 * Weighted(m)

\* The adjustments, in the order of the code, each with one more scale factor.
Spurred(m, live) ==
  IF m.velocity_flag
  THEN Least(20 * (TotalWeight(m) * Unit), 13 * Average(m, live))
  ELSE 10 * Average(m, live)

Floored(m, live) ==
  IF m.known_bad_address
  THEN Greatest(18 * (TotalWeight(m) * Unit), Spurred(m, live))
  ELSE Spurred(m, live)

Score(m, boost, live) == Greatest(0, Least(Full(m), boost * Floored(m, live)))

Tier(score, full) ==
  CASE 100 * score >= 85 * full -> "EMERGENCY"
    [] 100 * score >= 70 * full /\ 100 * score < 85 * full -> "QUARANTINE"
    [] 100 * score >= 50 * full /\ 100 * score < 70 * full -> "WATCHLIST"
    [] OTHER -> "LOG_ONLY"

\* compute_confidence: the signals on the mean's side of a half, undampened.
Given(m) == {k \in Signals : Available(m[k])}
HalfOrMore(m) == {k \in Given(m) : 2 * m[k] >= Unit}
MeanIsHigh(m) ==
  2 * (Part(m.gnn, 1) + Part(m.autoencoder, 1) + Part(m.isolation_forest, 1)
         + m.graph_centrality)
    >= Unit * (1 + Share(m.gnn, 1) + Share(m.autoencoder, 1) + Share(m.isolation_forest, 1))
Agreeing(m) == IF MeanIsHigh(m) THEN HalfOrMore(m) ELSE Given(m) \ HalfOrMore(m)
=============================================================================
