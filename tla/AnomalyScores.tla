----------------------------- MODULE AnomalyScores -----------------------------
(***************************************************************************)
(* The scores of ThreatAutoencoder and ThreatIsolationForest of            *)
(* src/ml/tabular, from the raw ones of the models on: reconstruction      *)
(* errors, or negated path lengths, higher for a rarer transaction.  Both  *)
(* classes normalise over the batch they are given; a score is a fraction. *)
(***************************************************************************)
EXTENDS Integers, Sequences, FiniteSets, FiniteSetsExt, SequencesExt

CONSTANTS
  Percentile,       \* of the licit errors: 95
  TargetPrecision   \* in percent: 30 as it is called

ASSUME PercentAssumption == Percentile \in 0..100 /\ TargetPrecision \in 0..100

AtLeast(a, b) == a.num * b.den >= b.num * a.den

\* score_samples of both classes: 0 for the lowest of the batch, 1 for the
\* highest, a half for all when they are equal.
ScoreSamples(raw) ==
  LET low == Min(Range(raw))
      high == Max(Range(raw)) IN
  [i \in DOMAIN raw |->
     IF high > low THEN [num |-> raw[i] - low, den |-> high - low] ELSE [num |-> 1, den |-> 2]]

\* One transaction is a batch of its own.
ScoreFeatures(raw) == ScoreSamples(<<raw>>)[1]

Predict(raw, threshold) == {i \in DOMAIN raw : AtLeast(ScoreSamples(raw)[i], threshold)}

\* The k-th lowest error, the one at place k when they are sorted.
Ranked(raw, k) == Min({v \in Range(raw) : Cardinality({i \in DOMAIN raw : raw[i] <= v}) >= k})

\* The percentile in hundredths, between two errors in proportion.
RawThreshold(raw) ==
  LET place == (Len(raw) - 1) * Percentile
      below == Ranked(raw, (place \div 100) + 1)
      above == IF place % 100 = 0 THEN below ELSE Ranked(raw, (place \div 100) + 2) IN
  100 * below + (place % 100) * (above - below)

\* Mutant: the lowest error is not taken off the threshold.
SetThresholdUnshifted(raw) ==
  LET low == Min(Range(raw))
      high == Max(Range(raw)) IN
  IF high > low THEN [num |-> RawThreshold(raw), den |-> 100 * (high - low)]
  ELSE [num |-> 95, den |-> 100]

\* set_threshold_from_percentile of the autoencoder, over its licit samples.
SetThreshold(raw) ==
  LET low == Min(Range(raw))
      high == Max(Range(raw)) IN
  IF high > low THEN [num |-> RawThreshold(raw) - 100 * low, den |-> 100 * (high - low)]
  ELSE [num |-> 95, den |-> 100]

Hits(flagged, labels) == Cardinality({i \in flagged : labels[i] = 1})
Precise(flagged, labels) == 100 * Hits(flagged, labels) >= TargetPrecision * Cardinality(flagged)

\* Mutant: the highest of the thresholds that are precise enough.
TuneThresholdHighest(raw, labels) ==
  LET precise == {t \in Range(ScoreSamples(raw)) : Precise(Predict(raw, t), labels)} IN
  IF precise = {} THEN [num |-> 1, den |-> 2]
  ELSE CHOOSE t \in precise : \A u \in precise : AtLeast(t, u)

\* tune_threshold of the isolation forest: the scores themselves are the
\* thresholds tried, from the lowest up; a half when none is precise enough.
TuneThreshold(raw, labels) ==
  LET precise == {t \in Range(ScoreSamples(raw)) : Precise(Predict(raw, t), labels)} IN
  IF precise = {} THEN [num |-> 1, den |-> 2]
  ELSE CHOOSE t \in precise : \A u \in precise : AtLeast(u, t)
=============================================================================
