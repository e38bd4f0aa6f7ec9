-------------------------------- MODULE Backtest --------------------------------
(***************************************************************************)
(* src/backtesting/backtester.py: decisions on labelled scores, at the     *)
(* production threshold and over a sweep.  Scores and thresholds are in    *)
(* hundredths; F1 is compared as a fraction, 2 tp over 2 tp + fp + fn.     *)
(***************************************************************************)
EXTENDS Integers, Sequences, FiniteSets, FiniteSetsExt

CONSTANTS ProductionThreshold, Steps

ASSUME SweepAssumption == ProductionThreshold \in Nat /\ Steps \in Nat /\ Steps > 1

\* _confusion, of the decisions score >= threshold.
Confusion(samples, threshold) ==
  LET count(flagged, label) ==
        Cardinality({i \in DOMAIN samples :
          (samples[i].score >= threshold) = flagged /\ samples[i].label = label}) IN
  [tp |-> count(TRUE, 1), fp |-> count(TRUE, 0), tn |-> count(FALSE, 0), fn |-> count(FALSE, 1)]

\* F1 in ten thousandths, rounded as _metrics_from_confusion rounds it.
F1(c) ==
  LET den == 2 * c.tp + c.fp + c.fn IN
  IF c.tp = 0 THEN 0 ELSE ((2 * 10000 * c.tp) + (den \div 2)) \div den

\* Mutant: one threshold too few.
ThresholdsFewer == {5 + (90 * k) \div (Steps - 2) : k \in 0..(Steps - 2)}

\* linspace(0.05, 0.95, steps)
Thresholds == {5 + (90 * k) \div (Steps - 1) : k \in 0..(Steps - 1)}

Evaluated(samples, threshold) ==
  LET c == Confusion(samples, threshold) IN [threshold |-> threshold, confusion |-> c, f1 |-> F1(c)]
Sweep(samples) == {Evaluated(samples, t) : t \in Thresholds}

\* The first of the highest F1; the sweep goes from the lowest threshold up.
Best(sweep) ==
  LET top == {m \in sweep : \A o \in sweep : m.f1 >= o.f1} IN
  CHOOSE m \in top : \A o \in top : m.threshold <= o.threshold
=============================================================================
