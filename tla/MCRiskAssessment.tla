-------------------------- MODULE MCRiskAssessment --------------------------
(* Two wallets, a bridge and a bridged asset on two chains whose clocks differ. *)
EXTENDS RiskAssessment, TLC

Symmetry == Permutations(Workers)

MCTransactions ==
  { [from |-> "x", to |-> "y", chain |-> "eth", time |-> 1],
    [from |-> "x", to |-> "y", chain |-> "polygon", time |-> 3],
    [from |-> "x", to |-> "bridge", chain |-> "eth", time |-> 2],
    [from |-> "bridge", to |-> "x", chain |-> "polygon", time |-> 4],
    [from |-> "x", to |-> "usdc", chain |-> "polygon", time |-> 2],
    [from |-> "y", to |-> "none", chain |-> "eth", time |-> 4] }
=============================================================================
