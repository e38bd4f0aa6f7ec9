-------------------------- MODULE MCAlertManager --------------------------
(* Four addresses compete for two places, in two tiers; the raw      *)
(* priorities are close enough for two hours of decay to swap them.        *)
EXTENDS AlertManager, TLC

MCTiers == {"EMERGENCY", "WATCHLIST"}
MCRaws == {9, 10}
Symmetry == Permutations(Addresses)
============================================================================
