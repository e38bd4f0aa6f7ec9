---------------------------- MODULE MCThreatGraph ----------------------------
(* Four payments among three wallets, or two among four that are clustered, *)
(* flagged and boosted as well.  Input lists are of one transaction with    *)
(* one or two inputs, the same one twice included.                          *)
EXTENDS ThreatGraph, TLC

MCInputLists ==
  {<<<<a>>>> : a \in Addresses} \cup {<<<<a, b>>>> : a, b \in Addresses}
Symmetry == Permutations(Addresses)

MCScenario ==
  \/ marks = 0 /\ Cardinality(nodes) <= 3
  \/ calls <= 2 /\ \A payment \in paid : payment[3] = 1
MCSpec == InitGraph /\ [][NextGraph /\ MCScenario']_graphVars
=============================================================================
