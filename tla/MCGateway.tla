------------------------------- MODULE MCGateway -------------------------------
(* Constants of the run gateway. *)
EXTENDS Gateway, TLC

CONSTANTS r1, r2
MCReplicas == {r1, r2}

\* One question at a time: many requests, or a revocation, or a long session.
Revocations == {t \in Tokens : revoked[t] # {}}
Restarts == FoldFunction(+, 0, life)
Short == Len(tokens) <= (IF \E i \in DOMAIN tokens : tokens[i].kind = "dev" THEN 1 ELSE 2)
MCScenario ==
  \/ Short /\ Revocations = {} /\ moves = 0 /\ Restarts <= 1
  \/ Short /\ Cardinality(Revocations) <= 1 /\ Requests <= 1 /\ Restarts <= 1
  \/ /\ \A i \in DOMAIN tokens : tokens[i].kind # "dev"
     /\ Revocations = {} /\ moves + Restarts + Requests = 0
MCSymmetry == Permutations(MCReplicas)
=============================================================================
