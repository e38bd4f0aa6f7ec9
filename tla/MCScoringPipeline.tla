------------------------- MODULE MCScoringPipeline -------------------------
(* Two chains, two workers: the first chain is polled in full and one       *)
(* wallet sends in both its blocks, so the workers can overlap on it; the   *)
(* second chain is sampled, and that wallet creates a contract there.       *)
EXTENDS ScoringPipeline

MCHeight == [eth |-> 2, polygon |-> 1]
MCEnd == [eth |-> [b \in 0..2 |-> b], polygon |-> [b \in 0..1 |-> b]]
MCSender == [eth |-> <<"x", "x">>, polygon |-> <<"x">>]
MCReceiver == [eth |-> <<"y", "z">>, polygon |-> <<"none">>]
============================================================================
