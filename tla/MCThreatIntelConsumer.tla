----------------------- MODULE MCThreatIntelConsumer -----------------------
(* A partition of three messages, the second of which is no JSON, and two   *)
(* processes that pass it between them.                                     *)
EXTENDS ThreatIntelConsumer

MCNotJson == {<<1, 1>>}
============================================================================
