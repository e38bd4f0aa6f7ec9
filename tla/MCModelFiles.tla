------------------------------ MODULE MCModelFiles ------------------------------
(* Constants of the run models: three runs of the scripts around the graph,  *)
(* or four of the ones around the live model.                                *)
EXTENDS ModelFiles

LiveScripts == {"dataset_v1", "live_v1", "dataset_v2", "live_v2"}
Ran == {runs[i].script : i \in 2..Len(runs)}
MCScenario == Ran \subseteq LiveScripts \/ (Ran \cap LiveScripts = {} /\ Run <= 4)
=============================================================================
