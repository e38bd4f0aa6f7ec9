-------------------------------- MODULE MCStandalone -----------------------------
(* Constants of the runs standalone and single_scores. *)
EXTENDS Standalone

\* Lines as they occur: a state update is a state change, an overflow too.
MCLines ==
  { {"public function"}, {"public function", "onlyOwner"}, {"require(msg.sender", "require"},
    {"update", "state change", "arithmetic"}, {".call{value:"},
    {".call.value(", ".transfer("}, {"block.timestamp"},
    {"block.timestamp", "critical word", "require"}, {"selfdestruct("}, {"old pragma"}, {"SafeMath"} }
=============================================================================
