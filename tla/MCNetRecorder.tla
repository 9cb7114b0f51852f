--------------------------- MODULE MCNetRecorder ----------------------------
(* NetRecorder for TLC: a block's data is one part per packet slot. *)
EXTENDS NetRecorder

MCParts == Slots
=============================================================================
