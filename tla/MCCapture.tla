----------------------------- MODULE MCCapture ------------------------------
(* Capture for TLC: a block's data is one part per packet slot. *)
EXTENDS Capture

MCParts == Slots
=============================================================================
