----------------------------- MODULE MCReception -----------------------------
(* Reception for TLC: a block's data is one part per packet slot. *)
EXTENDS Reception

MCParts == Slots
MCPktMcnts == {n \in 0 .. ClockMod - 1 : n % PacketSpan = 0}
=============================================================================
