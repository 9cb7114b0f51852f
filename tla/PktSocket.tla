----------------------------- MODULE PktSocket -----------------------------
(***************************************************************************)
(* The packet socket (hashpipe_pktsock, a memory-mapped PACKET_RX_RING):   *)
(* a bounded ring of frames.  The kernel fills free frames as packets      *)
(* arrive and drops what finds no free frame; the net thread looks at the  *)
(* oldest frame and gives it back when it has processed it.                *)
(***************************************************************************)
EXTENDS Integers, Sequences

CONSTANT NFrames      \* PKTSOCK_NFRAMES

ASSUME PktSocketAssumption == NFrames \in Nat \ {0}

VARIABLE frames       \* the frames filled and not given back, oldest first

\* A new socket, all of whose frames are the kernel's.
hashpipe_pktsock_open == frames = <<>>

FreeFrame == Len(frames) < NFrames

\* A packet arrives: it takes a free frame or is dropped.
FrameArrives(packet) ==
  frames' = IF FreeFrame THEN Append(frames, packet) ELSE frames

\* What the oldest frame holds, when there is one.
hashpipe_pktsock_recv_frame(packet) == frames # <<>> /\ packet = Head(frames)

\* The oldest frame is the kernel's again.
hashpipe_pktsock_release_frame == frames' = Tail(frames)
=============================================================================
