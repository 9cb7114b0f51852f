----------------------------- MODULE Reception ------------------------------
(***************************************************************************)
(* The receiving side as deployed: F engines, network, packet socket, net  *)
(* thread and the reading side of the strip thread.  It is Capture with    *)
(* the main loop of the net thread around process_packet, and with packets *)
(* from a clock that rolls over and starts again instead of any packets.   *)
(***************************************************************************)
EXTENDS FEngines, NetThread

VARIABLES
  iblk,     \* the strip thread's block index
  reading,  \* whether the strip thread is reading block iblk
  anchor,   \* history: mcnt of the last packet of the window, or of the one
            \* that made the window move, whichever came last
  strays    \* history: out-of-sequence packets since the window last moved
            \* or a packet was stored

captureVars == <<inVars, netVars, iblk, reading>>
histVars == <<anchor, strays>>

vars == <<fengVars, frames, captureVars, histVars>>

Cap == INSTANCE Capture

\* A header has room for the F engines' mcnts and antennas, and for no mcnt
\* beyond the clock.  The clock's range is long enough for the window to be
\* missed: after a rollover more packets are out of sequence than it takes to
\* move it.
ASSUME ClockAssumption ==
  /\ FirstAnts \subseteq PktAnts
  /\ {n \in 0 .. ClockMod - 1 : n % PacketSpan = 0} \subseteq PktMcnts
  /\ PktMcnts \subseteq 0 .. ClockMod - 1
  /\ ClockMod >= LatePktMcntThreshold + 2 * BlockSpan + MaxOutOfSeq * PacketSpan

Init ==
  /\ FengInit
  /\ hashpipe_pktsock_open
  /\ Cap!Init
  /\ anchor = NoMcnt
  /\ strays = 0
-----------------------------------------------------------------------------
NetHold == NetRelease /\ UNCHANGED <<fengVars, frames, iblk, reading, histVars>>

\* "Drop all packets to date", then enter the main loop.
NetBegin ==
  /\ NetStart
  /\ frames' = <<>>
  /\ UNCHANGED <<fengVars, iblk, reading, histVars>>

\* A frame of the wrong size is given back and nothing else happens.
NetWrongSize ==
  /\ net_pc = "recv"
  /\ hashpipe_pktsock_recv_frame(NoPacket)
  /\ hashpipe_pktsock_release_frame
  /\ UNCHANGED <<fengVars, captureVars, histVars>>

\* A packet that is more than a block ahead of the packets so far, or more than
\* the whole ring behind them.
Jump(p) ==
  \/ p.mcnt - anchor > BlockSpan
  \/ anchor - p.mcnt > NInputBlocks * BlockSpan

\* Mutant: the frame is given back when process_packet is entered.
ReleaseAtOnce ==
  IF net_pc = "acquire" THEN UNCHANGED frames ELSE hashpipe_pktsock_release_frame

\* The frame is given back when process_packet returns, which it does not
\* while it waits for a block.
ReleaseWhenDone ==
  IF net_pc' = "acquire" THEN UNCHANGED frames ELSE hashpipe_pktsock_release_frame

\* The main loop takes a frame of the right size.
NetReceive ==
  \E p \in Packets :
    /\ hashpipe_pktsock_recv_frame(p)
    /\ \/ /\ NetStore(p) \/ NetAdvance(p) \/ NetReset(p)
          /\ anchor' = p.mcnt
          /\ strays' = 0
       \/ /\ NetLate(p)
          /\ UNCHANGED histVars
       \/ /\ NetOutOfSeq(p)
          /\ strays' = strays + 1
          /\ UNCHANGED anchor
    /\ ReleaseWhenDone
    /\ UNCHANGED <<fengVars, iblk, reading>>

\* What process_packet finds in the frame it was called with: the payload of the
\* oldest packet nobody gave back, or nothing of any packet.
FramePayload == IF frames = <<>> THEN NoMcnt ELSE Head(frames).mcnt

\* The wait in process_packet is over.
NetResume ==
  /\ NetAcquireFrom(FramePayload)
  /\ ReleaseWhenDone
  /\ UNCHANGED <<fengVars, iblk, reading, histVars>>

NetQuit == NetExit /\ UNCHANGED <<fengVars, frames, iblk, reading, histVars>>

StripTake == Cap!StripTake /\ UNCHANGED <<fengVars, frames, histVars>>

StripFree == Cap!StripFree /\ UNCHANGED <<fengVars, frames, histVars>>

\* Before the main loop nobody empties the ring, which fills up and drops
\* packets.  Then it is large enough for every wait: what it drops is lost
\* like a packet the network loses.
RingOutlastsWaits == FreeFrame \/ net_pc \in {"hold", "start"}

NetworkStep ==
  /\ net_pc # "exited"
  /\ RingOutlastsWaits
  /\ FengSend \/ StragglerArrives
  /\ UNCHANGED <<captureVars, histVars>>

Restart ==
  /\ net_pc # "exited"
  /\ FengRestart
  /\ UNCHANGED <<captureVars, histVars>>

Next ==
  \/ NetworkStep \/ Restart
  \/ NetHold \/ NetBegin \/ NetReceive \/ NetWrongSize \/ NetResume \/ NetQuit
  \/ StripTake \/ StripFree

Spec == Init /\ [][Next]_vars

\* F engines never stop sending and the operating system runs both threads.
\* Nothing makes somebody set NETHOLD to 0 or the threads exit.
LiveSpec ==
  /\ Spec
  /\ WF_vars(NetworkStep)
  /\ WF_vars(NetBegin)
  /\ WF_vars(NetReceive \/ NetWrongSize)
  /\ WF_vars(NetResume)
  /\ WF_vars(StripTake)
  /\ WF_vars(StripFree)
-----------------------------------------------------------------------------
\* The types of the variables.  The window never runs away from the clock.
TypeOK ==
  /\ Cap!TypeOK
  /\ feng_mcnt \in {n \in 0 .. ClockMod - 1 : n % PacketSpan = 0}
  /\ to_send \in (SUBSET FirstAnts) \ {{}}
  /\ faults \in 0 .. MaxFaults
  /\ straggler \in Packets \union {NoPacket}
  /\ overtaken \in 0 .. MaxOvertaken
  /\ Len(frames) <= NFrames
  /\ \A k \in 1 .. Len(frames) : frames[k] \in Packets \union {NoPacket}
  /\ mcnt_start < ClockMod + NInputBlocks * BlockSpan
  /\ anchor \in PktMcnts \union {NoMcnt}
  /\ strays \in 0 .. MaxOutOfSeq

\* The deployed net thread does nothing that Capture, where any packet may come
\* at any time, does not do: what is checked and proved of Capture holds here.
\* In particular the payload it copies when a wait for a block is over is that of
\* the packet whose header made it wait, whatever arrived meanwhile.
ImplementsCapture == Cap!Spec

\* process_packet moved the window to where the packets are.
Reset == net_pc = "recv" /\ net_pc' = "recv" /\ mcnt_start' # mcnt_start

\* The window is only moved for a packet far from those it follows, and once for
\* each jump: a packet no more than a block ahead of the last one stored, and no
\* more than the whole ring behind it, never makes it move, whatever was lost,
\* cut short or overtaken, and a window that was moved to the packets stays.
OneResetPerJump == [][Reset => Jump(Head(frames))]_vars

\* Whatever was lost, and wherever a restart or a rollover of the clock left the
\* window, the packets come back to it: blocks are filled again and again.
BlocksKeepComing ==
  \/ []<>(net_pc = "acquire")
  \/ <>[](net_pc \in {"hold", "exited"})
-----------------------------------------------------------------------------
(* A statement of a comment that the code does not keep. *)

\* "This allows for 2 out of sequence packets from each F engine (in a row)":
\* the window is not moved by fewer.
StraysTolerated == [][Reset => strays >= MaxOutOfSeq]_vars
=============================================================================
