------------------------------ MODULE FEngines ------------------------------
(***************************************************************************)
(* What feeds the net thread: F engines that share a clock, and the        *)
(* network.  The clock is a counter of as many bits as get_header takes    *)
(* for the mcnt, so it rolls over, and it starts again at 0 when the F     *)
(* engines are restarted.  The network loses packets, cuts them short, and *)
(* lets one straggle behind the packets sent after it.                     *)
(***************************************************************************)
EXTENDS PktSocket

CONSTANTS
  ClockMod,       \* 2^35, the range of the mcnt in a packet header
  PacketSpan,     \* mcnts from a packet to the next one of the same antenna
  FirstAnts,      \* the first antennas of the packets sent for one mcnt
  MaxFaults,      \* bound: restarts, and packets that do not arrive as sent
  MaxOvertaken    \* bound: packets that overtake a straggler

ASSUME FEnginesAssumption ==
  /\ PacketSpan \in Nat \ {0}
  /\ ClockMod \in Nat /\ ClockMod % PacketSpan = 0 /\ ClockMod > PacketSpan
  /\ FirstAnts # {} /\ FirstAnts \subseteq Nat
  /\ MaxFaults \in Nat
  /\ MaxOvertaken \in Nat \ {0}

VARIABLES
  feng_mcnt,      \* the clock of the F engines
  to_send,        \* the antennas whose packet of that mcnt is not sent yet
  faults,         \* restarts, and packets that did not arrive as sent, so far
  straggler,      \* the packet that straggles, if any
  overtaken       \* packets that have overtaken it

fengVars == <<feng_mcnt, to_send, faults, straggler, overtaken>>

NoPacket == [mcnt |-> -1, ant |-> 0]

FengInit ==
  /\ feng_mcnt = 0
  /\ to_send = FirstAnts
  /\ faults = 0
  /\ straggler = NoPacket
  /\ overtaken = 0

\* The clock goes on when the packets of all antennas are sent.
SendFrom(a) ==
  /\ a \in to_send
  /\ IF to_send = {a}
     THEN /\ feng_mcnt' = (feng_mcnt + PacketSpan) % ClockMod
          /\ to_send' = FirstAnts
     ELSE /\ to_send' = to_send \ {a}
          /\ UNCHANGED feng_mcnt
  /\ straggler # NoPacket => overtaken < MaxOvertaken

Fault ==
  /\ faults < MaxFaults
  /\ faults' = faults + 1

Overtake ==
  /\ overtaken' = IF straggler = NoPacket THEN 0 ELSE overtaken + 1
  /\ UNCHANGED straggler

Packet(a) == [mcnt |-> feng_mcnt, ant |-> a]

PacketArrives(a) ==
  /\ SendFrom(a)
  /\ FrameArrives(Packet(a))
  /\ Overtake
  /\ UNCHANGED faults

PacketLost(a) ==
  /\ SendFrom(a)
  /\ Fault
  /\ Overtake
  /\ UNCHANGED frames

\* The frame is taken by a packet of the wrong size.
PacketCutShort(a) ==
  /\ SendFrom(a)
  /\ Fault
  /\ Overtake
  /\ FrameArrives(NoPacket)

PacketStraggles(a) ==
  /\ SendFrom(a)
  /\ Fault
  /\ straggler = NoPacket
  /\ straggler' = Packet(a)
  /\ overtaken' = 0
  /\ UNCHANGED frames

StragglerArrives ==
  /\ straggler # NoPacket
  /\ FrameArrives(straggler)
  /\ straggler' = NoPacket
  /\ overtaken' = 0
  /\ UNCHANGED <<feng_mcnt, to_send, faults>>

\* The F engines are restarted and count from 0 again.
FengRestart ==
  /\ Fault
  /\ feng_mcnt' = 0
  /\ to_send' = FirstAnts
  /\ UNCHANGED <<straggler, overtaken, frames>>

FengSend ==
  \E a \in FirstAnts :
    PacketArrives(a) \/ PacketLost(a) \/ PacketCutShort(a) \/ PacketStraggles(a)
=============================================================================
