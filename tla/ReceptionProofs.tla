-------------------------- MODULE ReceptionProofs ---------------------------
(* Theorems about Reception, for every size of the blocks and of the frame *)
(* ring, every clock and any number of faults.                             *)
EXTENDS Reception, Arithmetic

-----------------------------------------------------------------------------
(* The operations of the net thread are those of the net thread of Capture. *)

\* The arithmetic of mcnts and blocks is the same.
LEMMA SameWindow ==
  /\ Cap!Packets = Packets
  /\ \A m : Cap!block_for_mcnt(m) = block_for_mcnt(m)
  /\ \A p : Cap!Dist(p) = Dist(p)
  /\ \A p : Cap!InCurrentOrNext(p) <=> InCurrentOrNext(p)
  /\ \A p : Cap!InBlockAfterNext(p) <=> InBlockAfterNext(p)
  /\ \A p : Cap!IsLate(p) <=> IsLate(p)
  /\ \A p : Cap!IsOutOfSeq(p) <=> IsOutOfSeq(p)
  /\ \A m : Cap!ResetMcnt(m) = ResetMcnt(m)
BY DEF Cap!Packets, Packets, Cap!block_for_mcnt, block_for_mcnt, Cap!Dist, Dist,
   Cap!InCurrentOrNext, InCurrentOrNext, Cap!InBlockAfterNext, InBlockAfterNext,
   Cap!IsLate, IsLate, Cap!IsOutOfSeq, IsOutOfSeq, Cap!BlockSpan, BlockSpan,
   Cap!LatePktMcntThreshold, LatePktMcntThreshold, Cap!ResetMcnt, ResetMcnt

\* So are the operations on blocks.
LEMMA SameBlocks ==
  /\ \A h, m : Cap!initialize_block(h, m) = initialize_block(h, m)
  /\ \A b : Cap!hdr_input_databuf_wait_free(b) <=> hdr_input_databuf_wait_free(b)
  /\ \A d, p, v : Cap!StorePayload(d, p, v) = StorePayload(d, p, v)
  /\ \A c, p, v : Cap!CountAndStore(c, p, v) <=> CountAndStore(c, p, v)
  /\ Cap!set_block_filled <=> set_block_filled
BY SameWindow
DEF Cap!initialize_block, initialize_block, Cap!hdr_input_databuf_wait_free,
    hdr_input_databuf_wait_free, Cap!StorePayload, StorePayload, Cap!ValidAntenna,
    ValidAntenna, Cap!MIndex, MIndex, Cap!CountAndStore, CountAndStore,
    Cap!set_block_filled, set_block_filled, Cap!hdr_input_databuf_set_filled,
    hdr_input_databuf_set_filled, Cap!NPacketsPerBlock, NPacketsPerBlock,
    Cap!MissedFengines, MissedFengines, Cap!MissedModulo, MissedModulo,
    Cap!MissedPackets, MissedPackets, Cap!NPacketsPerBlockPerF, NPacketsPerBlockPerF,
    Cap!AntsPerPacket, AntsPerPacket

\* So are the steps of process_packet.
LEMMA SameProcess ==
  ASSUME NEW p
  PROVE  /\ NetStore(p) => Cap!NetStore(p)
         /\ NetAdvance(p) => Cap!NetAdvance(p)
         /\ NetLate(p) => Cap!NetLate(p)
         /\ NetOutOfSeq(p) => Cap!NetOutOfSeq(p)
         /\ NetReset(p) => Cap!NetReset(p)
<1> USE SameWindow, SameBlocks DEF Cap!inVars, inVars, Cap!netVars, netVars
<1>1. NetStore(p) => Cap!NetStore(p)
  BY DEF NetStore, Cap!NetStore
<1>2. NetAdvance(p) => Cap!NetAdvance(p)
  BY DEF NetAdvance, Cap!NetAdvance, Cap!BlockSpan, BlockSpan
<1>3. NetLate(p) => Cap!NetLate(p)
  BY DEF NetLate, Cap!NetLate
<1>4. NetOutOfSeq(p) => Cap!NetOutOfSeq(p)
  BY DEF NetOutOfSeq, Cap!NetOutOfSeq, Cap!MaxOutOfSeq, MaxOutOfSeq
<1>5. NetReset(p) => Cap!NetReset(p)
  BY DEF NetReset, Cap!NetReset, Cap!MaxOutOfSeq, MaxOutOfSeq, Cap!BlockSpan, BlockSpan
<1> QED BY <1>1, <1>2, <1>3, <1>4, <1>5

\* So are the steps around it.
LEMMA SameLoop ==
  /\ NetRelease => Cap!NetRelease
  /\ NetStart => Cap!NetStart
  /\ \A v : NetAcquireFrom(v) => Cap!NetAcquireFrom(v)
  /\ NetExit => Cap!NetExit
<1> USE SameWindow, SameBlocks DEF Cap!inVars, inVars, Cap!netVars, netVars
<1>1. NetRelease => Cap!NetRelease
  BY DEF NetRelease, Cap!NetRelease
<1>2. NetStart => Cap!NetStart
  BY DEF NetStart, Cap!NetStart, Cap!BlockSpan, BlockSpan
<1>3. \A v : NetAcquireFrom(v) => Cap!NetAcquireFrom(v)
  BY DEF NetAcquireFrom, Cap!NetAcquireFrom, Cap!FilledMcnt, FilledMcnt, Cap!BlockSpan,
     BlockSpan, Cap!ValidAntenna, ValidAntenna, Cap!NoMcnt, NoMcnt
<1>4. NetExit => Cap!NetExit
  BY DEF NetExit, Cap!NetExit
<1> QED BY <1>1, <1>2, <1>3, <1>4

-----------------------------------------------------------------------------
(* The frame of a packet that waits for a block. *)

FrameContents == [mcnt : Int, ant : Nat]

\* The frames hold packets, as do the F engines and the network; a packet that
\* waits for a block is in the oldest frame.
FrameInv ==
  /\ feng_mcnt \in Int
  /\ straggler \in FrameContents
  /\ frames \in Seq(FrameContents)
  /\ net_pc = "acquire" => frames # <<>> /\ Head(frames) = pkt

\* Packets are appended at the end, so the oldest frame stays the oldest.
LEMMA ArrivalKeepsHead ==
  ASSUME frames \in Seq(FrameContents),
         NEW p \in FrameContents, FrameArrives(p)
  PROVE  /\ frames' \in Seq(FrameContents)
         /\ frames # <<>> => frames' # <<>> /\ Head(frames') = Head(frames)
BY DEF FrameArrives

\* What the F engines send can be in a frame.
LEMMA PacketContents ==
  ASSUME FrameInv, NEW a \in FirstAnts
  PROVE  Packet(a) \in FrameContents /\ NoPacket \in FrameContents
BY FEnginesAssumption DEF FrameInv, FrameContents, Packet, NoPacket

\* Nothing is waiting when the threads start.
LEMMA FrameInit == Init => FrameInv
BY DEF Init, FengInit, hashpipe_pktsock_open, Cap!Init, Cap!NetInit, FrameInv,
   FrameContents, NoPacket

\* The network and the F engines leave the oldest frame alone.
LEMMA FrameNetworkStep ==
  ASSUME FrameInv, NetworkStep \/ Restart
  PROVE  FrameInv'
<1> USE DEF captureVars, netVars
<1>1. CASE Restart
  BY <1>1 DEF Restart, FengRestart, FrameInv
<1>2. CASE NetworkStep
  <2>1. UNCHANGED <<net_pc, pkt>>
    BY <1>2 DEF NetworkStep
  <2>2. /\ feng_mcnt' \in Int
        /\ straggler' \in FrameContents
        /\ \/ UNCHANGED frames
           \/ \E p \in FrameContents : FrameArrives(p)
    <3>1. CASE StragglerArrives
      BY <3>1 DEF StragglerArrives, FrameInv, FrameContents, NoPacket
    <3>2. CASE FengSend
      <4>1. PICK a \in FirstAnts : PacketArrives(a) \/ PacketLost(a)
                                   \/ PacketCutShort(a) \/ PacketStraggles(a)
        BY <3>2 DEF FengSend
      <4>2. feng_mcnt' \in Int
        <5>1. SendFrom(a)
          BY <4>1 DEF PacketArrives, PacketLost, PacketCutShort, PacketStraggles
        <5>2. (feng_mcnt + PacketSpan) % ClockMod \in Int
          BY FEnginesAssumption DEF FrameInv
        <5> QED BY <5>1, <5>2 DEF SendFrom, FrameInv
      <4> QED BY <4>1, <4>2, PacketContents
        DEF PacketArrives, PacketLost, PacketCutShort, PacketStraggles, Overtake,
            FrameInv
    <3> QED BY <1>2, <3>1, <3>2 DEF NetworkStep
  <2>3. /\ frames' \in Seq(FrameContents)
        /\ frames # <<>> => frames' # <<>> /\ Head(frames') = Head(frames)
    BY <2>2, ArrivalKeepsHead DEF FrameInv
  <2> QED BY <2>1, <2>2, <2>3 DEF FrameInv
<1> QED BY <1>1, <1>2

\* The frame that makes the net thread wait is the oldest one, and it gives no
\* frame back before the wait is over.
LEMMA FrameStep == FrameInv /\ [Next]_vars => FrameInv'
<1> SUFFICES ASSUME FrameInv, [Next]_vars
             PROVE  FrameInv'
  OBVIOUS
<1> USE DEF captureVars, netVars, fengVars, FrameInv
<1>1. CASE NetworkStep \/ Restart
  BY <1>1, FrameNetworkStep
<1>2. CASE NetHold
  BY <1>2 DEF NetHold, NetRelease
<1>3. CASE NetBegin
  BY <1>3 DEF NetBegin, NetStart
<1>4. CASE NetReceive
  <2>1. PICK p \in Packets : /\ hashpipe_pktsock_recv_frame(p)
                             /\ process_packet(p)
                             /\ ReleaseWhenDone
                             /\ UNCHANGED fengVars
    BY <1>4 DEF NetReceive, process_packet
  <2>2. frames # <<>> /\ p = Head(frames)
    BY <2>1 DEF hashpipe_pktsock_recv_frame
  <2>3. net_pc' = "acquire" => pkt' = p
    BY <2>1 DEF process_packet, NetStore, NetAdvance, NetLate, NetOutOfSeq, NetReset
  <2>4. CASE net_pc' = "acquire"
    BY <2>1, <2>2, <2>3, <2>4 DEF ReleaseWhenDone
  <2>5. CASE net_pc' # "acquire"
    BY <2>1, <2>2, <2>5 DEF ReleaseWhenDone, hashpipe_pktsock_release_frame
  <2> QED BY <2>4, <2>5
<1>5. CASE NetWrongSize
  BY <1>5 DEF NetWrongSize, hashpipe_pktsock_recv_frame, hashpipe_pktsock_release_frame
<1>6. CASE NetResume
  <2>1. /\ net_pc' = "recv"
        /\ frames # <<>>
        /\ UNCHANGED <<feng_mcnt, straggler>>
    BY <1>6 DEF NetResume, NetAcquireFrom
  <2>2. frames' = Tail(frames)
    BY <1>6, <2>1 DEF NetResume, ReleaseWhenDone, hashpipe_pktsock_release_frame
  <2> QED BY <2>1, <2>2
<1>7. CASE NetQuit
  BY <1>7 DEF NetQuit, NetExit
<1>8. CASE StripTake \/ StripFree
  BY <1>8 DEF StripTake, StripFree, Cap!StripTake, Cap!StripFree, Cap!netVars
<1>9. CASE UNCHANGED vars
  BY <1>9 DEF vars
<1> QED BY <1>1, <1>2, <1>3, <1>4, <1>5, <1>6, <1>7, <1>8, <1>9 DEF Next

\* So the payload copied when the wait is over is that of the packet.
LEMMA FrameInvariant == Spec => []FrameInv
BY FrameInit, FrameStep, PTL DEF Spec

-----------------------------------------------------------------------------
(* The receiving side implements Capture. *)

\* Each step is a step of Capture, or none when only the network, the F engines
\* or the ring of frames change.  When a wait is over it takes FrameInv to know
\* that the oldest frame still holds the packet Capture stores.
LEMMA StepImplements == FrameInv /\ [Next]_vars => [Cap!Next]_Cap!vars
<1> SUFFICES ASSUME FrameInv, [Next]_vars
             PROVE  [Cap!Next]_Cap!vars
  OBVIOUS
<1> USE DEF captureVars, Cap!vars, Cap!inVars, inVars, Cap!netVars, netVars
<1>1. CASE NetworkStep \/ Restart \/ NetWrongSize
  BY <1>1 DEF NetworkStep, Restart, NetWrongSize
<1>2. CASE NetHold \/ NetBegin \/ NetQuit
  BY <1>2, SameLoop
  DEF NetHold, NetBegin, NetQuit, Cap!Next, Cap!NetStep
<1>6. CASE NetResume
  <2>1. FramePayload = pkt.mcnt
    BY <1>6 DEF NetResume, NetAcquireFrom, FrameInv, FramePayload
  <2>2. Cap!NetAcquire
    BY <1>6, <2>1, SameLoop DEF NetResume, Cap!NetAcquire
  <2> QED BY <1>6, <2>2 DEF NetResume, Cap!Next, Cap!NetStep
<1>3. CASE NetReceive
  <2>1. PICK p \in Packets : NetStore(p) \/ NetAdvance(p) \/ NetLate(p)
                              \/ NetOutOfSeq(p) \/ NetReset(p)
    BY <1>3 DEF NetReceive
  <2>2. Cap!process_packet(p)
    BY <2>1, SameProcess DEF Cap!process_packet
  <2>3. UNCHANGED <<iblk, reading>>
    BY <1>3 DEF NetReceive
  <2>4. Cap!NetStep
    BY <2>2, <2>3, SameWindow DEF Cap!NetStep
  <2> QED BY <2>4 DEF Cap!Next
<1>4. CASE StripTake \/ StripFree
  BY <1>4 DEF StripTake, StripFree, Cap!Next
<1>5. CASE UNCHANGED vars
  BY <1>5 DEF vars
<1> QED BY <1>1, <1>2, <1>3, <1>4, <1>5, <1>6 DEF Next

\* The deployed net thread, fed by F engines through a lossy network and a
\* bounded ring of frames, does nothing but what Capture does, where any packet
\* may come at any time: in particular it stores, after a wait for a block, the
\* payload of the packet whose header it took before the wait.
THEOREM CaptureImplemented == Spec => ImplementsCapture
<1>1. Init => Cap!Init
  BY DEF Init
<1> QED BY <1>1, FrameInvariant, StepImplements, PTL DEF Spec, ImplementsCapture, Cap!Spec

-----------------------------------------------------------------------------
(* What is proved of Capture holds here. *)

\* The theorems about Capture, of the variables of the receiving side.
CP == INSTANCE WindowProofs

\* They rest on assumptions that are those of the net thread.
LEMMA SameAssumptions ==
  CP!InputDatabufAssumption /\ CP!NetThreadAssumption /\ CP!PacketsPerFAssumption
BY InputDatabufAssumption, NetThreadAssumption, PacketsPerFAssumption
DEF CP!AntsPerPacket, AntsPerPacket, CP!Slots, Slots, CP!Nm, Nm,
    CP!NPacketsPerBlockPerF, NPacketsPerBlockPerF, CP!NPacketsPerBlock, NPacketsPerBlock

\* They speak of the actions of Capture.
LEMMA SameNext == Cap!Next <=> CP!Next
BY Zenon DEF Cap!inVars, CP!inVars, Cap!InputBlockCount, CP!InputBlockCount,
   Cap!InputBlocks, CP!InputBlocks, Cap!NetBlocks, CP!NetBlocks, Cap!ZeroHeader,
   CP!ZeroHeader, Cap!hdr_input_databuf_create, CP!hdr_input_databuf_create,
   Cap!hdr_input_databuf_wait_free, CP!hdr_input_databuf_wait_free,
   Cap!hdr_input_databuf_wait_filled, CP!hdr_input_databuf_wait_filled,
   Cap!hdr_input_databuf_set_filled, CP!hdr_input_databuf_set_filled,
   Cap!hdr_input_databuf_set_free, CP!hdr_input_databuf_set_free, Cap!AntsPerPacket,
   CP!AntsPerPacket, Cap!netVars, CP!netVars, Cap!NetPCs, CP!NetPCs, Cap!NoMcnt,
   CP!NoMcnt, Cap!BlockSpan, CP!BlockSpan, Cap!Nm, CP!Nm, Cap!Slots, CP!Slots,
   Cap!NPacketsPerBlock, CP!NPacketsPerBlock, Cap!NPacketsPerBlockPerF,
   CP!NPacketsPerBlockPerF, Cap!MaxOutOfSeq, CP!MaxOutOfSeq, Cap!LatePktMcntThreshold,
   CP!LatePktMcntThreshold, Cap!Packets, CP!Packets, Cap!block_for_mcnt,
   CP!block_for_mcnt, Cap!MIndex, CP!MIndex, Cap!Dist, CP!Dist, Cap!InCurrentOrNext,
   CP!InCurrentOrNext, Cap!InBlockAfterNext, CP!InBlockAfterNext, Cap!IsLate,
   CP!IsLate, Cap!IsOutOfSeq, CP!IsOutOfSeq, Cap!initialize_block, CP!initialize_block,
   Cap!MissedPackets, CP!MissedPackets, Cap!MissedFengines, CP!MissedFengines,
   Cap!MissedModulo, CP!MissedModulo, Cap!set_block_filled, CP!set_block_filled,
   Cap!ValidAntenna, CP!ValidAntenna, Cap!StorePayload, CP!StorePayload,
   Cap!CountAndStore, CP!CountAndStore, Cap!NetInit, CP!NetInit, Cap!NetRelease,
   CP!NetRelease, Cap!NetStart, CP!NetStart, Cap!NetStore, CP!NetStore, Cap!NetAdvance,
   CP!NetAdvance, Cap!FilledMcnt, CP!FilledMcnt, Cap!NetAcquire,
   Cap!NetAcquireFrom, CP!NetAcquire, CP!NetAcquireFrom,
   Cap!NetLate, CP!NetLate, Cap!NetOutOfSeq, CP!NetOutOfSeq, Cap!ResetMcnt,
   CP!ResetMcnt, Cap!NetReset, CP!NetReset, Cap!NetExit, CP!NetExit,
   Cap!process_packet, CP!process_packet, Cap!vars, CP!vars, Cap!StripTake,
   CP!StripTake, Cap!StripFree, CP!StripFree, Cap!NetStep, CP!NetStep, Cap!Next,
   CP!Next

\* The variables and the initial states are the same too.
LEMMA SameInit == Cap!vars = CP!vars /\ (Cap!Init <=> CP!Init)
BY DEF Cap!vars, CP!vars, Cap!inVars, CP!inVars, Cap!netVars, CP!netVars, Cap!Init, CP!Init,
   Cap!NetInit, CP!NetInit, Cap!hdr_input_databuf_create, CP!hdr_input_databuf_create,
   Cap!NoMcnt, CP!NoMcnt, Cap!NetBlocks, CP!NetBlocks, Cap!InputBlocks, CP!InputBlocks,
   Cap!InputBlockCount, CP!InputBlockCount, Cap!ZeroHeader, CP!ZeroHeader

\* And so are the types.
LEMMA SameTypes == Cap!TypeOK <=> CP!TypeOK
BY DEF Cap!TypeOK, CP!TypeOK, Cap!InputBlocks, CP!InputBlocks, Cap!InputBlockCount,
   CP!InputBlockCount, Cap!NetBlocks, CP!NetBlocks, Cap!NetPCs, CP!NetPCs,
   Cap!MaxOutOfSeq, CP!MaxOutOfSeq, Cap!NoMcnt, CP!NoMcnt

\* The receiving side is a Capture of which they speak.
LEMMA CaptureSpec == Spec => CP!Spec
<1>1. [Cap!Next]_Cap!vars => [CP!Next]_CP!vars
  BY SameNext
  DEF Cap!vars, CP!vars, Cap!inVars, CP!inVars, Cap!netVars, CP!netVars
<1>2. Cap!Spec => CP!Spec
  BY <1>1, SameInit, PTL DEF Cap!Spec, CP!Spec
<1> QED BY <1>2, CaptureImplemented, PTL DEF ImplementsCapture

\* The types of Capture's variables are right here.
LEMMA CaptureTypes == Spec => []Cap!TypeOK
<1>1. CP!Spec => []CP!TypeOK
  BY CP!TypeCorrect, SameAssumptions, PTL
<1> QED BY <1>1, CaptureSpec, SameTypes, PTL

\* With real F engines and the ring of frames in front of the net thread, blocks
\* are filled in ring order, the blocks of the window are free, the threads never
\* wait for each other, the blocks are a queue of headers, and while the window
\* starts with a block the filled ones are stable and the headers are right.
THEOREM CaptureTheoremsHold ==
  ASSUME NDebugInputBlocks = 0
  PROVE  Spec => /\ CP!ImplementsBlockQueue
                 /\ CP!FilledStableWhenAligned
                 /\ [](CP!FillsInSequence /\ CP!RingOrder /\ CP!HeldBlocksNotFilled)
                 /\ [](CP!NoCircularWait /\ CP!HeadersMatchWindowWhenAligned)
<1>1. CP!Spec => CP!ImplementsBlockQueue
  BY CP!RefinesBlockQueue, SameAssumptions, PTL
<1>2. CP!Spec => CP!FilledStableWhenAligned
  BY CP!StableWhenAligned, SameAssumptions, PTL
<1>3. CP!Spec => []CP!FillsInSequence
  BY CP!FillSequence, SameAssumptions, PTL
<1>4. CP!Spec => []CP!RingOrder
  BY CP!RingInOrder, SameAssumptions, PTL
<1>5. CP!Spec => []CP!HeldBlocksNotFilled
  BY CP!HeldBlocksFree, SameAssumptions, PTL
<1>6. CP!Spec => []CP!NoCircularWait
  BY CP!CircularWaitFree, SameAssumptions, PTL
<1>7. CP!Spec => []CP!HeadersMatchWindowWhenAligned
  BY CP!HeadersRight, SameAssumptions, PTL
<1> QED BY <1>1, <1>2, <1>3, <1>4, <1>5, <1>6, <1>7, CaptureSpec, PTL

-----------------------------------------------------------------------------
(* Types. *)

\* The values of the F engines' clock.
ClockMcnts == {n \in 0 .. ClockMod - 1 : n % PacketSpan = 0}

\* The F engines, the network and the ring of frames.
NetworkTypes ==
  /\ feng_mcnt \in ClockMcnts
  /\ to_send \in (SUBSET FirstAnts) \ {{}}
  /\ faults \in 0 .. MaxFaults
  /\ straggler \in Packets \union {NoPacket}
  /\ overtaken \in 0 .. MaxOvertaken
  /\ frames \in Seq(Packets \union {NoPacket})
  /\ Len(frames) <= NFrames

\* The window and the histories.  A packet out of sequence is counted in
\* out_of_seq_cnt, which is cleared no earlier than strays is.  The window is
\* never far from the packet it was last at: two blocks of it are ahead of
\* mcnt_start, and a reset moves mcnt_start less than a ring past its packet.
WindowTypes ==
  /\ mcnt_start < ClockMod + NInputBlocks * BlockSpan
  /\ anchor \in PktMcnts \union {NoMcnt}
  /\ mcnt_start - (NInputBlocks - 1) * BlockSpan <= anchor
  /\ anchor < mcnt_start + 2 * BlockSpan
  /\ strays \in 0 .. MaxOutOfSeq
  /\ strays <= out_of_seq_cnt
  /\ net_pc = "acquire" => strays = 0

\* The F engines' packets have the mcnts and antennas a header has room for.
LEMMA PacketTypes ==
  ASSUME NetworkTypes, NEW a \in FirstAnts
  PROVE  Packet(a) \in Packets
BY ClockAssumption DEF NetworkTypes, ClockMcnts, Packet, Packets

\* The clock goes round.
LEMMA ClockTicks ==
  ASSUME NEW m \in ClockMcnts
  PROVE  (m + PacketSpan) % ClockMod \in ClockMcnts
<1> DEFINE n == PacketSpan
           c == ClockMod
           x == m + n
<1>1. /\ n \in Nat \ {0} /\ c \in Nat \ {0} /\ c % n = 0 /\ n < c
      /\ m \in 0 .. c - 1 /\ m % n = 0
  BY FEnginesAssumption DEF ClockMcnts
<1>2. x % n = 0
  <2> HIDE DEF n, c
  <2>1. m \in Nat /\ n \in Nat
    BY <1>1
  <2>2. (m + n) % n = ((m % n) + n) % n
    BY <1>1, <2>1, ModSum
  <2>3. (0 + n) % n = 0
    BY <1>1
  <2> QED BY <1>1, <2>2, <2>3 DEF x
<1>3. x \in 0 .. 2 * c - 1
  BY <1>1
<1> HIDE DEF x
<1>4. CASE x < c
  <2>1. x % c = x
    BY <1>1, <1>3, <1>4
  <2>2. x % c \in 0 .. c - 1 /\ (x % c) % n = 0
    BY <1>1, <1>2, <1>3, <1>4, <2>1
  <2> QED BY <2>2 DEF ClockMcnts, x
<1>5. CASE ~(x < c)
  <2> DEFINE y == x - c
  <2>1. x % c = y
    <3> HIDE DEF c
    <3> QED BY <1>1, <1>3, <1>5, ModWithinTwo
  <2>2. y \in 0 .. c - 1
    BY <1>1, <1>3, <1>5
  <2>3. y % n = 0
    <3>1. y + c = x
      BY <1>1, <1>3
    <3> HIDE DEF y, c, n
    <3>2. c + y = x
      BY <1>1, <2>2, <3>1
    <3>3. c \in Nat /\ y \in Nat /\ 0 + y = y
      BY <1>1, <2>2
    <3>4. (c + y) % n = ((c % n) + y) % n
      BY <1>1, <3>3, ModSum
    <3> QED BY <1>1, <1>2, <3>2, <3>3, <3>4
  <2> HIDE DEF y
  <2>4. x % c \in 0 .. c - 1 /\ (x % c) % n = 0
    BY <2>1, <2>2, <2>3
  <2> QED BY <2>4 DEF ClockMcnts, x
<1> QED BY <1>4, <1>5

\* A frame that arrives finds room or is dropped.
LEMMA ArrivalTypes ==
  ASSUME NetworkTypes, NEW p \in Packets \union {NoPacket}, FrameArrives(p)
  PROVE  frames' \in Seq(Packets \union {NoPacket}) /\ Len(frames') <= NFrames
<1>1. NFrames \in Nat /\ Len(frames) \in Nat
  BY PktSocketAssumption DEF NetworkTypes
<1>2. Append(frames, p) \in Seq(Packets \union {NoPacket})
      /\ Len(Append(frames, p)) = Len(frames) + 1
  BY AppendProperties DEF NetworkTypes
<1> QED BY <1>1, <1>2 DEF FrameArrives, FreeFrame, NetworkTypes

\* Sending, losing, cutting short and delaying packets, and restarts.
LEMMA NetworkTypesStep ==
  ASSUME NetworkTypes, NetworkStep \/ Restart
  PROVE  NetworkTypes'
<1>1. CASE Restart
  <2>1. 0 \in ClockMcnts
    BY FEnginesAssumption DEF ClockMcnts
  <2> QED BY <1>1, <2>1, FEnginesAssumption
    DEF Restart, FengRestart, Fault, NetworkTypes, ClockMcnts, Packets
<1>2. CASE NetworkStep /\ StragglerArrives
  <2>1. frames' \in Seq(Packets \union {NoPacket}) /\ Len(frames') <= NFrames
    BY <1>2, ArrivalTypes DEF StragglerArrives, NetworkTypes
  <2> QED BY <1>2, <2>1, FEnginesAssumption
    DEF StragglerArrives, NetworkTypes, ClockMcnts, Packets
<1>3. ASSUME NEW a \in FirstAnts,
             PacketArrives(a) \/ PacketLost(a) \/ PacketCutShort(a) \/ PacketStraggles(a)
      PROVE  NetworkTypes'
  <2>1. SendFrom(a) /\ Packet(a) \in Packets
    BY <1>3, PacketTypes DEF PacketArrives, PacketLost, PacketCutShort, PacketStraggles
  <2>2. feng_mcnt' \in ClockMcnts /\ to_send' \in (SUBSET FirstAnts) \ {{}}
    BY <2>1, ClockTicks, FEnginesAssumption DEF SendFrom, NetworkTypes
  <2>3. faults' \in 0 .. MaxFaults
    BY <1>3, FEnginesAssumption
    DEF PacketArrives, PacketLost, PacketCutShort, PacketStraggles, Fault, NetworkTypes
  <2>4. straggler' \in Packets \union {NoPacket} /\ overtaken' \in 0 .. MaxOvertaken
    BY <1>3, <2>1, FEnginesAssumption
    DEF PacketArrives, PacketLost, PacketCutShort, PacketStraggles, Overtake, SendFrom,
        NetworkTypes
  <2>5. frames' \in Seq(Packets \union {NoPacket}) /\ Len(frames') <= NFrames
    <3>1. CASE PacketArrives(a)
      BY <2>1, <3>1, ArrivalTypes DEF PacketArrives
    <3>2. CASE PacketCutShort(a)
      BY <3>2, ArrivalTypes DEF PacketCutShort
    <3>3. CASE PacketLost(a) \/ PacketStraggles(a)
      BY <3>3 DEF PacketLost, PacketStraggles, NetworkTypes
    <3> QED BY <1>3, <3>1, <3>2, <3>3
  <2> QED BY <2>2, <2>3, <2>4, <2>5 DEF NetworkTypes, ClockMcnts, Packets
<1> QED BY <1>1, <1>2, <1>3 DEF NetworkStep, FengSend

\* The window is moved to less than once round the ring past the packet.
LEMMA ResetBound ==
  ASSUME NEW m \in PktMcnts, block_i \in NetBlocks
  PROVE  /\ ResetMcnt(m) < ClockMod + NInputBlocks * BlockSpan
         /\ ResetMcnt(m) - (NInputBlocks - 1) * BlockSpan <= m
         /\ m < ResetMcnt(m) + BlockSpan
<1> DEFINE b == block_for_mcnt(m)
           shift == IF block_i >= b THEN block_i - b ELSE block_i + NInputBlocks - b
           moved == m + BlockSpan * shift
<1>1. /\ m \in 0 .. ClockMod - 1 /\ ClockMod \in Nat
      /\ NInputBlocks \in Nat \ {0} /\ BlockSpan \in Nat \ {0} /\ NTimePerBlock \in Nat \ {0}
  BY ClockAssumption, FEnginesAssumption, InputDatabufAssumption, NetThreadAssumption
  DEF BlockSpan
<1>2. b \in 0 .. NInputBlocks - 1
  <2> DEFINE k == (m \div TimeDemux) \div NTimePerBlock
  <2>1. m \div TimeDemux \in Nat
    BY <1>1, NetThreadAssumption
  <2>2. k \in Nat
    BY <1>1, <2>1
  <2>3. b = k % NInputBlocks
    BY DEF block_for_mcnt
  <2> HIDE DEF k, b
  <2> QED BY <1>1, <2>2, <2>3
<1>3. ResetMcnt(m) = moved - (moved % NTimePerBlock)
  BY DEF ResetMcnt
<1>4. NTimePerBlock <= BlockSpan
  BY <1>1, NetThreadAssumption DEF BlockSpan
<1> HIDE DEF b
<1>5. shift \in 0 .. NInputBlocks - 1
  BY <1>1, <1>2 DEF NetBlocks
<1> HIDE DEF shift
<1>6. /\ BlockSpan * shift \in Nat
      /\ BlockSpan * shift <= (NInputBlocks - 1) * BlockSpan
      /\ (NInputBlocks - 1) * BlockSpan \in Nat
      /\ NInputBlocks * BlockSpan = (NInputBlocks - 1) * BlockSpan + BlockSpan
  BY <1>1, <1>5
<1>7. moved \in Nat /\ m <= moved /\ moved <= m + (NInputBlocks - 1) * BlockSpan
  BY <1>1, <1>6
<1> HIDE DEF moved
<1>8. moved % NTimePerBlock \in Nat /\ moved % NTimePerBlock < NTimePerBlock
  BY <1>1, <1>7
<1> QED
  <2> DEFINE x == (NInputBlocks - 1) * BlockSpan
             y == NInputBlocks * BlockSpan
             z == moved % NTimePerBlock
  <2>1. /\ x \in Nat /\ y = x + BlockSpan /\ z \in Nat /\ z < NTimePerBlock
        /\ moved <= m + x /\ ResetMcnt(m) = moved - z
    BY <1>3, <1>6, <1>7, <1>8
  <2> HIDE DEF x, y, z
  <2>2. /\ ResetMcnt(m) < ClockMod + y
        /\ ResetMcnt(m) - x <= m
        /\ m < ResetMcnt(m) + BlockSpan
    BY <1>1, <1>4, <1>7, <2>1
  <2> QED BY <2>2 DEF x, y

\* The parameters of the window are numbers.
LEMMA WindowSizes ==
  /\ MaxOutOfSeq \in Nat /\ BlockSpan \in Nat \ {0} /\ ClockMod \in Nat
  /\ NInputBlocks \in Nat /\ NInputBlocks >= 3
  /\ (NInputBlocks - 1) * BlockSpan \in Nat
  /\ (NInputBlocks - 1) * BlockSpan >= 2 * BlockSpan
  /\ NInputBlocks * BlockSpan = (NInputBlocks - 1) * BlockSpan + BlockSpan
  /\ LatePktMcntThreshold = 2 * (NInputBlocks * BlockSpan)
<1>1. /\ MaxOutOfSeq \in Nat /\ BlockSpan \in Nat \ {0} /\ ClockMod \in Nat
      /\ NInputBlocks \in Nat /\ NInputBlocks >= 3
  BY FEnginesAssumption, InputDatabufAssumption, NetThreadAssumption
  DEF MaxOutOfSeq, BlockSpan
<1>2. /\ (NInputBlocks - 1) * BlockSpan \in Nat
      /\ (NInputBlocks - 1) * BlockSpan >= 2 * BlockSpan
      /\ NInputBlocks * BlockSpan = (NInputBlocks - 1) * BlockSpan + BlockSpan
  BY <1>1
<1>3. LatePktMcntThreshold = 2 * (NInputBlocks * BlockSpan)
  BY NetThreadAssumption, InputDatabufAssumption DEF LatePktMcntThreshold, BlockSpan
<1> QED BY <1>1, <1>2, <1>3

\* The main loop takes a packet from the oldest frame.
LEMMA ReceiveTypes ==
  ASSUME Cap!TypeOK, WindowTypes, NetReceive
  PROVE  WindowTypes'
<1> DEFINE x == (NInputBlocks - 1) * BlockSpan
           y == NInputBlocks * BlockSpan
           m == mcnt_start
<1>1. PICK p \in Packets :
        \/ /\ NetStore(p) \/ NetAdvance(p) \/ NetReset(p)
           /\ anchor' = p.mcnt
           /\ strays' = 0
        \/ /\ NetLate(p)
           /\ UNCHANGED histVars
        \/ /\ NetOutOfSeq(p)
           /\ strays' = strays + 1
           /\ UNCHANGED anchor
  BY DEF NetReceive
<1>2. p.mcnt \in PktMcnts /\ p.mcnt \in 0 .. ClockMod - 1
  BY ClockAssumption DEF Packets
<1>3. /\ MaxOutOfSeq \in Nat /\ BlockSpan \in Nat \ {0} /\ NInputBlocks \in Nat
      /\ ClockMod \in Nat /\ x \in Nat /\ x >= 2 * BlockSpan /\ y = x + BlockSpan
  BY WindowSizes
<1>4. /\ mcnt_start \in Nat /\ block_i \in NetBlocks
      /\ out_of_seq_cnt \in 0 .. MaxOutOfSeq + 1
  BY DEF Cap!TypeOK, Cap!NetBlocks, NetBlocks, Cap!MaxOutOfSeq, MaxOutOfSeq
<1> DEFINE Near == /\ mcnt_start' < ClockMod + NInputBlocks * BlockSpan
                   /\ mcnt_start' - (NInputBlocks - 1) * BlockSpan <= anchor'
                   /\ anchor' < mcnt_start' + 2 * BlockSpan
           Counts == /\ anchor' \in PktMcnts \union {NoMcnt}
                     /\ strays' \in 0 .. MaxOutOfSeq
                     /\ strays' <= out_of_seq_cnt'
                     /\ net_pc' = "acquire" => strays' = 0
<1>5. /\ anchor \in PktMcnts \union {NoMcnt} /\ strays \in 0 .. MaxOutOfSeq
      /\ strays <= out_of_seq_cnt /\ (net_pc = "acquire" => strays = 0)
      /\ m < ClockMod + y /\ m - x <= anchor /\ anchor < m + 2 * BlockSpan
  BY DEF WindowTypes
<1>6. anchor \in Int
  BY <1>5, ClockAssumption, FEnginesAssumption DEF NoMcnt
<1>7. Near /\ Counts
  <2>1. CASE NetStore(p) /\ anchor' = p.mcnt /\ strays' = 0
    <3>1. mcnt_start' = m /\ m <= p.mcnt /\ p.mcnt < m + 2 * BlockSpan
          /\ out_of_seq_cnt' = 0
      BY <1>2, <1>3, <1>4, <2>1
      DEF NetStore, InCurrentOrNext, Dist, CountAndStore
    <3> HIDE DEF x, y, m
    <3>2. /\ mcnt_start' < ClockMod + y /\ mcnt_start' - x <= anchor'
          /\ anchor' < mcnt_start' + 2 * BlockSpan
      BY <1>2, <1>3, <1>4, <1>5, <2>1, <3>1 DEF m
    <3> QED BY <1>2, <1>3, <2>1, <3>1, <3>2 DEF x, y
  <2>2. CASE NetAdvance(p) /\ anchor' = p.mcnt /\ strays' = 0
    <3>1. /\ mcnt_start' = m + BlockSpan /\ out_of_seq_cnt' = out_of_seq_cnt
          /\ m + 2 * BlockSpan <= p.mcnt /\ p.mcnt < m + 3 * BlockSpan
      BY <1>2, <1>3, <1>4, <2>2 DEF NetAdvance, InBlockAfterNext, Dist
    <3> HIDE DEF x, y, m
    <3>2. /\ mcnt_start' < ClockMod + y /\ mcnt_start' - x <= anchor'
          /\ anchor' < mcnt_start' + 2 * BlockSpan
      BY <1>2, <1>3, <1>4, <1>5, <2>2, <3>1 DEF m
    <3> QED BY <1>2, <1>3, <1>4, <2>2, <3>1, <3>2 DEF x, y
  <2>3. CASE NetReset(p) /\ anchor' = p.mcnt /\ strays' = 0
    <3>1. /\ mcnt_start' = ResetMcnt(p.mcnt) /\ out_of_seq_cnt' = MaxOutOfSeq + 1
      BY <2>3 DEF NetReset
    <3>2. mcnt_start' \in Int
      <4>1. ResetMcnt(p.mcnt) \in Int
        BY <1>2, <1>3, <1>4, NetThreadAssumption DEF ResetMcnt, block_for_mcnt, NetBlocks
      <4> QED BY <3>1, <4>1
    <3>3. /\ mcnt_start' < ClockMod + y /\ mcnt_start' - x <= p.mcnt
          /\ p.mcnt < mcnt_start' + BlockSpan
      BY <1>2, <1>4, <3>1, ResetBound
    <3> HIDE DEF x, y, m
    <3>4. anchor' < mcnt_start' + 2 * BlockSpan
      BY <1>2, <1>3, <2>3, <3>2, <3>3
    <3> QED BY <1>2, <1>3, <2>3, <3>1, <3>3, <3>4 DEF x, y
  <2>4. CASE NetLate(p) /\ UNCHANGED histVars
    BY <1>5, <2>4 DEF NetLate, netVars, histVars
  <2>5. CASE NetOutOfSeq(p) /\ strays' = strays + 1 /\ UNCHANGED anchor
    <3>1. /\ mcnt_start' = mcnt_start /\ net_pc = "recv" /\ net_pc' = "recv"
          /\ out_of_seq_cnt < MaxOutOfSeq /\ out_of_seq_cnt' = out_of_seq_cnt + 1
      BY <2>5 DEF NetOutOfSeq
    <3>2. strays' \in 0 .. MaxOutOfSeq /\ strays' <= out_of_seq_cnt'
      BY <1>3, <1>4, <1>5, <2>5, <3>1
    <3> QED BY <1>5, <2>5, <3>1, <3>2
  <2> QED BY <1>1, <2>1, <2>2, <2>3, <2>4, <2>5
<1> QED BY <1>7 DEF WindowTypes, BlockSpan, MaxOutOfSeq

\* The clock, the network, the frames and the window keep within their bounds.
LEMMA ReceptionTypesStep ==
  ASSUME Cap!TypeOK, NetworkTypes, WindowTypes, [Next]_vars
  PROVE  NetworkTypes' /\ WindowTypes'
<1> USE DEF captureVars, netVars, histVars
<1>1. CASE NetworkStep \/ Restart
  <2>1. WindowTypes'
    BY <1>1 DEF NetworkStep, Restart, WindowTypes, BlockSpan, MaxOutOfSeq
  <2> QED BY <1>1, <2>1, NetworkTypesStep
<1>2. ASSUME UNCHANGED fengVars, frames' \in {frames, <<>>, Tail(frames)}
      PROVE  NetworkTypes'
  <2>1. frames # <<>> => /\ Tail(frames) \in Seq(Packets \union {NoPacket})
                         /\ Len(Tail(frames)) = Len(frames) - 1
    BY HeadTailProperties DEF NetworkTypes
  <2>2. Tail(<<>>) = <<>>
    OBVIOUS
  <2>3. Len(frames) \in Nat /\ NFrames \in Nat
    BY PktSocketAssumption DEF NetworkTypes
  <2>4. frames' \in Seq(Packets \union {NoPacket}) /\ Len(frames') <= NFrames
    <3>1. CASE frames' = frames
      BY <3>1 DEF NetworkTypes
    <3>2. CASE frames' = <<>>
      BY <2>3, <3>2, PktSocketAssumption
    <3>3. CASE frames' = Tail(frames)
      <4>1. CASE frames = <<>>
        BY <2>2, <3>2, <3>3, <4>1
      <4>2. CASE frames # <<>>
        BY <2>1, <2>3, <3>3, <4>2 DEF NetworkTypes
      <4> QED BY <4>1, <4>2
    <3> QED BY <1>2, <3>1, <3>2, <3>3
  <2> QED BY <1>2, <2>4 DEF NetworkTypes, fengVars, ClockMcnts, Packets
<1>3. CASE NetReceive
  <2>1. UNCHANGED fengVars /\ frames' \in {frames, <<>>, Tail(frames)}
    BY <1>3 DEF NetReceive, ReleaseWhenDone, hashpipe_pktsock_release_frame
  <2> QED BY <1>2, <1>3, <2>1, ReceiveTypes
<1>4. CASE NetResume
  <2>1. UNCHANGED <<mcnt_start, anchor, strays>> /\ net_pc = "acquire"
        /\ net_pc' = "recv" /\ out_of_seq_cnt' = 0
    BY <1>4 DEF NetResume, NetAcquireFrom, CountAndStore
  <2>2. WindowTypes'
    BY <2>1 DEF WindowTypes
  <2>3. frames' = Tail(frames) /\ UNCHANGED fengVars
    BY <1>4, <2>1 DEF NetResume, ReleaseWhenDone, hashpipe_pktsock_release_frame
  <2> QED BY <1>2, <2>2, <2>3
<1>5. CASE NetHold \/ NetBegin \/ NetWrongSize \/ NetQuit \/ StripTake \/ StripFree
           \/ UNCHANGED vars
  <2>1. /\ UNCHANGED <<mcnt_start, anchor, strays, out_of_seq_cnt>>
        /\ net_pc' = "acquire" => net_pc = "acquire"
    BY <1>5
    DEF NetHold, NetRelease, NetBegin, NetStart, NetWrongSize, NetQuit, NetExit, StripTake,
        StripFree, Cap!StripTake, Cap!StripFree, Cap!netVars, vars
  <2>2. UNCHANGED fengVars /\ frames' \in {frames, <<>>, Tail(frames)}
    BY <1>5
    DEF NetHold, NetBegin, NetWrongSize, NetQuit, StripTake, StripFree, vars,
        hashpipe_pktsock_release_frame
  <2>3. WindowTypes'
    BY <2>1 DEF WindowTypes
  <2> QED BY <1>2, <2>2, <2>3
<1> QED BY <1>1, <1>3, <1>4, <1>5 DEF Next

\* The inductive invariant, on top of the types of Capture's variables.
LEMMA TypesInvariant == Spec => [](NetworkTypes /\ WindowTypes)
<1>1. Init => NetworkTypes /\ WindowTypes
  <2> SUFFICES ASSUME Init PROVE NetworkTypes /\ WindowTypes
    OBVIOUS
  <2>1. 0 \in ClockMcnts
    BY FEnginesAssumption DEF ClockMcnts
  <2>2. NetworkTypes
    <3>1. /\ feng_mcnt = 0 /\ to_send = FirstAnts /\ faults = 0 /\ straggler = NoPacket
          /\ overtaken = 0 /\ frames = <<>>
      BY DEF Init, FengInit, hashpipe_pktsock_open
    <3>2. frames \in Seq(Packets \union {NoPacket}) /\ Len(frames) <= NFrames
      BY <3>1, PktSocketAssumption
    <3>3. faults \in 0 .. MaxFaults /\ overtaken \in 0 .. MaxOvertaken
      BY <3>1, FEnginesAssumption
    <3>4. to_send \in (SUBSET FirstAnts) \ {{}}
      BY <3>1, FEnginesAssumption
    <3> QED BY <2>1, <3>1, <3>2, <3>3, <3>4 DEF NetworkTypes
  <2> DEFINE x == (NInputBlocks - 1) * BlockSpan
             y == NInputBlocks * BlockSpan
  <2>3. /\ ClockMod \in Nat \ {0} /\ MaxOutOfSeq \in Nat /\ BlockSpan \in Nat \ {0}
        /\ x \in Nat /\ x >= 2 * BlockSpan /\ y = x + BlockSpan
    BY WindowSizes, FEnginesAssumption
  <2>4. /\ mcnt_start = 0 /\ out_of_seq_cnt = 0 /\ net_pc = "hold"
        /\ anchor = NoMcnt /\ strays = 0
    BY DEF Init, Cap!Init, Cap!NetInit
  <2> HIDE DEF x, y
  <2>5. mcnt_start < ClockMod + y /\ mcnt_start - x <= anchor
        /\ anchor < mcnt_start + 2 * BlockSpan
    BY <2>3, <2>4 DEF NoMcnt
  <2>6. anchor \in PktMcnts \union {NoMcnt}
    BY <2>4
  <2>7. strays \in 0 .. MaxOutOfSeq /\ strays <= out_of_seq_cnt
    BY <2>3, <2>4
  <2> QED BY <2>2, <2>4, <2>5, <2>6, <2>7, Zenon DEF WindowTypes, x, y
<1>2. Cap!TypeOK /\ NetworkTypes /\ WindowTypes /\ [Next]_vars => (NetworkTypes /\ WindowTypes)'
  BY ReceptionTypesStep
<1> QED BY <1>1, <1>2, CaptureTypes, PTL DEF Spec

\* The types of the variables are right; the window never runs away from the
\* clock and strays never exceed what the net thread tolerates.
THEOREM TypeCorrect == Spec => []TypeOK
<1>1. Cap!TypeOK /\ NetworkTypes /\ WindowTypes => TypeOK
  <2> SUFFICES ASSUME Cap!TypeOK, NetworkTypes, WindowTypes PROVE TypeOK
    OBVIOUS
  <2>1. \A k \in 1 .. Len(frames) : frames[k] \in Packets \union {NoPacket}
    BY ElementOfSeq DEF NetworkTypes
  <2> QED BY <2>1 DEF TypeOK, NetworkTypes, WindowTypes, ClockMcnts
<1> QED BY <1>1, TypesInvariant, CaptureTypes, PTL

-----------------------------------------------------------------------------
(* The window moves only when the packets jump. *)

\* A packet that moves the window is far from the packets the window was at: they
\* are within the window or less than a ring behind it.
LEMMA ResetFar ==
  ASSUME Cap!TypeOK, WindowTypes, [Next]_vars, Reset
  PROVE  Jump(Head(frames))
<1> DEFINE x == (NInputBlocks - 1) * BlockSpan
           y == NInputBlocks * BlockSpan
           m == mcnt_start
<1>1. NetReceive
  BY DEF Reset, Next, NetworkStep, Restart, NetHold, NetRelease, NetBegin, NetStart,
     NetWrongSize, NetResume, NetAcquire, NetAcquireFrom, NetQuit, NetExit,
     StripTake, StripFree,
     Cap!StripTake, Cap!StripFree, Cap!netVars, captureVars, netVars, vars
<1>2. PICK p \in Packets :
        /\ hashpipe_pktsock_recv_frame(p)
        /\ NetStore(p) \/ NetAdvance(p) \/ NetLate(p) \/ NetOutOfSeq(p) \/ NetReset(p)
  BY <1>1 DEF NetReceive
<1>3. IsOutOfSeq(p)
  BY <1>2 DEF Reset, NetStore, NetAdvance, NetLate, NetOutOfSeq, NetReset, netVars
<1>4. p = Head(frames)
  BY <1>2 DEF hashpipe_pktsock_recv_frame
<1>5. /\ p.mcnt \in Nat /\ m \in Nat /\ anchor \in Int
      /\ m - x <= anchor /\ anchor < m + 2 * BlockSpan
  <2>1. p.mcnt \in Nat
    BY NetThreadAssumption DEF Packets
  <2>2. m \in Nat
    BY DEF Cap!TypeOK
  <2>3. /\ anchor \in PktMcnts \union {NoMcnt}
        /\ m - x <= anchor /\ anchor < m + 2 * BlockSpan
    BY DEF WindowTypes
  <2>4. anchor \in Int
    BY <2>3, NetThreadAssumption DEF NoMcnt
  <2> QED BY <2>1, <2>2, <2>3, <2>4
<1>6. /\ BlockSpan \in Nat \ {0} /\ x \in Nat /\ y = x + BlockSpan
      /\ LatePktMcntThreshold = 2 * y
  BY WindowSizes
<1> HIDE DEF x, y
<1>7. p.mcnt >= m + 3 * BlockSpan \/ p.mcnt <= m - 2 * y
  BY <1>3, <1>5, <1>6 DEF IsOutOfSeq, InCurrentOrNext, InBlockAfterNext, IsLate, Dist
<1> HIDE DEF m
<1>8. p.mcnt - anchor > BlockSpan \/ anchor - p.mcnt > y
  BY <1>5, <1>6, <1>7
<1> QED BY <1>4, <1>8 DEF Jump, y

\* Whatever is lost, cut short or overtaken, and however often the F engines are
\* restarted, no packet near those before it makes the window move.
THEOREM WindowMovesWithJumps == Spec => OneResetPerJump
<1>1. Cap!TypeOK /\ WindowTypes /\ [Next]_vars => [Reset => Jump(Head(frames))]_vars
  BY ResetFar
<1> QED BY <1>1, TypesInvariant, CaptureTypes, PTL DEF Spec, OneResetPerJump
=============================================================================
