------------------------- MODULE NetRecorderProofs --------------------------
(* Theorems about NetRecorder, for every size of the blocks and of the     *)
(* files and any packets.                                                  *)
EXTENDS NetRecorder, DiskProofs

-----------------------------------------------------------------------------
(* The operations of the net thread are those of the net thread of Capture. *)

\* The arithmetic of mcnts and blocks is the same.
LEMMA SameWindow ==
  /\ Cap!Packets = Packets
  /\ \A m : Cap!block_for_mcnt(m) = block_for_mcnt(m)
  /\ \A p : Cap!Dist(p) = Dist(p)
  /\ \A p : Cap!InCurrentOrNext(p) <=> InCurrentOrNext(p)
  /\ \A p : Cap!InBlockAfterNext(p) <=> InBlockAfterNext(p)
  /\ \A p : Cap!IsLate(p) <=> IsLate(p)
  /\ \A p : Cap!IsOutOfSeq(p) <=> IsOutOfSeq(p)
  /\ \A m : Cap!ResetMcnt(m) = ResetMcnt(m)
BY DEF Cap!Packets, Packets, Cap!block_for_mcnt, block_for_mcnt, Cap!Dist, Dist,
   Cap!InCurrentOrNext, InCurrentOrNext, Cap!InBlockAfterNext, InBlockAfterNext,
   Cap!IsLate, IsLate, Cap!IsOutOfSeq, IsOutOfSeq, Cap!BlockSpan, BlockSpan,
   Cap!LatePktMcntThreshold, LatePktMcntThreshold, Cap!ResetMcnt, ResetMcnt

\* So are the operations on blocks.
LEMMA SameBlocks ==
  /\ \A h, m : Cap!initialize_block(h, m) = initialize_block(h, m)
  /\ \A b : Cap!hdr_input_databuf_wait_free(b) <=> hdr_input_databuf_wait_free(b)
  /\ \A d, p, v : Cap!StorePayload(d, p, v) = StorePayload(d, p, v)
  /\ \A c, p, v : Cap!CountAndStore(c, p, v) <=> CountAndStore(c, p, v)
  /\ Cap!set_block_filled <=> set_block_filled
BY SameWindow
DEF Cap!initialize_block, initialize_block, Cap!hdr_input_databuf_wait_free,
    hdr_input_databuf_wait_free, Cap!StorePayload, StorePayload, Cap!ValidAntenna,
    ValidAntenna, Cap!MIndex, MIndex, Cap!CountAndStore, CountAndStore,
    Cap!set_block_filled, set_block_filled, Cap!hdr_input_databuf_set_filled,
    hdr_input_databuf_set_filled, Cap!NPacketsPerBlock, NPacketsPerBlock,
    Cap!MissedFengines, MissedFengines, Cap!MissedModulo, MissedModulo,
    Cap!MissedPackets, MissedPackets, Cap!NPacketsPerBlockPerF, NPacketsPerBlockPerF,
    Cap!AntsPerPacket, AntsPerPacket

\* So are the steps of process_packet.
LEMMA SameProcess ==
  ASSUME NEW p
  PROVE  /\ NetStore(p) => Cap!NetStore(p)
         /\ NetAdvance(p) => Cap!NetAdvance(p)
         /\ NetLate(p) => Cap!NetLate(p)
         /\ NetOutOfSeq(p) => Cap!NetOutOfSeq(p)
         /\ NetReset(p) => Cap!NetReset(p)
<1> USE SameWindow, SameBlocks DEF Cap!inVars, inVars, Cap!netVars, netVars
<1>1. NetStore(p) => Cap!NetStore(p)
  BY DEF NetStore, Cap!NetStore
<1>2. NetAdvance(p) => Cap!NetAdvance(p)
  BY DEF NetAdvance, Cap!NetAdvance, Cap!BlockSpan, BlockSpan
<1>3. NetLate(p) => Cap!NetLate(p)
  BY DEF NetLate, Cap!NetLate
<1>4. NetOutOfSeq(p) => Cap!NetOutOfSeq(p)
  BY DEF NetOutOfSeq, Cap!NetOutOfSeq, Cap!MaxOutOfSeq, MaxOutOfSeq
<1>5. NetReset(p) => Cap!NetReset(p)
  BY DEF NetReset, Cap!NetReset, Cap!MaxOutOfSeq, MaxOutOfSeq, Cap!BlockSpan, BlockSpan
<1> QED BY <1>1, <1>2, <1>3, <1>4, <1>5

\* So are the steps around it.
LEMMA SameLoop ==
  /\ NetRelease => Cap!NetRelease
  /\ NetStart => Cap!NetStart
  /\ NetAcquire => Cap!NetAcquire
  /\ NetExit => Cap!NetExit
<1> USE SameWindow, SameBlocks DEF Cap!inVars, inVars, Cap!netVars, netVars
<1>1. NetRelease => Cap!NetRelease
  BY DEF NetRelease, Cap!NetRelease
<1>2. NetStart => Cap!NetStart
  BY DEF NetStart, Cap!NetStart, Cap!BlockSpan, BlockSpan
<1>3. NetAcquire => Cap!NetAcquire
  BY DEF NetAcquire, NetAcquireFrom, Cap!NetAcquire, Cap!NetAcquireFrom,
     Cap!FilledMcnt, FilledMcnt, Cap!BlockSpan,
     BlockSpan, Cap!ValidAntenna, ValidAntenna, Cap!NoMcnt, NoMcnt
<1>4. NetExit => Cap!NetExit
  BY DEF NetExit, Cap!NetExit
<1> QED BY <1>1, <1>2, <1>3, <1>4

-----------------------------------------------------------------------------
(* The recorder implements Capture. *)

\* The reader of Capture starts when the strip thread starts to copy.
LEMMA CopyTakes ==
  ASSUME UNCHANGED netVars
  PROVE  StripTake => Cap!StripTake
BY DEF Cap!netVars, netVars, StripTake, Cap!StripTake, hdr_input_databuf_wait_filled,
   Cap!hdr_input_databuf_wait_filled, Cap!inVars, inVars

\* It stops when the strip thread, its copy handed on, frees the block.
LEMMA HandedOnFrees ==
  ASSUME UNCHANGED netVars
  PROVE  StripSetFree => Cap!StripFree
BY DEF StripSetFree, Cap!StripFree, hdr_input_databuf_set_free,
   Cap!hdr_input_databuf_set_free, Cap!InputBlockCount, InputBlockCount,
   Cap!netVars, netVars

\* Each step is a step of Capture, or none when only the output side changes.
LEMMA StepImplements == [Next]_vars => [Cap!Next]_Cap!vars
<1> SUFFICES ASSUME [Next]_vars
             PROVE  [Cap!Next]_Cap!vars
  OBVIOUS
<1> USE DEF Cap!vars, Cap!inVars, inVars, Cap!netVars, netVars, stripVars
<1>1. CASE NetStep
  <2>1. UNCHANGED <<iblk, strip_pc>>
    BY <1>1 DEF NetStep
  <2>2. CASE NetRelease \/ NetStart \/ NetAcquire \/ NetExit
    BY <2>1, <2>2, SameLoop DEF Cap!Next, Cap!NetStep
  <2>3. ASSUME NEW p \in Packets,
               NetStore(p) \/ NetAdvance(p) \/ NetLate(p) \/ NetOutOfSeq(p) \/ NetReset(p)
        PROVE  Cap!Next
    <3>1. Cap!process_packet(p)
      BY <2>3, SameProcess DEF Cap!process_packet
    <3> QED BY <2>1, <3>1, SameWindow DEF Cap!Next, Cap!NetStep
  <2> QED BY <1>1, <2>2, <2>3 DEF NetStep
<1>2. CASE StripStep
  <2>1. UNCHANGED netVars
    BY <1>2 DEF StripStep
  <2>2. CASE StripTake
    BY <2>1, <2>2, CopyTakes DEF Cap!Next, Cap!StripTake, StripTake
  <2>3. CASE StripSetFree
    BY <2>1, <2>3, HandedOnFrees DEF Cap!Next
  <2>4. CASE StripSetFilled \/ StripExit \/ \E i \in Parts : StripCopy(i)
    BY <2>1, <2>4 DEF StripSetFilled, StripExit, StripCopy
  <2> QED BY <1>2, <2>2, <2>3, <2>4 DEF StripStep, StripNext
<1>3. CASE WriteStep
  BY <1>3 DEF WriteStep
<1>4. CASE UNCHANGED vars
  BY <1>4 DEF vars
<1> QED BY <1>1, <1>2, <1>3, <1>4 DEF Next

\* The initial states are initial states of Capture.
LEMMA InitImplements == Init => Cap!Init
BY DEF Init, Cap!Init, NetInit, Cap!NetInit, StripInit, hdr_input_databuf_create,
   Cap!hdr_input_databuf_create, Cap!NoMcnt, NoMcnt, Cap!NetBlocks, NetBlocks,
   Cap!InputBlocks, InputBlocks, Cap!InputBlockCount, InputBlockCount,
   Cap!ZeroHeader, ZeroHeader

\* Net thread, strip thread and write thread together do to the input databuf
\* only what Capture does, whatever becomes of the output side: what is proved
\* of Capture holds of the recorder.
THEOREM CaptureImplemented == Spec => ImplementsCapture
BY InitImplements, StepImplements, PTL DEF Spec, ImplementsCapture, Cap!Spec

-----------------------------------------------------------------------------
(* What is proved of Capture holds here. *)

\* The theorems about Capture, of the recorder's variables.
CP == INSTANCE WindowProofs WITH reading <- strip_pc \in {"copy", "filled"}

\* They rest on assumptions that are those of the net thread.
LEMMA SameAssumptions ==
  CP!InputDatabufAssumption /\ CP!NetThreadAssumption /\ CP!PacketsPerFAssumption
BY InputDatabufAssumption, NetThreadAssumption, PacketsPerFAssumption
DEF CP!AntsPerPacket, AntsPerPacket, CP!Slots, Slots, CP!Nm, Nm,
    CP!NPacketsPerBlockPerF, NPacketsPerBlockPerF, CP!NPacketsPerBlock, NPacketsPerBlock

\* They speak of the actions of Capture.
LEMMA SameNext == Cap!Next <=> CP!Next
BY Zenon DEF Cap!inVars, CP!inVars, Cap!InputBlockCount, CP!InputBlockCount,
   Cap!InputBlocks, CP!InputBlocks, Cap!NetBlocks, CP!NetBlocks, Cap!ZeroHeader,
   CP!ZeroHeader, Cap!hdr_input_databuf_create, CP!hdr_input_databuf_create,
   Cap!hdr_input_databuf_wait_free, CP!hdr_input_databuf_wait_free,
   Cap!hdr_input_databuf_wait_filled, CP!hdr_input_databuf_wait_filled,
   Cap!hdr_input_databuf_set_filled, CP!hdr_input_databuf_set_filled,
   Cap!hdr_input_databuf_set_free, CP!hdr_input_databuf_set_free, Cap!AntsPerPacket,
   CP!AntsPerPacket, Cap!netVars, CP!netVars, Cap!NetPCs, CP!NetPCs, Cap!NoMcnt,
   CP!NoMcnt, Cap!BlockSpan, CP!BlockSpan, Cap!Nm, CP!Nm, Cap!Slots, CP!Slots,
   Cap!NPacketsPerBlock, CP!NPacketsPerBlock, Cap!NPacketsPerBlockPerF,
   CP!NPacketsPerBlockPerF, Cap!MaxOutOfSeq, CP!MaxOutOfSeq, Cap!LatePktMcntThreshold,
   CP!LatePktMcntThreshold, Cap!Packets, CP!Packets, Cap!block_for_mcnt,
   CP!block_for_mcnt, Cap!MIndex, CP!MIndex, Cap!Dist, CP!Dist, Cap!InCurrentOrNext,
   CP!InCurrentOrNext, Cap!InBlockAfterNext, CP!InBlockAfterNext, Cap!IsLate,
   CP!IsLate, Cap!IsOutOfSeq, CP!IsOutOfSeq, Cap!initialize_block, CP!initialize_block,
   Cap!MissedPackets, CP!MissedPackets, Cap!MissedFengines, CP!MissedFengines,
   Cap!MissedModulo, CP!MissedModulo, Cap!set_block_filled, CP!set_block_filled,
   Cap!ValidAntenna, CP!ValidAntenna, Cap!StorePayload, CP!StorePayload,
   Cap!CountAndStore, CP!CountAndStore, Cap!NetInit, CP!NetInit, Cap!NetRelease,
   CP!NetRelease, Cap!NetStart, CP!NetStart, Cap!NetStore, CP!NetStore, Cap!NetAdvance,
   CP!NetAdvance, Cap!FilledMcnt, CP!FilledMcnt, Cap!NetAcquire,
   Cap!NetAcquireFrom, CP!NetAcquire, CP!NetAcquireFrom,
   Cap!NetLate, CP!NetLate, Cap!NetOutOfSeq, CP!NetOutOfSeq, Cap!ResetMcnt,
   CP!ResetMcnt, Cap!NetReset, CP!NetReset, Cap!NetExit, CP!NetExit,
   Cap!process_packet, CP!process_packet, Cap!vars, CP!vars, Cap!StripTake,
   CP!StripTake, Cap!StripFree, CP!StripFree, Cap!NetStep, CP!NetStep, Cap!Next,
   CP!Next

\* The variables and the initial states are the same too.
LEMMA SameInit == Cap!vars = CP!vars /\ (Cap!Init <=> CP!Init)
BY DEF Cap!vars, CP!vars, Cap!inVars, CP!inVars, Cap!netVars, CP!netVars, Cap!Init, CP!Init,
   Cap!NetInit, CP!NetInit, Cap!hdr_input_databuf_create, CP!hdr_input_databuf_create,
   Cap!NoMcnt, CP!NoMcnt, Cap!NetBlocks, CP!NetBlocks, Cap!InputBlocks, CP!InputBlocks,
   Cap!InputBlockCount, CP!InputBlockCount, Cap!ZeroHeader, CP!ZeroHeader

\* Every behaviour of the recorder is one that the theorems about Capture are
\* about.
LEMMA CaptureSpec == Spec => CP!Spec
<1>1. Init => Cap!Init
  BY InitImplements
<1>2. Init => CP!Init
  BY <1>1, SameInit
<1>3. [Next]_vars => [CP!Next]_CP!vars
  BY StepImplements, SameNext
  DEF Cap!vars, CP!vars, Cap!inVars, CP!inVars, Cap!netVars, CP!netVars
<1> QED BY <1>2, <1>3, PTL DEF Spec, CP!Spec

\* How far block b is behind the strip thread's, in ring order.
Behind(b) == IF b >= iblk THEN b - iblk ELSE b + NInputBlocks - iblk

\* What the recorder has of Capture's invariants.
CaptureInv ==
  /\ iblk \in NetBlocks /\ block_i \in NetBlocks /\ block_i \notin in_filled
  /\ in_filled \subseteq NetBlocks /\ IsFiniteSet(in_filled)
  /\ Cardinality(in_filled) = Behind(block_i)
  /\ \A b \in in_filled : Behind(b) < Behind(block_i)
  /\ strip_pc \in {"copy", "filled"} => iblk \in in_filled
  /\ mcnt_start \in Nat /\ block_i = block_for_mcnt(mcnt_start)
  /\ in_data \in [InputBlocks -> [Parts -> Nat \union {NoMcnt}]]

\* A filled block keeps its data while the window starts with a block.
Stable == mcnt_start % BlockSpan = 0 => \A b \in in_filled : in_data'[b] = in_data[b]

\* They are those.
LEMMA CaptureInvHere ==
  ASSUME NDebugInputBlocks = 0, CP!TypeOK, CP!FillsInSequence, CP!RingInv, CP!FilledCount
  PROVE  CaptureInv
<1>1. InputBlocks = NetBlocks /\ NInputBlocks \in Nat /\ NInputBlocks >= 3
      /\ CP!NetBlocks = NetBlocks /\ CP!InputBlocks = InputBlocks
      /\ \A b : CP!Ahead(b) = Behind(b)
  BY InputDatabufAssumption, NetThreadAssumption
  DEF InputBlocks, InputBlockCount, NetBlocks, CP!NetBlocks, CP!InputBlocks,
      CP!InputBlockCount, CP!Ahead, Behind
<1>2. /\ iblk \in NetBlocks /\ block_i \in NetBlocks /\ mcnt_start \in Nat
      /\ in_filled \subseteq NetBlocks
      /\ in_data \in [InputBlocks -> [Parts -> Nat \union {NoMcnt}]]
  BY <1>1 DEF CP!TypeOK, CP!NoMcnt, NoMcnt
<1>3. block_i = block_for_mcnt(mcnt_start)
  BY DEF CP!FillsInSequence, CP!block_for_mcnt, block_for_mcnt
<1>4. /\ \A b \in NetBlocks : b \in in_filled <=> Behind(b) < Behind(block_i)
      /\ strip_pc \in {"copy", "filled"} => block_i # iblk
  BY <1>1 DEF CP!RingInv, CP!RingOrder
<1>5. block_i \notin in_filled /\ (block_i # iblk => iblk \in in_filled)
  BY <1>1, <1>2, <1>4 DEF Behind, NetBlocks
<1>6. IsFiniteSet(in_filled) /\ Cardinality(in_filled) = Behind(block_i)
  BY <1>1, Zenon DEF CP!FilledCount, CP!IsFiniteSet, CP!Cardinality, IsFiniteSet, Cardinality
<1> QED BY <1>2, <1>3, <1>4, <1>5, <1>6 DEF CaptureInv

\* They always hold.
LEMMA CaptureInvariant ==
  ASSUME NDebugInputBlocks = 0
  PROVE  Spec => []CaptureInv /\ [][Stable]_vars
<1>1. CP!Spec => [](CP!TypeOK /\ CP!FillsInSequence /\ CP!RingInv /\ CP!FilledCount)
  BY CP!FilledInvariant, SameAssumptions, PTL
<1>2. CP!Spec => CP!FilledStableWhenAligned
  BY CP!StableWhenAligned, SameAssumptions, PTL
<1>3. CP!TypeOK /\ CP!FillsInSequence /\ CP!RingInv /\ CP!FilledCount => CaptureInv
  BY CaptureInvHere
<1>4. [CP!BlockAligned => \A b \in in_filled : in_header'[b] = in_header[b]
                                               /\ in_data'[b] = in_data[b]]_CP!vars
        => [Stable]_vars
  BY DEF Stable, CP!vars, CP!inVars, CP!BlockAligned, CP!BlockSpan, BlockSpan
<1> QED
  BY <1>1, <1>2, <1>3, <1>4, CaptureSpec, PTL DEF CP!FilledStableWhenAligned

-----------------------------------------------------------------------------
(* What was handed over and is filled. *)

\* A block's data.
Blocks == [Parts -> Nat \union {NoMcnt}]

\* The strip thread has freed n of the blocks handed over, and the filled ones
\* are the others, in ring order and with the data they had then.
HandedInv(n) ==
  /\ n \in Nat
  /\ handed \in Seq(Blocks)
  /\ Len(handed) = n + Cardinality(in_filled)
  /\ \A b \in in_filled : in_data[b] = handed[n + Behind(b) + 1]

\* The j-th entry of handed is the j-th block, counted from 0.
Contents == [j \in Nat |-> handed[j + 1]]

\* The filled blocks are less than once round the ring behind the strip thread's.
LEMMA BehindRange ==
  ASSUME CaptureInv
  PROVE  \A b \in NetBlocks : Behind(b) \in 0 .. NInputBlocks - 1
BY InputDatabufAssumption DEF CaptureInv, Behind, NetBlocks

\* Nothing is handed over at the start.
LEMMA HandedInit == Init => HandedInv(0)
<1> SUFFICES ASSUME Init PROVE HandedInv(0)
  OBVIOUS
<1>1. in_filled = {} /\ Cardinality(in_filled) = 0 /\ handed = <<>>
  BY FS_EmptySet DEF Init, hdr_input_databuf_create
<1> QED BY <1>1 DEF HandedInv

\* A step of the net thread that hands no block over, or no step.
LEMMA HandedKept ==
  ASSUME NEW n, HandedInv(n), UNCHANGED <<handed, in_filled, iblk>>,
         \A b \in in_filled : in_data'[b] = in_data[b]
  PROVE  HandedInv(n)'
BY DEF HandedInv, Behind, Blocks

\* The net thread hands over the block after the filled ones.
LEMMA HandedPut ==
  ASSUME CaptureInv, NEW n, HandedInv(n), NEW p, NetAdvance(p),
         handed' = Append(handed, in_data[block_i]), UNCHANGED iblk
  PROVE  /\ HandedInv(n)'
         /\ \A j \in 1 .. Len(handed) : handed'[j] = handed[j]
<1>1. /\ in_filled' = in_filled \union {block_i} /\ block_i \notin in_filled
      /\ UNCHANGED in_data
  BY DEF NetAdvance, set_block_filled, hdr_input_databuf_set_filled, CaptureInv
<1>2. /\ n \in Nat /\ Cardinality(in_filled) \in Nat
      /\ Cardinality(in_filled') = Cardinality(in_filled) + 1
  BY <1>1, FS_AddElement, FS_CardinalityType DEF CaptureInv, HandedInv
<1>3. in_data[block_i] \in Blocks /\ handed \in Seq(Blocks)
  BY InputDatabufAssumption DEF CaptureInv, HandedInv, Blocks, NetBlocks, InputBlocks, InputBlockCount
<1>4. /\ handed' \in Seq(Blocks) /\ Len(handed') = Len(handed) + 1
      /\ handed'[Len(handed) + 1] = in_data[block_i]
      /\ \A j \in 1 .. Len(handed) : handed'[j] = handed[j]
  BY <1>3, AppendProperties
<1>5. ASSUME NEW b \in in_filled'
      PROVE  in_data[b] = handed'[n + Behind(b) + 1]
  <2>1. CASE b = block_i
    BY <1>2, <1>4, <2>1 DEF HandedInv, CaptureInv
  <2>2. CASE b # block_i
    <3>1. b \in in_filled /\ Behind(b) \in 0 .. Cardinality(in_filled) - 1
      BY <1>1, <2>2, BehindRange DEF CaptureInv
    <3>2. n + Behind(b) + 1 \in 1 .. Len(handed)
      BY <1>2, <3>1 DEF HandedInv
    <3> QED BY <1>4, <3>1, <3>2 DEF HandedInv
  <2> QED BY <2>1, <2>2
<1>6. Len(handed') = n + Cardinality(in_filled')
  BY <1>2, <1>4 DEF HandedInv
<1> QED BY <1>1, <1>2, <1>4, <1>5, <1>6 DEF HandedInv, Behind, Blocks

\* The strip thread frees the first of the filled blocks and goes on to the next.
LEMMA HandedFree ==
  ASSUME NDebugInputBlocks = 0, CaptureInv, NEW n, HandedInv(n), StripSetFree,
         UNCHANGED handed
  PROVE  HandedInv(n + 1)'
<1>1. /\ in_filled' = in_filled \ {iblk} /\ iblk \in in_filled
      /\ iblk' = (iblk + 1) % InputBlockCount /\ UNCHANGED in_data
  BY DEF StripSetFree, hdr_input_databuf_set_free, CaptureInv
<1>2. NInputBlocks \in Nat /\ iblk \in 0 .. NInputBlocks - 1 /\ in_filled \subseteq NetBlocks
  BY InputDatabufAssumption DEF CaptureInv, NetBlocks
<1>3. iblk' = IF iblk + 1 = NInputBlocks THEN 0 ELSE iblk + 1
  BY <1>1, <1>2 DEF InputBlockCount
<1>4. /\ n \in Nat /\ Cardinality(in_filled) \in Nat
      /\ Cardinality(in_filled') = Cardinality(in_filled) - 1
  BY <1>1, FS_RemoveElement, FS_CardinalityType DEF CaptureInv, HandedInv
<1>5. ASSUME NEW b \in in_filled'
      PROVE  in_data[b] = handed[(n + 1) + Behind(b)' + 1]
  <2>1. b \in in_filled /\ b \in 0 .. NInputBlocks - 1 /\ b # iblk
    BY <1>1, <1>2 DEF NetBlocks
  <2>2. Behind(b)' = Behind(b) - 1 /\ Behind(b) \in Nat
    BY <1>2, <1>3, <2>1 DEF Behind
  <2>3. (n + 1) + Behind(b)' + 1 = n + Behind(b) + 1
    BY <1>4, <2>2
  <2> QED BY <2>1, <2>3 DEF HandedInv
<1>6. Len(handed) = (n + 1) + Cardinality(in_filled')
  BY <1>4 DEF HandedInv
<1> QED BY <1>1, <1>4, <1>5, <1>6 DEF HandedInv, Behind, Blocks

\* The block the strip thread is at is the one after those it has freed.
LEMMA BlockTakenHere ==
  ASSUME CaptureInv, NEW n, HandedInv(n), strip_pc \in {"copy", "filled"}
  PROVE  n + 1 \in 1 .. Len(handed) /\ in_data[iblk] = Contents[n]
<1>1. iblk \in in_filled /\ iblk \in Nat /\ Behind(iblk) = 0 /\ n \in Nat
  BY DEF CaptureInv, NetBlocks, Behind, HandedInv
<1>2. Cardinality(in_filled) \in Nat /\ Cardinality(in_filled) # 0
  BY <1>1, FS_CardinalityType, FS_EmptySet DEF CaptureInv
<1>3. in_data[iblk] = handed[n + Behind(iblk) + 1] /\ n + Behind(iblk) + 1 = n + 1
  BY <1>1 DEF HandedInv
<1> QED BY <1>1, <1>2, <1>3 DEF HandedInv, Contents

\* Blocks handed over stay what they were.
LEMMA ContentsGrow ==
  ASSUME CaptureInv, NEW n, HandedInv(n), NEW f, f = Contents, NEW g, g = Contents',
         \A j \in 1 .. Len(handed) : handed'[j] = handed[j]
  PROVE  /\ \A j \in 0 .. n - 1 : g[j] = f[j]
         /\ strip_pc \in {"copy", "filled"} => g[n] = f[n]
<1>1. n \in Nat /\ Cardinality(in_filled) \in Nat /\ Len(handed) = n + Cardinality(in_filled)
  BY FS_CardinalityType DEF CaptureInv, HandedInv
<1>2. ASSUME NEW j \in Nat, j + 1 \in 1 .. Len(handed) PROVE g[j] = f[j]
  BY <1>2 DEF Contents
<1>3. \A j \in 0 .. n - 1 : j \in Nat /\ j + 1 \in 1 .. Len(handed)
  BY <1>1
<1>4. strip_pc \in {"copy", "filled"} => n + 1 \in 1 .. Len(handed)
  BY BlockTakenHere
<1> QED BY <1>1, <1>2, <1>3, <1>4

-----------------------------------------------------------------------------
(* What is recorded. *)

\* The window starts with a block as long as it always has; until then the
\* recorder hands on, and unless the writer is lapped records, what it was
\* handed.
RecordInv ==
  /\ FilesInv
  /\ ~straddled =>
       /\ mcnt_start % BlockSpan = 0
       /\ \E f, n : /\ f = Contents /\ HandedInv(n) /\ CopyInv(f, n)
                    /\ lapped \/ Recorded(f, n)

\* It holds at the start.
LEMMA RecordInit == Init => RecordInv
<1> SUFFICES ASSUME Init PROVE RecordInv
  OBVIOUS
<1>1. \A f : FilesInv /\ CopyInv(f, 0) /\ Recorded(f, 0)
  BY DiskInit DEF Init
<1>2. mcnt_start % BlockSpan = 0
  BY NetThreadAssumption DEF Init, NetInit, BlockSpan
<1> QED BY <1>1, <1>2, HandedInit DEF RecordInv

\* A step of the net thread records nothing.
LEMMA NetRecord ==
  ASSUME NDebugInputBlocks = 0, CaptureInv, Stable, RecordInv, NetStep
  PROVE  RecordInv'
<1>1. FilesInv'
  BY DiskKept DEF NetStep, RecordInv
<1>2. ~straddled' => ~straddled /\ mcnt_start' % BlockSpan = 0
  BY DEF NetStep
<1>3. SUFFICES ASSUME ~straddled'
               PROVE  \E f, n : /\ f = Contents' /\ HandedInv(n)' /\ CopyInv(f, n)'
                                /\ lapped' \/ Recorded(f, n)'
  BY <1>1, <1>2 DEF RecordInv
<1>4. mcnt_start % BlockSpan = 0
  BY <1>2, <1>3 DEF RecordInv
<1>5. PICK f, n : /\ f = Contents /\ HandedInv(n) /\ CopyInv(f, n)
                  /\ lapped \/ Recorded(f, n)
  BY <1>2, <1>3 DEF RecordInv
<1>6. HandedInv(n)' /\ \A j \in 1 .. Len(handed) : handed'[j] = handed[j]
  <2>1. UNCHANGED iblk
    BY DEF NetStep, stripVars
  <2>2. CASE UNCHANGED <<handed, in_filled>>
    BY <1>4, <1>5, <2>1, <2>2, HandedKept DEF Stable
  <2>3. ASSUME NEW p, NetAdvance(p), handed' = Append(handed, in_data[block_i])
        PROVE  HandedInv(n)' /\ \A j \in 1 .. Len(handed) : handed'[j] = handed[j]
    BY <1>5, <2>1, <2>3, HandedPut
  <2>4. CASE (NetRelease \/ NetStart \/ NetAcquire \/ NetExit) /\ UNCHANGED handed
    BY <2>2, <2>4 DEF NetRelease, NetStart, NetAcquire, NetAcquireFrom, NetExit, inVars
  <2>5. ASSUME NEW p, UNCHANGED handed,
               NetStore(p) \/ NetLate(p) \/ NetOutOfSeq(p) \/ NetReset(p)
        PROVE  HandedInv(n)' /\ \A j \in 1 .. Len(handed) : handed'[j] = handed[j]
    BY <2>2, <2>5 DEF NetStore, NetLate, NetOutOfSeq, NetReset, inVars
  <2> QED BY <2>3, <2>4, <2>5 DEF NetStep
<1>7. PICK g : g = Contents'
  OBVIOUS
<1>8. CopyInv(g, n) /\ (lapped \/ Recorded(g, n))
  BY <1>5, <1>6, <1>7, ContentsGrow, ContentsAgree
<1>9. CopyInv(g, n)' /\ (lapped' \/ Recorded(g, n)')
  BY <1>8, DiskKept DEF NetStep
<1> QED BY <1>6, <1>7, <1>9

\* A step of the strip thread copies the block after those it has freed.
LEMMA StripRecord ==
  ASSUME NDebugInputBlocks = 0, CaptureInv, RecordInv, StripStep
  PROVE  RecordInv'
<1>1. FilesInv'
  BY DEF StripStep, RecordInv, FilesInv, NextChunk, writeVars
<1>2. UNCHANGED <<handed, straddled, mcnt_start>> /\ StripNext /\ UNCHANGED writeVars
  BY DEF StripStep, netVars
<1>3. SUFFICES ASSUME ~straddled
               PROVE  \E f, n : /\ f = Contents' /\ HandedInv(n)' /\ CopyInv(f, n)'
                                /\ lapped' \/ Recorded(f, n)'
  BY <1>1, <1>2 DEF RecordInv, BlockSpan
<1>4. PICK f, n : /\ f = Contents /\ HandedInv(n) /\ CopyInv(f, n)
                  /\ lapped \/ Recorded(f, n)
  BY <1>3 DEF RecordInv
<1>5. f = Contents'
  BY <1>2, <1>4 DEF Contents
<1>6. PICK m : m = HandedOn(n)
  OBVIOUS
<1>7. HandedInv(m)'
  <2>1. CASE StripSetFree
    BY <1>2, <1>4, <1>6, <2>1, HandedFree DEF HandedOn, StripSetFree
  <2>2. CASE StripTake \/ StripSetFilled \/ StripExit \/ \E i \in Parts : StripCopy(i)
    <3>1. m = n /\ UNCHANGED <<inVars, iblk>>
      BY <1>6, <2>2 DEF HandedOn, StripTake, StripSetFilled, StripExit, StripCopy
    <3> QED BY <1>2, <1>4, <3>1, HandedKept DEF inVars
  <2> QED BY <1>2, <2>1, <2>2 DEF StripNext
<1>8. CopyInv(f, m)'
  <2>1. strip_pc = "copy" => \A i \in Parts : in_data[iblk][i] = f[n][i]
    BY <1>4, BlockTakenHere
  <2> QED BY <1>2, <1>4, <1>6, <2>1, CopyStep
<1>9. lapped' \/ Recorded(f, m)'
  <2>1. ~lapped' => ~lapped /\ (strip_pc = "wait" /\ strip_pc' = "copy" => oblk \notin out_filled)
    BY DEF StripStep
  <2> QED BY <1>2, <1>4, <1>6, <2>1, StripDisk
<1> QED BY <1>5, <1>7, <1>8, <1>9

\* A step of the writer, or none.
LEMMA WriteRecord ==
  ASSUME RecordInv, WriteStep \/ UNCHANGED vars
  PROVE  RecordInv'
<1>1. FilesInv'
  BY WriteKeeps, DiskKept DEF WriteStep, RecordInv, vars
<1>2. UNCHANGED <<inVars, netVars, stripVars, histVars>>
  BY DEF WriteStep, vars
<1>3. SUFFICES ASSUME ~straddled
               PROVE  \E f, n : /\ f = Contents' /\ HandedInv(n)' /\ CopyInv(f, n)'
                                /\ lapped' \/ Recorded(f, n)'
  BY <1>1, <1>2 DEF RecordInv, BlockSpan, netVars, histVars
<1>4. PICK f, n : /\ f = Contents /\ HandedInv(n) /\ CopyInv(f, n)
                  /\ lapped \/ Recorded(f, n)
  BY <1>3 DEF RecordInv
<1>5. f = Contents' /\ HandedInv(n)'
  BY <1>2, <1>4, HandedKept DEF Contents, inVars, stripVars, histVars
<1>6. CopyInv(f, n)' /\ (lapped' \/ Recorded(f, n)')
  <2>1. CASE WriteStep
    BY <1>2, <1>4, <2>1, CopyKept, WriteDisk DEF WriteStep, RecordInv, histVars
  <2>2. CASE UNCHANGED vars
    BY <1>2, <1>4, <2>2, DiskKept DEF vars, histVars
  <2> QED BY <2>1, <2>2
<1> QED BY <1>5, <1>6

\* RecordInv always holds.
LEMMA RecordInvariant ==
  ASSUME NDebugInputBlocks = 0
  PROVE  Spec => [](CaptureInv /\ RecordInv)
<1>1. CaptureInv /\ [Stable]_vars /\ RecordInv /\ [Next]_vars => RecordInv'
  <2> SUFFICES ASSUME CaptureInv, [Stable]_vars, RecordInv, [Next]_vars
               PROVE  RecordInv'
    OBVIOUS
  <2>1. CASE UNCHANGED vars \/ WriteStep
    BY <2>1, WriteRecord
  <2>2. CASE NetStep /\ ~UNCHANGED vars
    BY <2>2, NetRecord
  <2>3. CASE StripStep
    BY <2>3, StripRecord
  <2> QED BY <2>1, <2>2, <2>3 DEF Next
<1> QED BY <1>1, RecordInit, CaptureInvariant, PTL DEF Spec

\* The chunks are the blocks handed over, in the order in which a writer takes
\* them that starts at block s of the ring.
HandedOverFrom(s) ==
  \A name \in DOMAIN files : \A c \in Chunks :
    files[name][c] # Unwritten => files[name][c] = handed[Nth(ChunkNo(name, c), s) + 1]

\* What RecordInv says of the files; a writer that starts off the ring never
\* writes.
LEMMA RecordedFromStart ==
  ASSUME CaptureInv, RecordInv, ~lapped, ~straddled
  PROVE  \E s \in BlockIdAtStart :
           /\ HandedOverFrom(s)
           /\ s \notin StrpBlocks => \A name \in DOMAIN files : \A c \in Chunks :
                                       files[name][c] = Unwritten
<1>1. PICK f, n : f = Contents /\ HandedInv(n) /\ CopyInv(f, n) /\ Recorded(f, n)
  BY DEF RecordInv
<1>2. PICK s \in BlockIdAtStart, w \in Nat : KeepsUp(f, n, w, s)
  BY <1>1 DEF Recorded
<1>3. ASSUME NEW name \in DOMAIN files, NEW c \in Chunks, files[name][c] # Unwritten
      PROVE  files[name][c] = handed[Nth(ChunkNo(name, c), s) + 1]
  <2> DEFINE k == Nth(ChunkNo(name, c), s)
  <2>1. k \in 0 .. HandedOn(n) - 1 /\ files[name][c] = [i \in Parts |-> f[k][i]]
    BY <1>2, <1>3 DEF KeepsUp, ChunksRight
  <2> HIDE DEF k
  <2>2. k \in Nat /\ k + 1 \in 1 .. Len(handed)
    <3>1. n \in Nat /\ Cardinality(in_filled) \in Nat
          /\ Len(handed) = n + Cardinality(in_filled)
      BY <1>1, FS_CardinalityType DEF CaptureInv, HandedInv
    <3>2. strip_pc = "filled" => n + 1 \in 1 .. Len(handed)
      BY <1>1, BlockTakenHere
    <3> QED BY <2>1, <3>1, <3>2 DEF HandedOn
  <2>3. f[k] = handed[k + 1] /\ handed[k + 1] \in Blocks
    BY <1>1, <2>2, ElementOfSeq DEF Contents, HandedInv
  <2> QED BY <2>1, <2>3 DEF Blocks, k
<1>4. ASSUME s \notin StrpBlocks
      PROVE  \A name \in DOMAIN files : \A c \in Chunks : files[name][c] = Unwritten
  <2>1. OffRing(w, s) /\ w = Written /\ FilesInv
    BY <1>2, <1>4 DEF KeepsUp, InStep, RecordInv
  <2> QED BY <2>1, NothingWritten DEF OffRing
<1> QED BY <1>3, <1>4 DEF HandedOverFrom

\* Wherever the writer's uninitialised block_id made it start, as long as it
\* keeps up and the window starts with a block, the chunks on disk are, whole
\* and one after another round the ring from there, the blocks that the net
\* thread handed over, with the data they had at that moment.
THEOREM RecordedFromAnyStart ==
  ASSUME NDebugInputBlocks = 0
  PROVE  Spec => [](lapped \/ straddled \/ \E s \in BlockIdAtStart : HandedOverFrom(s))
<1>1. CaptureInv /\ RecordInv
        => lapped \/ straddled \/ \E s \in BlockIdAtStart : HandedOverFrom(s)
  BY RecordedFromStart
<1> QED BY <1>1, RecordInvariant, PTL

\* When the first block the writer takes is block 0, or none, they are the blocks
\* in the order in which they were handed over.
THEOREM RecordedInTurn ==
  ASSUME NDebugInputBlocks = 0, BlockIdAtStart \cap StrpBlocks \subseteq {0}
  PROVE  Spec => []RecordedAsHandedOver
<1>1. ASSUME CaptureInv, RecordInv PROVE RecordedAsHandedOver
  <2> SUFFICES ASSUME ~lapped, ~straddled,
                      NEW name \in DOMAIN files, NEW c \in Chunks,
                      files[name][c] # Unwritten
               PROVE  files[name][c] = handed[ChunkNo(name, c) + 1]
    BY DEF RecordedAsHandedOver
  <2>1. PICK s \in BlockIdAtStart : HandedOverFrom(s) /\ s \in StrpBlocks
    BY <1>1, RecordedFromStart
  <2>2. s = 0
    BY <2>1
  <2>3. ChunkNo(name, c) \in Nat
    BY <1>1, FilesFinite DEF RecordInv
  <2>4. Nth(ChunkNo(name, c), 0) = ChunkNo(name, c)
    BY <2>3, NthFromZero
  <2> QED BY <2>1, <2>2, <2>4 DEF HandedOverFrom
<1> QED BY <1>1, RecordInvariant, PTL

\* The blocks in the input databuf are a queue, and while the window starts with
\* a block a filled one is not written to, also with the strip thread itself for
\* a reader.
THEOREM CaptureTheoremsHold ==
  ASSUME NDebugInputBlocks = 0
  PROVE  Spec => /\ CP!ImplementsBlockQueue
                 /\ CP!FilledStableWhenAligned
                 /\ [](CP!RingOrder /\ CP!HeldBlocksNotFilled)
<1>1. CP!Spec => CP!ImplementsBlockQueue
  BY CP!RefinesBlockQueue, SameAssumptions, PTL
<1>2. CP!Spec => CP!FilledStableWhenAligned
  BY CP!StableWhenAligned, SameAssumptions, PTL
<1>3. CP!Spec => []CP!RingOrder
  BY CP!RingInOrder, SameAssumptions, PTL
<1>4. CP!Spec => []CP!HeldBlocksNotFilled
  BY CP!HeldBlocksFree, SameAssumptions, PTL
<1> QED BY <1>1, <1>2, <1>3, <1>4, CaptureSpec, PTL
=============================================================================
