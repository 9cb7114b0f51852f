---------------------------- MODULE WindowProofs ----------------------------
(* More theorems about Capture: what the window, the headers and the status *)
(* keys have to do with each other.                                         *)
EXTENDS CaptureProofs

-----------------------------------------------------------------------------
(* Windows that start with a block. *)

\* What comes k spans and less than one span more after the first mcnt of a
\* block is k blocks later.
LEMMA SpansAfterAligned ==
  ASSUME NEW m \in Nat, NEW k \in Nat, NEW n \in Nat, m % BlockSpan = 0,
         m + BlockSpan * k <= n, n < m + BlockSpan * k + BlockSpan
  PROVE  n \div BlockSpan = (m \div BlockSpan) + k
<1>1. PICK q \in Nat, r \in 0 .. BlockSpan - 1 : m = BlockSpan * q + r
  BY BlockSpanNat, DivModExist
<1>2. r = 0 /\ m \div BlockSpan = q
  BY <1>1, BlockSpanNat, DivModUnique
<1> DEFINE p == q + k
           s == n - m - BlockSpan * k
<1>3. p \in Nat /\ s \in 0 .. BlockSpan - 1
  <2>1. BlockSpan * k \in Nat
    BY BlockSpanNat
  <2> QED BY <2>1, BlockSpanNat
<1>4. n = BlockSpan * p + s
  BY <1>1, <1>2, BlockSpanNat
<1> HIDE DEF p, s
<1>5. n \div BlockSpan = p
  BY <1>3, <1>4, BlockSpanNat, DivModUnique
<1> QED BY <1>2, <1>5 DEF p

\* A window that slides by a block stays as aligned as it was.
LEMMA SlideKeepsAlignment ==
  ASSUME NEW m \in Nat
  PROVE  (m + BlockSpan) % BlockSpan = m % BlockSpan
<1>1. PICK q \in Nat, r \in 0 .. BlockSpan - 1 : m = BlockSpan * q + r
  BY BlockSpanNat, DivModExist
<1> DEFINE n == m + BlockSpan
           p == q + 1
<1>2. n = BlockSpan * p + r /\ n \in Nat /\ p \in Nat
  BY <1>1, BlockSpanNat
<1>3. n % BlockSpan = r
  <2> HIDE DEF n, p
  <2> QED BY <1>2, BlockSpanNat, DivModUnique
<1>4. m % BlockSpan = r
  BY <1>1, BlockSpanNat, DivModUnique
<1> QED BY <1>3, <1>4

\* The packets an aligned window takes without a wait are for the two blocks
\* that are held.
LEMMA HeldBlocksTakeWindow ==
  ASSUME TypeOK, FillsInSequence, BlockAligned,
         NEW p \in Packets, InCurrentOrNext(p)
  PROVE  block_for_mcnt(p.mcnt) \in {block_i, NextBlock}
<1>1. p.mcnt \in Nat /\ mcnt_start \in Nat
  BY PacketsNat DEF TypeOK
<1>2. mcnt_start <= p.mcnt /\ p.mcnt < mcnt_start + 2 * BlockSpan
  BY <1>1, BlockSpanNat DEF InCurrentOrNext, Dist
<1>3. CASE p.mcnt < mcnt_start + BlockSpan
  <2>1. /\ mcnt_start + BlockSpan * 0 <= p.mcnt
        /\ p.mcnt < mcnt_start + BlockSpan * 0 + BlockSpan
    BY <1>1, <1>2, <1>3, BlockSpanNat
  <2>2. p.mcnt \div BlockSpan = (mcnt_start \div BlockSpan) + 0
    BY <1>1, <2>1, SpansAfterAligned DEF BlockAligned
  <2>3. p.mcnt \div BlockSpan = mcnt_start \div BlockSpan
    BY <1>1, <2>2, BlockOfMcnt
  <2> QED BY <1>1, <2>3, BlockOfMcnt DEF FillsInSequence
<1>4. CASE p.mcnt >= mcnt_start + BlockSpan
  <2>1. /\ mcnt_start + BlockSpan * 1 <= p.mcnt
        /\ p.mcnt < mcnt_start + BlockSpan * 1 + BlockSpan
    BY <1>1, <1>2, <1>4, BlockSpanNat
  <2>2. p.mcnt \div BlockSpan = (mcnt_start \div BlockSpan) + 1
    BY <1>1, <2>1, SpansAfterAligned DEF BlockAligned
  <2> QED BY <1>1, <2>2, BlockLater DEF FillsInSequence, NextBlock
<1> QED BY <1>1, <1>3, <1>4, BlockSpanNat

-----------------------------------------------------------------------------
(* Blocks that were handed over. *)

\* Initialising a block leaves the other blocks alone.
LEMMA InitializeOthers ==
  ASSUME NEW header \in [InputBlocks -> Headers], NEW m \in Nat,
         NEW b \in InputBlocks, b # block_for_mcnt(m)
  PROVE  initialize_block(header, m)[b] = header[b]
BY DEF initialize_block

\* Storing a packet leaves all blocks but its own alone.
LEMMA StoreOthers ==
  ASSUME NEW p, NEW b \in InputBlocks, NEW c, NEW v, TypeOK,
         b # block_for_mcnt(p.mcnt), CountAndStore(c, p, v)
  PROVE  in_data'[b] = in_data[b]
BY DEF CountAndStore, StorePayload, TypeOK

\* No step writes to the header of a filled block, wherever the window starts.
LEMMA HeaderKeptStep ==
  ASSUME TypeOK, HeldPacket, FillsInSequence, HeldBlocksNotFilled,
         [Next]_vars, NEW b \in in_filled
  PROVE  in_header'[b] = in_header[b]
<1>1. b \in InputBlocks /\ b # block_i /\ mcnt_start \in Nat /\ block_i \in NetBlocks
  BY DEF TypeOK, HeldBlocksNotFilled
<1>2. in_header \in [InputBlocks -> Headers]
  BY DEF TypeOK, Headers
<1>3. CASE UNCHANGED in_header
  BY <1>3
<1>4. CASE NetStart
  <2>1. b # 0 /\ b # 1
    BY <1>4 DEF NetStart, hdr_input_databuf_wait_free
  <2>2. block_for_mcnt(0) = 0 /\ block_for_mcnt(BlockSpan) = 1
    <3>1. 0 \div BlockSpan = 0 /\ 0 % NInputBlocks = 0 /\ (0 + 1) % NInputBlocks = 1
      BY BlockSpanNat, BlocksNat
    <3>2. 0 + BlockSpan = BlockSpan
      BY BlockSpanNat
    <3> QED BY <3>1, <3>2, BlockOfMcnt, BlockNext
  <2>3. initialize_block(in_header, 0) \in [InputBlocks -> Headers]
    BY <1>2, InitializeBlockType
  <2> QED BY <1>1, <1>2, <1>4, <2>1, <2>2, <2>3, InitializeOthers, BlockSpanNat
    DEF NetStart
<1>5. CASE NetAcquire
  <2>1. b # block_for_mcnt(pkt.mcnt)
    BY <1>5 DEF NetAcquire, NetAcquireFrom, hdr_input_databuf_wait_free
  <2>2. pkt.mcnt \in Nat
    BY <1>5, PacketsNat DEF NetAcquire, NetAcquireFrom, HeldPacket
  <2> QED BY <1>1, <1>2, <1>5, <2>1, <2>2, InitializeOthers
    DEF NetAcquire, NetAcquireFrom
<1>6. ASSUME NEW p \in Packets, NetAdvance(p) PROVE in_header'[b] = in_header[b]
  <2>1. b # block_for_mcnt(mcnt_start)
    BY <1>1 DEF FillsInSequence
  <2> QED BY <1>1, <1>2, <1>6, <2>1 DEF NetAdvance, set_block_filled
<1>7. ASSUME NEW p \in Packets, NetReset(p) PROVE in_header'[b] = in_header[b]
  <2> DEFINE m == ResetMcnt(p.mcnt)
  <2>1. m \in Nat /\ block_for_mcnt(m) = block_i
    BY <1>1, PacketsNat, ResetKeepsBlock
  <2>2. b # NextBlock
    BY <1>7 DEF NetReset, HeldBlocksNotFilled
  <2>3. in_header' = initialize_block(initialize_block(in_header, m), m + BlockSpan)
    BY <1>7 DEF NetReset
  <2> HIDE DEF m
  <2>4. m + BlockSpan \in Nat /\ block_for_mcnt(m + BlockSpan) = NextBlock
    BY <2>1, BlockNext, BlockSpanNat DEF NextBlock
  <2>5. initialize_block(in_header, m) \in [InputBlocks -> Headers]
    BY <1>2, <2>1, InitializeBlockType
  <2> QED BY <1>1, <1>2, <2>1, <2>2, <2>3, <2>4, <2>5, InitializeOthers
<1> QED
  BY <1>3, <1>4, <1>5, <1>6, <1>7
  DEF Next, NetStep, process_packet, NetRelease, NetExit, NetStore, NetLate,
      NetOutOfSeq, StripTake, StripFree, vars, inVars

Untouched(b) == in_header'[b] = in_header[b] /\ in_data'[b] = in_data[b]

\* No step writes to a filled block while the window starts with a block.
LEMMA StableStep ==
  ASSUME TypeOK, HeldPacket, FillsInSequence, HeldBlocksNotFilled, BlockAligned,
         [Next]_vars, NEW b \in in_filled
  PROVE  Untouched(b)
<1>1. b \in InputBlocks
  BY DEF TypeOK
<1>2. CASE UNCHANGED in_data
  BY <1>2, HeaderKeptStep DEF Untouched
<1>3. CASE NetAcquire
  <2>1. b # block_for_mcnt(pkt.mcnt)
    BY <1>3 DEF NetAcquire, NetAcquireFrom, hdr_input_databuf_wait_free
  <2> QED BY <1>1, <1>3, <2>1, HeaderKeptStep, StoreOthers
    DEF NetAcquire, NetAcquireFrom, Untouched
<1>4. ASSUME NEW p \in Packets, NetStore(p) PROVE Untouched(b)
  <2>1. b \notin {block_i, NextBlock}
    BY <1>4 DEF NetStore, HeldBlocksNotFilled
  <2>2. b # block_for_mcnt(p.mcnt)
    BY <1>4, <2>1, HeldBlocksTakeWindow DEF NetStore
  <2> QED BY <1>1, <1>4, <2>2, HeaderKeptStep, StoreOthers DEF NetStore, Untouched
<1> QED
  BY <1>2, <1>3, <1>4
  DEF Next, NetStep, process_packet, NetRelease, NetStart, NetExit, NetAdvance,
      NetLate, NetOutOfSeq, NetReset, StripTake, StripFree, vars, inVars

\* While the window starts with a block, a block that was handed over keeps its
\* header and its data until it is freed: the copy of the strip thread never
\* races with a packet.
THEOREM StableWhenAligned ==
  ASSUME NDebugInputBlocks = 0
  PROVE  Spec => FilledStableWhenAligned
<1>1. TypeOK /\ HeldPacket /\ FillsInSequence /\ HeldBlocksNotFilled /\ [Next]_vars
        => [BlockAligned =>
              \A b \in in_filled : in_header'[b] = in_header[b] /\ in_data'[b] = in_data[b]]_vars
  BY StableStep DEF Untouched
<1> QED BY <1>1, RingInvariant, HeldBlocksFree, PTL DEF Spec, FilledStableWhenAligned

-----------------------------------------------------------------------------
(* The headers of the held blocks. *)

\* Where the span of an mcnt is in time.
SpanNo(mcnt) == mcnt \div BlockSpan

\* Initialising a block names its span.
LEMMA InitializeNames ==
  ASSUME NEW header \in [InputBlocks -> Headers], NEW m \in Nat
  PROVE  SpanNo(initialize_block(header, m)[block_for_mcnt(m)].mcnt) = SpanNo(m)
<1>1. block_for_mcnt(m) \in InputBlocks
  BY BlockOfMcnt, NetBlocksInput
<1>2. (m - (m % NTimePerBlock)) \div BlockSpan = m \div BlockSpan
  BY RoundingKeepsBlock, NetThreadAssumption DEF BlockSpan
<1>3. initialize_block(header, m)[block_for_mcnt(m)].mcnt = m - (m % NTimePerBlock)
  BY <1>1 DEF initialize_block
<1> QED BY <1>2, <1>3 DEF SpanNo

\* Initialising two blocks in a row names the span of each.
LEMMA InitializeTwo ==
  ASSUME NEW header \in [InputBlocks -> Headers], NEW m \in Nat,
         NEW b, NEW c, b = block_for_mcnt(m), c = (b + 1) % NInputBlocks,
         NEW h, h = initialize_block(initialize_block(header, m), m + BlockSpan)
  PROVE  SpanNo(h[b].mcnt) = SpanNo(m) /\ SpanNo(h[c].mcnt) = SpanNo(m) + 1
<1>1. b \in NetBlocks /\ b \in InputBlocks
  BY BlockOfMcnt, NetBlocksInput
<1>2. m + BlockSpan \in Nat /\ c = block_for_mcnt(m + BlockSpan)
  BY BlockNext, BlockSpanNat
<1>3. b # c
  BY <1>1, ModOne, BlocksNat DEF NetBlocks
<1> DEFINE g == initialize_block(header, m)
<1>4. g \in [InputBlocks -> Headers]
  BY InitializeBlockType
<1>5. SpanNo(g[b].mcnt) = SpanNo(m)
  BY InitializeNames
<1> HIDE DEF g
<1>6. h[b] = g[b]
  BY <1>1, <1>2, <1>3, <1>4, InitializeOthers DEF g
<1>7. SpanNo(h[c].mcnt) = SpanNo(m + BlockSpan)
  BY <1>2, <1>4, InitializeNames DEF g
<1>8. SpanNo(m + BlockSpan) = SpanNo(m) + 1
  <2>1. BlockSpan * 1 = BlockSpan
    BY BlockSpanNat
  <2>2. (m + BlockSpan * 1) \div BlockSpan = (m \div BlockSpan) + 1
    BY SpansLater
  <2> QED BY <2>1, <2>2 DEF SpanNo
<1> QED BY <1>5, <1>6, <1>7, <1>8

\* Inductive strengthening of HeadersMatchWindowWhenAligned: before the start the
\* window is at mcnt 0, and while the thread waits the first of the two headers
\* is right already.
HeadersInv ==
  /\ net_pc \in {"hold", "start"} => mcnt_start = 0
  /\ net_pc \in {"recv", "acquire"} /\ BlockAligned =>
       SpanNo(in_header[block_i].mcnt) = SpanNo(mcnt_start)
  /\ net_pc = "recv" /\ BlockAligned =>
       SpanNo(in_header[NextBlock].mcnt) = SpanNo(mcnt_start) + 1

\* A step that moves neither the window nor a header.
LEMMA HeadersUnmoved ==
  ASSUME HeadersInv, UNCHANGED <<in_header, mcnt_start, block_i>>,
         \/ net_pc' = net_pc
         \/ net_pc' = "exited"
         \/ net_pc = "hold" /\ net_pc' = "start"
  PROVE  HeadersInv'
BY DEF HeadersInv, BlockAligned, SpanNo, NextBlock

\* Every step keeps HeadersInv.
LEMMA HeadersStep ==
  TypeOK /\ HeldPacket /\ FillsInSequence /\ HeadersInv /\ [Next]_vars => HeadersInv'
<1> SUFFICES ASSUME TypeOK, HeldPacket, FillsInSequence, HeadersInv, [Next]_vars
             PROVE  HeadersInv'
  OBVIOUS
<1>1. /\ in_header \in [InputBlocks -> Headers]
      /\ mcnt_start \in Nat
      /\ block_i \in NetBlocks /\ block_i \in InputBlocks
      /\ NextBlock \in NetBlocks /\ NextBlock \in InputBlocks
      /\ NextBlock # block_i
      /\ block_i = block_for_mcnt(mcnt_start)
  <2>1. block_i \in NetBlocks /\ block_i = block_for_mcnt(mcnt_start)
    BY DEF TypeOK, FillsInSequence
  <2>2. NextBlock \in NetBlocks /\ NextBlock # block_i
    BY <2>1, ModOne, BlocksNat DEF NetBlocks, NextBlock
  <2> QED BY <2>1, <2>2, NetBlocksInput DEF TypeOK, Headers
<1>2. CASE NetRelease \/ NetExit \/ StripTake \/ StripFree \/ UNCHANGED vars
  BY <1>2, HeadersUnmoved
  DEF NetRelease, NetExit, StripTake, StripFree, vars, inVars, netVars
<1>3. CASE NetStart
  <2>1. mcnt_start = 0 /\ 0 + BlockSpan = BlockSpan
    BY <1>3, BlockSpanNat DEF NetStart, HeadersInv
  <2>2. /\ in_header' = initialize_block(initialize_block(in_header, 0), 0 + BlockSpan)
        /\ UNCHANGED <<mcnt_start, block_i>>
    BY <1>3, <2>1 DEF NetStart
  <2>3. /\ SpanNo(in_header'[block_i].mcnt) = SpanNo(0)
        /\ SpanNo(in_header'[NextBlock].mcnt) = SpanNo(0) + 1
    BY <1>1, <2>1, <2>2, InitializeTwo DEF NextBlock
  <2> QED BY <1>3, <2>1, <2>2, <2>3 DEF NetStart, HeadersInv, SpanNo, NextBlock
<1>4. CASE NetAcquire
  <2>1. CASE BlockAligned
    <3>1. pkt.mcnt \in Nat /\ SpanNo(pkt.mcnt) = SpanNo(mcnt_start) + 1
      <4>1. pkt.mcnt \in Nat
        BY <1>4, PacketsNat DEF NetAcquire, NetAcquireFrom, HeldPacket
      <4>2. /\ mcnt_start + BlockSpan * 1 <= pkt.mcnt
            /\ pkt.mcnt < mcnt_start + BlockSpan * 1 + BlockSpan
        BY <1>1, <1>4, <4>1, BlockSpanNat DEF NetAcquire, NetAcquireFrom, HeldPacket
      <4> QED BY <1>1, <2>1, <4>1, <4>2, SpansAfterAligned DEF BlockAligned, SpanNo
    <3>2. block_for_mcnt(pkt.mcnt) = NextBlock
      BY <1>1, <3>1, BlockLater DEF SpanNo, NextBlock
    <3>3. in_header' = initialize_block(in_header, pkt.mcnt)
      BY <1>4 DEF NetAcquire, NetAcquireFrom
    <3>4. in_header'[block_i] = in_header[block_i]
      BY <1>1, <3>1, <3>2, <3>3, InitializeOthers
    <3>5. SpanNo(in_header'[NextBlock].mcnt) = SpanNo(pkt.mcnt)
      BY <1>1, <3>1, <3>2, <3>3, InitializeNames
    <3> QED BY <1>4, <2>1, <3>1, <3>4, <3>5
      DEF NetAcquire, NetAcquireFrom, HeadersInv, BlockAligned, SpanNo, NextBlock
  <2>2. CASE ~BlockAligned
    BY <1>4, <2>2 DEF NetAcquire, NetAcquireFrom, HeadersInv, BlockAligned
  <2> QED BY <2>1, <2>2
<1>5. ASSUME NEW p \in Packets, NetStore(p) \/ NetLate(p) \/ NetOutOfSeq(p)
      PROVE  HeadersInv'
  BY <1>5, HeadersUnmoved DEF NetStore, NetLate, NetOutOfSeq, netVars, inVars
<1>6. ASSUME NEW p \in Packets, NetAdvance(p) PROVE HeadersInv'
  <2>1. /\ mcnt_start' = mcnt_start + BlockSpan
        /\ block_i' = NextBlock
        /\ net_pc = "recv" /\ net_pc' = "acquire"
    BY <1>6 DEF NetAdvance, NextBlock
  <2>2. BlockAligned' <=> BlockAligned
    BY <1>1, <2>1, SlideKeepsAlignment DEF BlockAligned
  <2>3. in_header'[NextBlock] = in_header[NextBlock]
    BY <1>1, <1>6 DEF NetAdvance, set_block_filled
  <2>4. SpanNo(mcnt_start + BlockSpan) = SpanNo(mcnt_start) + 1
    <3>1. BlockSpan * 1 = BlockSpan
      BY BlockSpanNat
    <3>2. (mcnt_start + BlockSpan * 1) \div BlockSpan = (mcnt_start \div BlockSpan) + 1
      BY <1>1, SpansLater
    <3> QED BY <3>1, <3>2 DEF SpanNo
  <2> QED BY <2>1, <2>2, <2>3, <2>4 DEF HeadersInv, SpanNo
<1>7. ASSUME NEW p \in Packets, NetReset(p) PROVE HeadersInv'
  <2> DEFINE m == ResetMcnt(p.mcnt)
  <2>1. m \in Nat /\ block_for_mcnt(m) = block_i
    BY <1>1, PacketsNat, ResetKeepsBlock
  <2>2. /\ in_header' = initialize_block(initialize_block(in_header, m), m + BlockSpan)
        /\ mcnt_start' = m /\ block_i' = block_i
        /\ net_pc = "recv" /\ net_pc' = "recv"
    BY <1>7, <2>1 DEF NetReset
  <2> HIDE DEF m
  <2>3. /\ SpanNo(in_header'[block_i].mcnt) = SpanNo(m)
        /\ SpanNo(in_header'[NextBlock].mcnt) = SpanNo(m) + 1
    BY <1>1, <2>1, <2>2, InitializeTwo DEF NextBlock
  <2> QED BY <2>2, <2>3 DEF HeadersInv, SpanNo, NextBlock
<1> QED
  BY <1>2, <1>3, <1>4, <1>5, <1>6, <1>7 DEF Next, NetStep, process_packet

\* While the window starts with a block, the headers of the two held blocks name
\* the two spans of time the window starts with, through late, lost and early
\* packets and through resets.
THEOREM HeadersRight == Spec => []HeadersMatchWindowWhenAligned
<1>1. Init => HeadersInv
  BY DEF Init, NetInit, HeadersInv
<1>2. HeadersInv => HeadersMatchWindowWhenAligned
  BY DEF HeadersInv, HeadersMatchWindowWhenAligned, SpanNo
<1>3. Spec => [](TypeOK /\ HeldPacket /\ FillsInSequence)
  <2>1. Init => TypeOK /\ HeldPacket /\ FillsInSequence
    BY TypeInit, FillsInSequenceInit
  <2>2. TypeOK /\ HeldPacket /\ FillsInSequence /\ [Next]_vars
          => (TypeOK /\ HeldPacket /\ FillsInSequence)'
    BY TypeStep, HeldPacketStep, FillsInSequenceStep
  <2> QED BY <2>1, <2>2, PTL DEF Spec
<1> QED BY <1>1, <1>2, <1>3, HeadersStep, PTL DEF Spec

-----------------------------------------------------------------------------
(* The status keys. *)

\* What makes StatusKeysPartOnlyOnReject hold: before the main loop no block was
\* handed over, and while the thread waits NETBKOUT is the block of the span
\* before the window, whose mcnt NETMCNT is about to be.
StatusInv ==
  /\ net_pc \in {"hold", "start"} => st.NETBKOUT = NoMcnt
  /\ net_pc = "acquire" =>
       /\ mcnt_start - BlockSpan \in Nat
       /\ st.NETBKOUT = block_for_mcnt(mcnt_start - BlockSpan)

\* The keys come apart in a step only when it drops a packet for its antenna.
PartOnlyOnReject ==
  net_pc' = "recv" /\ ~KeysAgree' =>
    \/ net_pc = "recv" /\ ~KeysAgree
    \/ net_pc = "acquire" /\ ~ValidAntenna(pkt)

\* Every step keeps StatusInv, and the keys together unless a packet is dropped.
LEMMA StatusStep ==
  ASSUME TypeOK, StatusInv, [Next]_vars
  PROVE  StatusInv' /\ PartOnlyOnReject
<1>1. st \in StatusTypes
  BY DEF TypeOK, StatusTypes
<1>2. CASE NetRelease \/ NetExit \/ StripTake \/ StripFree \/ UNCHANGED vars
  BY <1>2
  DEF NetRelease, NetExit, StripTake, StripFree, vars, netVars, StatusInv,
      PartOnlyOnReject, KeysAgree, block_for_mcnt
<1>3. CASE NetStart
  <2>1. net_pc' = "recv" /\ st'.NETBKOUT = NoMcnt
    BY <1>1, <1>3 DEF NetStart, StatusInv, StatusTypes
  <2> QED BY <2>1 DEF StatusInv, PartOnlyOnReject, KeysAgree, NoMcnt
<1>4. CASE NetAcquire
  <2>1. net_pc = "acquire" /\ net_pc' = "recv" /\ UNCHANGED mcnt_start
    BY <1>4 DEF NetAcquire, NetAcquireFrom
  <2>2. CASE ValidAntenna(pkt)
    <3>1. st' = [st EXCEPT !.NETMCNT = mcnt_start - BlockSpan]
      BY <1>4, <2>2 DEF NetAcquire, NetAcquireFrom, FilledMcnt
    <3>2. st'.NETMCNT = mcnt_start - BlockSpan /\ st'.NETBKOUT = st.NETBKOUT
      BY <1>1, <3>1 DEF StatusTypes
    <3> QED BY <2>1, <3>2 DEF StatusInv, PartOnlyOnReject, KeysAgree, block_for_mcnt
  <2> QED BY <2>1, <2>2 DEF StatusInv, PartOnlyOnReject
<1>5. ASSUME NEW p \in Packets,
             NetStore(p) \/ NetLate(p) \/ NetOutOfSeq(p) \/ NetReset(p)
      PROVE  StatusInv' /\ PartOnlyOnReject
  BY <1>5
  DEF NetStore, NetLate, NetOutOfSeq, NetReset, netVars, StatusInv, PartOnlyOnReject,
      KeysAgree, block_for_mcnt
<1>6. ASSUME NEW p \in Packets, NetAdvance(p) PROVE StatusInv' /\ PartOnlyOnReject
  <2>1. /\ net_pc' = "acquire"
        /\ mcnt_start' = mcnt_start + BlockSpan
        /\ st'.NETBKOUT = block_for_mcnt(mcnt_start)
    BY <1>1, <1>6 DEF NetAdvance, set_block_filled, StatusTypes
  <2>2. mcnt_start \in Nat /\ (mcnt_start + BlockSpan) - BlockSpan = mcnt_start
    BY BlockSpanNat DEF TypeOK
  <2> QED BY <2>1, <2>2 DEF StatusInv, PartOnlyOnReject, block_for_mcnt
<1> QED
  BY <1>2, <1>3, <1>4, <1>5, <1>6 DEF Next, NetStep, process_packet

\* NETMCNT and NETBKOUT are the mcnt and the index of one block, unless the packet
\* that had the block filled carries an antenna that does not exist; the next
\* packet that fills a block and carries one that does mends it.
THEOREM StatusKeysTogether == Spec => StatusKeysPartOnlyOnReject
<1>1. Init => StatusInv
  BY DEF Init, NetInit, StatusInv
<1>2. TypeOK /\ StatusInv /\ [Next]_vars => StatusInv' /\ PartOnlyOnReject
  BY StatusStep
<1>3. PartOnlyOnReject => [net_pc' = "recv" /\ ~KeysAgree' =>
                             \/ net_pc = "recv" /\ ~KeysAgree
                             \/ net_pc = "acquire" /\ ~ValidAntenna(pkt)]_vars
  BY DEF PartOnlyOnReject
<1> QED BY <1>1, <1>2, <1>3, TypeCorrect, PTL DEF Spec, StatusKeysPartOnlyOnReject

-----------------------------------------------------------------------------
(* The input databuf is a queue. *)

\* There are as many filled blocks as the net thread is ahead.
FilledCount ==
  /\ IsFiniteSet(in_filled)
  /\ Cardinality(in_filled) = Ahead(block_i)

\* Where the two threads are, and how many blocks are between them at most.
LEMMA RingBounds ==
  ASSUME NDebugInputBlocks = 0, TypeOK, RingInv
  PROVE  /\ InputBlockCount = NInputBlocks /\ InputBlocks = NetBlocks
         /\ block_i \in NetBlocks /\ iblk \in NetBlocks
         /\ Ahead(block_i) \in 0 .. NInputBlocks - 1
         /\ block_i \notin in_filled
<1>1. InputBlockCount = NInputBlocks /\ InputBlocks = NetBlocks
  BY InputDatabufAssumption DEF InputBlockCount, InputBlocks, NetBlocks
<1>2. block_i \in NetBlocks /\ iblk \in NetBlocks
  BY <1>1 DEF TypeOK
<1>3. Ahead(block_i) \in 0 .. NInputBlocks - 1
  BY <1>2, BlocksNat DEF Ahead, NetBlocks
<1> QED BY <1>1, <1>2, <1>3 DEF RingInv, RingOrder

\* The k-th block from the strip thread's on is filled, for the first
\* Ahead(block_i) of them.
LEMMA QueuedFilled ==
  ASSUME NDebugInputBlocks = 0, TypeOK, RingInv, NEW k \in 1 .. Ahead(block_i)
  PROVE  (iblk + k - 1) % NInputBlocks \in in_filled
<1> DEFINE a == iblk + k - 1
           c == a % NInputBlocks
<1>1. /\ iblk \in NetBlocks
      /\ Ahead(block_i) \in 0 .. NInputBlocks - 1
  BY RingBounds
<1>2. a \in 0 .. 2 * NInputBlocks - 1
  BY <1>1, BlocksNat DEF NetBlocks
<1>3. c \in NetBlocks /\ Ahead(c) = k - 1
  <2>1. c = IF a < NInputBlocks THEN a ELSE a - NInputBlocks
    <3> HIDE DEF a
    <3> QED BY <1>2, ModWithinTwo, BlocksNat
  <2> HIDE DEF c
  <2> QED BY <1>1, <2>1, BlocksNat DEF Ahead, NetBlocks
<1> HIDE DEF c
<1>4. Ahead(c) < Ahead(block_i)
  BY <1>1, <1>3
<1> QED BY <1>3, <1>4 DEF RingInv, RingOrder, c, a

\* The queue the mapping of InputQueue makes of the ring.
Queue == RingQueue(InputBlockCount, iblk, in_filled, in_header)

\* Handing a block over puts its header at the end of the queue, below the
\* capacity.
LEMMA QueuePut ==
  ASSUME NDebugInputBlocks = 0, TypeOK, HeldPacket, FillsInSequence, RingInv,
         HeldBlocksNotFilled, FilledCount,
         NEW p \in Packets, NetAdvance(p), UNCHANGED <<iblk, reading>>
  PROVE  /\ FilledCount'
         /\ InputQueue!Put
<1>1. /\ InputBlockCount = NInputBlocks /\ iblk \in NetBlocks /\ block_i \in NetBlocks
      /\ Ahead(block_i) \in 0 .. NInputBlocks - 1 /\ block_i \notin in_filled
  BY RingBounds
<1>2. /\ in_filled' = in_filled \union {block_i}
      /\ block_i' = (block_i + 1) % NInputBlocks
      /\ Ahead(block_i) <= NInputBlocks - 2
  BY DEF NetAdvance, set_block_filled, hdr_input_databuf_set_filled, FillsInSequence,
         RingInv
<1>3. Cardinality(in_filled') = Ahead(block_i) + 1 /\ IsFiniteSet(in_filled')
  BY <1>1, <1>2, FS_AddElement DEF FilledCount
<1>4. Ahead(block_i)' = Ahead(block_i) + 1
  BY <1>1, <1>2, ModOne, BlocksNat DEF Ahead, NetBlocks
<1>5. RingQueue(InputBlockCount, iblk, in_filled, in_header') = Queue
  <2>1. ASSUME NEW k \in 1 .. Cardinality(in_filled)
        PROVE  in_header'[(iblk + k - 1) % InputBlockCount]
                 = in_header[(iblk + k - 1) % InputBlockCount]
    <3>1. (iblk + k - 1) % InputBlockCount \in in_filled
      BY <1>1, QueuedFilled DEF FilledCount
    <3>2. [Next]_vars
      BY DEF Next, NetStep, process_packet
    <3> QED BY <3>1, <3>2, HeaderKeptStep
  <2> QED BY <2>1 DEF Queue, RingQueue
<1>6. Queue' = RingQueue(InputBlockCount, iblk, in_filled', in_header')
  BY DEF Queue, RingQueue, InputBlockCount
<1>7. /\ Len(Queue) = Cardinality(in_filled)
      /\ Len(Queue') = Cardinality(in_filled) + 1
      /\ SubSeq(Queue', 1, Cardinality(in_filled)) = Queue
  <2> DEFINE more == in_filled'
             new == in_header'
  <2>1. /\ IsFiniteSet(in_filled) /\ block_i \notin in_filled
        /\ more = in_filled \union {block_i}
        /\ IsFiniteSet(more) /\ Cardinality(more) = Cardinality(in_filled) + 1
    BY <1>1, <1>2, <1>3 DEF FilledCount
  <2> HIDE DEF more, new
  <2>2. Len(RingQueue(InputBlockCount, iblk, in_filled, new)) = Cardinality(in_filled)
    BY <2>1, RingQueueLen
  <2>3. Len(RingQueue(InputBlockCount, iblk, more, new)) = Cardinality(more)
    BY <2>1, RingQueueLen
  <2>4. SubSeq(RingQueue(InputBlockCount, iblk, more, new), 1, Cardinality(in_filled))
          = RingQueue(InputBlockCount, iblk, in_filled, new)
    BY <2>1, RingQueuePut
  <2> QED BY <1>5, <1>6, <2>1, <2>2, <2>3, <2>4 DEF more, new
<1>8. Len(Queue) < NInputBlocks - 1
  BY <1>1, <1>2, <1>7, BlocksNat DEF FilledCount
<1>9. /\ Len(Queue) < NInputBlocks - 1
      /\ Len(Queue') = Len(Queue) + 1
      /\ SubSeq(Queue', 1, Len(Queue)) = Queue
      /\ reading' = reading
  BY <1>7, <1>8
<1> QED BY <1>3, <1>4, <1>9 DEF FilledCount, InputQueue!Put, Queue, RingQueue

\* Giving a block back takes it off the front of the queue.
LEMMA QueueGiveBack ==
  ASSUME NDebugInputBlocks = 0, TypeOK, RingInv, FilledCount, StripFree
  PROVE  /\ FilledCount'
         /\ InputQueue!GiveBack
<1>1. /\ InputBlockCount = NInputBlocks /\ iblk \in NetBlocks /\ block_i \in NetBlocks
      /\ Ahead(block_i) \in 0 .. NInputBlocks - 1
  BY RingBounds
<1>2. /\ in_filled' = in_filled \ {iblk}
      /\ iblk' = (iblk + 1) % InputBlockCount
      /\ UNCHANGED <<in_header, block_i>>
      /\ reading /\ reading' = FALSE
  BY DEF StripFree, hdr_input_databuf_set_free, netVars
<1>3. block_i # iblk
  BY <1>2 DEF RingInv, RingOrder
<1>4. iblk \in in_filled
  BY <1>1, <1>3, BlocksNat DEF RingInv, RingOrder, Ahead, NetBlocks
<1>5. Cardinality(in_filled') = Ahead(block_i) - 1 /\ IsFiniteSet(in_filled')
  BY <1>2, <1>4, FS_RemoveElement DEF FilledCount
<1>6. Ahead(block_i)' = Ahead(block_i) - 1
  BY <1>1, <1>2, <1>3, ModOne, BlocksNat DEF Ahead, NetBlocks
<1>7. /\ Queue # <<>>
      /\ RingQueue(InputBlockCount, iblk', in_filled', in_header) = Tail(Queue)
  <2>1. Cardinality(in_filled') = Cardinality(in_filled) - 1 /\ Cardinality(in_filled') \in Nat
    BY <1>2, <1>4, FS_RemoveElement, FS_CardinalityType DEF FilledCount
  <2>2. InputBlockCount \in Nat \ {0} /\ iblk \in Nat /\ IsFiniteSet(in_filled)
    BY <1>1, BlocksNat DEF FilledCount, NetBlocks
  <2>3. iblk' = (iblk + 1) % InputBlockCount
    BY <1>2
  <2> QED BY <2>1, <2>2, <2>3, RingQueueGiveBack DEF Queue
<1>8. Queue' = RingQueue(InputBlockCount, iblk', in_filled', in_header)
  BY <1>2 DEF Queue, RingQueue, InputBlockCount
<1>9. Queue' = Tail(Queue) /\ reading /\ reading' = FALSE
  BY <1>2, <1>7, <1>8
<1> QED BY <1>5, <1>6, <1>9 DEF FilledCount, InputQueue!GiveBack, Queue, RingQueue

\* A step that moves no block between the threads leaves the queue as it is.
LEMMA QueueKept ==
  ASSUME NDebugInputBlocks = 0, TypeOK, HeldPacket, FillsInSequence, RingInv,
         HeldBlocksNotFilled, FilledCount, [Next]_vars,
         UNCHANGED <<in_filled, iblk, block_i>>
  PROVE  FilledCount' /\ UNCHANGED Queue
<1>1. FilledCount'
  BY DEF FilledCount, Ahead
<1>2. InputBlockCount = NInputBlocks
  BY RingBounds
<1>3. \A k \in 1 .. Cardinality(in_filled) :
         in_header'[(iblk + k - 1) % InputBlockCount] = in_header[(iblk + k - 1) % InputBlockCount]
  <2> TAKE k \in 1 .. Cardinality(in_filled)
  <2>1. (iblk + k - 1) % InputBlockCount \in in_filled
    BY <1>2, QueuedFilled DEF FilledCount
  <2> QED BY <2>1, HeaderKeptStep
<1>4. UNCHANGED Queue
  BY <1>3 DEF Queue, RingQueue, InputBlockCount
<1> QED BY <1>1, <1>4

\* What a step does to the queue of filled blocks: it leaves it alone, or the
\* net thread puts a block at its end, or the strip thread takes the first or
\* gives it back.
LEMMA QueueStep ==
  ASSUME NDebugInputBlocks = 0, TypeOK, HeldPacket, FillsInSequence, RingInv,
         HeldBlocksNotFilled, FilledCount, [Next]_vars
  PROVE  /\ FilledCount'
         /\ InputQueue!Next \/ UNCHANGED <<Queue, reading>>
<1>1. ASSUME NEW p \in Packets, NetAdvance(p), UNCHANGED <<iblk, reading>>
      PROVE  FilledCount' /\ InputQueue!Next
  BY <1>1, QueuePut DEF InputQueue!Next
<1>2. CASE StripFree
  BY <1>2, QueueGiveBack DEF InputQueue!Next
<1>3. CASE StripTake
  <2>1. FilledCount' /\ UNCHANGED Queue
    BY <1>3, QueueKept DEF StripTake, inVars, netVars, Next
  <2>2. Queue # <<>>
    <3>1. iblk \in in_filled /\ InputBlockCount = NInputBlocks /\ iblk \in NetBlocks
      BY <1>3, RingBounds DEF StripTake, hdr_input_databuf_wait_filled
    <3>2. /\ Cardinality(in_filled \ {iblk}) = Cardinality(in_filled) - 1
          /\ Cardinality(in_filled \ {iblk}) \in Nat
      BY <3>1, FS_RemoveElement, FS_CardinalityType DEF FilledCount
    <3>3. InputBlockCount \in Nat \ {0} /\ iblk \in Nat /\ IsFiniteSet(in_filled)
      BY <3>1, BlocksNat DEF FilledCount, NetBlocks
    <3> QED BY <3>2, <3>3, RingQueueGiveBack DEF Queue
  <2>3. ~reading /\ reading' = TRUE
    BY <1>3 DEF StripTake
  <2>4. ~reading /\ Queue # <<>> /\ reading' = TRUE /\ Queue' = Queue
    BY <2>1, <2>2, <2>3
  <2>5. InputQueue!Take
    BY <2>4 DEF InputQueue!Take, Queue, RingQueue
  <2> QED BY <2>1, <2>5 DEF InputQueue!Next
<1>4. CASE UNCHANGED vars
  BY <1>4, QueueKept DEF vars, inVars, netVars
<1>5. CASE (NetRelease \/ NetStart \/ NetAcquire \/ NetExit) /\ UNCHANGED <<iblk, reading>>
  <2>1. UNCHANGED <<in_filled, iblk, block_i>> /\ UNCHANGED reading
    BY <1>5 DEF NetRelease, NetStart, NetAcquire, NetAcquireFrom, NetExit, inVars
  <2> QED BY <2>1, QueueKept
<1>6. ASSUME NEW p \in Packets,
             NetStore(p) \/ NetLate(p) \/ NetOutOfSeq(p) \/ NetReset(p),
             UNCHANGED <<iblk, reading>>
      PROVE  FilledCount' /\ UNCHANGED <<Queue, reading>>
  <2>1. UNCHANGED in_filled
    BY <1>6 DEF NetStore, NetLate, NetOutOfSeq, NetReset, inVars
  <2>2. UNCHANGED block_i
    BY <1>6, RingBounds, PacketsNat, ResetKeepsBlock
    DEF NetStore, NetLate, NetOutOfSeq, NetReset, netVars
  <2> QED BY <1>6, <2>1, <2>2, QueueKept
<1> QED
  BY <1>1, <1>2, <1>3, <1>4, <1>5, <1>6 DEF Next, NetStep, process_packet

\* There always are as many filled blocks as the net thread is ahead.
LEMMA FilledInvariant ==
  ASSUME NDebugInputBlocks = 0
  PROVE  Spec => [](TypeOK /\ FillsInSequence /\ RingInv /\ FilledCount)
<1>1. Init => FilledCount
  <2> SUFFICES ASSUME Init PROVE FilledCount
    OBVIOUS
  <2>1. in_filled = {} /\ block_i = 0 /\ iblk = 0
    BY DEF Init, NetInit, hdr_input_databuf_create
  <2> QED BY <2>1, FS_EmptySet DEF FilledCount, Ahead
<1>2. TypeOK /\ HeldPacket /\ FillsInSequence /\ RingInv /\ HeldBlocksNotFilled
        /\ FilledCount /\ [Next]_vars => FilledCount'
  BY QueueStep
<1>3. Spec => [](TypeOK /\ HeldPacket /\ FillsInSequence /\ RingInv /\ HeldBlocksNotFilled)
  BY RingInvariant, HeldBlocksFree, PTL
<1> QED BY <1>1, <1>2, <1>3, PTL DEF Spec

\* The input databuf is a bounded queue: whatever packets and resets there are,
\* the strip thread gets each block the net thread handed over once, in order,
\* and with the header it was handed over with.
THEOREM RefinesBlockQueue ==
  ASSUME NDebugInputBlocks = 0
  PROVE  Spec => ImplementsBlockQueue
<1>1. Init => InputQueue!Init
  <2> SUFFICES ASSUME Init PROVE InputQueue!Init
    OBVIOUS
  <2>1. Cardinality(in_filled) = 0 /\ reading = FALSE
    BY FS_EmptySet DEF Init, hdr_input_databuf_create
  <2>2. Queue = <<>>
    BY <2>1 DEF Queue, RingQueue
  <2> QED BY <2>1, <2>2 DEF InputQueue!Init, Queue, RingQueue
<1>2. TypeOK /\ HeldPacket /\ FillsInSequence /\ RingInv /\ HeldBlocksNotFilled
        /\ FilledCount /\ [Next]_vars => [InputQueue!Next]_<<Queue, reading>>
  BY QueueStep
<1>3. Spec => [](TypeOK /\ HeldPacket /\ FillsInSequence /\ RingInv /\ HeldBlocksNotFilled)
  BY RingInvariant, HeldBlocksFree, PTL
<1>4. Spec => InputQueue!Init /\ [][InputQueue!Next]_<<Queue, reading>>
  BY <1>1, <1>2, <1>3, FilledInvariant, PTL DEF Spec
<1> QED BY <1>4, PTL DEF ImplementsBlockQueue, InputQueue!Spec, Queue, RingQueue
=============================================================================
