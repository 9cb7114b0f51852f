--------------------------- MODULE CaptureProofs ----------------------------
(* Theorems about Capture, for every number of blocks, antennas and packets. *)
EXTENDS Capture, Arithmetic

-----------------------------------------------------------------------------
(* Rounding. *)

\* Rounding down to a multiple of N_TIME_PER_BLOCK, as initialize_block and a
\* reset do, never leaves the block, which is TIME_DEMUX times as long.
LEMMA RoundingKeepsBlock ==
  ASSUME NEW n \in Nat \ {0}, NEW m \in Nat \ {0}, NEW a \in Nat
  PROVE  /\ a - (a % m) \in Nat
         /\ (a - (a % m)) \div (m * n) = a \div (m * n)
<1> DEFINE b == m * n
<1>1. b \in Nat \ {0}
  OBVIOUS
<1>2. PICK q \in Nat, s \in 0 .. b - 1 : a = b * q + s
  <2> HIDE DEF b
  <2> QED BY <1>1, DivModExist
<1>3. PICK x \in Nat, y \in 0 .. m - 1 : s = m * x + y
  <2> HIDE DEF b
  <2>1. s \in Nat
    BY <1>1
  <2> QED BY <2>1, DivModExist
<1>4. a = m * (n * q + x) + y /\ n * q + x \in Nat
  BY <1>2, <1>3
<1>5. a % m = y
  <2> DEFINE z == n * q + x
  <2>1. z \in Nat /\ a = m * z + y
    BY <1>4
  <2> HIDE DEF z
  <2> QED BY <2>1, DivModUnique
<1>6. s - y \in 0 .. b - 1
  <2>1. s - y = m * x /\ m * x \in Nat
    BY <1>3
  <2> HIDE DEF b
  <2> QED BY <1>1, <2>1
<1>7. a - y = b * q + (s - y) /\ a - y \in Nat
  <2>1. b * q \in Nat
    OBVIOUS
  <2> HIDE DEF b
  <2> QED BY <1>1, <1>2, <1>6, <2>1
<1>8. a \div b = q /\ (a - y) \div b = q
  <2> DEFINE c == a - y
             d == s - y
  <2>1. d \in 0 .. b - 1 /\ c \in Nat /\ c = b * q + d
    BY <1>6, <1>7
  <2> HIDE DEF b, c, d
  <2>2. c \div b = q
    BY <1>1, <2>1, DivModUnique
  <2>3. a \div b = q
    BY <1>1, <1>2, DivModUnique
  <2> QED BY <2>2, <2>3 DEF c
<1> QED BY <1>5, <1>7, <1>8

-----------------------------------------------------------------------------
(* The blocks of the net thread. *)

\* The span of a block is positive.
LEMMA BlockSpanNat == BlockSpan \in Nat \ {0}
BY NetThreadAssumption DEF BlockSpan

\* There are at least three blocks.
LEMMA BlocksNat == NInputBlocks \in Nat \ {0} /\ NInputBlocks >= 3
BY InputDatabufAssumption, NetThreadAssumption

\* block_for_mcnt counts spans of time round the ring.
LEMMA BlockOfMcnt ==
  ASSUME NEW m \in Nat
  PROVE  /\ block_for_mcnt(m) = (m \div BlockSpan) % NInputBlocks
         /\ m \div BlockSpan \in Nat
         /\ block_for_mcnt(m) \in NetBlocks
<1>1. (m \div TimeDemux) \div NTimePerBlock = m \div BlockSpan
  BY DivDiv, NetThreadAssumption DEF BlockSpan
<1>2. m \div BlockSpan \in Nat
  BY BlockSpanNat
<1>3. block_for_mcnt(m) = (m \div BlockSpan) % NInputBlocks
  BY <1>1 DEF block_for_mcnt
<1> HIDE DEF block_for_mcnt
<1>4. block_for_mcnt(m) \in NetBlocks
  BY <1>2, <1>3, BlocksNat DEF NetBlocks
<1> QED BY <1>2, <1>3, <1>4

\* An mcnt whose span is k spans after that of another has its block k blocks
\* further round the ring.
LEMMA BlockLater ==
  ASSUME NEW m \in Nat, NEW n \in Nat, NEW k \in Nat,
         n \div BlockSpan = (m \div BlockSpan) + k
  PROVE  block_for_mcnt(n) = (block_for_mcnt(m) + k) % NInputBlocks
BY BlockOfMcnt, ModSum, BlocksNat

\* Adding whole spans to an mcnt.
LEMMA SpansLater ==
  ASSUME NEW m \in Nat, NEW k \in Nat
  PROVE  /\ m + BlockSpan * k \in Nat
         /\ (m + BlockSpan * k) \div BlockSpan = (m \div BlockSpan) + k
<1>1. PICK q \in Nat, r \in 0 .. BlockSpan - 1 : m = BlockSpan * q + r
  BY BlockSpanNat, DivModExist
<1>2. m \div BlockSpan = q
  BY <1>1, BlockSpanNat, DivModUnique
<1> DEFINE n == m + BlockSpan * k
           p == q + k
<1>3. n = BlockSpan * p + r /\ n \in Nat /\ p \in Nat
  BY <1>1, BlockSpanNat
<1>4. n \div BlockSpan = p
  <2> HIDE DEF n, p
  <2> QED BY <1>3, BlockSpanNat, DivModUnique
<1> QED BY <1>2, <1>3, <1>4

\* The window slides to the next block of the ring.
LEMMA BlockNext ==
  ASSUME NEW m \in Nat
  PROVE  block_for_mcnt(m + BlockSpan) = (block_for_mcnt(m) + 1) % NInputBlocks
<1>1. /\ m + BlockSpan \in Nat
      /\ (m + BlockSpan) \div BlockSpan = (m \div BlockSpan) + 1
  <2>1. BlockSpan * 1 = BlockSpan
    BY BlockSpanNat
  <2>2. /\ m + BlockSpan * 1 \in Nat
        /\ (m + BlockSpan * 1) \div BlockSpan = (m \div BlockSpan) + 1
    BY SpansLater
  <2> QED BY <2>1, <2>2
<1> QED BY <1>1, BlockLater

\* A packet between one and two spans after an mcnt is for one of the two
\* blocks after that of the mcnt.
LEMMA BlockInNextTwo ==
  ASSUME NEW m \in Nat, NEW n \in Nat,
         m + BlockSpan <= n, n < m + 2 * BlockSpan
  PROVE  \/ block_for_mcnt(n) = (block_for_mcnt(m) + 1) % NInputBlocks
         \/ block_for_mcnt(n) = (block_for_mcnt(m) + 2) % NInputBlocks
<1>1. PICK q \in Nat, r \in 0 .. BlockSpan - 1 : m = BlockSpan * q + r
  BY BlockSpanNat, DivModExist
<1>2. PICK p \in Nat, s \in 0 .. BlockSpan - 1 : n = BlockSpan * p + s
  BY BlockSpanNat, DivModExist
<1>3. m \div BlockSpan = q /\ n \div BlockSpan = p
  BY <1>1, <1>2, BlockSpanNat, DivModUnique
<1>4. p = q + 1 \/ p = q + 2
  <2>1. BlockSpan * (p - q) = (n - m) + r - s
    BY <1>1, <1>2, BlockSpanNat
  <2>2. BlockSpan * (p - q) > 0 /\ BlockSpan * (p - q) < 3 * BlockSpan
    BY <2>1, BlockSpanNat
  <2>3. p - q > 0 /\ p - q < 3
    BY <2>2, BlockSpanNat
  <2> QED BY <2>3
<1> QED BY <1>3, <1>4, BlockLater

\* A reset moves the window in time and leaves it on the block where it was.
LEMMA ResetKeepsBlock ==
  ASSUME NEW m \in Nat, block_i \in NetBlocks
  PROVE  /\ ResetMcnt(m) \in Nat
         /\ block_for_mcnt(ResetMcnt(m)) = block_i
<1> DEFINE b == block_for_mcnt(m)
           shift == IF block_i >= b THEN block_i - b ELSE block_i + NInputBlocks - b
           moved == m + BlockSpan * shift
<1>1. b \in NetBlocks
  BY BlockOfMcnt
<1>2. shift \in Nat /\ (b + shift) % NInputBlocks = block_i
  <2> HIDE DEF b
  <2>1. CASE block_i >= b
    BY <1>1, <2>1, BlocksNat DEF NetBlocks
  <2>2. CASE block_i < b
    BY <1>1, <2>2, BlocksNat DEF NetBlocks
  <2> QED BY <1>1, <2>1, <2>2 DEF NetBlocks
<1>3. moved \in Nat /\ block_for_mcnt(moved) = block_i
  <2> HIDE DEF shift
  <2>1. moved \in Nat /\ moved \div BlockSpan = (m \div BlockSpan) + shift
    BY <1>2, SpansLater
  <2> HIDE DEF moved
  <2> QED BY <1>2, <2>1, BlockLater
<1>4. ResetMcnt(m) = moved - (moved % NTimePerBlock)
  BY DEF ResetMcnt
<1> HIDE DEF moved
<1>5. ResetMcnt(m) \in Nat /\ ResetMcnt(m) \div BlockSpan = moved \div BlockSpan
  BY <1>3, <1>4, RoundingKeepsBlock, NetThreadAssumption DEF BlockSpan
<1> QED BY <1>3, <1>5, BlockOfMcnt

-----------------------------------------------------------------------------
(* Types. *)

\* The sizes the counters are compared with are numbers of the right kind.
LEMMA CountsNat ==
  /\ AntsPerPacket \in Nat
  /\ NPacketsPerBlock \in Int
  /\ NPacketsPerBlockPerF \in Nat \ {0}
  /\ UintMod \in Nat \ {0}
  /\ MaxOutOfSeq \in Nat
<1>1. NInputsPerPacket * NTimePerPacket \in Nat \ {0}
  BY NetThreadAssumption
<1>2. NTimePerBlock * 2 * Na \in Nat
  BY NetThreadAssumption
<1>3. NPacketsPerBlock \in Int
  BY <1>1, <1>2 DEF NPacketsPerBlock
<1>4. NPacketsPerBlockPerF \in Int
  <2>1. NPacketsPerBlock * NInputsPerPacket \in Int
    BY <1>3, NetThreadAssumption
  <2>2. (NPacketsPerBlock * NInputsPerPacket) \div 2 \in Int
    BY <2>1
  <2> HIDE DEF NPacketsPerBlock
  <2> QED BY <2>2, NetThreadAssumption DEF NPacketsPerBlockPerF
<1> QED
  BY <1>3, <1>4, NetThreadAssumption, PacketsPerFAssumption
  DEF AntsPerPacket, MaxOutOfSeq

\* What set_block_filled reports of the packets that never came is a number of
\* the type it is reported as, however many packets were counted.
LEMMA MissedTypes ==
  ASSUME NEW count \in Nat
  PROVE  MissedFengines(count) \in Nat /\ MissedModulo(count) \in Nat
<1>1. MissedPackets(count) \in Nat
  BY CountsNat DEF MissedPackets
<1>2. (AntsPerPacket * MissedPackets(count)) % UintMod \in Nat
  <2>1. AntsPerPacket * MissedPackets(count) \in Nat
    BY <1>1, CountsNat
  <2> QED BY <2>1, CountsNat
<1> HIDE DEF MissedPackets
<1> QED BY <1>1, <1>2, CountsNat DEF MissedFengines, MissedModulo

Headers == [good_data : {0, 1}, mcnt : Nat]

\* initialize_block makes a header.
LEMMA InitializeBlockType ==
  ASSUME NEW header \in [InputBlocks -> Headers], NEW m \in Nat
  PROVE  initialize_block(header, m) \in [InputBlocks -> Headers]
<1>1. m - (m % NTimePerBlock) \in Nat
  BY RoundingKeepsBlock, NetThreadAssumption
<1> QED BY <1>1 DEF initialize_block, Headers

\* Counting and storing a packet keeps the types.
LEMMA CountAndStoreType ==
  ASSUME NEW p, p.mcnt \in Nat,
         NEW counter \in [NetBlocks -> Nat], NEW payload \in Nat,
         in_data \in [InputBlocks -> [Parts -> Nat \union {NoMcnt}]],
         CountAndStore(counter, p, payload)
  PROVE  /\ out_of_seq_cnt' \in 0 .. MaxOutOfSeq + 1
         /\ block_packet_counter' \in [NetBlocks -> Nat]
         /\ in_data' \in [InputBlocks -> [Parts -> Nat \union {NoMcnt}]]
<1>1. out_of_seq_cnt' \in 0 .. MaxOutOfSeq + 1
  BY CountsNat DEF CountAndStore
<1>2. block_packet_counter' \in [NetBlocks -> Nat]
  BY BlockOfMcnt DEF CountAndStore
<1>3. in_data' \in [InputBlocks -> [Parts -> Nat \union {NoMcnt}]]
  BY DEF CountAndStore, StorePayload
<1> QED BY <1>1, <1>2, <1>3

\* A packet held while the thread waits is one it received, and lies between
\* one and two spans after the start of the window that slid for it.
HeldPacket ==
  net_pc = "acquire" =>
    /\ pkt \in Packets
    /\ mcnt_start + BlockSpan <= pkt.mcnt
    /\ pkt.mcnt < mcnt_start + 2 * BlockSpan

\* The net thread's blocks are blocks of the ring.
LEMMA NetBlocksInput == NetBlocks \subseteq InputBlocks
BY InputDatabufAssumption DEF NetBlocks, InputBlocks, InputBlockCount

StatusTypes == [NETMCNT : Int, NETBKOUT : NetBlocks \union {-1},
                MISSEDFE : Nat, MISSEDPK : 0 .. UintMod - 1]

\* The types hold at start.
LEMMA TypeInit == Init => TypeOK /\ HeldPacket
<1> SUFFICES ASSUME Init PROVE TypeOK /\ HeldPacket
  OBVIOUS
<1>1. 0 \in InputBlocks /\ 0 \in NetBlocks
  BY NetBlocksInput, BlocksNat DEF NetBlocks
<1>2. TypeOK
  <2>1. st \in StatusTypes
    BY CountsNat DEF Init, NetInit, NoMcnt, StatusTypes
  <2>2. /\ in_filled \subseteq InputBlocks
        /\ in_header \in [InputBlocks -> Headers]
        /\ in_data \in [InputBlocks -> [Parts -> Nat \union {NoMcnt}]]
    BY DEF Init, hdr_input_databuf_create, ZeroHeader, Headers
  <2>3. /\ out_of_seq_cnt \in 0 .. MaxOutOfSeq + 1
        /\ block_packet_counter \in [NetBlocks -> Nat]
        /\ last_filled \in NetBlocks \union {-1}
        /\ pkt \in [mcnt : Nat \union {NoMcnt}, ant : Nat]
    BY CountsNat DEF Init, NetInit
  <2> QED BY <1>1, <2>1, <2>2, <2>3 DEF Init, NetInit, TypeOK, NetPCs, StatusTypes, Headers
<1>3. HeldPacket
  BY DEF Init, NetInit, HeldPacket
<1> QED BY <1>2, <1>3

\* What a packet says is a natural number.
LEMMA PacketsNat == ASSUME NEW p \in Packets PROVE p.mcnt \in Nat /\ p.ant \in Nat
BY NetThreadAssumption DEF Packets

\* Every step of the net thread and every step of the strip thread keeps the
\* types.
LEMMA TypeStep == TypeOK /\ HeldPacket /\ [Next]_vars => TypeOK'
<1> SUFFICES ASSUME TypeOK, HeldPacket, [Next]_vars PROVE TypeOK'
  OBVIOUS
<1> USE DEF TypeOK
<1>1. CASE NetRelease /\ UNCHANGED <<iblk, reading>>
  BY <1>1 DEF NetRelease, NetPCs, inVars
<1>2. CASE NetStart /\ UNCHANGED <<iblk, reading>>
  <2>1. in_header' \in [InputBlocks -> Headers]
    BY <1>2, InitializeBlockType, BlockSpanNat DEF NetStart, Headers
  <2>2. st' \in StatusTypes
    <3>1. 0 \in 0 .. UintMod - 1
      BY CountsNat
    <3>2. st \in StatusTypes
      BY DEF StatusTypes
    <3>3. [st EXCEPT !.MISSEDFE = 0, !.MISSEDPK = 0] \in StatusTypes
      BY <3>1, <3>2 DEF StatusTypes
    <3> QED BY <1>2, <3>3 DEF NetStart
  <2> QED BY <1>2, <2>1, <2>2 DEF NetStart, NetPCs, Headers, StatusTypes
<1>3. CASE NetAcquire /\ UNCHANGED <<iblk, reading>>
  <2> DEFINE b == block_for_mcnt(pkt.mcnt)
  <2>1. pkt.mcnt \in Nat
    BY <1>3, PacketsNat DEF NetAcquire, NetAcquireFrom, HeldPacket
  <2>2. [block_packet_counter EXCEPT ![b] = 0] \in [NetBlocks -> Nat]
    OBVIOUS
  <2>3. /\ out_of_seq_cnt' \in 0 .. MaxOutOfSeq + 1
        /\ block_packet_counter' \in [NetBlocks -> Nat]
        /\ in_data' \in [InputBlocks -> [Parts -> Nat \union {NoMcnt}]]
    BY <1>3, <2>1, <2>2, CountAndStoreType DEF NetAcquire, NetAcquireFrom
  <2>4. in_header' \in [InputBlocks -> Headers]
    BY <1>3, <2>1, InitializeBlockType DEF NetAcquire, NetAcquireFrom, Headers
  <2>5. st' \in StatusTypes
    <3>1. mcnt_start - BlockSpan \in Int
      BY BlockSpanNat
    <3>2. st \in StatusTypes
      BY DEF StatusTypes
    <3>3. [st EXCEPT !.NETMCNT = mcnt_start - BlockSpan] \in StatusTypes
      BY <3>1, <3>2 DEF StatusTypes
    <3> QED BY <1>3, <3>2, <3>3 DEF NetAcquire, NetAcquireFrom, FilledMcnt
  <2> QED
    BY <1>3, <2>3, <2>4, <2>5
      DEF NetAcquire, NetAcquireFrom, NetPCs, Headers, NoMcnt, StatusTypes
<1>4. CASE NetExit /\ UNCHANGED <<iblk, reading>>
  BY <1>4 DEF NetExit, NetPCs, inVars
<1>5. ASSUME NEW p \in Packets, NetStore(p), UNCHANGED <<iblk, reading>>
      PROVE  TypeOK'
  <2>1. /\ out_of_seq_cnt' \in 0 .. MaxOutOfSeq + 1
        /\ block_packet_counter' \in [NetBlocks -> Nat]
        /\ in_data' \in [InputBlocks -> [Parts -> Nat \union {NoMcnt}]]
    BY <1>5, PacketsNat, CountAndStoreType DEF NetStore
  <2> QED BY <1>5, <2>1 DEF NetStore
<1>6. ASSUME NEW p \in Packets, NetAdvance(p), UNCHANGED <<iblk, reading>>
      PROVE  TypeOK'
  <2> DEFINE b == block_for_mcnt(mcnt_start)
             count == block_packet_counter[b]
  <2>1. b \in NetBlocks /\ b \in InputBlocks
    BY BlockOfMcnt, NetBlocksInput
  <2>2. count \in Nat
    BY <2>1
  <2>3. MissedFengines(count) \in Nat /\ MissedModulo(count) \in Nat
    BY <2>2, MissedTypes
  <2>4. set_block_filled
    BY <1>6 DEF NetAdvance
  <2>5. last_filled' \in NetBlocks
    <3>1. last_filled' = (last_filled + 1) % NInputBlocks
      BY <2>4 DEF set_block_filled
    <3>2. last_filled \in Int
      BY NetBlocksInput DEF InputBlocks, NetBlocks
    <3> QED BY <3>1, <3>2, BlocksNat DEF NetBlocks
  <2>6. in_header' \in [InputBlocks -> Headers]
    BY <2>4 DEF set_block_filled, Headers
  <2>7. in_filled' \subseteq InputBlocks
    BY <2>1, <2>4 DEF set_block_filled, hdr_input_databuf_set_filled
  <2>8. st' \in [NETMCNT : Int, NETBKOUT : NetBlocks \union {-1},
                 MISSEDFE : Nat, MISSEDPK : 0 .. UintMod - 1]
    <3>1. (st.MISSEDPK + MissedModulo(count)) % UintMod \in 0 .. UintMod - 1
      BY <2>3, CountsNat
    <3> HIDE DEF count
    <3>2. st' = [st EXCEPT !.NETBKOUT = b, !.MISSEDFE = MissedFengines(count),
                   !.MISSEDPK = (st.MISSEDPK + MissedModulo(count)) % UintMod]
      BY <2>4 DEF set_block_filled, count
    <3> QED BY <2>1, <2>3, <3>1, <3>2
  <2>9. mcnt_start' \in Nat /\ block_i' \in NetBlocks
    BY <1>6, BlockSpanNat, BlocksNat DEF NetAdvance, NetBlocks
  <2> QED
    BY <1>6, <2>5, <2>6, <2>7, <2>8, <2>9, PacketsNat
    DEF NetAdvance, NetPCs, Headers, Packets
<1>7. ASSUME NEW p \in Packets, NetLate(p), UNCHANGED <<iblk, reading>>
      PROVE  TypeOK'
  BY <1>7 DEF NetLate, netVars, inVars
<1>8. ASSUME NEW p \in Packets, NetOutOfSeq(p), UNCHANGED <<iblk, reading>>
      PROVE  TypeOK'
  BY <1>8, CountsNat DEF NetOutOfSeq, inVars
<1>9. ASSUME NEW p \in Packets, NetReset(p), UNCHANGED <<iblk, reading>>
      PROVE  TypeOK'
  <2>1. /\ ResetMcnt(p.mcnt) \in Nat
        /\ block_for_mcnt(ResetMcnt(p.mcnt)) = block_i
    BY PacketsNat, ResetKeepsBlock
  <2>2. in_header' \in [InputBlocks -> Headers]
    <3>1. ResetMcnt(p.mcnt) + BlockSpan \in Nat
      BY <2>1, BlockSpanNat
    <3> QED BY <1>9, <2>1, <3>1, InitializeBlockType DEF NetReset, Headers
  <2>3. block_packet_counter' \in [NetBlocks -> Nat]
    BY <1>9 DEF NetReset
  <2> QED BY <1>9, <2>1, <2>2, <2>3, CountsNat DEF NetReset, Headers
<1>10. CASE StripTake
  BY <1>10 DEF StripTake, inVars, netVars
<1>11. CASE StripFree
  <2>1. iblk' \in InputBlocks
    BY <1>11, InputDatabufAssumption DEF StripFree, InputBlocks, InputBlockCount
  <2> QED BY <1>11, <2>1 DEF StripFree, hdr_input_databuf_set_free, netVars
<1>12. CASE UNCHANGED vars
  BY <1>12 DEF vars, inVars, netVars
<1> QED
  BY <1>1, <1>2, <1>3, <1>4, <1>5, <1>6, <1>7, <1>8, <1>9, <1>10, <1>11, <1>12
  DEF Next, NetStep, process_packet

\* Every step keeps HeldPacket: only NetAdvance goes to wait, and with a packet of the block after next.
LEMMA HeldPacketStep == TypeOK /\ HeldPacket /\ [Next]_vars => HeldPacket'
<1> SUFFICES ASSUME TypeOK, HeldPacket, [Next]_vars PROVE HeldPacket'
  OBVIOUS
<1>1. ASSUME NEW p \in Packets, NetAdvance(p) PROVE HeldPacket'
  <2>1. p.mcnt \in Nat /\ mcnt_start \in Nat
    BY PacketsNat DEF TypeOK
  <2>2. /\ mcnt_start + 2 * BlockSpan <= p.mcnt
        /\ p.mcnt < mcnt_start + 3 * BlockSpan
    BY <1>1, <2>1, BlockSpanNat DEF NetAdvance, InBlockAfterNext, Dist
  <2> QED BY <1>1, <2>1, <2>2, BlockSpanNat DEF NetAdvance, HeldPacket
<1>2. CASE UNCHANGED <<net_pc, pkt, mcnt_start>>
  BY <1>2 DEF HeldPacket
<1>3. CASE net_pc' # "acquire"
  BY <1>3 DEF HeldPacket
<1>4. CASE StripTake \/ StripFree \/ UNCHANGED vars
  BY <1>2, <1>4 DEF StripTake, StripFree, vars, netVars
<1>5. CASE NetStep
  <2>1. CASE NetRelease \/ NetStart \/ NetAcquire \/ NetExit
    BY <1>3, <2>1 DEF NetRelease, NetStart, NetAcquire, NetAcquireFrom, NetExit
  <2>2. ASSUME NEW p \in Packets, process_packet(p) PROVE HeldPacket'
    <3>1. CASE NetAdvance(p)
      BY <1>1, <3>1
    <3>2. CASE NetStore(p) \/ NetLate(p) \/ NetOutOfSeq(p) \/ NetReset(p)
      BY <1>3, <3>2 DEF NetStore, NetLate, NetOutOfSeq, NetReset, netVars
    <3> QED BY <2>2, <3>1, <3>2 DEF process_packet
  <2> QED BY <1>5, <2>1, <2>2 DEF NetStep
<1> QED BY <1>4, <1>5 DEF Next

\* The variables of Capture have their types, for every number of blocks,
\* antennas and packets and whatever the packets carry.
THEOREM TypeCorrect == Spec => []TypeOK
<1>1. Init => TypeOK /\ HeldPacket
  BY TypeInit
<1>2. TypeOK /\ HeldPacket /\ [Next]_vars => (TypeOK /\ HeldPacket)'
  BY TypeStep, HeldPacketStep
<1> QED BY <1>1, <1>2, PTL DEF Spec

-----------------------------------------------------------------------------
(* The blocks go round the ring in order. *)

\* FillsInSequence is inductive given the types.
LEMMA FillsInSequenceStep ==
  TypeOK /\ FillsInSequence /\ [Next]_vars => FillsInSequence'
<1> SUFFICES ASSUME TypeOK, FillsInSequence, [Next]_vars PROVE FillsInSequence'
  OBVIOUS
<1>1. ASSUME NEW p \in Packets, NetAdvance(p) PROVE FillsInSequence'
  <2>1. block_for_mcnt(mcnt_start + BlockSpan) = (block_i + 1) % NInputBlocks
    BY BlockNext DEF TypeOK, FillsInSequence
  <2>2. last_filled' = block_i
    BY <1>1 DEF NetAdvance, set_block_filled, FillsInSequence
  <2> QED BY <1>1, <2>1, <2>2 DEF NetAdvance, FillsInSequence, block_for_mcnt
<1>2. ASSUME NEW p \in Packets, NetReset(p) PROVE FillsInSequence'
  <2>1. block_for_mcnt(ResetMcnt(p.mcnt)) = block_i
    BY PacketsNat, ResetKeepsBlock DEF TypeOK
  <2> QED BY <1>2, <2>1 DEF NetReset, FillsInSequence, block_for_mcnt
<1>3. CASE UNCHANGED <<block_i, mcnt_start, last_filled>>
  BY <1>3 DEF FillsInSequence, block_for_mcnt
<1>4. CASE StripTake \/ StripFree \/ UNCHANGED vars
  BY <1>3, <1>4 DEF StripTake, StripFree, vars, netVars
<1>5. CASE NetStep
  <2>1. CASE NetRelease \/ NetStart \/ NetAcquire \/ NetExit
    BY <1>3, <2>1 DEF NetRelease, NetStart, NetAcquire, NetAcquireFrom, NetExit
  <2>2. ASSUME NEW p \in Packets, process_packet(p) PROVE FillsInSequence'
    <3>1. CASE NetStore(p) \/ NetLate(p) \/ NetOutOfSeq(p)
      BY <1>3, <3>1 DEF NetStore, NetLate, NetOutOfSeq, netVars
    <3> QED BY <1>1, <1>2, <2>2, <3>1 DEF process_packet
  <2> QED BY <1>5, <2>1, <2>2 DEF NetStep
<1> QED BY <1>4, <1>5 DEF Next

\* The first block to fill is block 0.
LEMMA FillsInSequenceInit == Init => FillsInSequence
<1> SUFFICES ASSUME Init PROVE FillsInSequence
  OBVIOUS
<1>1. block_for_mcnt(0) = 0
  <2>1. 0 \div BlockSpan = 0 /\ 0 % NInputBlocks = 0
    BY BlockSpanNat, BlocksNat
  <2> QED BY <2>1, BlockOfMcnt
<1>2. (-1 + 1) % NInputBlocks = 0
  BY BlocksNat
<1> QED BY <1>1, <1>2 DEF Init, NetInit, FillsInSequence

\* The blocks are filled in ring order whatever packets come: the complaints of
\* set_block_filled are never made.
THEOREM FillSequence == Spec => []FillsInSequence
<1>1. Init => FillsInSequence
  BY FillsInSequenceInit
<1>2. TypeOK /\ FillsInSequence /\ [Next]_vars => FillsInSequence'
  BY FillsInSequenceStep
<1> QED BY <1>1, <1>2, TypeCorrect, PTL DEF Spec

\* Inductive strengthening of RingOrder: what a packet the net thread waits
\* with is for, and that the block after the current one is free while it does
\* not wait.
RingInv ==
  /\ RingOrder
  /\ net_pc = "recv" => Ahead(block_i) <= NInputBlocks - 2

\* The block the net thread waits for is one of the two after its own.
LEMMA WaitedForBlock ==
  ASSUME TypeOK, HeldPacket, FillsInSequence, net_pc = "acquire"
  PROVE  \/ block_for_mcnt(pkt.mcnt) = (block_i + 1) % NInputBlocks
         \/ block_for_mcnt(pkt.mcnt) = (block_i + 2) % NInputBlocks
<1>1. pkt.mcnt \in Nat
  BY PacketsNat DEF HeldPacket
<1> QED BY <1>1, BlockInNextTwo DEF HeldPacket, FillsInSequence, TypeOK

\* Two steps round the ring.
LEMMA ModTwo ==
  ASSUME NEW i \in NetBlocks
  PROVE  (i + 2) % NInputBlocks
           = IF i + 2 < NInputBlocks THEN i + 2 ELSE i + 2 - NInputBlocks
BY BlocksNat DEF NetBlocks

\* One step round the ring.
LEMMA ModOne ==
  ASSUME NEW i \in NetBlocks
  PROVE  (i + 1) % NInputBlocks = IF i + 1 = NInputBlocks THEN 0 ELSE i + 1
BY BlocksNat DEF NetBlocks

\* A step that moves neither thread round the ring and starts nothing keeps the
\* order.
LEMMA RingUnmoved ==
  ASSUME RingInv, UNCHANGED <<in_filled, block_i, iblk, reading>>,
         net_pc' \in {"hold", "start"} => net_pc \in {"hold", "start"},
         net_pc' = "recv" => Ahead(block_i) <= NInputBlocks - 2
  PROVE  RingInv'
BY DEF RingInv, RingOrder, Ahead

\* At start every block is free.
LEMMA RingInit == Init => RingInv
<1> SUFFICES ASSUME Init PROVE RingInv
  OBVIOUS
<1>1. ASSUME NEW b \in NetBlocks PROVE ~(Ahead(b) < Ahead(block_i))
  BY BlocksNat DEF Init, NetInit, Ahead, NetBlocks
<1> QED BY <1>1 DEF Init, NetInit, hdr_input_databuf_create, RingInv, RingOrder

\* The strip thread walks n_block blocks and the net thread N_INPUT_BLOCKS: the
\* two are one number in a build without debug blocks.
LEMMA RingStep ==
  ASSUME NDebugInputBlocks = 0
  PROVE  TypeOK /\ HeldPacket /\ FillsInSequence /\ RingInv /\ [Next]_vars => RingInv'
<1> SUFFICES ASSUME TypeOK, HeldPacket, FillsInSequence, RingInv, [Next]_vars
             PROVE  RingInv'
  OBVIOUS
<1>1. InputBlockCount = NInputBlocks /\ InputBlocks = NetBlocks
  BY InputDatabufAssumption DEF InputBlockCount, InputBlocks, NetBlocks
<1>2. block_i \in NetBlocks /\ iblk \in NetBlocks /\ in_filled \subseteq NetBlocks
  BY <1>1 DEF TypeOK
<1>3. CASE (NetRelease \/ NetExit) /\ UNCHANGED <<iblk, reading>>
  BY <1>3, RingUnmoved DEF NetRelease, NetExit, inVars
<1>4. CASE NetStart /\ UNCHANGED <<iblk, reading>>
  <2>1. Ahead(block_i) <= NInputBlocks - 2
    BY <1>2, <1>4, BlocksNat DEF NetStart, RingInv, RingOrder, Ahead, NetBlocks
  <2> QED BY <1>4, <2>1, RingUnmoved DEF NetStart
<1>5. CASE NetAcquire /\ UNCHANGED <<iblk, reading>>
  <2> DEFINE b == block_for_mcnt(pkt.mcnt)
  <2>1. b \notin in_filled
    BY <1>5 DEF NetAcquire, NetAcquireFrom, hdr_input_databuf_wait_free
  <2>2. b = (block_i + 1) % NInputBlocks \/ b = (block_i + 2) % NInputBlocks
    BY <1>5, WaitedForBlock DEF NetAcquire, NetAcquireFrom
  <2>3. Ahead(block_i) <= NInputBlocks - 2
    <3> HIDE DEF b
    <3> SUFFICES ASSUME Ahead(block_i) > NInputBlocks - 2 PROVE FALSE
      BY <1>2, BlocksNat DEF Ahead, NetBlocks
    <3>1. b \in NetBlocks /\ Ahead(b) < Ahead(block_i)
      BY <1>2, <2>2, ModOne, ModTwo, BlocksNat DEF Ahead, NetBlocks
    <3> QED BY <2>1, <3>1 DEF RingInv, RingOrder
  <2> QED BY <1>5, <2>3, RingUnmoved DEF NetAcquire, NetAcquireFrom
<1>6. ASSUME NEW p \in Packets, NetAdvance(p), UNCHANGED <<iblk, reading>>
      PROVE  RingInv'
  <2>1. in_filled' = in_filled \union {block_i}
    BY <1>6 DEF NetAdvance, set_block_filled, hdr_input_databuf_set_filled, FillsInSequence
  <2>2. Ahead(block_i) <= NInputBlocks - 2
    BY <1>6 DEF NetAdvance, RingInv
  <2>3. block_i' = (block_i + 1) % NInputBlocks
    BY <1>6 DEF NetAdvance
  <2>4. Ahead(block_i)' = Ahead(block_i) + 1
    BY <1>2, <1>6, <2>2, <2>3, ModOne, BlocksNat DEF Ahead, NetBlocks
  <2>5. ASSUME NEW c \in NetBlocks
        PROVE  c \in in_filled' <=> Ahead(c)' < Ahead(block_i)'
    <3>1. Ahead(c)' = Ahead(c)
      BY <1>6 DEF Ahead
    <3>2. Ahead(c) = Ahead(block_i) <=> c = block_i
      BY <1>2, BlocksNat DEF Ahead, NetBlocks
    <3>3. c \in in_filled <=> Ahead(c) < Ahead(block_i)
      BY DEF RingInv, RingOrder
    <3>4. Ahead(c) \in Int /\ Ahead(block_i) \in Int
      BY <1>2, BlocksNat DEF Ahead, NetBlocks
    <3> QED BY <2>1, <2>4, <3>1, <3>2, <3>3, <3>4
  <2>6. block_i' # iblk'
    BY <1>2, <1>6, <2>2, <2>3, ModOne, BlocksNat DEF Ahead, NetBlocks
  <2> QED BY <1>6, <2>5, <2>6 DEF NetAdvance, RingInv, RingOrder
<1>7. ASSUME NEW p \in Packets,
             NetStore(p) \/ NetLate(p) \/ NetOutOfSeq(p) \/ NetReset(p),
             UNCHANGED <<iblk, reading>>
      PROVE  RingInv'
  <2>1. UNCHANGED <<in_filled, net_pc>>
    BY <1>7 DEF NetStore, NetLate, NetOutOfSeq, NetReset, netVars, inVars
  <2>2. block_i' = block_i
    BY <1>2, <1>7, PacketsNat, ResetKeepsBlock
    DEF NetStore, NetLate, NetOutOfSeq, NetReset, netVars
  <2> QED BY <1>7, <2>1, <2>2, RingUnmoved DEF RingInv
<1>8. CASE StripTake
  <2>1. block_i # iblk
    BY <1>2, <1>8, BlocksNat
    DEF StripTake, hdr_input_databuf_wait_filled, RingInv, RingOrder, Ahead, NetBlocks
  <2> QED BY <1>8, <2>1 DEF StripTake, inVars, netVars, RingInv, RingOrder, Ahead
<1>9. CASE StripFree
  <2>1. in_filled' = in_filled \ {iblk} /\ UNCHANGED <<block_i, net_pc>>
    BY <1>9 DEF StripFree, hdr_input_databuf_set_free, netVars
  <2>2. iblk' = IF iblk + 1 = NInputBlocks THEN 0 ELSE iblk + 1
    BY <1>1, <1>2, <1>9, ModOne DEF StripFree
  <2>3. block_i # iblk
    BY <1>9 DEF StripFree, RingInv, RingOrder
  <2>4. Ahead(block_i)' = Ahead(block_i) - 1
    BY <1>2, <2>1, <2>2, <2>3, BlocksNat DEF Ahead, NetBlocks
  <2>5. ASSUME NEW c \in NetBlocks
        PROVE  c \in in_filled' <=> Ahead(c)' < Ahead(block_i)'
    <3>1. Ahead(c)' = IF c = iblk THEN NInputBlocks - 1 ELSE Ahead(c) - 1
      BY <1>2, <2>2, BlocksNat DEF Ahead, NetBlocks
    <3>2. c \in in_filled <=> Ahead(c) < Ahead(block_i)
      BY DEF RingInv, RingOrder
    <3>3. /\ Ahead(c) \in Int
          /\ Ahead(block_i) \in Int
          /\ Ahead(block_i) <= NInputBlocks - 1
      BY <1>2, BlocksNat DEF Ahead, NetBlocks
    <3> QED BY <2>1, <2>4, <3>1, <3>2, <3>3, BlocksNat
  <2>6. net_pc \notin {"hold", "start"}
    BY <2>3 DEF RingInv, RingOrder
  <2>7. net_pc = "recv" => Ahead(block_i)' <= NInputBlocks - 2
    <3>1. Ahead(block_i) \in Int
      BY <1>2, BlocksNat DEF Ahead, NetBlocks
    <3> QED BY <2>4, <3>1, BlocksNat DEF RingInv
  <2> QED BY <1>9, <2>1, <2>5, <2>6, <2>7 DEF StripFree, RingInv, RingOrder
<1>10. CASE UNCHANGED vars
  BY <1>10, RingUnmoved DEF vars, inVars, netVars, RingInv
<1> QED
  BY <1>3, <1>4, <1>5, <1>6, <1>7, <1>8, <1>9, <1>10
  DEF Next, NetStep, process_packet

\* The conjunction is inductive, and with it every invariant below follows.
LEMMA RingInvariant ==
  ASSUME NDebugInputBlocks = 0
  PROVE  Spec => [](TypeOK /\ HeldPacket /\ FillsInSequence /\ RingInv)
<1>1. Init => TypeOK /\ HeldPacket /\ FillsInSequence /\ RingInv
  BY TypeInit, FillsInSequenceInit, RingInit
<1>2. TypeOK /\ HeldPacket /\ FillsInSequence /\ RingInv /\ [Next]_vars
        => (TypeOK /\ HeldPacket /\ FillsInSequence /\ RingInv)'
  BY TypeStep, HeldPacketStep, FillsInSequenceStep, RingStep
<1> QED BY <1>1, <1>2, PTL DEF Spec

\* The filled blocks are those between the two threads' blocks.
THEOREM RingInOrder ==
  ASSUME NDebugInputBlocks = 0
  PROVE  Spec => []RingOrder
<1>1. RingInv => RingOrder
  BY DEF RingInv
<1> QED BY <1>1, RingInvariant, PTL

\* The blocks the net thread holds are free, so that no block handed over is
\* filled a second time before it is freed.
THEOREM HeldBlocksFree ==
  ASSUME NDebugInputBlocks = 0
  PROVE  Spec => []HeldBlocksNotFilled
<1>1. TypeOK /\ RingInv => HeldBlocksNotFilled
  <2> SUFFICES ASSUME TypeOK, RingInv PROVE HeldBlocksNotFilled
    OBVIOUS
  <2>1. block_i \in NetBlocks /\ iblk \in NetBlocks
    BY InputDatabufAssumption DEF TypeOK, InputBlocks, InputBlockCount, NetBlocks
  <2>2. block_i \notin in_filled
    BY <2>1, BlocksNat DEF RingInv, RingOrder, Ahead, NetBlocks
  <2>3. ASSUME net_pc = "recv" PROVE NextBlock \notin in_filled
    <3>1. NextBlock \in NetBlocks /\ ~(Ahead(NextBlock) < Ahead(block_i))
      BY <2>1, <2>3, ModOne, BlocksNat DEF RingInv, Ahead, NetBlocks, NextBlock
    <3> QED BY <3>1 DEF RingInv, RingOrder
  <2> QED BY <2>2, <2>3 DEF HeldBlocksNotFilled
<1> QED BY <1>1, RingInvariant, PTL

\* The two threads never wait for each other.
THEOREM CircularWaitFree ==
  ASSUME NDebugInputBlocks = 0
  PROVE  Spec => []NoCircularWait
<1>1. TypeOK /\ HeldPacket /\ RingInv => NoCircularWait
  <2> SUFFICES ASSUME TypeOK, RingInv,
                      block_for_mcnt(pkt.mcnt) \in in_filled
               PROVE  iblk \in in_filled
    BY DEF NoCircularWait
  <2>1. /\ block_i \in NetBlocks /\ iblk \in NetBlocks
        /\ block_for_mcnt(pkt.mcnt) \in NetBlocks
    <3>1. InputBlocks = NetBlocks
      BY InputDatabufAssumption DEF InputBlocks, InputBlockCount, NetBlocks
    <3> QED BY <3>1 DEF TypeOK
  <2>2. Ahead(block_for_mcnt(pkt.mcnt)) < Ahead(block_i)
    BY <2>1 DEF RingInv, RingOrder
  <2>3. Ahead(iblk) < Ahead(block_i)
    BY <2>1, <2>2, BlocksNat DEF Ahead, NetBlocks
  <2> QED BY <2>1, <2>3 DEF RingInv, RingOrder
<1> QED BY <1>1, RingInvariant, PTL
=============================================================================
