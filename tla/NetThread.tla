----------------------------- MODULE NetThread ------------------------------
(***************************************************************************)
(* hera_pktsock_thread: takes F-engine packets off a packet socket and     *)
(* assembles them into the blocks of the input databuf.  The thread keeps  *)
(* a window of blocks, starting at mcnt_start; it holds the first two and  *)
(* waits for the third when a packet for it arrives.  Packets come from    *)
(* UDP: any packet may arrive at any time, early, late, twice or never.    *)
(***************************************************************************)
EXTENDS InputDatabuf

CONSTANTS
  TimeDemux,        \* TIME_DEMUX, X engines taking alternate chunks of time
  NTimePerBlock,    \* N_TIME_PER_BLOCK
  NTimePerPacket,   \* N_TIME_PER_PACKET
  NInputsPerPacket, \* N_INPUTS_PER_PACKET, two per antenna
  Na,               \* Na = N_ANTS = N_FENGINES
  UintMod,          \* 2^32, the range of uint32_t
  PktMcnts,         \* the mcnts a packet header may carry
  PktAnts,          \* the antenna ids a packet header may carry
  MaxCount          \* bound: packets counted for a block before it is handed on

\* First antenna of a packet: the F engines send antennas in groups.
AntsPerPacket == NInputsPerPacket \div 2

VARIABLES
  net_pc,               \* where the thread is: see NetPCs
  mcnt_start,           \* binfo.mcnt_start, first mcnt of the window
  block_i,              \* binfo.block_i, block of mcnt_start
  out_of_seq_cnt,       \* binfo.out_of_seq_cnt
  block_packet_counter, \* binfo.block_packet_counter
  last_filled,          \* the static last_filled of set_block_filled
  pkt,                  \* the packet the thread holds while it waits for a block
  st                    \* the status buffer keys the thread reports through

netVars == <<net_pc, mcnt_start, block_i, out_of_seq_cnt,
             block_packet_counter, last_filled, pkt, st>>

\* hold: until NETHOLD is 0; start: acquiring blocks 0 and 1; recv: at the
\* head of the main loop; acquire: in busywait_free inside process_packet.
NetPCs == {"hold", "start", "recv", "acquire", "exited"}

NoMcnt == -1

BlockSpan == NTimePerBlock * TimeDemux

Nm == NTimePerBlock \div NTimePerPacket

\* Where the payload of one packet goes within a block.
Slots == (0 .. Nm - 1) \X {a \in 0 .. Na - 1 : a % AntsPerPacket = 0}

ASSUME NetThreadAssumption ==
  /\ NInputBlocks >= 3        \* the window touches three blocks
  /\ TimeDemux \in Nat \ {0}
  /\ NTimePerBlock \in Nat \ {0}
  /\ NTimePerPacket \in Nat \ {0}
  /\ NInputsPerPacket \in Nat /\ NInputsPerPacket >= 2
  /\ Na \in Nat \ {0}
  /\ UintMod \in Nat \ {0}
  /\ PktMcnts \subseteq Nat
  /\ PktAnts \subseteq {a \in Nat : a % AntsPerPacket = 0}
  /\ MaxCount \in Nat \ {0}
  /\ Parts = Slots

NPacketsPerBlock == (NTimePerBlock * 2 * Na) \div (NInputsPerPacket * NTimePerPacket)

NPacketsPerBlockPerF == ((NPacketsPerBlock * NInputsPerPacket) \div 2) \div Na

\* The C code divides by it.
ASSUME PacketsPerFAssumption == NPacketsPerBlockPerF > 0

MaxOutOfSeq == 2 * Na

\* Mutant: a packet a block late is out of sequence.
LatePktMcntThresholdBlock == TimeDemux * NTimePerBlock

LatePktMcntThreshold == 2 * TimeDemux * NTimePerBlock * NInputBlocks

Packets == [mcnt : PktMcnts, ant : PktAnts]

\* Mutant: forgets that the X engines share the time.
block_for_mcnt_no_demux(mcnt) == (mcnt \div NTimePerBlock) % NInputBlocks

\* The physical block for an mcnt.
block_for_mcnt(mcnt) ==
  ((mcnt \div TimeDemux) \div NTimePerBlock) % NInputBlocks

MIndex(mcnt) == ((mcnt \div TimeDemux) % NTimePerBlock) \div NTimePerPacket

\* Signed distance of a packet from the start of the window.
Dist(p) == p.mcnt - mcnt_start

\* Mutant: the first packet of the block after next is stored without a wait.
InCurrentOrNextOffByOne(p) == 0 <= Dist(p) /\ Dist(p) <= 2 * BlockSpan

InCurrentOrNext(p) == 0 <= Dist(p) /\ Dist(p) < 2 * BlockSpan

InBlockAfterNext(p) == 2 * BlockSpan <= Dist(p) /\ Dist(p) < 3 * BlockSpan

\* Mutant: however late a packet is, it is only late.
IsLateForEver(p) == Dist(p) < 0

IsLate(p) == Dist(p) < 0 /\ Dist(p) > -LatePktMcntThreshold

IsOutOfSeq(p) == ~InCurrentOrNext(p) /\ ~InBlockAfterNext(p) /\ ~IsLate(p)

-----------------------------------------------------------------------------
\* Mutant: the block keeps its old mcnt.
initialize_block_stale(header, mcnt) ==
  [header EXCEPT ![block_for_mcnt(mcnt)].good_data = 0]

\* header with the block of mcnt recycled for new data.
initialize_block(header, mcnt) ==
  [header EXCEPT ![block_for_mcnt(mcnt)] =
     [good_data |-> 0, mcnt |-> mcnt - (mcnt % NTimePerBlock)]]

\* Packets of a block that never came, in uint32_t arithmetic.
MissedPackets(count) == (NPacketsPerBlock - count) % UintMod

MissedFengines(count) ==
  ((AntsPerPacket * MissedPackets(count)) % UintMod) \div NPacketsPerBlockPerF

MissedModulo(count) == MissedPackets(count) % NPacketsPerBlockPerF

\* Hand the current block to the strip thread.
set_block_filled ==
  LET b     == block_for_mcnt(mcnt_start)
      count == block_packet_counter[b]
  IN  /\ last_filled' = (last_filled + 1) % NInputBlocks
      /\ in_header' = IF count = NPacketsPerBlock
                      THEN [in_header EXCEPT ![b].good_data = 1]
                      ELSE in_header
      /\ hdr_input_databuf_set_filled(b)
      /\ st' = [st EXCEPT !.NETBKOUT = b,
                          !.MISSEDFE = MissedFengines(count),
                          !.MISSEDPK = (@ + MissedModulo(count)) % UintMod]

ValidAntenna(p) == p.ant < Na

\* data with a payload stored where the header p says, unless
\* calc_block_indexes rejects p.  A payload is known by the mcnt it was sent with.
StorePayload(data, p, payload) ==
  IF ValidAntenna(p)
  THEN [data EXCEPT ![block_for_mcnt(p.mcnt)][<<MIndex(p.mcnt), p.ant>>] = payload]
  ELSE data

\* The part of process_packet that counts and stores a packet of the window;
\* the packet is counted before its antenna is looked at.
CountAndStore(counter, p, payload) ==
  /\ out_of_seq_cnt' = 0
  /\ block_packet_counter' = [counter EXCEPT ![block_for_mcnt(p.mcnt)] = @ + 1]
  /\ in_data' = StorePayload(in_data, p, payload)
-----------------------------------------------------------------------------
NetInit ==
  /\ net_pc = "hold"
  /\ mcnt_start = 0
  /\ block_i = 0
  /\ out_of_seq_cnt = 0
  /\ block_packet_counter = [b \in NetBlocks |-> 0]
  /\ last_filled = -1
  /\ pkt = [mcnt |-> NoMcnt, ant |-> 0]
  /\ st = [NETMCNT |-> NoMcnt, NETBKOUT |-> NoMcnt, MISSEDFE |-> 0, MISSEDPK |-> 0]

\* Someone sets NETHOLD to 0; the thread sees it and deletes the key.
NetRelease ==
  /\ net_pc = "hold"
  /\ net_pc' = "start"
  /\ UNCHANGED <<mcnt_start, block_i, out_of_seq_cnt, block_packet_counter,
                 last_filled, pkt, st, inVars>>

\* Acquire and initialise the first two blocks, drop the packets received so
\* far and enter the main loop.
NetStart ==
  /\ net_pc = "start"
  /\ hdr_input_databuf_wait_free(0)
  /\ hdr_input_databuf_wait_free(1)
  /\ in_header' = initialize_block(initialize_block(in_header, 0), BlockSpan)
  /\ st' = [st EXCEPT !.MISSEDFE = 0, !.MISSEDPK = 0]
  /\ net_pc' = "recv"
  /\ UNCHANGED <<mcnt_start, block_i, out_of_seq_cnt, block_packet_counter,
                 last_filled, pkt, in_filled, in_data>>

\* A packet for the current block or the next one.
NetStore(p) ==
  /\ net_pc = "recv"
  /\ InCurrentOrNext(p)
  /\ block_packet_counter[block_for_mcnt(p.mcnt)] < MaxCount
  /\ CountAndStore(block_packet_counter, p, p.mcnt)
  /\ UNCHANGED <<net_pc, mcnt_start, block_i, last_filled, pkt, st,
                 in_filled, in_header>>

\* A packet for the block after the next: hand the current block on, slide
\* the window by a block and go and wait for the packet's block.
NetAdvance(p) ==
  /\ net_pc = "recv"
  /\ InBlockAfterNext(p)
  /\ set_block_filled
  /\ mcnt_start' = mcnt_start + BlockSpan
  /\ block_i' = (block_i + 1) % NInputBlocks
  /\ pkt' = p
  /\ net_pc' = "acquire"
  /\ UNCHANGED <<out_of_seq_cnt, block_packet_counter, in_data>>

\* Mutant: the mcnt after the window slid.
FilledMcntTooLate == mcnt_start

\* What set_block_filled returned before the window slid by a block.
FilledMcnt == mcnt_start - BlockSpan

\* busywait_free returns: initialise the packet's block and store the packet.
\* The header was taken before the wait, the payload is copied after it, from
\* what the frame then holds.  The mcnt of the block filled before is reported
\* when the packet is valid.
NetAcquireFrom(payload) ==
  LET b == block_for_mcnt(pkt.mcnt)
  IN  /\ net_pc = "acquire"
      /\ hdr_input_databuf_wait_free(b)
      /\ in_header' = initialize_block(in_header, pkt.mcnt)
      /\ CountAndStore([block_packet_counter EXCEPT ![b] = 0], pkt, payload)
      /\ st' = IF ValidAntenna(pkt)
               THEN [st EXCEPT !.NETMCNT = FilledMcnt]
               ELSE st
      /\ pkt' = [mcnt |-> NoMcnt, ant |-> 0]
      /\ net_pc' = "recv"
      /\ UNCHANGED <<mcnt_start, block_i, last_filled, in_filled>>

\* The frame still holds the packet that was waiting.
NetAcquire == NetAcquireFrom(pkt.mcnt)

\* A late packet is ignored, whatever it carries.
NetLate(p) ==
  /\ net_pc = "recv"
  /\ IsLate(p)
  /\ UNCHANGED <<netVars, inVars>>

\* Mutant: one packet more is tolerated than the limit says.
NetOutOfSeqOneMore(p) ==
  /\ net_pc = "recv"
  /\ IsOutOfSeq(p)
  /\ out_of_seq_cnt <= MaxOutOfSeq
  /\ out_of_seq_cnt' = out_of_seq_cnt + 1
  /\ UNCHANGED <<net_pc, mcnt_start, block_i, block_packet_counter,
                 last_filled, pkt, st, inVars>>

\* An out-of-sequence packet is only counted, until there are too many.
NetOutOfSeq(p) ==
  /\ net_pc = "recv"
  /\ IsOutOfSeq(p)
  /\ out_of_seq_cnt < MaxOutOfSeq
  /\ out_of_seq_cnt' = out_of_seq_cnt + 1
  /\ UNCHANGED <<net_pc, mcnt_start, block_i, block_packet_counter,
                 last_filled, pkt, st, inVars>>

\* Mutant: the window goes to wherever the packet's block is in the ring.
ResetMcntUnshifted(mcnt) == mcnt - (mcnt % NTimePerBlock)

\* The mcnt_start a reset caused by a packet of that mcnt gives: the packet's
\* mcnt moved to the ring position of the current block, then rounded down.
ResetMcnt(mcnt) ==
  LET b     == block_for_mcnt(mcnt)
      shift == IF block_i >= b THEN block_i - b ELSE block_i + NInputBlocks - b
      moved == mcnt + BlockSpan * shift
  IN  moved - (moved % NTimePerBlock)

\* One out-of-sequence packet too many: follow the packets to where they now
\* are, and recycle the two blocks already acquired.  The counter keeps growing
\* until a packet of the window comes; every value over the limit is the same.
NetReset(p) ==
  /\ net_pc = "recv"
  /\ IsOutOfSeq(p)
  /\ out_of_seq_cnt >= MaxOutOfSeq
  /\ out_of_seq_cnt' = MaxOutOfSeq + 1
  /\ mcnt_start' = ResetMcnt(p.mcnt)
  /\ block_i' = block_for_mcnt(ResetMcnt(p.mcnt))
  /\ in_header' = initialize_block(initialize_block(in_header, ResetMcnt(p.mcnt)),
                                   ResetMcnt(p.mcnt) + BlockSpan)
  /\ block_packet_counter' =
       [block_packet_counter EXCEPT ![block_i'] = 0,
                                    ![(block_i' + 1) % NInputBlocks] = 0]
  /\ UNCHANGED <<net_pc, last_filled, pkt, st, in_filled, in_data>>

\* The thread exits: run_threads() says so at the head of the main loop, or a
\* wait for a free block fails.
NetExit ==
  /\ net_pc \in {"start", "recv", "acquire"}
  /\ net_pc' = "exited"
  /\ UNCHANGED <<mcnt_start, block_i, out_of_seq_cnt, block_packet_counter,
                 last_filled, pkt, st, inVars>>

process_packet(p) ==
  NetStore(p) \/ NetAdvance(p) \/ NetLate(p) \/ NetOutOfSeq(p) \/ NetReset(p)
=============================================================================
