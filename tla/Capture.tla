------------------------------ MODULE Capture -------------------------------
(***************************************************************************)
(* The net thread and the reading side of the strip thread on the input    *)
(* databuf.  The two run concurrently; the strip thread takes its blocks   *)
(* in ring order, and between taking a block and freeing it reads it.      *)
(***************************************************************************)
EXTENDS NetThread, FiniteSets

VARIABLES
  iblk,     \* the strip thread's block index
  reading   \* whether the strip thread is reading block iblk

vars == <<inVars, netVars, iblk, reading>>

\* Before any packet every block is free and shared memory is all zeros.
Init ==
  /\ hdr_input_databuf_create(NoMcnt)
  /\ NetInit
  /\ iblk = 0
  /\ reading = FALSE

\* The strip thread finds its next block filled and starts on it.
StripTake ==
  /\ ~reading
  /\ hdr_input_databuf_wait_filled(iblk)
  /\ reading' = TRUE
  /\ UNCHANGED <<iblk, inVars, netVars>>

\* Mutant: the block index runs off the end of the ring.
StripFreeNoWrap ==
  /\ reading
  /\ hdr_input_databuf_set_free(iblk)
  /\ iblk' = iblk + 1
  /\ reading' = FALSE
  /\ UNCHANGED <<in_header, in_data, netVars>>

\* It is done with the block and gives it back.
StripFree ==
  /\ reading
  /\ hdr_input_databuf_set_free(iblk)
  /\ iblk' = (iblk + 1) % InputBlockCount
  /\ reading' = FALSE
  /\ UNCHANGED <<in_header, in_data, netVars>>

NetStep ==
  /\ \/ NetRelease \/ NetStart \/ NetAcquire \/ NetExit
     \/ \E p \in Packets : process_packet(p)
  /\ UNCHANGED <<iblk, reading>>

Next == NetStep \/ StripTake \/ StripFree

Spec == Init /\ [][Next]_vars

\* The operating system runs both threads: a spinning busywait_free ends once
\* its block is free, and the strip thread never stays in a step for ever.
LiveSpec ==
  /\ Spec
  /\ WF_vars(NetAcquire /\ UNCHANGED <<iblk, reading>>)
  /\ WF_vars(StripTake)
  /\ WF_vars(StripFree)
-----------------------------------------------------------------------------
\* The types of the variables.
TypeOK ==
  /\ in_filled \subseteq InputBlocks
  /\ in_header \in [InputBlocks -> [good_data : {0, 1}, mcnt : Nat]]
  /\ in_data \in [InputBlocks -> [Parts -> Nat \union {NoMcnt}]]
  /\ net_pc \in NetPCs
  /\ mcnt_start \in Nat
  /\ block_i \in NetBlocks
  /\ out_of_seq_cnt \in 0 .. MaxOutOfSeq + 1
  /\ block_packet_counter \in [NetBlocks -> Nat]
  /\ last_filled \in NetBlocks \union {-1}
  /\ pkt \in [mcnt : Nat \union {NoMcnt}, ant : Nat]
  /\ st \in [NETMCNT : Int, NETBKOUT : NetBlocks \union {-1},
             MISSEDFE : Nat, MISSEDPK : 0 .. UintMod - 1]
  /\ iblk \in InputBlocks
  /\ reading \in BOOLEAN

\* set_block_filled "validates that we're filling blocks in the proper
\* sequence" and that binfo's block is the block of binfo's mcnt: neither of
\* its two complaints is ever made, however many resets there were.
FillsInSequence ==
  /\ block_i = block_for_mcnt(mcnt_start)
  /\ (last_filled + 1) % NInputBlocks = block_i

NextBlock == (block_i + 1) % NInputBlocks

\* How far ahead of the strip thread's block b is, going round the ring.
Ahead(b) == IF b >= iblk THEN b - iblk ELSE b + NInputBlocks - iblk

\* The filled blocks are exactly those from the strip thread's to the one
\* before the net thread's, whatever packets and resets there were: the two
\* threads, which never tell each other where they are, agree on the order in
\* which blocks go round.
RingOrder ==
  /\ \A b \in NetBlocks : b \in in_filled <=> Ahead(b) < Ahead(block_i)
  /\ net_pc \in {"hold", "start"} => block_i = iblk
  /\ reading => block_i # iblk

\* The two blocks the net thread holds are free whenever it takes a packet, so
\* set_filled never lands on a block the strip thread has not freed: no block
\* handed over is lost, even after resets and skipped blocks.
HeldBlocksNotFilled ==
  /\ block_i \notin in_filled
  /\ net_pc = "recv" => NextBlock \notin in_filled

\* The net thread spinning in busywait_free and the strip thread waiting for a
\* filled block are never both waiting for each other.
NoCircularWait ==
  net_pc = "acquire" /\ block_for_mcnt(pkt.mcnt) \in in_filled =>
    reading \/ iblk \in in_filled

\* The window starts at the first mcnt of a block, as it does until a reset.
BlockAligned == mcnt_start % BlockSpan = 0

\* While the window is block aligned a block that was handed over keeps its
\* header and data until the strip thread has freed it: what is read is never
\* written at the same time.
FilledStableWhenAligned ==
  [][BlockAligned =>
       \A b \in in_filled : in_header'[b] = in_header[b] /\ in_data'[b] = in_data[b]]_vars

\* While the window is block aligned the headers of the two held blocks name
\* mcnts of the two blocks of time the window starts with, so that the strip
\* thread is told which stretch of time it gets.
HeadersMatchWindowWhenAligned ==
  net_pc = "recv" /\ BlockAligned =>
    /\ in_header[block_i].mcnt \div BlockSpan = mcnt_start \div BlockSpan
    /\ in_header[NextBlock].mcnt \div BlockSpan = (mcnt_start \div BlockSpan) + 1

\* NETMCNT and NETBKOUT are the mcnt and the index of one and the same block.
KeysAgree ==
  st.NETBKOUT # NoMcnt =>
    st.NETMCNT >= 0 /\ block_for_mcnt(st.NETMCNT) = st.NETBKOUT

\* NETMCNT and NETBKOUT, written by different functions, name one block, the last
\* one filled.  They come apart only when the packet that had a block filled is
\* then rejected for its antenna, and the next packet that fills a block and is
\* not rejected brings them together, wherever resets put the window meanwhile.
StatusKeysPartOnlyOnReject ==
  [][net_pc' = "recv" /\ ~KeysAgree' =>
       \/ net_pc = "recv" /\ ~KeysAgree
       \/ net_pc = "acquire" /\ ~ValidAntenna(pkt)]_vars

\* The headers the strip thread finds, in the order it finds them.
InputQueue ==
  INSTANCE BlockQueue WITH
    Capacity <- NInputBlocks - 1,
    queue <- [k \in 1 .. Cardinality(in_filled) |->
                in_header[(iblk + k - 1) % InputBlockCount]],
    taken <- reading

\* The input databuf is a queue of block headers: each block the net thread
\* fills is taken once, in order, with the header it was handed over with.
ImplementsBlockQueue == InputQueue!Spec

\* The wait for the block after next ends as long as the strip thread runs.
AcquireEnds == net_pc = "acquire" ~> net_pc \in {"recv", "exited"}
-----------------------------------------------------------------------------
(* Statements of the comments that the code does not keep. *)

\* "acquire the block after next (i.e. the block that gets the current
\* packet)": a packet is only copied to a block that was waited for, so the
\* data of a block that is still filled never changes.
FilledDataNeverWritten ==
  [][\A b \in in_filled : in_data'[b] = in_data[b]]_vars

\* "If all packets are accounted for, mark this block as good": every slot of
\* a block handed over as good holds a packet of the block's own time span.
GoodBlocksComplete ==
  \A b \in in_filled : in_header[b].good_data = 1 =>
    \A s \in Slots : in_data[b][s] \div BlockSpan = in_header[b].mcnt \div BlockSpan

\* "If we missed more than N_PACKETS_PER_BLOCK_PER_F, then assume we are
\* missing one or more F engines": MISSEDFE is not 0 unless as many packets of
\* the block that was just handed over are missing as one F engine sends.
MissedFenginesExplained ==
  net_pc = "acquire" /\ st.MISSEDFE > 0 =>
    NPacketsPerBlock - block_packet_counter[st.NETBKOUT] >= NPacketsPerBlockPerF
=============================================================================
