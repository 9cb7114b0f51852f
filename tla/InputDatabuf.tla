---------------------------- MODULE InputDatabuf ----------------------------
(***************************************************************************)
(* The shared-memory ring between the net thread and the strip thread      *)
(* (hdr_input_databuf_t).  hashpipe keeps one semaphore per block, 0 when   *)
(* the block is free and 1 when it is filled.  The waits of the threads    *)
(* only observe a semaphore and set_free/set_filled only assign it, so who *)
(* may touch a block between the two is a convention of the threads and    *)
(* nothing here enforces it.                                               *)
(***************************************************************************)
EXTENDS Integers

CONSTANTS
  NInputBlocks,       \* N_INPUT_BLOCKS, the blocks the net thread cycles through
  NDebugInputBlocks,  \* N_DEBUG_INPUT_BLOCKS, extra blocks of a debug build
  Parts               \* the pieces the data field of a block is made of

ASSUME InputDatabufAssumption ==
  /\ NInputBlocks \in Nat /\ NInputBlocks >= 2
  /\ NDebugInputBlocks \in Nat
  /\ Parts # {}

VARIABLES
  in_filled,          \* the blocks whose semaphore is 1
  in_header,          \* per block, what hdr_input_header_t holds
  in_data             \* per block, what the data field holds

inVars == <<in_filled, in_header, in_data>>

\* Mutant: one block too many.
InputBlockCountOffByOne == NInputBlocks + NDebugInputBlocks + 1

\* The n_block hdr_input_databuf_create passes to hashpipe.
InputBlockCount == NInputBlocks + NDebugInputBlocks

InputBlocks == 0 .. InputBlockCount - 1

\* The blocks the net thread's index arithmetic reaches.
NetBlocks == 0 .. NInputBlocks - 1

ZeroHeader == [good_data |-> 0, mcnt |-> 0]

\* A new databuf: zeros everywhere, of which every part of every block is the
\* value given, and every block free.
hdr_input_databuf_create(zero) ==
  /\ in_filled = {}
  /\ in_header = [b \in InputBlocks |-> ZeroHeader]
  /\ in_data = [b \in InputBlocks |-> [i \in Parts |-> zero]]

\* Mutants: a wait that waits for nothing.
hdr_input_databuf_wait_free_at_once(b) == b \in InputBlocks

hdr_input_databuf_wait_filled_at_once(b) == b \in InputBlocks

\* The guards under which a wait on block b returns HASHPIPE_OK.
hdr_input_databuf_wait_free(b) == b \notin in_filled

hdr_input_databuf_wait_filled(b) == b \in in_filled

\* hashpipe assigns the semaphore whatever it was before.
hdr_input_databuf_set_filled(b) == in_filled' = in_filled \union {b}

\* Mutant: a block is never given back.
hdr_input_databuf_set_free_lost(b) == b \in InputBlocks /\ in_filled' = in_filled

hdr_input_databuf_set_free(b) == in_filled' = in_filled \ {b}
=============================================================================
