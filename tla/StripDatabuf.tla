---------------------------- MODULE StripDatabuf ----------------------------
(***************************************************************************)
(* The ring between the strip thread and the write thread                  *)
(* (hdr_stripper_databuf_t).  Its semaphores are hashpipe's, as those of   *)
(* InputDatabuf are: a wait observes, a set assigns.                       *)
(***************************************************************************)
EXTENDS InputDatabuf

VARIABLES
  out_filled,        \* the blocks whose semaphore is 1
  out_header,        \* per block, what hdr_stripper_header_t holds
  out_data           \* per block, what the data field holds

outVars == <<out_filled, out_header, out_data>>

\* The n_block hdr_stripper_databuf_create passes to hashpipe: the block count
\* of the input databuf, not N_STRP_BLOCKS.
StrpBlockCount == NInputBlocks + NDebugInputBlocks

StrpBlocks == 0 .. StrpBlockCount - 1

hdr_stripper_databuf_create(zero) ==
  /\ out_filled = {}
  /\ out_header = [b \in StrpBlocks |-> ZeroHeader]
  /\ out_data = [b \in StrpBlocks |-> [i \in Parts |-> zero]]

\* The guard under which a wait on block b returns HASHPIPE_OK.
hdr_stripper_databuf_wait_filled(b) == b \in out_filled

hdr_stripper_databuf_set_filled(b) == out_filled' = out_filled \union {b}

\* Mutant: a block is never given back.
hdr_stripper_databuf_set_free_lost(b) == b \in StrpBlocks /\ out_filled' = out_filled

hdr_stripper_databuf_set_free(b) == out_filled' = out_filled \ {b}
=============================================================================
