--------------------------- MODULE FakeNetThread ----------------------------
(***************************************************************************)
(* hdr_fake_net_thread: fills the blocks of the input databuf in ring      *)
(* order with made-up data, so that the pipeline runs without a network.   *)
(* The data of a block is represented by the mcnt of the block it belongs  *)
(* to, part by part, so that a reader that mixes two blocks shows.         *)
(***************************************************************************)
EXTENDS InputDatabuf

CONSTANTS
  FakeMcntStep,  \* Nm, what the thread adds to mcnt after each block
  MaxBlocks      \* bound: blocks the thread fills

ASSUME FakeNetThreadAssumption ==
  /\ FakeMcntStep \in Nat \ {0}
  /\ MaxBlocks \in Nat

VARIABLES
  fake_pc,       \* wait, fill, exited
  block_idx,     \* the block to fill next
  mcnt           \* the mcnt of that block

fakeVars == <<fake_pc, block_idx, mcnt>>

FakeInit ==
  /\ fake_pc = "wait"
  /\ block_idx = 0
  /\ mcnt = 0

\* wait_free returns OK (a timeout only tries again): write header and data.
FakeFill ==
  /\ fake_pc = "wait"
  /\ mcnt < MaxBlocks * FakeMcntStep
  /\ hdr_input_databuf_wait_free(block_idx)
  /\ in_header' = [in_header EXCEPT ![block_idx] = [good_data |-> 1, mcnt |-> mcnt]]
  /\ in_data' = [in_data EXCEPT ![block_idx] = [i \in Parts |-> mcnt]]
  /\ mcnt' = mcnt + FakeMcntStep
  /\ fake_pc' = "fill"
  /\ UNCHANGED <<block_idx, in_filled>>

FakeSetFilled ==
  /\ fake_pc = "fill"
  /\ hdr_input_databuf_set_filled(block_idx)
  /\ block_idx' = (block_idx + 1) % InputBlockCount
  /\ fake_pc' = "wait"
  /\ UNCHANGED <<mcnt, in_header, in_data>>

\* run_threads() says so, or the wait fails with something else than a timeout.
FakeExit ==
  /\ fake_pc = "wait"
  /\ fake_pc' = "exited"
  /\ UNCHANGED <<block_idx, mcnt, inVars>>

FakeNext == FakeFill \/ FakeSetFilled \/ FakeExit
=============================================================================
