---------------------------- MODULE StripThread -----------------------------
(***************************************************************************)
(* hdr_strip_thread: copies the first channels of each filled input block  *)
(* to a block of the stripper databuf, transposed.  Both rings are walked  *)
(* in order, each with an index of its own.  The thread waits for its      *)
(* input block to be filled; it does not wait for its output block to be   *)
(* free.  The copy is a loop over bytes, here one step per part.           *)
(***************************************************************************)
EXTENDS StripDatabuf

VARIABLES
  strip_pc,      \* wait, copy, filled, exited
  iblk,          \* index of the input block
  oblk,          \* index of the output block
  copied         \* the parts copied so far

stripVars == <<strip_pc, iblk, oblk, copied>>

StripInit ==
  /\ strip_pc = "wait"
  /\ iblk = 0
  /\ oblk = 0
  /\ copied = {}

\* Mutant: waits for its output block to be free as well.
StripTakeWaits ==
  /\ strip_pc = "wait"
  /\ hdr_input_databuf_wait_filled(iblk)
  /\ oblk \notin out_filled
  /\ out_header' = [out_header EXCEPT ![oblk] =
                      [good_data |-> 1, mcnt |-> in_header[iblk].mcnt]]
  /\ strip_pc' = "copy"
  /\ UNCHANGED <<iblk, oblk, copied, inVars, out_filled, out_data>>

\* wait_filled returns OK: the header of the output block is written, good
\* whatever the input block is.
StripTake ==
  /\ strip_pc = "wait"
  /\ hdr_input_databuf_wait_filled(iblk)
  /\ out_header' = [out_header EXCEPT ![oblk] =
                      [good_data |-> 1, mcnt |-> in_header[iblk].mcnt]]
  /\ strip_pc' = "copy"
  /\ UNCHANGED <<iblk, oblk, copied, inVars, out_filled, out_data>>

StripCopy(i) ==
  /\ strip_pc = "copy"
  /\ i \notin copied
  /\ out_data' = [out_data EXCEPT ![oblk][i] = in_data[iblk][i]]
  /\ copied' = copied \union {i}
  /\ UNCHANGED <<strip_pc, iblk, oblk, inVars, out_filled, out_header>>

\* Mutant: the block is handed over while it is being copied.
StripSetFilledEarly ==
  /\ strip_pc = "copy"
  /\ copied # {}
  /\ hdr_stripper_databuf_set_filled(oblk)
  /\ strip_pc' = "filled"
  /\ UNCHANGED <<iblk, oblk, copied, inVars, out_header, out_data>>

StripSetFilled ==
  /\ strip_pc = "copy"
  /\ copied = Parts
  /\ hdr_stripper_databuf_set_filled(oblk)
  /\ strip_pc' = "filled"
  /\ UNCHANGED <<iblk, oblk, copied, inVars, out_header, out_data>>

\* Mutant: the block is given back and taken again.
StripSetFreeStuck ==
  /\ strip_pc = "filled"
  /\ hdr_input_databuf_set_free(iblk)
  /\ oblk' = (oblk + 1) % StrpBlockCount
  /\ copied' = {}
  /\ strip_pc' = "wait"
  /\ UNCHANGED <<iblk, in_header, in_data, outVars>>

StripSetFree ==
  /\ strip_pc = "filled"
  /\ hdr_input_databuf_set_free(iblk)
  /\ iblk' = (iblk + 1) % InputBlockCount
  /\ oblk' = (oblk + 1) % StrpBlockCount
  /\ copied' = {}
  /\ strip_pc' = "wait"
  /\ UNCHANGED <<in_header, in_data, outVars>>

\* run_threads() says so, or the wait fails with something else than a timeout.
StripExit ==
  /\ strip_pc = "wait"
  /\ strip_pc' = "exited"
  /\ UNCHANGED <<iblk, oblk, copied, inVars, outVars>>

StripNext ==
  \/ StripTake \/ StripSetFilled \/ StripSetFree \/ StripExit
  \/ \E i \in Parts : StripCopy(i)
=============================================================================
