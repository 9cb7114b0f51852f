------------------------------ MODULE Recorder ------------------------------
(***************************************************************************)
(* The whole pipeline fed by the fake net thread: fake net thread, input   *)
(* databuf, strip thread, stripper databuf, write thread, files.           *)
(***************************************************************************)
EXTENDS FakeNetThread, StripThread, WriteThread, FiniteSets

VARIABLE
  lapped   \* history: the strip thread has started on an output block that
           \* was still filled

vars == <<inVars, outVars, fakeVars, stripVars, writeVars, lapped>>

Init ==
  /\ hdr_input_databuf_create(0)
  /\ hdr_stripper_databuf_create(0)
  /\ FakeInit
  /\ StripInit
  /\ WriteInit
  /\ lapped = FALSE

FakeStep == FakeNext /\ UNCHANGED <<outVars, stripVars, writeVars, lapped>>

StripStep ==
  /\ StripNext
  /\ UNCHANGED <<fakeVars, writeVars>>
  /\ lapped' = (lapped \/ (strip_pc = "wait" /\ strip_pc' = "copy" /\ oblk \in out_filled))

WriteStep == WriteNext /\ UNCHANGED <<inVars, fakeVars, stripVars, lapped>>

Next == FakeStep \/ StripStep \/ WriteStep

Spec == Init /\ [][Next]_vars

\* hashpipe gives each thread an operating-system thread of its own: a thread
\* that can take a step that is no exit takes one in the end.
LiveSpec ==
  /\ Spec
  /\ WF_vars(FakeStep /\ fake_pc' # "exited")
  /\ WF_vars(StripStep /\ strip_pc' # "exited")
  /\ WF_vars(WriteStep /\ write_pc' # "exited")
-----------------------------------------------------------------------------
Mcnts == {n * FakeMcntStep : n \in 0 .. MaxBlocks}

Headers == [good_data : {0, 1}, mcnt : Mcnts]

\* The types of the variables.
TypeOK ==
  /\ in_filled \subseteq InputBlocks
  /\ in_header \in [InputBlocks -> Headers]
  /\ in_data \in [InputBlocks -> [Parts -> Mcnts]]
  /\ out_filled \subseteq StrpBlocks
  /\ out_header \in [StrpBlocks -> Headers]
  /\ out_data \in [StrpBlocks -> [Parts -> Mcnts]]
  /\ fake_pc \in {"wait", "fill", "exited"}
  /\ block_idx \in InputBlocks
  /\ mcnt \in Mcnts
  /\ strip_pc \in {"wait", "copy", "filled", "exited"}
  /\ iblk \in InputBlocks
  /\ oblk \in StrpBlocks
  /\ copied \subseteq Parts
  /\ write_pc \in {"loop", "wait", "write", "written", "exited"}
  /\ block_id \in StrpBlocks \union BlockIdAtStart
  /\ nblks \in 0 .. NBlockPerFile
  /\ now \in Nat
  /\ filename \in DOMAIN files \union {0}
  /\ \A name \in DOMAIN files : \A c \in Chunks :
       files[name][c] \in [Parts -> Mcnts] \union {Unwritten}
  /\ \E read \in SUBSET Parts : buffered \in [read -> Mcnts]

\* The blocks of the input databuf, header and data, in ring order.
InputQueue ==
  INSTANCE BlockQueue WITH
    Capacity <- InputBlockCount,
    queue <- [k \in 1 .. Cardinality(in_filled) |->
                LET b == (iblk + k - 1) % InputBlockCount
                IN  <<in_header[b], in_data[b]>>],
    taken <- strip_pc \in {"copy", "filled"}

\* The input databuf is a queue of blocks between the fake net thread and the
\* strip thread: every block filled is taken once, in order, and keeps its
\* header and its data until it is given back.
ImplementsBlockQueue == InputQueue!Spec

\* The mcnt of the n-th block a writer that starts at block s of the ring
\* reads: the writer goes round the ring from s, one lap after another.
NthBlockMcnt(n, s) ==
  LET lap == n \div StrpBlockCount
      pos == (s + (n % StrpBlockCount)) % StrpBlockCount
  IN  (lap * StrpBlockCount + pos) * FakeMcntStep

InOrderFrom(s) ==
  \A name \in DOMAIN files : \A c \in Chunks :
     files[name][c] # Unwritten =>
       files[name][c] = [i \in Parts |-> NthBlockMcnt(ChunkNo(name, c), s)]

\* As long as the writer keeps up, every chunk on disk is the one block, whole
\* and unmixed, whose turn it is, counted from the block the writer's
\* uninitialised block_id made it start with, across as many files as there are.
RecordedUnlessLapped == lapped \/ \E s \in BlockIdAtStart : InOrderFrom(s)

\* A chunk written to a file stays there: no later file takes the name of an
\* earlier one, which H5F_ACC_TRUNC would empty, and no chunk is written twice.
FilesNeverTruncated ==
  [][\A name \in DOMAIN files : \A c \in Chunks :
       files[name][c] # Unwritten => files'[name][c] = files[name][c]]_files

\* The strip thread empties the input databuf whatever becomes of the write
\* thread: a writer that is slow, stuck or gone never stops the capture.
InputAlwaysDrains ==
  \A b \in InputBlocks :
    b \in in_filled ~> (b \notin in_filled \/ strip_pc = "exited")

\* The filled output blocks are those from the writer's onwards.
WriterInStep ==
  /\ block_id \in StrpBlocks
  /\ \A k \in 0 .. Cardinality(out_filled) - 1 :
       (block_id + k) % StrpBlockCount \in out_filled

\* A writer that is in step with the strip thread and is not lapped takes every
\* block it is handed, whatever HDF5 calls fail meanwhile.
OutputDrainsUnlessLapped ==
  \A b \in StrpBlocks :
    (b \in out_filled /\ WriterInStep)
      ~> (b \notin out_filled \/ write_pc = "exited" \/ lapped)
-----------------------------------------------------------------------------
(* Statements of the comments that the code does not keep. *)

\* "Build the entire file first and then replace a chunk of the file as each
\* block arrives": the chunks are the blocks in the order they arrive.
RecordedInOrder == InOrderFrom(0)

\* The same of a run in which the writer keeps up.
RecordedInOrderUnlessLapped == lapped \/ InOrderFrom(0)
=============================================================================
