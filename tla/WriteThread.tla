---------------------------- MODULE WriteThread -----------------------------
(***************************************************************************)
(* hdr_write_thread: writes each filled block of the stripper databuf as   *)
(* the next chunk of an HDF5 file.  A file is created with room for        *)
(* NBlockPerFile chunks, all unwritten, under a name made of the current   *)
(* second; it is opened and closed again around every chunk.               *)
(***************************************************************************)
EXTENDS StripDatabuf, FiniteSets

CONSTANTS
  NBlockPerFile,   \* N_BLOCK_PER_FILE
  BlockIdAtStart,  \* values the uninitialised block_id may start with
  Unwritten        \* the content of a chunk before it is written

ASSUME WriteThreadAssumption ==
  /\ NBlockPerFile \in Nat \ {0}
  /\ BlockIdAtStart \subseteq Int

VARIABLES
  write_pc,        \* loop, wait, write, written, exited
  block_id,        \* the block to write next
  nblks,           \* chunks written to the current file
  filename,        \* the second in the name of the current file
  files,           \* the files on disk: name |-> chunks
  buffered,        \* the parts of the block H5Dwrite has read so far
  now              \* time(NULL) when the thread last woke up

writeVars == <<write_pc, block_id, nblks, filename, files, buffered, now>>

Chunks == 0 .. NBlockPerFile - 1

NewFile == [c \in Chunks |-> Unwritten]

\* f with x mapped to y, whether or not it was mapped before.
MapsTo(f, x, y) == [z \in DOMAIN f \union {x} |-> IF z = x THEN y ELSE f[z]]

\* The files with a new one, which empties one of that name (H5F_ACC_TRUNC).
CreateFile(f, name) == MapsTo(f, name, NewFile)

\* The position of a chunk among all that were ever written: the files follow
\* each other in the order they were created.
ChunkNo(name, c) ==
  Cardinality({other \in DOMAIN files : other < name}) * NBlockPerFile + c

WriteInit ==
  /\ write_pc = "loop"
  /\ block_id \in BlockIdAtStart
  /\ nblks = NBlockPerFile
  /\ filename = 0
  /\ files = <<>>
  /\ buffered = <<>>
  /\ now = 0

\* Mutant: a full file gets another chunk.
FileFullLate == nblks > NBlockPerFile

FileFull == nblks = NBlockPerFile

\* Mutant: no sleep, so that two names may be made in one second.
SleepNot == now' \in {now, now + 1}

\* sleep(1): at least a second passes.
Sleep == now' = now + 1

\* The head of the loop: sleep(1), and a new file when the last is full.
WriteLoop ==
  /\ write_pc = "loop"
  /\ Sleep
  /\ IF FileFull
     THEN /\ filename' = now'
          /\ files' = CreateFile(files, now')
          /\ nblks' = 0
     ELSE UNCHANGED <<filename, files, nblks>>
  /\ write_pc' = "wait"
  /\ UNCHANGED <<block_id, buffered, outVars>>

\* wait_filled returns OK (a timeout only tries again).
WriteTake ==
  /\ write_pc = "wait"
  /\ hdr_stripper_databuf_wait_filled(block_id)
  /\ write_pc' = "write"
  /\ UNCHANGED <<block_id, nblks, filename, files, buffered, now, outVars>>

\* H5Dwrite takes the block's data where the strip thread left it.
WriteRead(i) ==
  /\ write_pc = "write"
  /\ i \notin DOMAIN buffered
  /\ buffered' = MapsTo(buffered, i, out_data[block_id][i])
  /\ UNCHANGED <<write_pc, block_id, nblks, filename, files, now, outVars>>

\* The chunk reaches the file, or an HDF5 call fails, which nothing looks at.
WriteChunk ==
  /\ write_pc = "write"
  /\ DOMAIN buffered = Parts
  /\ \/ files' = [files EXCEPT ![filename][nblks] = buffered]
     \/ UNCHANGED files
  /\ buffered' = <<>>
  /\ write_pc' = "written"
  /\ UNCHANGED <<block_id, nblks, filename, now, outVars>>

WriteSetFree ==
  /\ write_pc = "written"
  /\ hdr_stripper_databuf_set_free(block_id)
  /\ block_id' = (block_id + 1) % StrpBlockCount
  /\ nblks' = nblks + 1
  /\ write_pc' = "loop"
  /\ UNCHANGED <<filename, files, buffered, now, out_header, out_data>>

\* run_threads() says so, or the wait fails with something else than a timeout,
\* as it does when block_id is no block of the ring.
WriteExit ==
  /\ write_pc \in {"loop", "wait"}
  /\ write_pc' = "exited"
  /\ UNCHANGED <<block_id, nblks, filename, files, buffered, now, outVars>>

WriteNext ==
  \/ WriteLoop \/ WriteTake \/ WriteChunk \/ WriteSetFree \/ WriteExit
  \/ \E i \in Parts : WriteRead(i)
=============================================================================
