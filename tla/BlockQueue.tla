----------------------------- MODULE BlockQueue -----------------------------
(***************************************************************************)
(* What a databuf promises the two threads on it: a bounded first-in       *)
(* first-out queue of blocks.  The writing thread appends a block; the     *)
(* reading thread takes the oldest, and the block stays in the queue, as   *)
(* it was put there, until the reader gives it back.                       *)
(***************************************************************************)
EXTENDS Naturals, Sequences

CONSTANT Capacity   \* the most blocks the queue ever holds

VARIABLES
  queue,            \* the blocks handed over and not given back, oldest first
  taken             \* whether the reader is at work on the oldest

Init == queue = <<>> /\ taken = FALSE

\* A block of any content is handed over.
Put ==
  /\ Len(queue) < Capacity
  /\ Len(queue') = Len(queue) + 1
  /\ SubSeq(queue', 1, Len(queue)) = queue
  /\ UNCHANGED taken

Take ==
  /\ ~taken
  /\ queue # <<>>
  /\ taken' = TRUE
  /\ UNCHANGED queue

GiveBack ==
  /\ taken
  /\ queue' = Tail(queue)
  /\ taken' = FALSE

Next == Put \/ Take \/ GiveBack

Spec == Init /\ [][Next]_<<queue, taken>>
=============================================================================
