----------------------------- MODULE NetRecorder ----------------------------
(***************************************************************************)
(* The recorder as deployed: net thread, strip thread and write thread on  *)
(* the two databufs, down to the files.  Any packet may come at any time,  *)
(* as in Capture, whose reading side is here the strip thread itself.      *)
(***************************************************************************)
EXTENDS NetThread, StripThread, WriteThread, Sequences

CONSTANT MaxHanded   \* bound: blocks the net thread hands over

VARIABLES
  handed,     \* history: the data of each block when it was handed over
  straddled,  \* history: the window has not always started with a block
  lapped      \* history: the strip thread has started on an output block that
              \* was still filled

histVars == <<handed, straddled, lapped>>

vars == <<inVars, outVars, netVars, stripVars, writeVars, histVars>>

Cap == INSTANCE Capture WITH reading <- strip_pc \in {"copy", "filled"}

Init ==
  /\ hdr_input_databuf_create(NoMcnt)
  /\ hdr_stripper_databuf_create(NoMcnt)
  /\ NetInit
  /\ StripInit
  /\ WriteInit
  /\ handed = <<>>
  /\ straddled = FALSE
  /\ lapped = FALSE

\* The net thread hands a block over when it advances the window.
NetStep ==
  /\ \/ /\ NetRelease \/ NetStart \/ NetAcquire \/ NetExit
        /\ UNCHANGED handed
     \/ \E p \in Packets :
          \/ /\ NetStore(p) \/ NetLate(p) \/ NetOutOfSeq(p) \/ NetReset(p)
             /\ UNCHANGED handed
          \/ /\ Len(handed) < MaxHanded
             /\ NetAdvance(p)
             /\ handed' = Append(handed, in_data[block_i])
  /\ straddled' = (straddled \/ mcnt_start' % BlockSpan # 0)
  /\ UNCHANGED <<outVars, stripVars, writeVars, lapped>>

StripStep ==
  /\ StripNext
  /\ lapped' = (lapped \/ (strip_pc = "wait" /\ strip_pc' = "copy" /\ oblk \in out_filled))
  /\ UNCHANGED <<netVars, writeVars, handed, straddled>>

WriteStep == WriteNext /\ UNCHANGED <<inVars, netVars, stripVars, histVars>>

Next == NetStep \/ StripStep \/ WriteStep

Spec == Init /\ [][Next]_vars
-----------------------------------------------------------------------------
\* The deployed recorder does to the input databuf only what Capture allows:
\* the whole strip thread, which copies a block piece by piece and hands it on
\* before it frees it, takes the part of the reader in Capture, so that what is
\* checked and proved of Capture holds here.
ImplementsCapture == Cap!Spec

\* As long as the writer keeps up and the window starts with a block, the
\* chunks on disk are, one by one and whole, the blocks that the net thread
\* handed over, with the data they had at that moment, whatever packets and
\* resets there were meanwhile.
RecordedAsHandedOver ==
  lapped \/ straddled \/
    \A name \in DOMAIN files : \A c \in Chunks :
      files[name][c] # Unwritten => files[name][c] = handed[ChunkNo(name, c) + 1]
=============================================================================
