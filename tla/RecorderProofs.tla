--------------------------- MODULE RecorderProofs ---------------------------
(* Theorems about Recorder, for every number of blocks and of chunks in a   *)
(* file and wherever the writer starts.                                     *)
EXTENDS Recorder, DiskProofs

-----------------------------------------------------------------------------
(* Types. *)

\* Inductive strengthening of TypeOK: the writer reads only blocks of the ring,
\* its wait ends on no other; a file that is open has room for a chunk.
TypeInv ==
  /\ TypeOK
  /\ write_pc = "write" => block_id \in StrpBlocks
  /\ write_pc \in {"wait", "write", "written"} => nblks < NBlockPerFile
  /\ \A name \in DOMAIN files : DOMAIN files[name] = Chunks

\* The rings are not empty and the data types contain the value of an empty
\* block.
LEMMA Sizes ==
  /\ InputBlockCount \in Nat \ {0} /\ StrpBlockCount \in Nat \ {0}
  /\ 0 \in InputBlocks /\ 0 \in StrpBlocks
  /\ 0 \in Mcnts
<1>1. InputBlockCount \in Nat \ {0} /\ StrpBlockCount \in Nat \ {0}
  BY InputDatabufAssumption DEF InputBlockCount, StrpBlockCount
<1>2. 0 * FakeMcntStep = 0 /\ 0 \in 0 .. MaxBlocks
  BY FakeNetThreadAssumption
<1>3. 0 \in Mcnts
  BY <1>2 DEF Mcnts
<1> QED BY <1>1, <1>3 DEF InputBlocks, StrpBlocks

\* After a block comes the next one round the ring.
LEMMA NextBlockInRing ==
  ASSUME NEW b \in Int
  PROVE  (b + 1) % InputBlockCount \in InputBlocks /\ (b + 1) % StrpBlockCount \in StrpBlocks
BY Sizes DEF InputBlocks, StrpBlocks

\* The fake net thread stops at its last block.
LEMMA NextMcnt ==
  ASSUME NEW m \in Mcnts, m < MaxBlocks * FakeMcntStep
  PROVE  m + FakeMcntStep \in Mcnts
<1>1. PICK n \in 0 .. MaxBlocks : m = n * FakeMcntStep
  BY DEF Mcnts
<1>2. n # MaxBlocks
  BY <1>1, FakeNetThreadAssumption
<1>3. n + 1 \in 0 .. MaxBlocks /\ m + FakeMcntStep = (n + 1) * FakeMcntStep
  BY <1>1, <1>2, FakeNetThreadAssumption
<1> QED BY <1>3 DEF Mcnts

\* The types hold at start.
LEMMA TypeInit == Init => TypeInv
<1> SUFFICES ASSUME Init PROVE TypeInv
  OBVIOUS
<1> USE Sizes DEF Init
<1>1. /\ in_filled \subseteq InputBlocks
      /\ in_header \in [InputBlocks -> Headers]
      /\ in_data \in [InputBlocks -> [Parts -> Mcnts]]
  BY DEF hdr_input_databuf_create, ZeroHeader, Headers
<1>2. /\ out_filled \subseteq StrpBlocks
      /\ out_header \in [StrpBlocks -> Headers]
      /\ out_data \in [StrpBlocks -> [Parts -> Mcnts]]
  BY DEF hdr_stripper_databuf_create, ZeroHeader, Headers
<1>3. \E read \in SUBSET Parts : buffered \in [read -> Mcnts]
  <2>1. buffered \in [{} -> Mcnts]
    BY DEF WriteInit
  <2> QED BY <2>1
<1>4. DOMAIN files = {}
  BY DEF WriteInit
<1>5. nblks \in 0 .. NBlockPerFile
  BY WriteThreadAssumption DEF WriteInit
<1> QED BY <1>1, <1>2, <1>3, <1>4, <1>5
  DEF FakeInit, StripInit, WriteInit, TypeInv, TypeOK

\* What the fake net thread does keeps the types.
LEMMA FakeTypes ==
  ASSUME TypeInv, FakeStep
  PROVE  TypeInv'
<1> USE DEF TypeInv, TypeOK, FakeStep, outVars, stripVars, writeVars, inVars
<1>1. CASE FakeFill
  <2>1. [good_data |-> 1, mcnt |-> mcnt] \in Headers
    BY DEF Headers
  <2>2. in_header' \in [InputBlocks -> Headers]
    BY <1>1, <2>1 DEF FakeFill
  <2>3. in_data' \in [InputBlocks -> [Parts -> Mcnts]]
    BY <1>1 DEF FakeFill
  <2>4. mcnt' \in Mcnts
    BY <1>1, NextMcnt DEF FakeFill
  <2> QED BY <1>1, <2>2, <2>3, <2>4 DEF FakeFill
<1>2. CASE FakeSetFilled
  <2>1. block_idx' \in InputBlocks
    BY <1>2, NextBlockInRing DEF FakeSetFilled, InputBlocks
  <2> QED BY <1>2, <2>1 DEF FakeSetFilled, hdr_input_databuf_set_filled
<1>3. CASE FakeExit
  BY <1>3 DEF FakeExit
<1> QED BY <1>1, <1>2, <1>3 DEF FakeNext

\* What the strip thread does keeps the types.
LEMMA StripTypes ==
  ASSUME TypeInv, StripStep
  PROVE  TypeInv'
<1> USE DEF TypeInv, TypeOK, StripStep, outVars, fakeVars, writeVars, inVars
<1>1. CASE StripTake
  <2>1. [good_data |-> 1, mcnt |-> in_header[iblk].mcnt] \in Headers
    BY DEF Headers
  <2>2. out_header' \in [StrpBlocks -> Headers]
    BY <1>1, <2>1 DEF StripTake
  <2> QED BY <1>1, <2>2 DEF StripTake
<1>2. ASSUME NEW i \in Parts, StripCopy(i) PROVE TypeInv'
  <2>1. out_data' \in [StrpBlocks -> [Parts -> Mcnts]]
    BY <1>2 DEF StripCopy
  <2> QED BY <1>2, <2>1 DEF StripCopy
<1>3. CASE StripSetFilled
  BY <1>3 DEF StripSetFilled, hdr_stripper_databuf_set_filled
<1>4. CASE StripSetFree
  <2>1. iblk' \in InputBlocks /\ oblk' \in StrpBlocks
    BY <1>4, NextBlockInRing DEF StripSetFree, InputBlocks, StrpBlocks
  <2> QED BY <1>4, <2>1 DEF StripSetFree, hdr_input_databuf_set_free
<1>5. CASE StripExit
  BY <1>5 DEF StripExit
<1> QED BY <1>1, <1>2, <1>3, <1>4, <1>5 DEF StripNext

\* block_id is a number even before anything was assigned to it.
LEMMA BlockIdsAreNumbers ==
  ASSUME NEW b \in StrpBlocks \union BlockIdAtStart
  PROVE  b \in Int
BY Sizes, WriteThreadAssumption DEF StrpBlocks

\* What the write thread does keeps the types.
LEMMA WriteTypes ==
  ASSUME TypeInv, WriteStep
  PROVE  TypeInv'
<1> USE DEF TypeInv, TypeOK, WriteStep, outVars, fakeVars, stripVars, inVars
<1>1. CASE WriteLoop
  <2>1. now' \in Nat
    BY <1>1 DEF WriteLoop, Sleep
  <2>2. /\ nblks' \in 0 .. NBlockPerFile
        /\ filename' \in DOMAIN files' \union {0}
        /\ \A name \in DOMAIN files' : \A c \in Chunks :
             files'[name][c] \in [Parts -> Mcnts] \union {Unwritten}
        /\ \A name \in DOMAIN files' : DOMAIN files'[name] = Chunks
        /\ nblks' < NBlockPerFile
    <3>1. CASE FileFull
      <4>1. filename' = now' /\ nblks' = 0 /\ files' = MapsTo(files, now', NewFile)
        BY <1>1, <3>1 DEF WriteLoop, CreateFile
      <4>2. /\ DOMAIN files' = DOMAIN files \union {now'}
            /\ \A name \in DOMAIN files' :
                 files'[name] = IF name = now' THEN NewFile ELSE files[name]
        BY <4>1 DEF MapsTo
      <4>3. DOMAIN NewFile = Chunks /\ \A c \in Chunks : NewFile[c] = Unwritten
        BY DEF NewFile
      <4> QED BY <4>1, <4>2, <4>3, WriteThreadAssumption
    <3>2. CASE ~FileFull
      BY <1>1, <3>2, WriteThreadAssumption DEF WriteLoop, FileFull
    <3> QED BY <3>1, <3>2
  <2> QED BY <1>1, <2>1, <2>2 DEF WriteLoop
<1>2. CASE WriteTake
  BY <1>2 DEF WriteTake, hdr_stripper_databuf_wait_filled
<1>3. ASSUME NEW i \in Parts, WriteRead(i) PROVE TypeInv'
  <2>1. PICK read \in SUBSET Parts : buffered \in [read -> Mcnts]
    OBVIOUS
  <2>2. out_data[block_id][i] \in Mcnts
    BY <1>3 DEF WriteRead
  <2>3. buffered' \in [read \union {i} -> Mcnts]
    BY <1>3, <2>1, <2>2 DEF WriteRead, MapsTo
  <2> QED BY <1>3, <2>3 DEF WriteRead
<1>4. CASE WriteChunk
  <2>1. buffered \in [Parts -> Mcnts]
    BY <1>4 DEF WriteChunk
  <2>2. /\ filename' \in DOMAIN files' \union {0}
        /\ \A name \in DOMAIN files' : \A c \in Chunks :
             files'[name][c] \in [Parts -> Mcnts] \union {Unwritten}
        /\ \A name \in DOMAIN files' : DOMAIN files'[name] = Chunks
    <3>1. CASE UNCHANGED files
      BY <1>4, <3>1 DEF WriteChunk
    <3>2. CASE files' = [files EXCEPT ![filename][nblks] = buffered]
      <4>1. /\ DOMAIN files' = DOMAIN files
            /\ \A name \in DOMAIN files :
                 files'[name] = IF name = filename
                                THEN [files[name] EXCEPT ![nblks] = buffered]
                                ELSE files[name]
        BY <3>2
      <4>2. ASSUME NEW name \in DOMAIN files'
            PROVE  /\ DOMAIN files'[name] = Chunks
                   /\ \A c \in Chunks : files'[name][c] \in [Parts -> Mcnts] \union {Unwritten}
        BY <2>1, <4>1, <4>2
      <4> QED BY <1>4, <4>1, <4>2 DEF WriteChunk
    <3> QED BY <1>4, <3>1, <3>2 DEF WriteChunk
  <2>3. buffered' \in [{} -> Mcnts]
    BY <1>4 DEF WriteChunk
  <2> QED BY <1>4, <2>2, <2>3 DEF WriteChunk
<1>5. CASE WriteSetFree
  <2>1. block_id' \in StrpBlocks
    <3>1. block_id \in Int
      <4>1. block_id \in StrpBlocks \union BlockIdAtStart
        OBVIOUS
      <4> QED BY <4>1, BlockIdsAreNumbers
    <3>2. (block_id + 1) % StrpBlockCount \in StrpBlocks
      BY <3>1, NextBlockInRing
    <3> QED BY <1>5, <3>2 DEF WriteSetFree
  <2>2. nblks' \in 0 .. NBlockPerFile
    BY <1>5, WriteThreadAssumption DEF WriteSetFree
  <2> QED BY <1>5, <2>1, <2>2 DEF WriteSetFree, hdr_stripper_databuf_set_free
<1>6. CASE WriteExit
  BY <1>6 DEF WriteExit
<1> QED BY <1>1, <1>2, <1>3, <1>4, <1>5, <1>6 DEF WriteNext

\* Every step keeps the types.
LEMMA TypeStep == TypeInv /\ [Next]_vars => TypeInv'
<1>1. TypeInv /\ UNCHANGED vars => TypeInv'
  BY DEF vars, inVars, outVars, fakeVars, stripVars, writeVars, TypeInv, TypeOK
<1> QED BY <1>1, FakeTypes, StripTypes, WriteTypes DEF Next

\* The variables of Recorder have their types, whatever HDF5 calls fail, whichever
\* thread laps another and whatever block_id starts with.
THEOREM TypeCorrect == Spec => []TypeOK
<1>1. TypeInv => TypeOK
  BY DEF TypeInv
<1> QED BY <1>1, TypeInit, TypeStep, PTL DEF Spec

-----------------------------------------------------------------------------
(* What is on disk stays there. *)

\* Only the writer touches the files.
LEMMA FilesStep ==
  ASSUME FilesInv, [Next]_vars
  PROVE  FilesInv' /\ \A name \in DOMAIN files : \A c \in Chunks : Kept(name, c)
<1>1. CASE FakeStep \/ StripStep \/ UNCHANGED vars
  BY <1>1
  DEF FakeStep, StripStep, vars, writeVars, FilesInv, NextChunk, Kept
<1> QED BY <1>1, WriteKeeps DEF Next, WriteStep

\* No chunk that reached a file is ever lost to a file of the same name or to
\* another chunk: file names never repeat, and chunks are written in order.
THEOREM FilesKept == Spec => FilesNeverTruncated
<1>1. Init => FilesInv
  BY FilesInit DEF Init
<1>2. FilesInv /\ [Next]_vars => FilesInv'
  BY FilesStep
<1>3. FilesInv /\ [Next]_vars =>
        [\A name \in DOMAIN files : \A c \in Chunks :
           files[name][c] # Unwritten => files'[name][c] = files[name][c]]_files
  BY FilesStep DEF Kept
<1> QED BY <1>1, <1>2, <1>3, PTL DEF Spec, FilesNeverTruncated

-----------------------------------------------------------------------------
(* The input databuf. *)

\* The j-th block the fake net thread fills.
FakeHeader(j) == [good_data |-> 1, mcnt |-> j * FakeMcntStep]

FakeBlocks == [j \in Nat |-> [i \in Parts |-> j * FakeMcntStep]]

\* Block b of the input databuf is filled with the j-th block.
Holds(b, j) ==
  /\ in_header[b] = FakeHeader(j)
  /\ in_data[b] = FakeBlocks[j]

HoldsNext(b, j) ==
  /\ in_header'[b] = FakeHeader(j)
  /\ in_data'[b] = FakeBlocks[j]

\* The strip thread has freed n blocks; the filled ones are those that follow, in
\* ring order from the strip thread's to the one before the fake net thread's.
InputInv(n) ==
  /\ n \in Nat
  /\ iblk = n % InputBlockCount
  /\ IsFiniteSet(in_filled)
  /\ Cardinality(in_filled) <= InputBlockCount
  /\ block_idx = (iblk + Cardinality(in_filled)) % InputBlockCount
  /\ \A j \in 0 .. Cardinality(in_filled) - 1 :
       /\ (iblk + j) % InputBlockCount \in in_filled
       /\ Holds((iblk + j) % InputBlockCount, n + j)
  /\ fake_pc # "fill" => mcnt = (n + Cardinality(in_filled)) * FakeMcntStep
  /\ fake_pc = "fill" =>
       /\ mcnt = (n + Cardinality(in_filled) + 1) * FakeMcntStep
       /\ block_idx \notin in_filled
       /\ Holds(block_idx, n + Cardinality(in_filled))
  /\ strip_pc \in {"copy", "filled"} => iblk \in in_filled

\* Nothing is filled at the start.
LEMMA InputInit == Init => InputInv(0)
<1> SUFFICES ASSUME Init PROVE InputInv(0)
  OBVIOUS
<1>1. IsFiniteSet(in_filled) /\ Cardinality(in_filled) = 0
  BY FS_EmptySet DEF Init, hdr_input_databuf_create
<1>2. 0 % InputBlockCount = 0 /\ 0 * FakeMcntStep = 0
  BY Sizes, FakeNetThreadAssumption
<1> QED BY <1>1, <1>2, Sizes DEF Init, FakeInit, StripInit, InputInv

\* The fake net thread fills the block after those that are filled.
LEMMA FakeFillInput ==
  ASSUME TypeInv, NEW n, InputInv(n), FakeFill, UNCHANGED stripVars
  PROVE  InputInv(n)'
<1> DEFINE d == Cardinality(in_filled)
<1>1. d \in Nat /\ n \in Nat /\ mcnt = (n + d) * FakeMcntStep /\ UNCHANGED <<in_filled, block_idx>>
      /\ block_idx \notin in_filled /\ block_idx \in InputBlocks
  BY FS_CardinalityType
  DEF FakeFill, InputInv, hdr_input_databuf_wait_free, TypeInv, TypeOK
<1>2. /\ in_header' = [in_header EXCEPT ![block_idx] = [good_data |-> 1, mcnt |-> mcnt]]
      /\ in_data' = [in_data EXCEPT ![block_idx] = [i \in Parts |-> mcnt]]
      /\ mcnt' = mcnt + FakeMcntStep /\ fake_pc' = "fill"
  BY DEF FakeFill
<1>3. \A b \in in_filled : in_header'[b] = in_header[b] /\ in_data'[b] = in_data[b]
  BY <1>1, <1>2 DEF TypeInv, TypeOK
<1>4. /\ in_header'[block_idx] = FakeHeader(n + d)
      /\ in_data'[block_idx] = FakeBlocks[n + d]
  <2> DEFINE k == n + d
  <2>1. k \in Nat /\ mcnt = k * FakeMcntStep
    BY <1>1
  <2> HIDE DEF k, d
  <2>2. FakeBlocks[k] = [i \in Parts |-> mcnt] /\ FakeHeader(k) = [good_data |-> 1, mcnt |-> mcnt]
    BY <2>1 DEF FakeBlocks, FakeHeader
  <2> QED BY <1>1, <1>2, <2>2 DEF TypeInv, TypeOK, k
<1>5. mcnt' = (n + d + 1) * FakeMcntStep
  <2> DEFINE k == n + d
  <2>1. k \in Nat /\ mcnt' = k * FakeMcntStep + FakeMcntStep /\ FakeMcntStep \in Nat
    BY <1>1, <1>2, FakeNetThreadAssumption
  <2> HIDE DEF k
  <2>2. mcnt' = (k + 1) * FakeMcntStep
    BY <2>1
  <2> QED BY <2>2 DEF k
<1>6. \A j \in 0 .. d - 1 :
        /\ (iblk + j) % InputBlockCount \in in_filled
        /\ Holds((iblk + j) % InputBlockCount, n + j)'
  BY <1>1, <1>3 DEF InputInv, Holds, FakeHeader, FakeBlocks, stripVars, InputBlockCount
<1> HIDE DEF d
<1>7. UNCHANGED <<iblk, strip_pc>>
  BY DEF stripVars
<1>8. Holds(block_idx, n + d)'
  BY <1>1, <1>4 DEF Holds, d, FakeHeader, FakeBlocks
<1> QED BY <1>1, <1>2, <1>5, <1>6, <1>7, <1>8 DEF InputInv, d, InputBlockCount

\* It hands the block over, which leaves room for it.
LEMMA FakeSetFilledInput ==
  ASSUME TypeInv, NEW n, InputInv(n), FakeSetFilled, UNCHANGED stripVars
  PROVE  /\ InputInv(n)'
         /\ Cardinality(in_filled) < InputBlockCount
         /\ Cardinality(in_filled') = Cardinality(in_filled) + 1
<1> DEFINE d == Cardinality(in_filled)
           c == InputBlockCount
<1>1. /\ d \in Nat /\ n \in Nat /\ c \in Nat \ {0} /\ d <= c /\ iblk \in 0 .. c - 1
      /\ mcnt = (n + d + 1) * FakeMcntStep
      /\ block_idx = (iblk + d) % c /\ block_idx \notin in_filled
      /\ Holds(block_idx, n + d)
  BY FS_CardinalityType, Sizes DEF FakeSetFilled, InputInv, TypeInv, TypeOK, InputBlocks
<1>2. /\ in_filled' = in_filled \union {block_idx}
      /\ block_idx' = (block_idx + 1) % c
      /\ fake_pc' = "wait"
      /\ UNCHANGED <<mcnt, in_header, in_data, iblk, strip_pc>>
  BY DEF FakeSetFilled, hdr_input_databuf_set_filled, stripVars
<1>3. IsFiniteSet(in_filled') /\ Cardinality(in_filled') = d + 1
  BY <1>1, <1>2, FS_AddElement DEF InputInv
<1>4. d < c
  <2> SUFFICES ASSUME d = c PROVE FALSE
    BY <1>1
  <2>1. (iblk + 0) % c = iblk /\ (iblk + c) % c = iblk
    <3> HIDE DEF c, d
    <3>1. iblk + c \in 0 .. 2 * c - 1
      BY <1>1
    <3>2. (iblk + c) % c = iblk
      <4> DEFINE x == iblk + c
      <4>1. x \in 0 .. 2 * c - 1 /\ ~(x < c) /\ x - c = iblk
        BY <1>1, <3>1
      <4> HIDE DEF x
      <4>2. x % c = x - c
        BY <1>1, <4>1, ModWithinTwo
      <4> QED BY <4>1, <4>2 DEF x
    <3> QED BY <1>1, <3>2
  <2>2. (iblk + 0) % c \in in_filled
    <3>1. 0 \in 0 .. d - 1
      BY <1>1
    <3> QED BY <3>1 DEF InputInv
  <2> QED BY <1>1, <2>1, <2>2
<1>5. block_idx' = (iblk + (d + 1)) % c
  <2> DEFINE k == iblk + d
  <2>1. k \in Nat /\ iblk + (d + 1) = k + 1 /\ 1 \in Nat
    BY <1>1
  <2> HIDE DEF c, k
  <2>2. (k + 1) % c = ((k % c) + 1) % c
    BY <1>1, <2>1, ModSum
  <2> QED BY <1>1, <1>2, <2>1, <2>2 DEF k
<1>6. \A j \in 0 .. (d + 1) - 1 :
        /\ (iblk + j) % c \in in_filled'
        /\ Holds((iblk + j) % c, n + j)
  <2> TAKE j \in 0 .. (d + 1) - 1
  <2>1. CASE j \in 0 .. d - 1
    BY <1>2, <2>1 DEF InputInv
  <2>2. CASE j = d
    BY <1>1, <1>2, <2>2
  <2> QED BY <1>1, <2>1, <2>2
<1>7. \A b, j : Holds(b, j) => HoldsNext(b, j)
  BY <1>2 DEF Holds, HoldsNext
<1>8. InputBlockCount' = c /\ d + 1 <= c
  BY <1>1, <1>4 DEF InputBlockCount
<1>9. mcnt' = (n + (d + 1)) * FakeMcntStep
  BY <1>1, <1>2
<1>10. strip_pc' \in {"copy", "filled"} => iblk' \in in_filled'
  BY <1>2 DEF InputInv
<1>11. iblk' = n % c
  BY <1>2 DEF InputInv
<1> HIDE DEF c, d
<1>12. InputInv(n)'
  <2>1. \A j \in 0 .. Cardinality(in_filled') - 1 :
          /\ (iblk' + j) % c \in in_filled'
          /\ HoldsNext((iblk' + j) % c, n + j)
    BY <1>2, <1>3, <1>6, <1>7
  <2> QED
    BY <1>1, <1>2, <1>3, <1>5, <1>8, <1>9, <1>10, <1>11, <2>1
    DEF InputInv, Holds, HoldsNext, FakeHeader, FakeBlocks
<1> QED BY <1>3, <1>4, <1>12 DEF c, d

\* The strip thread frees the first of the filled blocks and goes on to the next.
LEMMA StripFreeInput ==
  ASSUME TypeInv, NEW n, InputInv(n), StripSetFree, UNCHANGED fakeVars
  PROVE  InputInv(n + 1)'
<1> DEFINE d == Cardinality(in_filled)
           c == InputBlockCount
<1>1. /\ d \in Nat /\ n \in Nat /\ c \in Nat \ {0} /\ d <= c /\ iblk \in 0 .. c - 1
      /\ iblk \in in_filled /\ iblk = n % c
      /\ block_idx = (iblk + d) % c
  BY FS_CardinalityType, Sizes DEF StripSetFree, InputInv, TypeInv, TypeOK, InputBlocks
<1>2. /\ in_filled' = in_filled \ {iblk}
      /\ iblk' = (iblk + 1) % c
      /\ strip_pc' = "wait"
      /\ UNCHANGED <<mcnt, in_header, in_data, block_idx, fake_pc>>
  BY DEF StripSetFree, hdr_input_databuf_set_free, fakeVars
<1>3. IsFiniteSet(in_filled') /\ Cardinality(in_filled') = d - 1 /\ d - 1 \in Nat
  <2>1. IsFiniteSet(in_filled') /\ Cardinality(in_filled') = d - 1
    BY <1>1, <1>2, FS_RemoveElement DEF InputInv
  <2>2. Cardinality(in_filled') \in Nat
    BY <2>1, FS_CardinalityType
  <2> QED BY <2>1, <2>2
<1>4. ASSUME NEW j \in Nat
      PROVE  (iblk' + j) % c = (iblk + (j + 1)) % c
  <2> DEFINE k == iblk + 1
  <2>1. k \in Nat /\ k + j = iblk + (j + 1)
    BY <1>1
  <2> HIDE DEF c, k
  <2>2. (k + j) % c = ((k % c) + j) % c
    BY <1>1, <2>1, ModSum
  <2> QED BY <1>2, <2>1, <2>2 DEF k
<1>5. iblk' = (n + 1) % c
  <2> HIDE DEF c
  <2>1. (n + 1) % c = ((n % c) + 1) % c
    BY <1>1, ModSum
  <2> QED BY <1>1, <1>2, <2>1
<1>6. block_idx' = (iblk' + (d - 1)) % c
  <2>1. (iblk' + (d - 1)) % c = (iblk + ((d - 1) + 1)) % c
    BY <1>3, <1>4
  <2>2. (d - 1) + 1 = d
    BY <1>1
  <2> QED BY <1>1, <1>2, <2>1, <2>2
<1>7. \A b, j : Holds(b, j) => HoldsNext(b, j)
  BY <1>2 DEF Holds, HoldsNext
<1>8. ASSUME NEW j \in 0 .. (d - 1) - 1
      PROVE  /\ (iblk' + j) % c \in in_filled'
             /\ Holds((iblk' + j) % c, (n + 1) + j)
  <2>1. j + 1 \in 0 .. d - 1 /\ (n + 1) + j = n + (j + 1)
    BY <1>1
  <2>2. /\ (iblk + (j + 1)) % c \in in_filled
        /\ Holds((iblk + (j + 1)) % c, n + (j + 1))
    BY <2>1 DEF InputInv
  <2>3. (iblk + (j + 1)) % c # iblk
    <3> DEFINE b == iblk + (j + 1)
    <3> SUFFICES ASSUME b % c = iblk PROVE FALSE
      OBVIOUS
    <3>1. b \in Nat /\ iblk \in Nat /\ iblk <= b /\ b < iblk + c /\ b # iblk /\ iblk % c = iblk
      BY <1>1, <2>1
    <3> HIDE DEF b, c
    <3> QED BY <1>1, <3>1, ModInjective
  <2> QED BY <1>2, <1>4, <2>1, <2>2, <2>3
<1>9. ASSUME fake_pc = "fill"
      PROVE  /\ mcnt' = ((n + 1) + (d - 1) + 1) * FakeMcntStep
             /\ block_idx \notin in_filled'
             /\ Holds(block_idx, (n + 1) + (d - 1))
  <2>1. (n + 1) + (d - 1) = n + d
    BY <1>1
  <2> QED BY <1>2, <1>9, <2>1 DEF InputInv
<1>10. fake_pc # "fill" => mcnt' = ((n + 1) + (d - 1)) * FakeMcntStep
  <2>1. (n + 1) + (d - 1) = n + d
    BY <1>1
  <2> QED BY <1>2, <2>1 DEF InputInv
<1>11. InputBlockCount' = c /\ d - 1 <= c
  BY <1>1 DEF InputBlockCount
<1> HIDE DEF c, d
<1>12. \A j \in 0 .. Cardinality(in_filled') - 1 :
         /\ (iblk' + j) % c \in in_filled'
         /\ HoldsNext((iblk' + j) % c, (n + 1) + j)
  BY <1>3, <1>7, <1>8
<1>13. fake_pc' = "fill" => HoldsNext(block_idx', (n + 1) + Cardinality(in_filled'))
  BY <1>2, <1>3, <1>7, <1>9
<1>14. n + 1 \in Nat
  BY <1>1
<1> QED
  BY <1>2, <1>3, <1>5, <1>6, <1>9, <1>10, <1>11, <1>12, <1>13, <1>14
  DEF InputInv, Holds, HoldsNext, FakeHeader, FakeBlocks

\* Every step keeps InputInv; m blocks are freed after it.
LEMMA InputStep ==
  ASSUME TypeInv, NEW n, InputInv(n), [Next]_vars,
         NEW m, m = IF StripStep THEN HandedOn(n) ELSE n
  PROVE  InputInv(m)'
<1>1. CASE UNCHANGED <<inVars, fakeVars, iblk>> /\ m = n
           /\ (strip_pc' \in {"copy", "filled"} => iblk \in in_filled)
  BY <1>1 DEF inVars, fakeVars, InputInv, Holds, FakeHeader, FakeBlocks, InputBlockCount
<1>2. CASE ~StripStep
  <2>1. CASE FakeStep
    <3>1. CASE FakeFill
      BY <1>2, <2>1, <3>1, FakeFillInput DEF FakeStep
    <3>2. CASE FakeSetFilled
      BY <1>2, <2>1, <3>2, FakeSetFilledInput DEF FakeStep
    <3>3. CASE FakeExit
      BY <1>2, <2>1, <3>3
      DEF FakeStep, FakeExit, inVars, stripVars, InputInv, Holds, FakeHeader, FakeBlocks,
          InputBlockCount
    <3> QED BY <2>1, <3>1, <3>2, <3>3 DEF FakeStep, FakeNext
  <2>2. CASE WriteStep \/ UNCHANGED vars
    BY <1>1, <1>2, <2>2 DEF WriteStep, vars, stripVars, InputInv
  <2> QED BY <1>2, <2>1, <2>2 DEF Next
<1>3. CASE StripStep
  <2>1. CASE StripSetFree
    BY <1>3, <2>1, StripFreeInput DEF StripStep, StripSetFree, HandedOn
  <2>2. CASE StripTake \/ StripSetFilled \/ StripExit \/ \E i \in Parts : StripCopy(i)
    <3>1. m = n /\ UNCHANGED <<inVars, fakeVars, iblk>>
          /\ (strip_pc' \in {"copy", "filled"} => iblk \in in_filled)
      BY <1>3, <2>2
      DEF StripStep, StripTake, StripSetFilled, StripExit, StripCopy, HandedOn, InputInv,
          hdr_input_databuf_wait_filled
    <3> QED BY <1>1, <3>1
  <2> QED BY <1>3, <2>1, <2>2 DEF StripStep, StripNext
<1> QED BY <1>2, <1>3

-----------------------------------------------------------------------------
(* The input databuf is a queue. *)

\* Header and data of each block of the ring, and the queue of them.
Items == [b \in InputBlocks |-> <<in_header[b], in_data[b]>>]

Queue == RingQueue(InputBlockCount, iblk, in_filled, Items)

\* It is the one the mapping of InputQueue makes.
LEMMA QueueMapped ==
  ASSUME TypeInv
  PROVE  Queue = [k \in 1 .. Cardinality(in_filled) |->
                    LET b == (iblk + k - 1) % InputBlockCount
                    IN  <<in_header[b], in_data[b]>>]
<1>1. ASSUME NEW k \in 1 .. Cardinality(in_filled)
      PROVE  (iblk + k - 1) % InputBlockCount \in InputBlocks
  <2>1. iblk + k - 1 \in Nat
    BY DEF TypeInv, TypeOK, InputBlocks
  <2> QED BY <2>1, Sizes DEF InputBlocks
<1>2. ASSUME NEW k \in 1 .. Cardinality(in_filled)
      PROVE  Items[(iblk + k - 1) % InputBlockCount]
               = <<in_header[(iblk + k - 1) % InputBlockCount],
                   in_data[(iblk + k - 1) % InputBlockCount]>>
  BY <1>1 DEF Items
<1> QED BY <1>2 DEF Queue, RingQueue

\* The blocks in the queue are filled ones.
LEMMA QueuedFilled ==
  ASSUME TypeInv, NEW n, InputInv(n), NEW k \in 1 .. Cardinality(in_filled)
  PROVE  (iblk + k - 1) % InputBlockCount \in in_filled /\ in_filled \subseteq InputBlocks
<1>1. Cardinality(in_filled) \in Nat /\ iblk \in Nat
  BY FS_CardinalityType DEF InputInv, TypeInv, TypeOK, InputBlocks
<1>2. k - 1 \in 0 .. Cardinality(in_filled) - 1 /\ iblk + (k - 1) = iblk + k - 1
  BY <1>1
<1>3. (iblk + (k - 1)) % InputBlockCount \in in_filled
  BY <1>2 DEF InputInv
<1> QED BY <1>2, <1>3 DEF TypeInv, TypeOK

\* A step that moves no block between the threads, and writes to no filled one,
\* leaves the queue as it is.
LEMMA QueueKept ==
  ASSUME TypeInv, NEW n, InputInv(n), UNCHANGED <<in_filled, iblk>>,
         \A b \in in_filled : in_header'[b] = in_header[b] /\ in_data'[b] = in_data[b]
  PROVE  UNCHANGED Queue
<1>1. ASSUME NEW k \in 1 .. Cardinality(in_filled)
      PROVE  Items'[(iblk + k - 1) % InputBlockCount] = Items[(iblk + k - 1) % InputBlockCount]
  <2> DEFINE b == (iblk + k - 1) % InputBlockCount
  <2>1. b \in in_filled /\ b \in InputBlocks
    BY QueuedFilled
  <2> HIDE DEF b
  <2>2. Items[b] = <<in_header[b], in_data[b]>> /\ Items'[b] = <<in_header'[b], in_data'[b]>>
    BY <2>1 DEF Items, InputBlocks, InputBlockCount
  <2> QED BY <2>1, <2>2 DEF b
<1> QED BY <1>1 DEF Queue, RingQueue, InputBlockCount

\* Handing a block over puts it at the end of the queue.
LEMMA QueuePut ==
  ASSUME TypeInv, NEW n, InputInv(n), FakeSetFilled, UNCHANGED stripVars
  PROVE  /\ Len(Queue) < InputBlockCount
         /\ Len(Queue') = Len(Queue) + 1
         /\ SubSeq(Queue', 1, Len(Queue)) = Queue
<1> DEFINE new == Items'
           more == in_filled'
<1>1. /\ UNCHANGED <<in_header, in_data, iblk>>
      /\ in_filled' = in_filled \union {block_idx} /\ block_idx \notin in_filled
  BY DEF FakeSetFilled, stripVars, hdr_input_databuf_set_filled, InputInv
<1>2. new = Items
  BY <1>1 DEF Items, InputBlocks, InputBlockCount
<1>3. Queue' = RingQueue(InputBlockCount, iblk, more, new)
  BY <1>1 DEF Queue, RingQueue, InputBlockCount
<1>4. /\ IsFiniteSet(in_filled) /\ IsFiniteSet(more)
      /\ Cardinality(in_filled) < InputBlockCount
      /\ Cardinality(more) = Cardinality(in_filled) + 1
  BY <1>1, FakeSetFilledInput, FS_AddElement DEF InputInv
<1> HIDE DEF new, more
<1>5. Len(RingQueue(InputBlockCount, iblk, in_filled, Items)) = Cardinality(in_filled)
  BY <1>4, RingQueueLen
<1>6. Len(RingQueue(InputBlockCount, iblk, more, Items)) = Cardinality(more)
  BY <1>4, RingQueueLen
<1>7. SubSeq(RingQueue(InputBlockCount, iblk, more, Items), 1, Cardinality(in_filled))
        = RingQueue(InputBlockCount, iblk, in_filled, Items)
  BY <1>4, RingQueuePut
<1>8. Queue' = RingQueue(InputBlockCount, iblk, more, Items)
  BY <1>2, <1>3
<1>9. Len(Queue) = Cardinality(in_filled)
  BY <1>5 DEF Queue
<1> QED BY <1>4, <1>6, <1>7, <1>8, <1>9 DEF Queue

\* A databuf with a filled block is a queue that is not empty, and loses its
\* first item when it has one block less and its reader is one block further.
LEMMA QueueHead ==
  ASSUME TypeInv, NEW n, InputInv(n), iblk \in in_filled,
         NEW less, Cardinality(less) = Cardinality(in_filled) - 1,
         NEW next, next = (iblk + 1) % InputBlockCount
  PROVE  Queue # <<>> /\ RingQueue(InputBlockCount, next, less, Items) = Tail(Queue)
<1>1. InputBlockCount \in Nat \ {0} /\ iblk \in Nat
  BY Sizes DEF TypeInv, TypeOK, InputBlocks
<1>2. IsFiniteSet(in_filled) /\ Cardinality(less) \in Nat
  <2>1. IsFiniteSet(in_filled \ {iblk})
        /\ Cardinality(in_filled \ {iblk}) = Cardinality(in_filled) - 1
    BY FS_RemoveElement DEF InputInv
  <2> QED BY <2>1, FS_CardinalityType DEF InputInv
<1> QED BY <1>1, <1>2, RingQueueGiveBack DEF Queue

\* Giving a block back takes it off the front of the queue.
LEMMA QueueGiveBack ==
  ASSUME TypeInv, NEW n, InputInv(n), StripSetFree
  PROVE  Queue' = Tail(Queue)
<1>1. /\ UNCHANGED <<in_header, in_data>>
      /\ in_filled' = in_filled \ {iblk} /\ iblk' = (iblk + 1) % InputBlockCount
      /\ iblk \in in_filled
  BY DEF StripSetFree, hdr_input_databuf_set_free, InputInv
<1>2. Items' = Items
  BY <1>1 DEF Items, InputBlocks, InputBlockCount
<1>3. Queue' = RingQueue(InputBlockCount, iblk', in_filled', Items)
  BY <1>2 DEF Queue, RingQueue, InputBlockCount
<1>4. Cardinality(in_filled') = Cardinality(in_filled) - 1
  BY <1>1, FS_RemoveElement DEF InputInv
<1> QED BY <1>1, <1>3, <1>4, QueueHead

\* The taken block is there.
LEMMA QueueNotEmpty ==
  ASSUME TypeInv, NEW n, InputInv(n), iblk \in in_filled
  PROVE  Queue # <<>>
<1>1. Cardinality(in_filled \ {iblk}) = Cardinality(in_filled) - 1
  BY FS_RemoveElement DEF InputInv
<1> QED BY <1>1, QueueHead

Taken == strip_pc \in {"copy", "filled"}

\* Every step puts a block into the queue, takes or gives back its first, or
\* leaves it alone.
LEMMA QueueStep ==
  ASSUME TypeInv, NEW n, InputInv(n), [Next]_vars
  PROVE  \/ /\ Len(Queue) < InputBlockCount
            /\ Len(Queue') = Len(Queue) + 1
            /\ SubSeq(Queue', 1, Len(Queue)) = Queue
            /\ Taken' = Taken
         \/ ~Taken /\ Queue # <<>> /\ Taken' = TRUE /\ Queue' = Queue
         \/ Taken /\ Queue' = Tail(Queue) /\ Taken' = FALSE
         \/ Queue' = Queue /\ Taken' = Taken
<1>1. CASE FakeStep
  <2>1. UNCHANGED <<iblk, strip_pc>>
    BY <1>1 DEF FakeStep, stripVars
  <2>2. CASE FakeFill
    <3>1. block_idx \notin in_filled /\ UNCHANGED in_filled
      BY <2>2 DEF FakeFill, hdr_input_databuf_wait_free
    <3>2. \A b \in in_filled : in_header'[b] = in_header[b] /\ in_data'[b] = in_data[b]
      BY <2>2, <3>1 DEF FakeFill, TypeInv, TypeOK
    <3> QED BY <2>1, <3>1, <3>2, QueueKept DEF Taken
  <2>3. CASE FakeSetFilled
    BY <1>1, <2>1, <2>3, QueuePut DEF FakeStep, Taken
  <2>4. CASE FakeExit
    BY <2>1, <2>4, QueueKept DEF FakeExit, inVars, Taken
  <2> QED BY <1>1, <2>2, <2>3, <2>4 DEF FakeStep, FakeNext
<1>2. CASE StripSetFree
  BY <1>2, QueueGiveBack DEF StripSetFree, Taken
<1>3. CASE StripTake
  BY <1>3, QueueKept, QueueNotEmpty
  DEF StripTake, inVars, Taken, hdr_input_databuf_wait_filled
<1>4. CASE StripSetFilled \/ StripExit \/ \E i \in Parts : StripCopy(i)
  BY <1>4, QueueKept DEF StripSetFilled, StripExit, StripCopy, inVars, Taken
<1>5. CASE WriteStep \/ UNCHANGED vars
  BY <1>5, QueueKept DEF WriteStep, vars, inVars, stripVars, Taken
<1> QED BY <1>1, <1>2, <1>3, <1>4, <1>5 DEF Next, StripStep, StripNext

\* For some number of freed blocks InputInv always holds.
LEMMA InputInvariant == Spec => [](TypeInv /\ \E n : InputInv(n))
<1>1. Init => TypeInv /\ \E n : InputInv(n)
  BY TypeInit, InputInit
<1>2. ASSUME TypeInv, \E n : InputInv(n), [Next]_vars
      PROVE  TypeInv' /\ (\E n : InputInv(n))'
  <2>1. PICK n : InputInv(n)
    BY <1>2
  <2>2. PICK m : m = IF StripStep THEN HandedOn(n) ELSE n
    OBVIOUS
  <2>3. InputInv(m)'
    BY <1>2, <2>1, <2>2, InputStep
  <2> QED BY <1>2, <2>3, TypeStep
<1> QED BY <1>1, <1>2, PTL DEF Spec

\* The input databuf is a bounded queue: the strip thread gets each block the
\* fake net thread filled once, in order, with the header and the data it was
\* handed over with, and nothing changes a block while it is in the queue.
THEOREM RefinesBlockQueue == Spec => ImplementsBlockQueue
<1> DEFINE queue == [k \in 1 .. Cardinality(in_filled) |->
                       LET b == (iblk + k - 1) % InputBlockCount
                       IN  <<in_header[b], in_data[b]>>]
           taken == strip_pc \in {"copy", "filled"}
<1>1. TypeInv => Queue = queue
  BY QueueMapped
<1>2. (TypeInv => Queue = queue)'
  BY <1>1, PTL
<1>3. ASSUME Init PROVE InputQueue!Init
  <2>1. Cardinality(in_filled) = 0 /\ ~taken
    BY <1>3, FS_EmptySet DEF Init, hdr_input_databuf_create, StripInit
  <2>2. queue = <<>> /\ taken = FALSE
    BY <2>1
  <2> QED BY <2>2 DEF InputQueue!Init
<1>4. ASSUME TypeInv, \E n : InputInv(n), [Next]_vars,
             TypeInv'
      PROVE  [InputQueue!Next]_<<queue, taken>>
  <2>1. Queue = queue /\ Queue' = queue'
    BY <1>4, <1>1, <1>2
  <2>2. Taken = taken /\ Taken' = taken'
    BY DEF Taken
  <2>3. \/ /\ Len(queue) < InputBlockCount
           /\ Len(queue') = Len(queue) + 1
           /\ SubSeq(queue', 1, Len(queue)) = queue
           /\ taken' = taken
        \/ ~taken /\ queue # <<>> /\ taken' = TRUE /\ queue' = queue
        \/ taken /\ queue' = Tail(queue) /\ taken' = FALSE
        \/ queue' = queue /\ taken' = taken
    BY <1>4, <2>1, <2>2, QueueStep
  <2> QED
    BY <2>3 DEF InputQueue!Next, InputQueue!Put, InputQueue!Take, InputQueue!GiveBack
<1>5. TypeInv /\ (\E n : InputInv(n)) /\ [Next]_vars /\ TypeInv'
        => [InputQueue!Next]_<<queue, taken>>
  BY <1>4
<1>6. Spec => InputQueue!Init /\ [][InputQueue!Next]_<<queue, taken>>
  BY <1>3, <1>5, InputInvariant, PTL DEF Spec
<1> QED BY <1>6, PTL DEF ImplementsBlockQueue, InputQueue!Spec

-----------------------------------------------------------------------------
(* What is recorded. *)

\* Every step keeps what the strip thread has copied, and, unless it laps the
\* writer, what the writer wrote and will write; m blocks are freed after it.
LEMMA RecordStep ==
  ASSUME TypeInv, FilesInv, NEW n, InputInv(n), CopyInv(FakeBlocks, n), [Next]_vars,
         NEW m, m = IF StripStep THEN HandedOn(n) ELSE n
  PROVE  /\ CopyInv(FakeBlocks, m)'
         /\ ~lapped' => ~lapped
         /\ ~lapped' /\ Recorded(FakeBlocks, n) => Recorded(FakeBlocks, m)'
<1>1. CASE StripStep
  <2>1. m = HandedOn(n) /\ StripNext /\ UNCHANGED writeVars
    BY <1>1 DEF StripStep
  <2>2. strip_pc = "copy" => \A i \in Parts : in_data[iblk][i] = FakeBlocks[n][i]
    <3> SUFFICES ASSUME strip_pc = "copy" PROVE in_data[iblk] = FakeBlocks[n]
      OBVIOUS
    <3>1. iblk \in in_filled /\ iblk \in Nat /\ n \in Nat
          /\ iblk \in 0 .. InputBlockCount - 1
      BY DEF InputInv, TypeInv, TypeOK, InputBlocks
    <3>2. 0 \in 0 .. Cardinality(in_filled) - 1
      <4>1. Cardinality(in_filled) # 0 /\ Cardinality(in_filled) \in Nat
        BY <3>1, FS_EmptySet, FS_CardinalityType DEF InputInv
      <4> QED BY <4>1
    <3>3. Holds((iblk + 0) % InputBlockCount, n + 0)
      BY <3>2 DEF InputInv
    <3>4. (iblk + 0) % InputBlockCount = iblk /\ n + 0 = n
      BY <3>1, Sizes
    <3> QED BY <3>3, <3>4 DEF Holds
  <2>3. CopyInv(FakeBlocks, m)'
    BY <2>1, <2>2, CopyStep
  <2>4. ~lapped' => ~lapped /\ (strip_pc = "wait" /\ strip_pc' = "copy" => oblk \notin out_filled)
    BY <1>1 DEF StripStep
  <2> QED BY <2>1, <2>3, <2>4, StripDisk
<1>2. CASE WriteStep /\ ~StripStep
  <2>1. m = n /\ WriteNext /\ UNCHANGED stripVars /\ lapped' = lapped
    BY <1>2 DEF WriteStep
  <2> QED BY <2>1, CopyKept, WriteDisk
<1>3. CASE (FakeStep \/ UNCHANGED vars) /\ ~StripStep
  <2>1. m = n /\ UNCHANGED <<outVars, stripVars, writeVars>> /\ lapped' = lapped
    BY <1>3 DEF FakeStep, vars
  <2> QED BY <2>1, DiskKept
<1> QED BY <1>1, <1>2, <1>3 DEF Next

\* What the writer recorded is what RecordedUnlessLapped says.
LEMMA RecordedMcnts ==
  ASSUME FilesInv, NEW n, Recorded(FakeBlocks, n), CopyInv(FakeBlocks, n)
  PROVE  \E s \in BlockIdAtStart : InOrderFrom(s)
<1>1. PICK s \in BlockIdAtStart, w \in Nat : KeepsUp(FakeBlocks, n, w, s)
  BY DEF Recorded
<1>2. ASSUME NEW name \in DOMAIN files, NEW c \in Chunks, files[name][c] # Unwritten
      PROVE  files[name][c] = [i \in Parts |-> NthBlockMcnt(ChunkNo(name, c), s)]
  <2> DEFINE k == ChunkNo(name, c)
  <2>1. /\ Nth(k, s) \in 0 .. HandedOn(n) - 1
        /\ files[name][c] = [i \in Parts |-> FakeBlocks[Nth(k, s)][i]]
    BY <1>1, <1>2 DEF KeepsUp, ChunksRight
  <2>2. n \in Nat /\ HandedOn(n) \in Nat
    BY DEF CopyInv, HandedOn
  <2>3. NthBlockMcnt(k, s) = Nth(k, s) * FakeMcntStep
    BY DEF NthBlockMcnt, Nth
  <2> HIDE DEF k
  <2>4. Nth(k, s) \in Nat
    BY <2>1, <2>2
  <2>5. FakeBlocks[Nth(k, s)] = [i \in Parts |-> NthBlockMcnt(k, s)]
    BY <2>3, <2>4 DEF FakeBlocks
  <2> QED BY <2>1, <2>5 DEF k
<1> QED BY <1>2 DEF InOrderFrom

\* As long as the writer keeps up, every chunk on disk is the one block, whole
\* and unmixed, whose turn it is, across as many files as there are and
\* wherever the writer's block_id made it start.
THEOREM RecordedInTurn == Spec => []RecordedUnlessLapped
<1> DEFINE Inv == /\ TypeInv /\ FilesInv
                  /\ \E n : /\ InputInv(n) /\ CopyInv(FakeBlocks, n)
                            /\ lapped \/ Recorded(FakeBlocks, n)
<1>1. Init => Inv
  <2> SUFFICES ASSUME Init PROVE Inv
    OBVIOUS
  <2>1. FilesInv /\ CopyInv(FakeBlocks, 0) /\ Recorded(FakeBlocks, 0)
    BY DiskInit DEF Init
  <2> QED BY <2>1, TypeInit, InputInit
<1>2. ASSUME Inv, [Next]_vars PROVE Inv'
  <2>1. PICK n : /\ InputInv(n) /\ CopyInv(FakeBlocks, n)
                 /\ lapped \/ Recorded(FakeBlocks, n)
    BY <1>2
  <2>2. PICK m : m = IF StripStep THEN HandedOn(n) ELSE n
    OBVIOUS
  <2>3. InputInv(m)'
    BY <1>2, <2>1, <2>2, InputStep
  <2>4. CopyInv(FakeBlocks, m)' /\ (lapped' \/ Recorded(FakeBlocks, m)')
    BY <1>2, <2>1, <2>2, RecordStep
  <2>5. TypeInv' /\ FilesInv'
    BY <1>2, TypeStep, FilesStep
  <2> QED BY <2>3, <2>4, <2>5
<1>3. Inv => RecordedUnlessLapped
  BY RecordedMcnts DEF RecordedUnlessLapped
<1> QED BY <1>1, <1>2, <1>3, PTL DEF Spec
=============================================================================
