----------------------------- MODULE DiskProofs -----------------------------
(* Lemmas about the strip thread and the write thread on the stripper      *)
(* databuf, whatever thread feeds them: what reaches the files as long as  *)
(* the strip thread does not lap the writer.                               *)
EXTENDS StripThread, WriteThread, Arithmetic

-----------------------------------------------------------------------------
(* Going round the ring. *)

\* The steps round the ring from block s to block b.
Offset(b, s) == IF b >= s THEN b - s ELSE b + StrpBlockCount - s

\* How often a thread that started at block s and has taken k steps has left
\* block b.
Laps(k, b, s) == (k \div StrpBlockCount) + (IF Offset(b, s) < k % StrpBlockCount THEN 1 ELSE 0)

\* The number, among those the strip thread fills, of the block a writer that
\* started at block s takes after k others.
Nth(k, s) ==
  (k \div StrpBlockCount) * StrpBlockCount + ((s + (k % StrpBlockCount)) % StrpBlockCount)

\* The ring is not empty.
LEMMA StrpBlockCountNat == StrpBlockCount \in Nat \ {0}
BY InputDatabufAssumption DEF StrpBlockCount

\* After k steps a thread is where its offset is what remains of k.
LEMMA OffsetHere ==
  ASSUME NEW s \in StrpBlocks, NEW b \in StrpBlocks, NEW k \in Nat
  PROVE  /\ Offset(b, s) = k % StrpBlockCount <=> b = (s + k) % StrpBlockCount
         /\ (s + (k % StrpBlockCount)) % StrpBlockCount = (s + k) % StrpBlockCount
         /\ (s + k) % StrpBlockCount \in StrpBlocks
         /\ Offset(b, s) \in StrpBlocks
<1> DEFINE n == StrpBlockCount
           r == k % n
           a == s + r
<1>1. n \in Nat \ {0} /\ s \in 0 .. n - 1 /\ b \in 0 .. n - 1
  BY StrpBlockCountNat DEF StrpBlocks
<1>2. r \in 0 .. n - 1
  BY <1>1
<1>3. a % n = (s + k) % n
  <2> HIDE DEF n
  <2>1. s \in Nat /\ s + k = k + s /\ s + (k % n) = (k % n) + s
    BY <1>1
  <2>2. (k + s) % n = ((k % n) + s) % n
    BY <1>1, <2>1, ModSum
  <2> QED BY <2>1, <2>2
<1>4. a % n = IF a < n THEN a ELSE a - n
  <2>1. a \in 0 .. 2 * n - 1
    BY <1>1, <1>2
  <2> HIDE DEF a, n
  <2> QED BY <1>1, <2>1, ModWithinTwo
<1>5. (s + k) % n \in 0 .. n - 1
  <2> HIDE DEF n, r
  <2> QED BY <1>1, <1>2, <1>3, <1>4
<1>6. Offset(b, s) = r <=> b = a % n
  <2>1. Offset(b, s) = IF b >= s THEN b - s ELSE b + n - s
    BY DEF Offset
  <2> HIDE DEF n, r
  <2> QED BY <1>1, <1>2, <1>4, <2>1
<1>7. Offset(b, s) \in 0 .. n - 1
  BY <1>1 DEF Offset
<1> QED BY <1>3, <1>5, <1>6, <1>7 DEF StrpBlocks

\* A step leaves the block it starts from and no other.
LEMMA LapsNext ==
  ASSUME NEW s \in StrpBlocks, NEW b \in StrpBlocks, NEW k \in Nat
  PROVE  Laps(k + 1, b, s)
           = Laps(k, b, s) + (IF b = (s + k) % StrpBlockCount THEN 1 ELSE 0)
<1> DEFINE n == StrpBlockCount
           o == Offset(b, s)
<1>1. n \in Nat \ {0} /\ o \in 0 .. n - 1
  BY StrpBlockCountNat, OffsetHere DEF StrpBlocks
<1>2. o = k % n <=> b = (s + k) % n
  BY OffsetHere
<1> HIDE DEF n, o
<1>3. PICK q \in Nat, r \in 0 .. n - 1 : k = n * q + r
  BY <1>1, DivModExist
<1>4. k \div n = q /\ k % n = r
  BY <1>1, <1>3, DivModUnique
<1>5. Laps(k, b, s) = q + (IF o < r THEN 1 ELSE 0)
  BY <1>4 DEF Laps, n, o
<1> DEFINE j == k + 1
<1>6. CASE r + 1 < n
  <2> DEFINE t == r + 1
  <2>1. j \in Nat /\ t \in 0 .. n - 1 /\ j = n * q + t
    BY <1>1, <1>3, <1>6
  <2> HIDE DEF j, t
  <2>2. j \div n = q /\ j % n = t
    BY <1>1, <2>1, DivModUnique
  <2>3. Laps(j, b, s) = q + (IF o < t THEN 1 ELSE 0)
    BY <2>2 DEF Laps, n, o
  <2>4. Laps(j, b, s) = Laps(k, b, s) + (IF o = r THEN 1 ELSE 0)
    BY <1>1, <1>5, <2>3 DEF t
  <2> QED BY <1>2, <1>4, <2>4 DEF n, j
<1>7. CASE r + 1 = n
  <2> DEFINE t == q + 1
  <2>1. j \in Nat /\ t \in Nat /\ 0 \in 0 .. n - 1 /\ j = n * t + 0
    BY <1>1, <1>3, <1>7
  <2> HIDE DEF j, t
  <2>2. j \div n = t /\ j % n = 0
    BY <1>1, <2>1, DivModUnique
  <2>3. Laps(j, b, s) = t
    BY <1>1, <2>1, <2>2 DEF Laps, n, o
  <2>4. Laps(j, b, s) = Laps(k, b, s) + (IF o = r THEN 1 ELSE 0)
    BY <1>1, <1>5, <1>7, <2>3 DEF t
  <2> QED BY <1>2, <1>4, <2>4 DEF n, j
<1> QED BY <1>1, <1>3, <1>6, <1>7

\* What Laps and Nth are at the start and where the thread is.
LEMMA LapsHere ==
  ASSUME NEW s \in StrpBlocks, NEW b \in StrpBlocks, NEW k \in Nat
  PROVE  /\ Laps(k, b, s) \in Nat
         /\ Laps(0, b, s) = 0
         /\ b = (s + k) % StrpBlockCount =>
              /\ Laps(k, b, s) = k \div StrpBlockCount
              /\ Nth(k, s) = Laps(k, b, s) * StrpBlockCount + b
<1> DEFINE n == StrpBlockCount
           o == Offset(b, s)
<1>1. n \in Nat \ {0} /\ o \in 0 .. n - 1
  BY StrpBlockCountNat, OffsetHere DEF StrpBlocks
<1>2. /\ o = k % n <=> b = (s + k) % n
      /\ (s + (k % n)) % n = (s + k) % n
  BY OffsetHere
<1>3. Nth(k, s) = (k \div n) * n + ((s + (k % n)) % n)
  BY DEF Nth
<1> HIDE DEF n, o
<1>4. k \div n \in Nat /\ k % n \in 0 .. n - 1 /\ 0 \div n = 0 /\ 0 % n = 0
  BY <1>1
<1>5. /\ Laps(k, b, s) = (k \div n) + (IF o < k % n THEN 1 ELSE 0)
      /\ Laps(0, b, s) = (0 \div n) + (IF o < 0 % n THEN 1 ELSE 0)
  BY DEF Laps, n, o
<1>6. Laps(k, b, s) \in Nat /\ Laps(0, b, s) = 0
  BY <1>1, <1>4, <1>5
<1>7. ASSUME b = (s + k) % n
      PROVE  /\ Laps(k, b, s) = k \div n
             /\ Nth(k, s) = Laps(k, b, s) * n + b
  <2>1. Laps(k, b, s) = k \div n
    BY <1>2, <1>4, <1>5, <1>7
  <2>2. (s + (k % n)) % n = b
    BY <1>2, <1>7
  <2> QED BY <1>3, <2>1, <2>2
<1> QED BY <1>6, <1>7 DEF n

\* A writer that starts at block 0 takes the blocks in the order in which they
\* are filled.
LEMMA NthFromZero ==
  ASSUME NEW k \in Nat
  PROVE  Nth(k, 0) = k
<1> DEFINE n == StrpBlockCount
<1>1. n \in Nat \ {0}
  BY StrpBlockCountNat
<1>2. Nth(k, 0) = (k \div n) * n + ((0 + (k % n)) % n)
  BY DEF Nth
<1> HIDE DEF n
<1>3. PICK q \in Nat, r \in 0 .. n - 1 : k = n * q + r
  BY <1>1, DivModExist
<1>4. k \div n = q /\ k % n = r
  BY <1>1, <1>3, DivModUnique
<1>5. (0 + r) % n = r
  BY <1>1
<1> QED BY <1>1, <1>2, <1>3, <1>4, <1>5

\* What was taken had been filled.
LEMMA LapsBound ==
  ASSUME NEW b \in StrpBlocks, NEW k \in Nat, NEW q \in Nat, Laps(k, b, 0) = q + 1
  PROVE  q * StrpBlockCount + b < k
<1> DEFINE n == StrpBlockCount
<1>1. n \in Nat \ {0} /\ b \in 0 .. n - 1 /\ Offset(b, 0) = b
  BY StrpBlockCountNat DEF StrpBlocks, Offset
<1>2. Laps(k, b, 0) = (k \div n) + (IF b < k % n THEN 1 ELSE 0)
  BY <1>1 DEF Laps
<1>n. n \in Nat \ {0}
  BY <1>1
<1> HIDE DEF n
<1>3. PICK x \in Nat, r \in 0 .. n - 1 : k = n * x + r
  BY <1>1, DivModExist
<1>4. k \div n = x /\ k % n = r
  BY <1>n, <1>3, DivModUnique
<1>5. CASE b < r
  <2>1. q = x
    BY <1>2, <1>4, <1>5
  <2> QED BY <1>1, <1>3, <1>5, <2>1 DEF n
<1>6. CASE ~(b < r)
  <2>1. x = q + 1
    BY <1>2, <1>4, <1>6
  <2>2. n * x = n * q + n
    BY <1>1, <2>1
  <2>3. n * q = q * n /\ n * q \in Nat
    BY <1>1
  <2> QED BY <1>1, <1>3, <2>2, <2>3 DEF n
<1> QED BY <1>5, <1>6

-----------------------------------------------------------------------------
(* The files. *)

\* The first chunk of the current file that is not written yet.
NextChunk == IF write_pc = "written" THEN nblks + 1 ELSE nblks

\* No file is named after a second that is still to come; the current file is
\* the last one, is open only while it has room for a chunk, and has no chunk
\* from the next one on.
FilesInv ==
  /\ now \in Nat
  /\ nblks \in 0 .. NBlockPerFile
  /\ write_pc \in {"wait", "write", "written"} => nblks < NBlockPerFile
  /\ DOMAIN files \subseteq 0 .. now
  /\ \A name \in DOMAIN files : DOMAIN files[name] = Chunks
  /\ nblks < NBlockPerFile =>
       /\ filename \in DOMAIN files
       /\ \A name \in DOMAIN files : name <= filename
       /\ \A c \in Chunks : c >= NextChunk => files[filename][c] = Unwritten

Kept(name, c) == files[name][c] # Unwritten => files'[name][c] = files[name][c]

\* Before the first file there is none.
LEMMA FilesInit == WriteInit => FilesInv
BY WriteThreadAssumption DEF WriteInit, FilesInv

\* A new file takes a name of its own and leaves the others as they are.
LEMMA NewFileMade ==
  ASSUME FilesInv, WriteLoop, FileFull
  PROVE  /\ now' = now + 1 /\ now' \notin DOMAIN files
         /\ filename' = now' /\ nblks' = 0
         /\ DOMAIN files' = DOMAIN files \union {now'}
         /\ files'[now'] = NewFile
         /\ \A name \in DOMAIN files : files'[name] = files[name]
<1>1. now' = now + 1 /\ now' \notin DOMAIN files
  BY DEF WriteLoop, Sleep, FilesInv
<1>2. filename' = now' /\ nblks' = 0 /\ files' = MapsTo(files, now', NewFile)
  BY DEF WriteLoop, CreateFile
<1>3. /\ DOMAIN files' = DOMAIN files \union {now'}
      /\ \A name \in DOMAIN files' :
           files'[name] = IF name = now' THEN NewFile ELSE files[name]
  BY <1>2 DEF MapsTo
<1> QED BY <1>1, <1>2, <1>3

\* A chunk that reaches the file changes nothing else on disk.
LEMMA ChunkWritten ==
  ASSUME FilesInv, WriteChunk
  PROVE  /\ nblks \in Chunks /\ filename \in DOMAIN files
         /\ files[filename][nblks] = Unwritten
         /\ DOMAIN files' = DOMAIN files
         /\ \A name \in DOMAIN files : DOMAIN files'[name] = Chunks
         /\ \A name \in DOMAIN files : \A c \in Chunks :
              ~(name = filename /\ c = nblks) => files'[name][c] = files[name][c]
         /\ files'[filename][nblks] \in {buffered, Unwritten}
<1>1. /\ nblks < NBlockPerFile /\ nblks \in Chunks /\ filename \in DOMAIN files
      /\ DOMAIN files[filename] = Chunks
      /\ files[filename][nblks] = Unwritten
  BY WriteThreadAssumption DEF WriteChunk, FilesInv, NextChunk, Chunks
<1>2. CASE UNCHANGED files
  BY <1>1, <1>2 DEF FilesInv
<1>3. CASE files' = [files EXCEPT ![filename][nblks] = buffered]
  <2>1. /\ DOMAIN files' = DOMAIN files
        /\ \A name \in DOMAIN files : name # filename => files'[name] = files[name]
        /\ files'[filename] = [files[filename] EXCEPT ![nblks] = buffered]
    BY <1>1, <1>3
  <2>2. /\ DOMAIN files'[filename] = Chunks
        /\ files'[filename][nblks] = buffered
        /\ \A c \in Chunks : c # nblks => files'[filename][c] = files[filename][c]
    BY <1>1, <2>1
  <2> QED BY <1>1, <2>1, <2>2 DEF FilesInv
<1> QED BY <1>2, <1>3 DEF WriteChunk

\* A step of the writer leaves every chunk that is on disk, and FilesInv holds
\* after it.
LEMMA WriteKeeps ==
  ASSUME FilesInv, WriteNext
  PROVE  FilesInv' /\ \A name \in DOMAIN files : \A c \in Chunks : Kept(name, c)
<1> USE DEF Kept
<1>1. now \in Nat /\ nblks \in 0 .. NBlockPerFile /\ NBlockPerFile \in Nat \ {0}
  BY WriteThreadAssumption DEF FilesInv
<1>2. CASE WriteLoop
  <2>1. write_pc' = "wait" /\ now' = now + 1
    BY <1>2 DEF WriteLoop, Sleep
  <2>2. CASE FileFull
    <3>1. DOMAIN NewFile = Chunks /\ \A c \in Chunks : NewFile[c] = Unwritten
      BY DEF NewFile
    <3>2. \A name \in DOMAIN files' : name \in 0 .. now' /\ name <= filename'
      BY <1>1, <1>2, <2>1, <2>2, NewFileMade DEF FilesInv
    <3>3. \A name \in DOMAIN files' : DOMAIN files'[name] = Chunks
      BY <1>2, <2>2, <3>1, NewFileMade DEF FilesInv
    <3> QED BY <1>1, <1>2, <2>1, <2>2, <3>1, <3>2, <3>3, NewFileMade DEF FilesInv
  <2>3. CASE ~FileFull
    <3>1. UNCHANGED <<filename, files, nblks>> /\ write_pc = "loop"
      BY <1>2, <2>3 DEF WriteLoop
    <3>2. DOMAIN files \subseteq 0 .. now' /\ nblks < NBlockPerFile
      BY <1>1, <2>1, <2>3 DEF FilesInv, FileFull
    <3> QED BY <1>1, <2>1, <3>1, <3>2 DEF FilesInv, NextChunk
  <2> QED BY <2>2, <2>3
<1>3. CASE WriteChunk
  <2>1. /\ write_pc = "write" /\ write_pc' = "written"
        /\ UNCHANGED <<filename, nblks, now>>
    BY <1>3 DEF WriteChunk
  <2>2. \A c \in Chunks : c >= nblks + 1 => files'[filename][c] = Unwritten
    BY <1>1, <1>3, <2>1, ChunkWritten DEF FilesInv, NextChunk, Chunks
  <2> QED BY <1>3, <2>1, <2>2, ChunkWritten DEF FilesInv, NextChunk
<1>4. CASE WriteSetFree
  <2>1. /\ write_pc = "written" /\ write_pc' = "loop" /\ nblks' = nblks + 1
        /\ UNCHANGED <<filename, files, now>>
    BY <1>4 DEF WriteSetFree
  <2> QED BY <1>1, <2>1 DEF FilesInv, NextChunk
<1>5. CASE WriteTake \/ WriteExit \/ \E i \in Parts : WriteRead(i)
  BY <1>5 DEF WriteTake, WriteExit, WriteRead, FilesInv, NextChunk
<1> QED BY <1>2, <1>3, <1>4, <1>5 DEF WriteNext

\* How many chunks the writer has written, whether or not they reached a file.
Written == (Cardinality(DOMAIN files) - 1) * NBlockPerFile + nblks

\* There are finitely many files.
LEMMA FilesFinite ==
  ASSUME FilesInv
  PROVE  /\ IsFiniteSet(DOMAIN files) /\ Cardinality(DOMAIN files) \in Nat
         /\ \A name \in DOMAIN files : \A c \in Chunks : ChunkNo(name, c) \in Nat
<1>1. IsFiniteSet(0 .. now)
  BY FS_Interval DEF FilesInv
<1>2. IsFiniteSet(DOMAIN files)
  BY <1>1, FS_Subset DEF FilesInv
<1>3. ASSUME NEW name \in DOMAIN files, NEW c \in Chunks
      PROVE  ChunkNo(name, c) \in Nat
  <2> DEFINE before == {other \in DOMAIN files : other < name}
             k == Cardinality(before)
  <2>1. before \subseteq DOMAIN files
    OBVIOUS
  <2> HIDE DEF before
  <2>2. k \in Nat
    BY <1>2, <2>1, FS_Subset, FS_CardinalityType
  <2>3. ChunkNo(name, c) = k * NBlockPerFile + c
    BY DEF ChunkNo, before
  <2> HIDE DEF k
  <2>4. k * NBlockPerFile \in Nat /\ c \in Nat
    BY <2>2, WriteThreadAssumption DEF Chunks
  <2> QED BY <2>3, <2>4
<1> QED BY <1>2, <1>3, FS_CardinalityType

\* The chunk that is written next is the one after those that were written.
LEMMA NextChunkNo ==
  ASSUME FilesInv, nblks < NBlockPerFile
  PROVE  ChunkNo(filename, nblks) = Written
<1> DEFINE before == {other \in DOMAIN files : other < filename}
<1>1. filename \in DOMAIN files /\ \A name \in DOMAIN files : name \in Nat /\ filename \in Nat
  BY DEF FilesInv
<1>2. before = DOMAIN files \ {filename}
  BY <1>1 DEF FilesInv
<1>3. Cardinality(before) = Cardinality(DOMAIN files) - 1
  BY <1>1, <1>2, FilesFinite, FS_RemoveElement
<1> QED BY <1>3 DEF ChunkNo, Written

\* A step of the writer does not move a chunk that is on disk to another place
\* among the chunks, and only a block given back counts as written.
LEMMA ChunkNosKept ==
  ASSUME FilesInv, WriteNext
  PROVE  /\ \A name \in DOMAIN files : \A c : ChunkNo(name, c)' = ChunkNo(name, c)
         /\ Written' = IF write_pc = "written" THEN Written + 1 ELSE Written
<1>1. CASE WriteLoop /\ FileFull
  <2>1. ASSUME NEW name \in DOMAIN files
        PROVE  {other \in DOMAIN files' : other < name} = {other \in DOMAIN files : other < name}
    BY <1>1, <2>1, NewFileMade DEF FilesInv
  <2>2. ASSUME NEW name \in DOMAIN files, NEW c
        PROVE  ChunkNo(name, c)' = ChunkNo(name, c)
    BY <2>1 DEF ChunkNo
  <2>3. Cardinality(DOMAIN files') = Cardinality(DOMAIN files) + 1
    BY <1>1, NewFileMade, FilesFinite, FS_AddElement
  <2>4. Written' = Written
    <3> DEFINE k == Cardinality(DOMAIN files)
               l == Cardinality(DOMAIN files')
    <3>1. k \in Nat /\ l = k + 1 /\ nblks = NBlockPerFile /\ nblks' = 0
          /\ NBlockPerFile \in Nat
      BY <1>1, <2>3, FilesFinite, NewFileMade, WriteThreadAssumption DEF FileFull
    <3>2. Written = (k - 1) * NBlockPerFile + nblks /\ Written' = (l - 1) * NBlockPerFile + nblks'
      BY DEF Written
    <3> HIDE DEF k, l
    <3>3. (l - 1) * NBlockPerFile = k * NBlockPerFile
      BY <3>1
    <3>4. (k - 1) * NBlockPerFile + NBlockPerFile = k * NBlockPerFile
      BY <3>1
    <3>5. k * NBlockPerFile \in Int
      BY <3>1
    <3> QED BY <3>1, <3>2, <3>3, <3>4, <3>5
  <2>5. write_pc # "written"
    BY <1>1 DEF WriteLoop
  <2> QED BY <2>2, <2>4, <2>5
<1>2. CASE WriteSetFree
  <2>1. UNCHANGED files /\ nblks' = nblks + 1 /\ write_pc = "written"
    BY <1>2 DEF WriteSetFree
  <2>2. (Cardinality(DOMAIN files) - 1) * NBlockPerFile \in Int /\ nblks \in Int
    BY FilesFinite, WriteThreadAssumption DEF FilesInv
  <2> QED BY <2>1, <2>2 DEF ChunkNo, Written
<1>3. CASE WriteChunk
  <2>1. DOMAIN files' = DOMAIN files /\ nblks' = nblks /\ write_pc # "written"
    BY <1>3, ChunkWritten DEF WriteChunk
  <2> QED BY <2>1 DEF ChunkNo, Written
<1>4. CASE \/ WriteLoop /\ ~FileFull
           \/ WriteTake \/ WriteExit \/ \E i \in Parts : WriteRead(i)
  <2>1. UNCHANGED <<files, nblks>> /\ write_pc # "written"
    BY <1>4 DEF WriteLoop, WriteTake, WriteExit, WriteRead
  <2> QED BY <2>1 DEF ChunkNo, Written
<1> QED BY <1>1, <1>2, <1>3, <1>4 DEF WriteNext

-----------------------------------------------------------------------------
(* The output blocks.  f is what the input blocks hold, one after another,  *)
(* as functions of the parts, and n is how many of them the strip thread    *)
(* has freed.                                                               *)

\* How many blocks the strip thread has handed to the writer.
HandedOn(n) == IF strip_pc = "filled" THEN n + 1 ELSE n

\* The strip thread is at its n-th block and what it has copied is of that
\* block, whatever the writer does.
CopyInv(f, n) ==
  /\ n \in Nat
  /\ oblk = n % StrpBlockCount
  /\ copied \subseteq Parts
  /\ strip_pc \notin {"copy", "filled"} => copied = {}
  /\ strip_pc = "filled" => copied = Parts
  /\ \A i \in copied : out_data[oblk][i] = f[n][i]
  /\ DOMAIN out_data = StrpBlocks
  /\ \A b \in StrpBlocks : DOMAIN out_data[b] = Parts
  /\ out_filled \subseteq StrpBlocks

\* A writer that started at block s of the ring and has written w chunks is in
\* step: each block has been filled as often as it was written, or once more
\* when it is filled, and then it holds the block of its lap.
InStep(f, n, w, s) ==
  /\ s \in StrpBlocks
  /\ block_id = (s + w) % StrpBlockCount
  /\ strip_pc = "copy" => oblk \notin out_filled
  /\ write_pc \in {"write", "written"} => block_id \in out_filled
  /\ \A b \in StrpBlocks :
       Laps(HandedOn(n), b, 0) = Laps(w, b, s) + (IF b \in out_filled THEN 1 ELSE 0)
  /\ \A b \in out_filled : \A i \in Parts :
       out_data[b][i] = f[Laps(w, b, s) * StrpBlockCount + b][i]
  /\ DOMAIN buffered \subseteq Parts
  /\ buffered = [i \in DOMAIN buffered |-> f[Nth(w, s)][i]]
  /\ write_pc # "write" => DOMAIN buffered = {}

\* A writer whose block_id is no block of the ring waits for ever.
OffRing(w, s) ==
  /\ s \notin StrpBlocks
  /\ block_id = s
  /\ w = 0
  /\ write_pc \notin {"write", "written"}

\* Every chunk on disk is the whole block whose turn it was, one that the strip
\* thread had handed on.
ChunksRight(f, n, s) ==
  \A name \in DOMAIN files : \A c \in Chunks :
    files[name][c] # Unwritten =>
      /\ Nth(ChunkNo(name, c), s) \in 0 .. HandedOn(n) - 1
      /\ files[name][c] = [i \in Parts |-> f[Nth(ChunkNo(name, c), s)][i]]

\* The writer keeps up, and wrote what it should have.
KeepsUp(f, n, w, s) ==
  /\ w \in Nat /\ w = Written
  /\ InStep(f, n, w, s) \/ OffRing(w, s)
  /\ ChunksRight(f, n, s)

\* A step of the strip thread that frees no block starts from and ends with the
\* same n; m is the n after the step.
LEMMA HandedOnNext ==
  ASSUME StripNext, NEW n \in Nat, NEW m, m = HandedOn(n)
  PROVE  /\ m \in Nat
         /\ strip_pc = "copy" /\ strip_pc' = "filled" => m = n /\ HandedOn(m)' = n + 1
         /\ ~(strip_pc = "copy" /\ strip_pc' = "filled") => HandedOn(m)' = m
BY DEF StripNext, StripTake, StripCopy, StripSetFilled, StripSetFree, StripExit, HandedOn

\* Every step of the strip thread keeps CopyInv when the input block it is at
\* holds f[n].
LEMMA CopyStep ==
  ASSUME NEW f, NEW n, CopyInv(f, n), StripNext, NEW m, m = HandedOn(n),
         strip_pc = "copy" => \A i \in Parts : in_data[iblk][i] = f[n][i]
  PROVE  CopyInv(f, m)'
<1> USE DEF CopyInv, HandedOn
<1>1. oblk \in StrpBlocks
  BY StrpBlockCountNat DEF StrpBlocks
<1>2. CASE StripTake
  BY <1>2 DEF StripTake
<1>3. ASSUME NEW i \in Parts, StripCopy(i) PROVE CopyInv(f, m)'
  <2>1. /\ out_data' = [out_data EXCEPT ![oblk][i] = f[n][i]]
        /\ copied' = copied \union {i}
        /\ strip_pc = "copy" /\ strip_pc' = "copy" /\ m = n
        /\ UNCHANGED <<oblk, out_filled>>
    BY <1>3 DEF StripCopy
  <2>2. /\ DOMAIN out_data' = StrpBlocks
        /\ out_data'[oblk] = [out_data[oblk] EXCEPT ![i] = f[n][i]]
        /\ \A b \in StrpBlocks : b # oblk => out_data'[b] = out_data[b]
    BY <1>1, <2>1
  <2>3. /\ DOMAIN out_data'[oblk] = Parts
        /\ out_data'[oblk][i] = f[n][i]
        /\ \A j \in Parts : j # i => out_data'[oblk][j] = out_data[oblk][j]
    BY <1>1, <2>2
  <2> QED BY <1>1, <2>1, <2>2, <2>3
<1>4. CASE StripSetFilled
  BY <1>1, <1>4 DEF StripSetFilled, hdr_stripper_databuf_set_filled
<1>5. CASE StripSetFree
  <2>1. m = n + 1 /\ oblk' = (oblk + 1) % StrpBlockCount
    BY <1>5 DEF StripSetFree
  <2>2. (n + 1) % StrpBlockCount = ((n % StrpBlockCount) + 1) % StrpBlockCount
    <3> DEFINE c == StrpBlockCount
    <3>1. c \in Nat \ {0} /\ n \in Nat /\ 1 \in Nat
      BY StrpBlockCountNat
    <3> HIDE DEF c
    <3>2. (n + 1) % c = ((n % c) + 1) % c
      BY <3>1, ModSum
    <3> QED BY <3>2 DEF c
  <2> QED BY <1>5, <2>1, <2>2 DEF StripSetFree, outVars
<1>6. CASE StripExit
  BY <1>6 DEF StripExit, outVars
<1> QED BY <1>2, <1>3, <1>4, <1>5, <1>6 DEF StripNext

\* A step of the strip thread keeps the writer in step unless the thread starts
\* on a block that is still filled.
LEMMA StripKeepsStep ==
  ASSUME NEW f, NEW n, NEW w \in Nat, NEW s, CopyInv(f, n), InStep(f, n, w, s), StripNext,
         strip_pc = "wait" /\ strip_pc' = "copy" => oblk \notin out_filled,
         NEW m, m = HandedOn(n), UNCHANGED writeVars
  PROVE  InStep(f, m, w, s)'
<1>1. oblk \in StrpBlocks /\ 0 \in StrpBlocks /\ n \in Nat
  BY StrpBlockCountNat DEF StrpBlocks, CopyInv
<1>2. UNCHANGED <<block_id, buffered, write_pc>>
  BY DEF writeVars
<1>3. CASE UNCHANGED <<out_filled, out_data>> /\ HandedOn(m)' = HandedOn(n)
           /\ (strip_pc' = "copy" => oblk' \notin out_filled)
  BY <1>2, <1>3 DEF InStep
<1>4. CASE StripTake \/ StripSetFree \/ StripExit
  <2>1. UNCHANGED <<out_filled, out_data>> /\ HandedOn(m)' = HandedOn(n)
        /\ (strip_pc' = "copy" => oblk' \notin out_filled)
    BY <1>1, <1>4 DEF StripTake, StripSetFree, StripExit, outVars, HandedOn
  <2> QED BY <1>3, <2>1
<1>5. ASSUME NEW i \in Parts, StripCopy(i) PROVE InStep(f, m, w, s)'
  <2>1. /\ out_data' = [out_data EXCEPT ![oblk][i] = in_data[iblk][i]]
        /\ strip_pc = "copy" /\ strip_pc' = "copy" /\ HandedOn(n) = n /\ HandedOn(m)' = n
        /\ UNCHANGED <<oblk, out_filled>>
    BY <1>5 DEF StripCopy, HandedOn
  <2>2. \A b \in StrpBlocks : b # oblk => out_data'[b] = out_data[b]
    BY <1>1, <2>1 DEF CopyInv
  <2>3. \A b \in out_filled : b \in StrpBlocks /\ b # oblk
    BY <2>1 DEF InStep, CopyInv
  <2>4. \A b \in out_filled' : \A j \in Parts :
           out_data'[b][j] = f[Laps(w, b, s) * StrpBlockCount + b][j]
    BY <2>1, <2>2, <2>3 DEF InStep
  <2> QED BY <1>2, <2>1, <2>4 DEF InStep
<1>6. CASE StripSetFilled
  <2>1. /\ out_filled' = out_filled \union {oblk}
        /\ strip_pc = "copy" /\ strip_pc' = "filled" /\ copied = Parts
        /\ UNCHANGED <<oblk, out_data>>
        /\ HandedOn(n) = n /\ HandedOn(m)' = n + 1
    BY <1>6 DEF StripSetFilled, hdr_stripper_databuf_set_filled, HandedOn
  <2>2. s \in StrpBlocks /\ oblk \notin out_filled
    BY <2>1 DEF InStep
  <2>3. oblk = (0 + n) % StrpBlockCount
    BY <1>1 DEF CopyInv
  <2>4. ASSUME NEW b \in StrpBlocks
        PROVE  Laps(n + 1, b, 0) = Laps(w, b, s) + (IF b \in out_filled' THEN 1 ELSE 0)
    <3>1. Laps(n + 1, b, 0) = Laps(n, b, 0) + (IF b = oblk THEN 1 ELSE 0)
      BY <1>1, <2>3, LapsNext
    <3>2. Laps(n, b, 0) = Laps(w, b, s) + (IF b \in out_filled THEN 1 ELSE 0)
      BY <2>1 DEF InStep
    <3>3. Laps(w, b, s) \in Nat
      BY <2>2, LapsHere
    <3> QED BY <2>1, <2>2, <3>1, <3>2, <3>3
  <2>5. Laps(w, oblk, s) * StrpBlockCount + oblk = n
    <3>1. Laps(n, oblk, 0) = Laps(w, oblk, s)
      <4>1. Laps(n, oblk, 0) = Laps(w, oblk, s) + 0
        BY <1>1, <2>1, <2>2 DEF InStep
      <4>2. Laps(w, oblk, s) \in Nat
        BY <1>1, <2>2, LapsHere
      <4> QED BY <4>1, <4>2
    <3>2. Nth(n, 0) = Laps(n, oblk, 0) * StrpBlockCount + oblk
      BY <1>1, <2>3, LapsHere
    <3> QED BY <1>1, <3>1, <3>2, NthFromZero
  <2>6. ASSUME NEW b \in out_filled', NEW i \in Parts
        PROVE  out_data'[b][i] = f[Laps(w, b, s) * StrpBlockCount + b][i]
    <3>1. CASE b = oblk
      BY <2>1, <2>5, <3>1 DEF CopyInv
    <3>2. CASE b # oblk
      BY <2>1, <3>2 DEF InStep
    <3> QED BY <3>1, <3>2
  <2> QED BY <1>2, <2>1, <2>4, <2>6 DEF InStep
<1> QED BY <1>4, <1>5, <1>6 DEF StripNext

\* A step of the strip thread leaves what is on disk as right as it was.
LEMMA StripKeepsUp ==
  ASSUME NEW f, NEW n, NEW w, NEW s, CopyInv(f, n), KeepsUp(f, n, w, s), StripNext,
         strip_pc = "wait" /\ strip_pc' = "copy" => oblk \notin out_filled,
         NEW m, m = HandedOn(n), UNCHANGED writeVars
  PROVE  KeepsUp(f, m, w, s)'
<1>1. UNCHANGED <<files, nblks, block_id, write_pc>>
  BY DEF writeVars
<1>2. Written' = Written
  BY <1>1 DEF Written
<1>3. InStep(f, n, w, s) => InStep(f, m, w, s)'
  BY StripKeepsStep DEF KeepsUp
<1>4. OffRing(w, s) => OffRing(w, s)'
  BY <1>1 DEF OffRing, StrpBlocks, StrpBlockCount
<1>5. ChunksRight(f, m, s)'
  <2>1. n \in Nat /\ HandedOn(n) \in Nat /\ HandedOn(m)' \in Nat /\ HandedOn(n) <= HandedOn(m)'
    BY HandedOnNext DEF CopyInv, HandedOn
  <2> SUFFICES ASSUME NEW name \in DOMAIN files, NEW c \in Chunks, files[name][c] # Unwritten
               PROVE  /\ Nth(ChunkNo(name, c), s) \in 0 .. HandedOn(m)' - 1
                      /\ files[name][c] = [i \in Parts |-> f[Nth(ChunkNo(name, c), s)][i]]
    BY <1>1 DEF ChunksRight, ChunkNo, Nth, StrpBlockCount, Chunks
  <2>2. /\ Nth(ChunkNo(name, c), s) \in 0 .. HandedOn(n) - 1
        /\ files[name][c] = [i \in Parts |-> f[Nth(ChunkNo(name, c), s)][i]]
    BY DEF KeepsUp, ChunksRight
  <2> QED BY <2>1, <2>2
<1> QED BY <1>2, <1>3, <1>4, <1>5 DEF KeepsUp

\* The writer touches nothing of the copy.
LEMMA CopyKept ==
  ASSUME NEW f, NEW n, CopyInv(f, n), WriteNext, UNCHANGED stripVars
  PROVE  CopyInv(f, n)'
<1>1. UNCHANGED out_data /\ out_filled' \subseteq StrpBlocks
  BY DEF WriteNext, WriteLoop, WriteTake, WriteRead, WriteChunk, WriteSetFree, WriteExit,
         outVars, hdr_stripper_databuf_set_free, CopyInv
<1> QED BY <1>1 DEF CopyInv, stripVars, StrpBlocks, StrpBlockCount

\* The block the writer has taken is the one whose turn it is.
LEMMA BlockTaken ==
  ASSUME NEW f, NEW n, NEW w \in Nat, NEW s, CopyInv(f, n), InStep(f, n, w, s),
         block_id \in out_filled
  PROVE  /\ block_id \in StrpBlocks
         /\ Nth(w, s) \in 0 .. HandedOn(n) - 1
         /\ \A i \in Parts : out_data[block_id][i] = f[Nth(w, s)][i]
<1>1. block_id \in StrpBlocks /\ s \in StrpBlocks /\ block_id = (s + w) % StrpBlockCount
  BY DEF CopyInv, InStep
<1>2. /\ Laps(w, block_id, s) \in Nat
      /\ Nth(w, s) = Laps(w, block_id, s) * StrpBlockCount + block_id
  BY <1>1, LapsHere
<1>3. Laps(HandedOn(n), block_id, 0) = Laps(w, block_id, s) + 1
  BY <1>1 DEF InStep
<1>4. HandedOn(n) \in Nat
  BY DEF HandedOn, CopyInv
<1>5. Nth(w, s) < HandedOn(n)
  BY <1>1, <1>2, <1>3, <1>4, LapsBound
<1>6. Nth(w, s) \in Nat
  <2> DEFINE q == Laps(w, block_id, s)
             c == StrpBlockCount
  <2>1. q \in Nat /\ c \in Nat /\ block_id \in Nat
    BY <1>1, <1>2, StrpBlockCountNat DEF StrpBlocks
  <2> HIDE DEF q, c
  <2>2. q * c + block_id \in Nat
    BY <2>1
  <2> QED BY <1>2, <2>2 DEF q, c
<1>7. \A i \in Parts : out_data[block_id][i] = f[Nth(w, s)][i]
  BY <1>2 DEF InStep
<1> QED BY <1>1, <1>4, <1>5, <1>6, <1>7

\* Each step of the writer keeps it in step; it has written one chunk more when
\* it gives a block back.
LEMMA WriteKeepsStep ==
  ASSUME NEW f, NEW n, NEW w \in Nat, NEW s, CopyInv(f, n), InStep(f, n, w, s),
         WriteNext, UNCHANGED stripVars,
         NEW v, v = IF write_pc = "written" THEN w + 1 ELSE w
  PROVE  InStep(f, n, v, s)'
<1>1. HandedOn(n)' = HandedOn(n) /\ UNCHANGED <<strip_pc, oblk>>
  BY DEF HandedOn, stripVars
<1>2. CASE WriteLoop \/ WriteTake \/ WriteExit
  <2>1. UNCHANGED <<out_filled, out_data, block_id, buffered>> /\ v = w
        /\ write_pc # "write" /\ (write_pc' = "write" => block_id \in out_filled)
        /\ write_pc' # "written"
    BY <1>2 DEF WriteLoop, WriteTake, WriteExit, outVars, hdr_stripper_databuf_wait_filled
  <2> QED BY <1>1, <2>1 DEF InStep
<1>3. ASSUME NEW i \in Parts, WriteRead(i) PROVE InStep(f, n, v, s)'
  <2>1. /\ write_pc = "write" /\ v = w
        /\ buffered' = MapsTo(buffered, i, out_data[block_id][i])
        /\ UNCHANGED <<write_pc, block_id, out_filled, out_data>>
    BY <1>3 DEF WriteRead, outVars
  <2>2. out_data[block_id][i] = f[Nth(w, s)][i]
    BY <2>1, BlockTaken DEF InStep
  <2>3. /\ DOMAIN buffered' = DOMAIN buffered \union {i}
        /\ buffered' = [j \in DOMAIN buffered' |-> f[Nth(w, s)][j]]
    BY <2>1, <2>2 DEF MapsTo, InStep
  <2> QED BY <1>1, <2>1, <2>3 DEF InStep
<1>4. CASE WriteChunk
  <2>1. /\ write_pc = "write" /\ write_pc' = "written" /\ v = w /\ buffered' = <<>>
        /\ UNCHANGED <<block_id, out_filled, out_data>>
    BY <1>4 DEF WriteChunk, outVars
  <2>2. DOMAIN buffered' = {} /\ buffered' = [j \in DOMAIN buffered' |-> f[Nth(w, s)][j]]
    BY <2>1
  <2> QED BY <1>1, <2>1, <2>2 DEF InStep
<1>5. CASE WriteSetFree
  <2>1. /\ write_pc = "written" /\ write_pc' = "loop" /\ v = w + 1
        /\ out_filled' = out_filled \ {block_id}
        /\ block_id' = (block_id + 1) % StrpBlockCount
        /\ UNCHANGED <<buffered, out_data>>
    BY <1>5 DEF WriteSetFree, hdr_stripper_databuf_set_free
  <2>2. block_id \in out_filled /\ block_id \in StrpBlocks /\ s \in StrpBlocks
        /\ block_id = (s + w) % StrpBlockCount
    BY <2>1, BlockTaken DEF InStep
  <2>3. block_id' = (s + v) % StrpBlockCount
    <3> DEFINE c == StrpBlockCount
               k == s + w
    <3>1. c \in Nat \ {0} /\ k \in Nat /\ 1 \in Nat /\ s + v = k + 1
      BY <2>1, <2>2, StrpBlockCountNat DEF StrpBlocks
    <3> HIDE DEF c, k
    <3>2. (k + 1) % c = ((k % c) + 1) % c
      BY <3>1, ModSum
    <3> QED BY <2>1, <2>2, <3>1, <3>2 DEF c, k
  <2>4. ASSUME NEW b \in StrpBlocks
        PROVE  Laps(v, b, s) = Laps(w, b, s) + (IF b = block_id THEN 1 ELSE 0)
    BY <2>1, <2>2, LapsNext
  <2>5. ASSUME NEW b \in StrpBlocks
        PROVE  Laps(HandedOn(n), b, 0) = Laps(v, b, s) + (IF b \in out_filled' THEN 1 ELSE 0)
    <3>1. Laps(HandedOn(n), b, 0) = Laps(w, b, s) + (IF b \in out_filled THEN 1 ELSE 0)
      BY DEF InStep
    <3>2. Laps(w, b, s) \in Nat
      BY <2>2, LapsHere
    <3> QED BY <2>1, <2>2, <2>4, <3>1, <3>2
  <2>6. ASSUME NEW b \in out_filled', NEW i \in Parts
        PROVE  out_data'[b][i] = f[Laps(v, b, s) * StrpBlockCount + b][i]
    <3>1. b \in StrpBlocks /\ b \in out_filled /\ b # block_id
      BY <2>1 DEF CopyInv
    <3>2. Laps(v, b, s) = Laps(w, b, s)
      BY <2>2, <2>4, <3>1, LapsHere
    <3> QED BY <2>1, <3>1, <3>2 DEF InStep
  <2>7. buffered' = [j \in DOMAIN buffered' |-> f[Nth(v, s)][j]] /\ DOMAIN buffered' = {}
    BY <2>1 DEF InStep
  <2>8. strip_pc' = "copy" => oblk' \notin out_filled'
    BY <1>1, <2>1 DEF InStep
  <2> QED BY <1>1, <2>1, <2>2, <2>3, <2>5, <2>6, <2>7, <2>8 DEF InStep
<1> QED BY <1>2, <1>3, <1>4, <1>5 DEF WriteNext

\* A writer that is off the ring stays there.
LEMMA OffRingStays ==
  ASSUME NEW f, NEW n, NEW w, NEW s, CopyInv(f, n), OffRing(w, s), WriteNext
  PROVE  OffRing(w, s)' /\ write_pc # "written" /\ ~WriteChunk
BY DEF OffRing, CopyInv, WriteNext, WriteLoop, WriteTake, WriteRead, WriteChunk,
       WriteSetFree, WriteExit, hdr_stripper_databuf_wait_filled, StrpBlocks, StrpBlockCount

\* A step of the writer leaves what is on disk right.
LEMMA WriteKeepsUp ==
  ASSUME NEW f, NEW n, NEW w, NEW s, FilesInv, CopyInv(f, n), KeepsUp(f, n, w, s),
         WriteNext, UNCHANGED stripVars
  PROVE  \E v \in Nat : KeepsUp(f, n, v, s)'
<1>v. PICK v : v = IF write_pc = "written" THEN w + 1 ELSE w
  OBVIOUS
<1>1. w \in Nat /\ w = Written /\ HandedOn(n)' = HandedOn(n)
  BY DEF KeepsUp, HandedOn, stripVars
<1>2. v \in Nat /\ v = Written'
  BY <1>v, <1>1, ChunkNosKept
<1>3. InStep(f, n, w, s) => InStep(f, n, v, s)'
  BY <1>v, <1>1, WriteKeepsStep
<1>4. OffRing(w, s) => OffRing(v, s)'
  BY <1>v, OffRingStays DEF OffRing
<1>5. ASSUME NEW name \in DOMAIN files', NEW c \in Chunks, files'[name][c] # Unwritten
      PROVE  /\ Nth(ChunkNo(name, c)', s) \in 0 .. HandedOn(n) - 1
             /\ files'[name][c] = [i \in Parts |-> f[Nth(ChunkNo(name, c)', s)][i]]
  <2>1. CASE name \in DOMAIN files /\ files'[name][c] = files[name][c]
    <3>1. ChunkNo(name, c)' = ChunkNo(name, c)
      BY <2>1, ChunkNosKept
    <3>2. /\ Nth(ChunkNo(name, c), s) \in 0 .. HandedOn(n) - 1
          /\ files[name][c] = [i \in Parts |-> f[Nth(ChunkNo(name, c), s)][i]]
      BY <1>5, <2>1 DEF KeepsUp, ChunksRight
    <3> QED BY <2>1, <3>1, <3>2
  <2>2. CASE WriteLoop
    <3>1. CASE FileFull
      BY <1>5, <2>1, <2>2, <3>1, NewFileMade DEF NewFile
    <3>2. CASE ~FileFull
      BY <2>1, <2>2, <3>2 DEF WriteLoop
    <3> QED BY <3>1, <3>2
  <2>3. CASE WriteChunk
    <3>1. CASE ~(name = filename /\ c = nblks)
      BY <2>1, <2>3, <3>1, ChunkWritten
    <3>2. CASE name = filename /\ c = nblks
      <4>1. files'[name][c] = buffered /\ name \in DOMAIN files /\ DOMAIN buffered = Parts
        BY <1>5, <2>3, <3>2, ChunkWritten DEF WriteChunk
      <4>2. ChunkNo(name, c)' = w
        BY <1>1, <2>3, <3>2, <4>1, ChunkNosKept, NextChunkNo DEF FilesInv, WriteChunk
      <4>3. InStep(f, n, w, s)
        BY <2>3, OffRingStays DEF KeepsUp
      <4>4. /\ Nth(w, s) \in 0 .. HandedOn(n) - 1
            /\ buffered = [i \in Parts |-> f[Nth(w, s)][i]]
        BY <1>1, <2>3, <4>1, <4>3, BlockTaken DEF InStep, WriteChunk
      <4> QED BY <4>1, <4>2, <4>4
    <3> QED BY <3>1, <3>2
  <2>4. CASE WriteTake \/ WriteExit \/ WriteSetFree \/ \E i \in Parts : WriteRead(i)
    <3>1. UNCHANGED files
      BY <2>4 DEF WriteTake, WriteExit, WriteSetFree, WriteRead
    <3> QED BY <2>1, <3>1
  <2> QED BY <2>2, <2>3, <2>4 DEF WriteNext
<1>6. ChunksRight(f, n, s)'
  BY <1>1, <1>5 DEF ChunksRight, Chunks, Nth, StrpBlockCount
<1> QED BY <1>2, <1>3, <1>4, <1>6 DEF KeepsUp

-----------------------------------------------------------------------------
(* What the modules that compose the threads use. *)

\* The writer keeps up, wherever its uninitialised block_id made it start.
Recorded(f, n) == \E s \in BlockIdAtStart : \E w \in Nat : KeepsUp(f, n, w, s)

\* Before the first chunk there is none on disk.
LEMMA NothingWritten ==
  ASSUME FilesInv, Written = 0, write_pc \notin {"write", "written"},
         NEW name \in DOMAIN files, NEW c \in Chunks
  PROVE  files[name][c] = Unwritten
<1> DEFINE k == Cardinality(DOMAIN files)
<1>1. k \in Nat /\ k # 0 /\ NBlockPerFile \in Nat \ {0} /\ nblks \in 0 .. NBlockPerFile
  BY FilesFinite, FS_EmptySet, WriteThreadAssumption DEF FilesInv
<1>2. (k - 1) * NBlockPerFile + nblks = 0
  BY DEF Written
<1> HIDE DEF k
<1>3. k = 1 /\ nblks = 0
  <2>1. (k - 1) * NBlockPerFile \in Nat
    BY <1>1
  <2>2. (k - 1) * NBlockPerFile = 0 /\ nblks = 0
    BY <1>1, <1>2, <2>1
  <2>3. ASSUME k - 1 >= 1 PROVE (k - 1) * NBlockPerFile >= NBlockPerFile
    BY <1>1, <2>3
  <2> QED BY <1>1, <2>2, <2>3
<1>4. filename \in DOMAIN files /\ \A d \in Chunks : d >= 0 => files[filename][d] = Unwritten
  BY <1>1, <1>3 DEF FilesInv, NextChunk
<1>5. name = filename
  BY <1>3, <1>4, FilesFinite, FS_Singleton DEF k
<1> QED BY <1>4, <1>5 DEF Chunks

\* At the start nothing is filled, copied or written.
LEMMA DiskInit ==
  ASSUME NEW f, NEW zero, hdr_stripper_databuf_create(zero), StripInit, WriteInit
  PROVE  FilesInv /\ CopyInv(f, 0) /\ Recorded(f, 0)
<1>1. /\ out_filled = {} /\ strip_pc = "wait" /\ write_pc = "loop" /\ oblk = 0 /\ copied = {}
      /\ DOMAIN buffered = {} /\ DOMAIN files = {} /\ nblks = NBlockPerFile
      /\ block_id \in BlockIdAtStart
  BY DEF hdr_stripper_databuf_create, StripInit, WriteInit
<1>2. DOMAIN out_data = StrpBlocks /\ \A b \in StrpBlocks : DOMAIN out_data[b] = Parts
  BY DEF hdr_stripper_databuf_create
<1>3. CopyInv(f, 0)
  BY <1>1, <1>2, StrpBlockCountNat DEF CopyInv
<1>4. Written = 0
  BY <1>1, FS_EmptySet, WriteThreadAssumption DEF Written
<1> DEFINE s == block_id
<1>5. CASE s \in StrpBlocks
  <2>1. s = (s + 0) % StrpBlockCount
    BY <1>5, StrpBlockCountNat DEF StrpBlocks
  <2>2. \A b \in StrpBlocks : Laps(0, b, 0) = 0 /\ Laps(0, b, s) = 0
    <3>1. 0 \in StrpBlocks /\ 0 \in Nat
      BY StrpBlockCountNat DEF StrpBlocks
    <3> QED BY <1>5, <3>1, LapsHere
  <2>3. buffered = [i \in DOMAIN buffered |-> f[Nth(0, s)][i]]
    BY DEF WriteInit
  <2>4. InStep(f, 0, 0, s)
    BY <1>1, <1>5, <2>1, <2>2, <2>3 DEF InStep, HandedOn
  <2> QED BY <1>1, <1>3, <1>4, <2>4, FilesInit DEF Recorded, KeepsUp, ChunksRight
<1>6. CASE s \notin StrpBlocks
  <2>1. OffRing(0, s)
    BY <1>1, <1>6 DEF OffRing
  <2> QED BY <1>1, <1>3, <1>4, <2>1, FilesInit DEF Recorded, KeepsUp, ChunksRight
<1> QED BY <1>5, <1>6

\* A step of the strip thread; m blocks are freed after it.
LEMMA StripDisk ==
  ASSUME NEW f, NEW n, NEW m, m = HandedOn(n), CopyInv(f, n), Recorded(f, n), StripNext,
         strip_pc = "wait" /\ strip_pc' = "copy" => oblk \notin out_filled,
         UNCHANGED writeVars
  PROVE  Recorded(f, m)'
<1>1. PICK s \in BlockIdAtStart, w \in Nat : KeepsUp(f, n, w, s)
  BY DEF Recorded
<1>2. KeepsUp(f, m, w, s)'
  BY <1>1, StripKeepsUp
<1> QED BY <1>2 DEF Recorded

\* A step of the writer.
LEMMA WriteDisk ==
  ASSUME NEW f, NEW n, FilesInv, CopyInv(f, n), Recorded(f, n), WriteNext,
         UNCHANGED stripVars
  PROVE  Recorded(f, n)'
<1>1. PICK s \in BlockIdAtStart, w \in Nat : KeepsUp(f, n, w, s)
  BY DEF Recorded
<1>2. \E v \in Nat : KeepsUp(f, n, v, s)'
  BY <1>1, WriteKeepsUp
<1> QED BY <1>2 DEF Recorded

\* A step that leaves both threads and their databuf alone.
LEMMA DiskKept ==
  ASSUME NEW f, NEW n, UNCHANGED <<outVars, stripVars, writeVars>>
  PROVE  /\ FilesInv => FilesInv'
         /\ CopyInv(f, n) => CopyInv(f, n)'
         /\ Recorded(f, n) => Recorded(f, n)'
<1> USE DEF outVars, stripVars, writeVars
<1>1. FilesInv => FilesInv'
  BY DEF FilesInv, NextChunk
<1>2. CopyInv(f, n) => CopyInv(f, n)'
  BY DEF CopyInv
<1>3. ASSUME NEW s, NEW w, KeepsUp(f, n, w, s) PROVE KeepsUp(f, n, w, s)'
  <2>1. InStep(f, n, w, s) => InStep(f, n, w, s)'
    BY DEF InStep, HandedOn
  <2>2. OffRing(w, s) => OffRing(w, s)'
    BY DEF OffRing
  <2>3. ChunksRight(f, n, s) => ChunksRight(f, n, s)'
    BY DEF ChunksRight, HandedOn, ChunkNo
  <2> QED BY <1>3, <2>1, <2>2, <2>3 DEF KeepsUp, Written
<1>4. Recorded(f, n) => Recorded(f, n)'
  BY <1>3 DEF Recorded
<1> QED BY <1>1, <1>2, <1>4

\* Only the blocks that the strip thread has been given matter.
LEMMA ContentsAgree ==
  ASSUME NEW f, NEW g, NEW n, CopyInv(f, n),
         \A j \in 0 .. n - 1 : g[j] = f[j],
         strip_pc \in {"copy", "filled"} => g[n] = f[n]
  PROVE  /\ CopyInv(g, n)
         /\ Recorded(f, n) => Recorded(g, n)
<1>1. n \in Nat /\ HandedOn(n) \in Nat
      /\ \A j \in 0 .. HandedOn(n) - 1 : g[j] = f[j]
  BY DEF CopyInv, HandedOn
<1>2. CopyInv(g, n)
  BY DEF CopyInv
<1>3. ASSUME NEW s \in BlockIdAtStart, NEW w \in Nat, KeepsUp(f, n, w, s)
      PROVE  KeepsUp(g, n, w, s)
  <2>1. ASSUME InStep(f, n, w, s) PROVE InStep(g, n, w, s)
    <3>1. ASSUME NEW b \in out_filled
          PROVE  Laps(w, b, s) * StrpBlockCount + b \in 0 .. HandedOn(n) - 1
      <4> DEFINE q == Laps(w, b, s)
                 c == StrpBlockCount
      <4>1. b \in StrpBlocks /\ s \in StrpBlocks
        BY <2>1 DEF InStep, CopyInv
      <4>2. q \in Nat /\ c \in Nat /\ b \in Nat
        <5>1. q \in Nat
          BY <4>1, LapsHere
        <5> HIDE DEF q
        <5> QED BY <4>1, <5>1, StrpBlockCountNat DEF StrpBlocks
      <4>3. Laps(HandedOn(n), b, 0) = q + 1
        BY <2>1, <4>1 DEF InStep
      <4> HIDE DEF q
      <4>4. q * c + b < HandedOn(n)
        BY <1>1, <4>1, <4>2, <4>3, LapsBound
      <4> HIDE DEF c
      <4>5. q * c + b \in Nat
        BY <4>2
      <4> QED BY <1>1, <4>4, <4>5 DEF q, c
    <3>2. \A b \in out_filled : \A i \in Parts :
             out_data[b][i] = g[Laps(w, b, s) * StrpBlockCount + b][i]
      BY <1>1, <2>1, <3>1 DEF InStep
    <3>3. buffered = [i \in DOMAIN buffered |-> g[Nth(w, s)][i]]
      <4>1. CASE write_pc = "write"
        <5>1. Nth(w, s) \in 0 .. HandedOn(n) - 1
          BY <2>1, <4>1, BlockTaken DEF InStep
        <5> QED BY <1>1, <2>1, <5>1 DEF InStep
      <4>2. CASE write_pc # "write"
        BY <2>1, <4>2 DEF InStep
      <4> QED BY <4>1, <4>2
    <3> QED BY <2>1, <3>2, <3>3 DEF InStep
  <2>2. ChunksRight(g, n, s)
    <3> SUFFICES ASSUME NEW name \in DOMAIN files, NEW c \in Chunks,
                        files[name][c] # Unwritten
                 PROVE  /\ Nth(ChunkNo(name, c), s) \in 0 .. HandedOn(n) - 1
                        /\ files[name][c] = [i \in Parts |-> g[Nth(ChunkNo(name, c), s)][i]]
      BY DEF ChunksRight
    <3>1. /\ Nth(ChunkNo(name, c), s) \in 0 .. HandedOn(n) - 1
          /\ files[name][c] = [i \in Parts |-> f[Nth(ChunkNo(name, c), s)][i]]
      BY <1>3 DEF KeepsUp, ChunksRight
    <3>2. g[Nth(ChunkNo(name, c), s)] = f[Nth(ChunkNo(name, c), s)]
      BY <1>1, <3>1
    <3> QED BY <3>1, <3>2
  <2> QED BY <1>3, <2>1, <2>2 DEF KeepsUp
<1> QED BY <1>2, <1>3 DEF Recorded
=============================================================================
