# A verification of the HERA disk recorder

The recorder is a hashpipe plugin: three threads in a pipeline, joined by two
rings of blocks in shared memory, that take F-engine packets off the network,
keep the first channels and write them to HDF5 files.  This directory holds
TLA+ models of the threads, the rings and what feeds them, the TLC runs that
check them, and machine-checked proofs.

    F engines --UDP--> packet socket --> net thread --input databuf--> strip thread
                       --stripper databuf--> write thread --> HDF5 files

## Inventory

| part | source | state | operations | modelled in |
|---|---|---|---|---|
| input databuf | `hdr_databuf.c`, `hdr_databuf.h` | per block a semaphore (free/filled), a header (`good_data`, `mcnt`), data | create, wait free, wait filled, set free, set filled | `InputDatabuf` |
| stripper databuf | same | the same | the same | `StripDatabuf` |
| net thread | `hera_pktsock_thread.c` | `binfo` (window start `mcnt_start`, `block_i`, `out_of_seq_cnt`, packet counters), `last_filled`, status keys | hold, start, process a packet (store, advance, late, out of sequence, reset), exit | `NetThread` |
| fake net thread | `hdr_fake_net_thread.c` | `block_idx`, `mcnt` | wait, fill, set filled, exit | `FakeNetThread` |
| strip thread | `hdr_strip_thread.c` | `iblk`, `oblk`, how far the copy is | take, copy, set filled, set free, exit | `StripThread`; its reading side also in `Capture` |
| write thread | `hdr_write_thread.c` | `block_id`, `nblks`, file name, files | new file, take, read, write chunk, set free, exit | `WriteThread` |
| data layout | index macros of `hdr_databuf.h` and their uses, `hdr_hdf5_header.h` | where the bytes are | store a packet, transpose, write a chunk | `Layout` |
| HDF5 header | `hdr_write_thread.c` | none | constant values | left out |
| packet socket | library, used by `hera_pktsock_thread.c` | the ring of frames | open, a packet arrives, receive, release | `PktSocket` (external) |
| F engines, network | outside the repository; comments of `process_packet` | the mcnt clock, packets under way | send, lose, cut short, straggle, roll over, restart | `FEngines` (external) |
| hashpipe, HDF5 | libraries | | | external: what the callers rely on |
| build files, `init.sh`, `read_hdf5.py` | | none | | left out |

The threads interact only through the databufs, the net thread with the network
only through the packet socket.  A wait observes a semaphore
and changes nothing, a set assigns it whatever it was, so the semaphores enforce
nothing: which thread may touch which block is a convention of the threads.
What makes the system hard:

* **Two counters that never meet.** The net thread's block comes from packet
  mcnts, the strip thread's from counting.  They must agree through lost and
  late packets and through resets of the window.
* **A window of three blocks, two of them held.** The third is waited for when
  its first packet comes, and a reset moves the window in time while the two
  blocks stay held.
* **A window that follows the packets.** The F engines' clock rolls over and is
  restarted; lost and late packets must not move the window, a jump of the clock
  must.
* **No back pressure after the strip thread.** It never waits for its output
  block, so a slow writer is lapped.
* **Unlucky values.** Unsigned counts of missing packets, an uninitialised block
  index, file names with a resolution of a second, HDF5 calls whose status
  nobody looks at.

What makes each part correct: the *input databuf* is a queue (every block once,
in order, unchanged until given back); the *net thread* fills blocks in ring
order, stores only in blocks it holds, labels them with the time they hold,
never waits for ever, and finds the packets again wherever they went; the *strip thread* passes whole blocks on and never stops
the capture; the *write thread* puts every block it is handed on disk in order,
and never destroys what is on disk.

## Modules

* `InputDatabuf`, `StripDatabuf` - the rings. `in_filled` is the set of blocks
  whose semaphore is 1; the waits are guards, the sets are assignments.
* `NetThread` (extends `InputDatabuf`) - `hera_pktsock_thread`. `process_packet`
  is five actions, one per path: `NetStore`, `NetAdvance` (mark the current
  block filled, slide the window, go and wait) with `NetAcquire` (the wait is
  over: initialise the block, store the packet, report `NETMCNT`), `NetLate`,
  `NetOutOfSeq` and `NetReset`. `NetRelease`, `NetStart` and `NetExit` are the
  rest of `run`. Every step takes any packet: the network may reorder, repeat
  and lose as it likes.
* `Capture` - the net thread with the reading side of the strip thread on the
  input databuf; the properties of the net thread are stated here.
* `BlockQueue` - the abstract specification of a databuf between two threads: a
  bounded first-in first-out queue whose oldest block is read in place.
* `FakeNetThread`, `StripThread`, `WriteThread`, composed by `Recorder` - the
  pipeline fed by the fake net thread, down to the chunks in the files. The copy
  of the strip thread and the read by `H5Dwrite` go part by part, so that they
  may overlap. `lapped` is a history variable: the strip thread has started on
  an output block that was still filled.
* `PktSocket` - the memory-mapped ring of frames of the packet socket, as far as
  the net thread relies on it: packets that find no free frame are dropped, the
  oldest frame is looked at and later given back.
* `FEngines` (extends `PktSocket`) - what sends: F engines with one clock that
  rolls over at the range of the mcnt and starts again at 0 on a restart, and a
  network that loses packets, cuts them short and lets one straggle.
* `Reception` (extends both and `NetThread`) - the receiving side as deployed:
  F engines, network, packet socket and net thread with the reader of `Capture`.
  The main loop of `run` is here: `NetBegin` ("drop all packets to date"),
  `NetReceive` (`process_packet` of the oldest frame, which is given back when it
  returns), `NetResume` (the wait inside it is over: the payload is copied from the
  frame as it is now, `FramePayload`, while the header is the one read before the
  wait), `NetWrongSize`. `anchor` and
  `strays` are history: the mcnt of the last packet that was stored or moved the
  window, and how many packets were out of sequence since then.
* `NetRecorder` - net thread, strip thread and write thread on both rings, the
  recorder as deployed, with any packets. `handed`, `straddled` and `lapped` are
  history: the data of each block when it was handed over, whether the window has
  ever started inside a block, and whether the writer was lapped.
* `CaptureProofs`, `WindowProofs` - theorems about `Capture`; `ReceptionProofs`,
  `NetRecorderProofs`, `RecorderProofs` - about the modules they are named after;
  `DiskProofs` - what the last two share, about the strip and the write thread
  whatever thread feeds them.
* `MCCapture`, `MCReception`, `MCNetRecorder` - the definitions TLC needs.
* `Layout` - one block of each ring followed through the turns that fill a file,
  byte by byte: `StorePacket` is the copy loop of `process_packet` with the word
  index of the macros, `StripCopy` one iteration of the strip thread's loops with
  the byte indices, `WriteBlock` the hyperslab. A byte is the sample it holds and
  the turn it was taken in. A packet may carry any antenna and any channel, is
  taken when the code's check lets it pass (`calc_block_indexes`), and is copied to
  wherever the macro says, past the end of the block too: which packets get there is
  a property.
* `LayoutProofs` - theorems about `Layout`; `Arithmetic` - division with rest and
  numbers in digits, for the proof modules.

Operators described as *Mutant* are the code with a plausible mistake in it;
the specifications do not use them. Each property is known to fail when one of
them takes the place of the definition after it.

### How data are abstracted

The data field of an input block is one value per packet slot (`Slots`: time
index times first antenna of a packet) and a slot holds the mcnt of the packet
stored there, which is all the properties tell apart. In `Recorder` a block is
a few `Parts`, each holding the mcnt of its block. Assumed of the packets outside
`Layout`: their channel is the first of an X engine's and their antenna the first of
a group of `N_INPUTS_PER_PACKET/2` (`PktAnts`), except that the antenna may be too
large, which the code checks. `Layout` makes no such assumption. Frames of the wrong size are a lost packet in `Capture`
and frames of their own in `Reception`. hashpipe's semaphores and zeroed shared
memory, the packet socket and HDF5 are external. An HDF5 failure is a chunk that stays unwritten;
a file that cannot be created is a file none of whose chunks is written. The time
stamps written next to the data, the XID, log messages, display strings and the
timing and socket statistics are left out. The out-of-sequence counter stops one
above its limit, beyond which the code does not tell values apart.

## Runs

| run | question | outcome |
|---|---|---|
| `capture` | safety of the net thread, refinement of `BlockQueue`, does every wait for a block end | holds |
| `capture_reset_write` | is a filled block ever written to | it is, after a reset |
| `capture_good_data` | is a good block complete | not with duplicates or bad antennas |
| `capture_missed_fengines` | is there an F engine missing for each one `MISSEDFE` reports | not when a single packet is lost |
| `capture_debug_blocks` | can the threads wait for each other in a debug build | they can |
| `reception` | does the window follow the packets, through losses, rollover and restarts, and only then; does `Capture` allow all of it | holds |
| `reception_strays` | are two stray packets in a row always tolerated | not right after a reset |
| `net_recorder` | is what the net thread hands over what reaches the disk | it is, while the writer keeps up and the window is aligned |
| `recorder` | what is on disk, refinement of `BlockQueue`, do both rings drain | holds |
| `recorder_overrun` | are the chunks the blocks in order | not with a slow writer |
| `recorder_block_id` | the same with a writer that keeps up | not if it starts elsewhere |
| `layout` | which packets are copied past the end of a block; does each sample reach its place in the file | those for the last row that lack antennas or channels; it does, unless a misplaced packet was copied over it |

The runs that fail are about statements of comments in the source that the code
does not keep; `PROJECT.json` quotes each. Observations without a run of their own:

* `MISSEDFE` multiplies the missing packets by `N_INPUTS_PER_PACKET/2` before it
  divides, so it is not 0 when fewer packets than an F engine sends are missing,
  and those packets are counted in `MISSEDPK` as well. With more packets than a
  block has (duplicates), the unsigned count of missing packets wraps round: with
  one packet per F engine that violates `MissedFenginesExplained` too.
* `hdr_databuf.h:128` calls the header's `mcnt` that of the first packet; it is made
  from whichever packet came first (`hera_pktsock_thread.c:299-300`), so it
  need not be the first mcnt of the block's data.
* `hera_pktsock_thread.c:344-348` says that `process_packet` returns the mcnt of the
  block it marked filled, or -1 when it marked none. When the packet that makes it
  mark a block carries an antenna that does not exist, it returns -1 all the same
  (line 460): `NETBKOUT` moves on and `NETMCNT` does not. `StatusKeysPartOnlyOnReject`
  says that this is the only way the two come apart.
* The check of line 271 speaks of antennas "out of range (0-%d)" and looks at the
  first antenna of a packet; the copy loop takes the ones after it too, and nothing looks
  at the channel before its payload is copied into the row. A packet whose group of
  antennas, or whose channels, do not fit is copied over samples of another antenna
  or time, or, in the last row, past the end of the block
  (`OnlyLastRowLeavesBlock`).
* The strip thread sets `good_data` of its output block to 1 whatever the input
  block says, and nobody reads it.
* `init.sh` starts a thread `paper_fake_net_thread`; the plugin registers
  `hdr_fake_net_thread`.
* The `Ntimes` of a file's header is 131072 ("32 per block* 4096 blocks") and its
  dataset has `N_BLOCK_PER_FILE * N_TIME_PER_BLOCK` = 1024 times.

### Properties

`FillsInSequence`: the two sanity checks of `set_block_filled` never complain.
`RingOrder`: the filled blocks are exactly those from the strip thread's block to
the one before the net thread's. `HeldBlocksNotFilled`: the two blocks the net
thread holds are free, so nothing handed over is lost. `NoCircularWait`: the
threads never wait for each other. `FilledStableWhenAligned` and
`HeadersMatchWindowWhenAligned`: while the window starts at the start of a block
(until a reset, and after a reset to such an mcnt) a filled block is never
changed and the headers of the held blocks name the right stretches of time;
`capture_reset_write` shows why the condition is there. `StatusKeysPartOnlyOnReject`:
`NETMCNT` and `NETBKOUT`, which two functions write, name one block, the last one
filled, through resets and waits, except after a packet that had a block filled was
rejected, until the next one that is not. `ImplementsBlockQueue`: the ring with its two
threads is a queue of headers (`capture`) or of headers with data (`recorder`).
`AcquireEnds`: every wait for a block ends. `RecordedUnlessLapped`: until the
writer is lapped each chunk on disk is the block whose turn it is, whole.
`FilesNeverTruncated`: no chunk on disk changes. `InputAlwaysDrains`: whatever the
writer does, every input block is freed in the end. `OutputDrainsUnlessLapped`:
a writer that was never lapped and waits for the block that comes next takes
every block it is handed.

Of `Reception`: `OneResetPerJump`: the window moves only for a packet more than a block ahead of
the last one it was at, or more than a whole ring behind it, so losses, short
frames and stragglers near the packets never move it, and a window that was moved
stays with its packets. (Comparing a packet with the one received just before
it would be wrong: each of many restarts hidden behind losses may move the packets back
by less than a block, and together they take them out of the window, though no
two packets in a row are far apart.)
`BlocksKeepComing`: after whatever was lost, and any rollover or restart, blocks
are filled again and again (or the thread was never released or has exited).
`ImplementsCapture`: the net thread does nothing there that `Capture` does not
allow. `Capture` stores the packet that waited; here the payload comes from a frame
of the ring the kernel fills, so it is that packet's only because nothing gives the
frame back during the wait. `StraysTolerated` (fails): the window is not moved by fewer
out-of-sequence packets than the limit.

Of `NetRecorder`: `RecordedAsHandedOver`: while the writer is not lapped and the
window always started with a block, each chunk on disk is the block as it was
when the net thread marked it filled. `ImplementsCapture`: the whole strip
thread does to the input databuf only what the reader of `Capture` does.

Of `Layout`: `OnlyLastRowLeavesBlock`: no byte was stored past the end of the input
block, if and only if no packet came for the last time of the block that lacks
antennas or channels in the last row (`PastTheEnd`). `InputIsLastReceived`,
`FileIsLastReceived`: every byte of the input block, and every place of the file,
is the sample that belongs there, as it last came; a packet that is lost leaves the
same samples of an earlier turn (nothing clears a block). Excepted are the bytes a packet
without a place (`~WellPlaced`) was copied over since, and no others (`Spoilt`).

### Bounds

* Capture: three input blocks (the fewest that hold the window and one filled
  block; the source has four, `capture_debug_blocks` has a fourth that only the strip
  thread knows of), a block of two packet slots spanning
  four mcnts, `TIME_DEMUX` 2 as in the source, one antenna, and packets of that one and
  of one that does not exist. Packet mcnts are the
  set in the cfg: three of the first four blocks, each by its first mcnt, and a group
  farther away than a late packet, from which resets land both on the start and
  in the middle of a block, and after which the window slides on. Packets from the first group then are out of sequence in turn, so
  resets go back and forth. `UintMod` (2^32) is small and at least as large as
  the number of packets of a block. `MaxCount` bounds the packets counted for a
  block; two is a full block, and three one too many.
* Reception: the window is that of `Capture`. `ClockMod` is 36, the least range of
  the clock that `ClockAssumption` admits for three blocks of span four; with a
  shorter one a packet after a rollover may look late for ever, which the
  source's 2^35 excludes. A ring of two frames; before the main loop it
  overflows as it likes, afterwards it is assumed to outlast the waits
  (`RingOutlastsWaits`), so that what it drops counts among the faults. Two faults
  in all (a restart, a lost, cut or straggling packet), and a straggler overtaken
  by one packet: two faults make a restart meet a straggler, or two restarts
  follow each other. One antenna, so one packet for each mcnt.
* NetRecorder: packets of three mcnts near the start, of one far away from which
  a reset lands inside a block, and of one from which it lands on a block's
  start; four blocks handed over (`MaxHanded`), more than a turn of the ring of
  three, and two files of two chunks. Two packets per block and `MaxCount` 2.
* Recorder: rings of two blocks, blocks of two parts, files of two chunks, five
  blocks in all (`MaxBlocks`): more than two turns of each ring, and three files.
  `BlockIdAtStart` has each block of the ring and a value that is none.
* Layout: two packets of time, two antennas, three channels of which two are
  kept; each packet has two antennas, two times and two channels. The first antenna of a
  packet is 0 (its group exists), 1 (the second of its group does not) or 2 (rejected), its
  channels start a row, or leave its end; they are those of the second X engine, so
  that `% Nc` counts. A word is four bytes instead of eight, the time samples of one
  channel, so that a payload may start in each channel. Two turns, so that a lost
  packet may leave an older sample, and two different packets in each (`MaxStored`),
  in any order and any number of times: enough to fill the block, or for a packet to
  spoil another.

Deadlock is not checked: every thread may exit, the fake net thread stops at its
bound, and `Layout` stops when the file is full.

### Fairness

`LiveSpec` of `Capture`: weak fairness of the end of `busywait_free` and of the
strip thread's two steps. Each hashpipe thread is an operating-system thread; a
spinning wait sees its semaphore, which only the net thread changes back, and
the strip thread's copy is a finite loop. No packet is assumed to arrive.
`LiveSpec` of `Reception`: in addition the F engines never stop sending, and the
main loop of the net thread runs. Which packets are lost is left to the bound on
faults. Nothing makes somebody release `NETHOLD`.
`LiveSpec` of `Recorder`: weak fairness of each thread's steps other than its
exit. Exits are never forced.

## Proofs

`CaptureProofs` proves for every number of blocks (at least three), antennas,
packet sizes and every set of packets:

* `TypeCorrect` - `[]TypeOK`;
* `FillSequence` - `[]FillsInSequence`;
* `RingInOrder`, `HeldBlocksFree`, `CircularWaitFree` - `[]RingOrder`,
  `[]HeldBlocksNotFilled` and `[]NoCircularWait`, in a build without debug blocks
  (`NDebugInputBlocks = 0`; `capture_debug_blocks` shows it is needed).

The argument: the inductive invariant is `TypeOK /\ HeldPacket /\
FillsInSequence /\ RingInv`. `HeldPacket` says that a packet the thread waits with
lies between one and two spans after the window, so (`BlockInNextTwo`) it is for
one of the next two blocks: two, because after a reset the window may start in the
middle of a block. `RingInv` adds to `RingOrder` that at least one block besides
the current one is free while the thread does not wait; it survives
`NetAcquire` because with three blocks a free block among the next two implies
it. `FillsInSequence` is needed because the code marks the block computed from
`mcnt_start` and advances `block_i`; a reset keeps both on the same block
(`ResetKeepsBlock`), because rounding down to `N_TIME_PER_BLOCK` never leaves a
block (`RoundingKeepsBlock`). The arithmetic of `div` and `%` this rests on is in
`Arithmetic` and at the head of the module.

`WindowProofs` goes on from there:

* `StableWhenAligned` - `[][...]` of `FilledStableWhenAligned`, without debug
  blocks: an aligned window consists of the two held blocks, which are free;
* `HeadersRight` - `[]HeadersMatchWindowWhenAligned`: the invariant adds that a
  waiting thread's block is the one after the two that the headers name;
* `StatusKeysTogether` - `StatusKeysPartOnlyOnReject`, for any antennas. The invariant
  (`StatusInv`) says what `NETBKOUT` is while the thread waits for a block: the one just
  filled, whose mcnt is yet to be reported;
* `RefinesBlockQueue` - `ImplementsBlockQueue`, without debug blocks: `FilledCount`
  adds to `RingInv` how many blocks are filled, so that a fill appends to the
  queue the mapping makes of the ring (`RingQueuePut` of `Arithmetic`), and giving a block
  back removes its head (`RingQueueGiveBack`). That `NetReset` and `NetAcquire`
  rewrite headers without changing the queue is `HeldBlocksNotFilled`.

`ReceptionProofs` - for any number of faults, any clock and any ring of frames:

* `CaptureImplemented`, every step of `Reception` is a step of `Capture` or leaves
  its variables alone. It needs an invariant, `FrameInv`: while the net thread waits for a
  block the oldest frame is the one whose header it took, whatever the network adds.
  `CaptureTheoremsHold` draws the conclusion: `CP` is an
  instance of `WindowProofs` on the variables of `Reception`, whose assumptions
  and specification are shown to be those here (`SameAssumptions`, `SameNext`, `SameInit`), so
  its theorems are cited and not proved again;
* `TypeCorrect`, `[]TypeOK`. The invariant is `NetworkTypes /\ WindowTypes` on top
  of `Capture`'s types. The clock stays a multiple of `PacketSpan` because it rolls
  over at one (`ClockTicks`), and `strays` stays within what the net thread
  tolerates because it never exceeds `out_of_seq_cnt`;
* `WindowMovesWithJumps`, `OneResetPerJump`. `WindowTypes` says that `anchor` is
  in the window or less than a ring before it; a reset moves the window less than a ring
  past its packet (`ResetBound`). An out-of-sequence packet is three blocks ahead of
  `mcnt_start` or two rings behind it, hence far from `anchor`.

`RecorderProofs` - for any number of blocks, failures of HDF5 and values of the
uninitialised `block_id`:

* `TypeCorrect`, `[]TypeOK`, and `FilesKept`, `FilesNeverTruncated`: a new file
  gets the name of a second no file has yet, because the writer has slept for a second
  before it makes one, and in the current file no chunk from the next one on is
  written (`FilesInv`);
* `RefinesBlockQueue`, `ImplementsBlockQueue`, with headers and data. `InputInv(n)`
  says that the strip thread has freed `n` blocks and the filled ones hold the
  `n`-th, `n+1`-st and so on, in ring order;
* `RecordedInTurn`, `[]RecordedUnlessLapped`.

`NetRecorderProofs`:

* `CaptureImplemented`, as for `Reception`, where `reading` of `Capture` is that
  the strip thread is between the wait for its block and the freeing of it
  (`strip_pc` is `copy` or `filled`), and `CaptureTheoremsHold`, which follows from
  it in the same way;
* `RecordedInTurn`, `[]RecordedAsHandedOver`, without debug blocks and when
  `block_id` starts at 0 or at no block at all;
* `RecordedFromAnyStart`, the same for every `block_id`: the order on disk is then that of
  a writer that starts there, which is what `recorder_block_id` shows to be wrong.

What reaches the disk is proved in `DiskProofs`, once for both. A writer that
starts at block `s` of the ring and has written `w` chunks is *in step* (`InStep`) when each
output block was filled as often as it was written (`Laps`), or once more while its
semaphore is set, and then holds the block of that turn. `Nth(k, s)` is the number of the
block such a writer takes after `k` others. `CopyInv` says that what the strip
thread has copied is of its current block, `ChunksRight` that each chunk on disk is
whole and the right one, `OffRing` that a writer whose `block_id` is no block waits for
ever. Their conjunction `KeepsUp` is preserved by every step that does not lap the
writer: the strip thread fills a block that is free, the writer takes the one that comes next.
`Recorder` feeds this with the fake net thread's blocks (`FakeBlocks`);
`NetRecorder` with those in `handed`. There `HandedInv` ties the filled blocks to
`handed`, and keeps doing so because a filled block's data do not
change while the window starts with a block (`StableWhenAligned`, cited from
`WindowProofs`); `RecordInv` is the whole, under `~straddled` and `~lapped`.

`LayoutProofs` proves, for all sizes that fit together and packets of any antennas
and channels:

* `InputOneToOne`, `StripOneToOne` - every sample has a byte of its own inside
  the block, in both blocks;
* `TypeCorrect` - `[]TypeOK`: the strip thread writes inside its block, and every byte
  is one of a payload or was never stored;
* `LeavesBlockOnlyPastEnd` - `[]OnlyLastRowLeavesBlock`;
* `InputRight`, `FileRight` - `[]InputIsLastReceived`, `[]FileIsLastReceived`.

An index is a number whose digits are the coordinates, in the bases of the
macro (`InputDigits`, `StripDigits`); `Arithmetic` says that digits can be read off
and how large a number is. `DestinationRow` says that a payload starts `RowOffset` bytes
into the row of its antenna, `PayloadInside` that it then ends inside the block
unless its packet is `PastTheEnd`; they need that a row is a whole number of words
and no shorter than a payload, which the sizes of the source satisfy. As payloads are not
longer than rows no two antennas of a packet share a byte (`OneWriter`). For packets that have a place,
`DestinationPlace` identifies the start with that of their first sample; `PayloadPlace` and `PayloadHasAll` say that the bytes of a packet
are those of its samples, `LoopsVisitEach` that the loops visit each sample once,
`ElementOfPlace` that HDF5 takes for a place what the strip thread put there. The
inductive invariant adds `CopiedSoFar`, what the loops have passed is in the
stripper block, and `LaterTurnsEmpty`, so that a new turn starts with what the old
ones left.

Assumed of the constants: the named assumptions of `InputDatabuf` and `NetThread`
(positive sizes, at least three blocks, packets with natural mcnts and antennas
that start a group, a positive number of packets per block and F engine), of
`FEngines`, `PktSocket` and `Reception` (`ClockAssumption`: the mcnts of a header
are those of the clock, and its range is longer than two rings), of the
threads and rings of `Recorder` and of `Layout` (`LayoutAssumption`).

Some theorems assume more. `NDebugInputBlocks = 0` is the build without debug blocks;
`capture_debug_blocks` shows what happens with one. `RecordedInTurn` of
`NetRecorderProofs` assumes `BlockIdAtStart \cap StrpBlocks \subseteq {0}`, a writer that
does not start in the middle of the ring; `recorder_block_id` shows why, and
`RecordedFromAnyStart` says what holds without it.

Only model-checked: liveness, which the prover cannot do - `AcquireEnds`,
`BlocksKeepComing`, `InputAlwaysDrains` and `OutputDrainsUnlessLapped`. Every
other property of a passing run is a theorem.

## Not modelled

The constant values of the HDF5 file header, build files, `init.sh` and
`read_hdf5.py` have no state. Timing and socket statistics in the status buffer,
log messages, the XID, and the arguments, names and command line of hashpipe
only inform. Debug code behind `#if 0` and macros that nothing uses are left out.

## Plan

Done: the two rings, the three threads, the pipeline with the fake net thread,
the net thread with its reader, the receiving side with F engines and packet
socket, the recorder as deployed, the layout of the data, and the proofs above,
which cover every safety property that a run checks.
Next: the safety half of what the liveness properties rest on, as invariants -
a wait of the net thread is for a block the strip thread has yet to free, and a
writer in step waits for the block that the strip thread fills next.
