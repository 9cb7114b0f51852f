------------------------------- MODULE Layout -------------------------------
(***************************************************************************)
(* Where the bytes go: a byte is one sample of an antenna and polarisation *)
(* in a channel.  The net thread copies the payload of a packet into an    *)
(* input block, the strip thread transposes the first channels into a      *)
(* block of the stripper databuf, the write thread puts that into the HDF5 *)
(* dataset as a hyperslab.  The module follows one block of each ring      *)
(* through the turns that fill a file; a block is not cleared between two  *)
(* turns.  Who may touch a block when is the subject of the other modules. *)
(***************************************************************************)
EXTENDS Integers, FiniteSets

CONSTANTS
  NTimePerBlock,     \* N_TIME_PER_BLOCK
  NTimePerPacket,    \* N_TIME_PER_PACKET
  NAnts,             \* N_ANTS
  NInputsPerPacket,  \* N_INPUTS_PER_PACKET, two for each antenna
  NChanPerX,         \* N_CHAN_PER_X
  NChanPerPacket,    \* N_CHAN_PER_PACKET
  NStrpChansPerX,    \* N_STRP_CHANS_PER_X
  NBlockPerFile,     \* N_BLOCK_PER_FILE
  Word,              \* sizeof(uint64_t)
  PktAnts,           \* the first antennas of packets
  PktChans,          \* the first channels of packets
  MaxStored,         \* bound: the different packets stored in a turn
  Zero               \* a byte nothing was stored in

\* Np, Nt, Nc, Na, Nsc and Nm of hdr_databuf.h.
Np  == 2
Nt  == NTimePerPacket
Nc  == NChanPerX
Na  == NAnts
Nsc == NStrpChansPerX
Nm  == NTimePerBlock \div NTimePerPacket

AntsPerPacket == NInputsPerPacket \div 2

\* The sizes fit together.  Nothing is assumed of where a packet starts: its header
\* may carry any antenna and any channel.
ASSUME LayoutAssumption ==
  /\ {NTimePerBlock, NTimePerPacket, NAnts, AntsPerPacket, NChanPerX,
      NChanPerPacket, NStrpChansPerX, NBlockPerFile, Word} \subseteq Nat \ {0}
  /\ NTimePerBlock % NTimePerPacket = 0
  /\ NStrpChansPerX <= NChanPerX
  /\ (NChanPerPacket * NTimePerPacket * 2) % Word = 0
  /\ (NChanPerX * NTimePerPacket * 2) % Word = 0
  /\ AntsPerPacket <= NAnts
  /\ NChanPerPacket <= NChanPerX
  /\ PktAnts \subseteq Nat /\ PktChans \subseteq Nat

-----------------------------------------------------------------------------
(* The index macros of hdr_databuf.h. *)

hdr_input_databuf_data_idx(m, a, c, t) ==
  (m*Na*Nc*Nt*Np + a*Nc*Nt*Np + c*Nt*Np + t*Np) \div Word

\* Mutant: the polarisation counts for a word of its own.
hdr_input_databuf_data_idx8_planar(m, a, p, c, t) ==
  m*Na*Nc*Nt*Np + a*Nc*Nt*Np + p*Nc*Nt + c*Nt + t

hdr_input_databuf_data_idx8(m, a, p, c, t) ==
  m*Na*Nc*Nt*Np + a*Nc*Nt*Np + c*Nt*Np + t*Np + p

\* Mutant: a row as long as that of the input block.
hdr_stripper_databuf_data_idx8_unstripped(m, a, p, c, t) ==
  a*Nc*Nm*Nt*Np + p*Nc*Nm*Nt + c*Nm*Nt + m*Nt + t

hdr_stripper_databuf_data_idx8(m, a, p, c, t) ==
  a*Nsc*Nm*Nt*Np + p*Nsc*Nm*Nt + c*Nm*Nt + m*Nt + t

\* The bytes of a block of each ring.
NBytesPerBlock     == NTimePerBlock * NChanPerX * (2 * NAnts)
NBytesPerStrpBlock == NTimePerBlock * NStrpChansPerX * (2 * NAnts)

InBytes  == 0 .. NBytesPerBlock - 1
OutBytes == 0 .. NBytesPerStrpBlock - 1

-----------------------------------------------------------------------------
VARIABLES
  phase,     \* receive, strip, write: which thread has the block
  indata,    \* the data field of the input block, byte by byte, and the bytes
             \* after it once a copy has gone past its end
  outdata,   \* that of the stripper block
  k,         \* iterations of the strip thread's loops done
  nblks,     \* the turn, and the chunk of the file it goes to
  file,      \* the dataset "data"
  received   \* history: the packets stored in each turn

vars == <<phase, indata, outdata, k, nblks, file, received>>

Turns == 0 .. NBlockPerFile - 1

Packets == [m : 0 .. Nm - 1, ant : PktAnts, chan : PktChans]

\* The samples a block has room for, and those that are kept.
SamplesUpTo(n) ==
  [m : 0 .. Nm - 1, a : 0 .. Na - 1, p : 0 .. Np - 1, c : 0 .. n - 1, t : 0 .. Nt - 1]

Samples     == SamplesUpTo(Nc)
KeptSamples == SamplesUpTo(Nsc)

\* A sample as it is taken in a turn: what a byte holds.
Taken(n, s) == [turn |-> n, sample |-> s]

\* The places of the dataset: antenna, polarisation, channel, time (FILE_DIM).
FilePlaces ==
  (0 .. NAnts - 1) \X (0 .. 1) \X (0 .. NStrpChansPerX - 1)
    \X (0 .. NBlockPerFile * NTimePerBlock - 1)

\* The bytes memcpy takes of the payload for each antenna.
PayloadLength == 2 * NChanPerPacket * NTimePerPacket

\* The bytes of an antenna for one m.
RowLength == Nc * Nt * Np

\* Whether a packet is taken: the first of its antennas exists.
calc_block_indexes(pkt) == pkt.ant < Na

\* Mutant: the channel is not taken within the row.
BlockChanUnwrapped(pkt) == pkt.chan

\* binfo.c, the first channel of a packet in the block.
BlockChan(pkt) == pkt.chan % Nc

\* Byte b of the i-th antenna of a packet: channel, time, polarisation.
PayloadSample(pkt, i, b) ==
  [m |-> pkt.m, a |-> pkt.ant + i, p |-> b % Np,
   c |-> BlockChan(pkt) + b \div (Nt * Np), t |-> (b \div Np) % Nt]

\* Where the payload of the i-th antenna is copied to.
Destination(pkt, i) ==
  Word * hdr_input_databuf_data_idx(pkt.m, pkt.ant + i, BlockChan(pkt), 0)

\* The antennas whose payload is copied over byte b of the input block; the
\* last of them stays.
Writers(pkt, b) ==
  {i \in 0 .. AntsPerPacket - 1 : b - Destination(pkt, i) \in 0 .. PayloadLength - 1}

LastWriter(pkt, b) ==
  CHOOSE i \in Writers(pkt, b) : \A j \in Writers(pkt, b) : j <= i

WrittenBytes(pkt) ==
  UNION {Destination(pkt, i) .. Destination(pkt, i) + PayloadLength - 1 :
           i \in 0 .. AntsPerPacket - 1}

\* The samples of a packet.
SamplesOf(pkt) ==
  {s \in Samples : /\ s.m = pkt.m
                   /\ s.a \in pkt.ant .. pkt.ant + AntsPerPacket - 1
                   /\ s.c \in pkt.chan % Nc .. (pkt.chan % Nc) + NChanPerPacket - 1}

\* The packets there is a place for: all their antennas exist, and their channels
\* start with a word and end within the row.  The code looks at the first antenna.
WellPlaced(pkt) ==
  /\ pkt.ant + AntsPerPacket <= Na
  /\ (pkt.chan % Nc) + NChanPerPacket <= Nc
  /\ ((pkt.chan % Nc) * Nt * Np) % Word = 0

\* Where in the row of its antenna a payload starts: at a whole word.
RowOffset(pkt) == Word * (((pkt.chan % Nc) * Nt * Np) \div Word)

\* The packets whose last payload is copied past the end of the block: those for
\* the last m that start less than a payload before the end of the last row.
PastTheEnd(pkt) ==
  /\ pkt.m = Nm - 1
  /\ \/ pkt.ant + AntsPerPacket > Na
     \/ pkt.ant + AntsPerPacket = Na /\ RowOffset(pkt) + PayloadLength > RowLength

\* The strip thread's k-th iteration: for m, a, c, t, p.
LoopSample(n) ==
  [m |-> n \div (Na * Nsc * Nt * Np), a |-> (n \div (Nsc * Nt * Np)) % Na,
   c |-> (n \div (Nt * Np)) % Nsc, t |-> (n \div Np) % Nt, p |-> n % Np]

Iterations == Nm * Na * Nsc * Nt * Np

\* The element of the block that HDF5 takes for a place of the hyperslab: both
\* are walked in row-major order (block_dim, dblk).
BlockElement(a, p, c, time) ==
  ((a * 2 + p) * NStrpChansPerX + c) * NTimePerBlock + time

-----------------------------------------------------------------------------
Init ==
  /\ phase = "receive"
  /\ indata = [b \in InBytes |-> Zero]
  /\ outdata = [b \in OutBytes |-> Zero]
  /\ k = 0
  /\ nblks = 0
  /\ file = [q \in FilePlaces |-> Zero]
  /\ received = [n \in Turns |-> {}]

\* process_packet copies the payload of a packet for this block, antenna by
\* antenna, to wherever the macro says, unless its antenna is out of range.
StorePacket(pkt) ==
  /\ phase = "receive"
  /\ nblks < NBlockPerFile
  /\ calc_block_indexes(pkt)
  /\ Cardinality(received[nblks] \union {pkt}) <= MaxStored
  /\ indata' = [b \in DOMAIN indata \union WrittenBytes(pkt) |->
                  IF Writers(pkt, b) = {} THEN indata[b]
                  ELSE LET i == LastWriter(pkt, b)
                       IN  Taken(nblks, PayloadSample(pkt, i, b - Destination(pkt, i)))]
  /\ received' = [received EXCEPT ![nblks] = @ \union {pkt}]
  /\ UNCHANGED <<phase, outdata, k, nblks, file>>

\* The block is marked filled, whatever arrived.
SetFilled ==
  /\ phase = "receive"
  /\ nblks < NBlockPerFile
  /\ phase' = "strip"
  /\ UNCHANGED <<indata, outdata, k, nblks, file, received>>

\* One iteration of the strip thread's loops.
StripCopy ==
  /\ phase = "strip"
  /\ k < Iterations
  /\ LET s   == LoopSample(k)
         to  == hdr_stripper_databuf_data_idx8(s.m, s.a, s.p, s.c, s.t)
         src == hdr_input_databuf_data_idx8(s.m, s.a, s.p, s.c, s.t)
     IN  outdata' = [b \in DOMAIN outdata \union {to} |->
                       IF b = to THEN indata[src] ELSE outdata[b]]
  /\ k' = k + 1
  /\ UNCHANGED <<phase, indata, nblks, file, received>>

StripDone ==
  /\ phase = "strip"
  /\ k = Iterations
  /\ phase' = "write"
  /\ k' = 0
  /\ UNCHANGED <<indata, outdata, nblks, file, received>>

\* Mutant: the chunk's place counted in blocks.
TimeOffsetInBlocks == nblks

\* The start of the chunk along the time axis (doffset).
TimeOffset == nblks * NTimePerBlock

\* H5Sselect_hyperslab and H5Dwrite, then the next turn of the block.
WriteBlock ==
  /\ phase = "write"
  /\ file' = [q \in FilePlaces |->
                IF q[4] - TimeOffset \in 0 .. NTimePerBlock - 1
                THEN outdata[BlockElement(q[1], q[2], q[3], q[4] - TimeOffset)]
                ELSE file[q]]
  /\ nblks' = nblks + 1
  /\ phase' = "receive"
  /\ UNCHANGED <<indata, outdata, k, received>>

Next ==
  \/ \E pkt \in Packets : StorePacket(pkt)
  \/ SetFilled \/ StripCopy \/ StripDone \/ WriteBlock

Spec == Init /\ [][Next]_vars

-----------------------------------------------------------------------------
\* A payload carries samples of whatever antennas and channels its header says.
Bytes ==
  {Zero} \union
    [turn : Turns, sample : [m : Nat, a : Nat, p : 0 .. Np - 1, c : Nat, t : 0 .. Nt - 1]]

\* The types of the variables.
TypeOK ==
  /\ phase \in {"receive", "strip", "write"}
  /\ InBytes \subseteq DOMAIN indata
  /\ \A b \in DOMAIN indata : b \in Nat /\ indata[b] \in Bytes
  /\ outdata \in [OutBytes -> Bytes]
  /\ k \in 0 .. Iterations
  /\ nblks \in 0 .. NBlockPerFile
  /\ phase # "receive" => nblks < NBlockPerFile
  /\ file \in [FilePlaces -> Bytes]
  /\ received \in [Turns -> SUBSET Packets]

\* The check of a packet's antenna does not keep every copy inside the block, but
\* only packets for its last m get past its end, for want of antennas or of
\* channels in the last row.  Every other packet, well placed or not, stays inside.
OnlyLastRowLeavesBlock ==
  DOMAIN indata = InBytes <=> \A n \in Turns : \A pkt \in received[n] : ~PastTheEnd(pkt)

\* The turns up to n in which sample s came in a packet that has a place.
TurnsReceived(n, s) ==
  {j \in Turns : j <= n /\ \E pkt \in received[j] : WellPlaced(pkt) /\ s \in SamplesOf(pkt)}

\* Since sample s last came, a packet that has no place was copied over its place.
Spoilt(n, s) ==
  \E j \in Turns :
    /\ j <= n
    /\ \A i \in TurnsReceived(n, s) : i <= j
    /\ \E pkt \in received[j] :
         /\ ~WellPlaced(pkt)
         /\ hdr_input_databuf_data_idx8(s.m, s.a, s.p, s.c, s.t) \in WrittenBytes(pkt)

\* A byte is the sample s as it last came in a turn up to n.
IsLastReceived(byte, n, s) ==
  IF TurnsReceived(n, s) = {} THEN byte = Zero
  ELSE \E j \in TurnsReceived(n, s) :
         byte = Taken(j, s) /\ \A i \in TurnsReceived(n, s) : i <= j

\* Every byte of the input block is the sample the index macro looks for
\* there, as it last came: packets find their place by words and the strip
\* thread by bytes, and what does not come keeps what an earlier turn left.
\* Packets that have no place spoil the bytes they are copied over and no others,
\* until the sample comes again.
InputIsLastReceived ==
  \A s \in Samples :
    \/ Spoilt(nblks, s)
    \/ IsLastReceived(indata[hdr_input_databuf_data_idx8(s.m, s.a, s.p, s.c, s.t)], nblks, s)

\* Every place of a chunk in the file is the sample of that antenna,
\* polarisation, channel and time, as it last came up to the chunk's turn, unless
\* a packet that has no place had spoilt it by then.
FileIsLastReceived ==
  \A n \in Turns : n < nblks =>
    \A s \in KeptSamples :
      \/ Spoilt(n, s)
      \/ IsLastReceived(file[<<s.a, s.p, s.c, n * NTimePerBlock + s.m * Nt + s.t>>], n, s)
=============================================================================
