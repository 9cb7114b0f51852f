---------------------------- MODULE LayoutProofs ----------------------------
(* Theorems about Layout, for all sizes that fit together. *)
EXTENDS Layout, Arithmetic

USE DEF Np, Nt, Nc, Na, Nsc

\* The sizes are positive, and a block's time is a whole number of packets.
LEMMA Sizes ==
  /\ NTimePerPacket \in Nat \ {0} /\ NAnts \in Nat \ {0} /\ NChanPerX \in Nat \ {0}
  /\ NStrpChansPerX \in Nat \ {0} /\ NStrpChansPerX <= NChanPerX
  /\ AntsPerPacket \in Nat \ {0} /\ NChanPerPacket \in Nat \ {0}
  /\ NBlockPerFile \in Nat \ {0} /\ NTimePerBlock \in Nat \ {0} /\ Word \in Nat \ {0}
  /\ Nm \in Nat \ {0} /\ NTimePerBlock = NTimePerPacket * Nm
  /\ 2 \in Nat \ {0}
<1>1. /\ NTimePerPacket \in Nat \ {0} /\ NAnts \in Nat \ {0} /\ NChanPerX \in Nat \ {0}
      /\ NStrpChansPerX \in Nat \ {0} /\ NStrpChansPerX <= NChanPerX
      /\ AntsPerPacket \in Nat \ {0} /\ NChanPerPacket \in Nat \ {0}
      /\ NBlockPerFile \in Nat \ {0} /\ NTimePerBlock \in Nat \ {0} /\ Word \in Nat \ {0}
  BY LayoutAssumption
<1>2. NTimePerBlock % NTimePerPacket = 0
  BY LayoutAssumption
<1>3. PICK q \in Nat, r \in 0 .. NTimePerPacket - 1 : NTimePerBlock = NTimePerPacket * q + r
  BY <1>1, DivModExist
<1>4. r = 0 /\ Nm = q
  BY <1>1, <1>2, <1>3, DivModUnique DEF Nm
<1>5. NTimePerBlock = NTimePerPacket * q
  BY <1>1, <1>3, <1>4
<1>6. q # 0
  BY <1>1, <1>5
<1> QED BY <1>1, <1>4, <1>5, <1>6

-----------------------------------------------------------------------------
(* The index macros are numbers written in digits. *)

InputPlace(s) == hdr_input_databuf_data_idx8(s.m, s.a, s.p, s.c, s.t)

StripPlace(s) == hdr_stripper_databuf_data_idx8(s.m, s.a, s.p, s.c, s.t)

\* The iteration of the strip thread's loops that copies s.
LoopPlace(s) == Number(Na, Nsc, Nt, 2, s.m, s.a, s.c, s.t, s.p)

\* A place in the input block: mcnt, antenna, channel, time, polarisation.
LEMMA InputDigits ==
  ASSUME NEW m \in Nat, NEW a \in Nat, NEW p \in Nat, NEW c \in Nat, NEW t \in Nat
  PROVE  hdr_input_databuf_data_idx8(m, a, p, c, t) = Number(Na, Nc, Nt, 2, m, a, c, t, p)
BY Sizes DEF hdr_input_databuf_data_idx8, Number, Digit

\* A place in the stripper block: antenna, polarisation, channel, mcnt, time.
LEMMA StripDigits ==
  ASSUME NEW m \in Nat, NEW a \in Nat, NEW p \in Nat, NEW c \in Nat, NEW t \in Nat
  PROVE  hdr_stripper_databuf_data_idx8(m, a, p, c, t) = Number(2, Nsc, Nm, Nt, a, p, c, m, t)
BY Sizes DEF hdr_stripper_databuf_data_idx8, Number, Digit

\* The digits of a sample of the input block.
LEMMA InputSample ==
  ASSUME NEW s \in Samples
  PROVE  /\ s.m \in 0 .. Nm - 1 /\ s.a \in 0 .. Na - 1 /\ s.c \in 0 .. Nc - 1
         /\ s.t \in 0 .. Nt - 1 /\ s.p \in 0 .. 2 - 1
         /\ s.m \in Nat /\ s.a \in Nat
         /\ s = [m |-> s.m, a |-> s.a, p |-> s.p, c |-> s.c, t |-> s.t]
         /\ InputPlace(s) = Number(Na, Nc, Nt, 2, s.m, s.a, s.c, s.t, s.p)
<1>1. /\ s.m \in 0 .. Nm - 1 /\ s.a \in 0 .. Na - 1 /\ s.c \in 0 .. Nc - 1
      /\ s.t \in 0 .. Nt - 1 /\ s.p \in 0 .. 2 - 1
      /\ s = [m |-> s.m, a |-> s.a, p |-> s.p, c |-> s.c, t |-> s.t]
  BY DEF Samples, SamplesUpTo
<1>2. s.m \in Nat /\ s.a \in Nat /\ s.p \in Nat /\ s.c \in Nat /\ s.t \in Nat
  BY <1>1, Sizes
<1> QED BY <1>1, <1>2, InputDigits DEF InputPlace

\* The digits of a sample of the stripper block, which is one of the input block.
LEMMA StripSample ==
  ASSUME NEW s \in KeptSamples
  PROVE  /\ s \in Samples
         /\ s.m \in 0 .. Nm - 1 /\ s.a \in 0 .. Na - 1 /\ s.c \in 0 .. Nsc - 1
         /\ s.t \in 0 .. Nt - 1 /\ s.p \in 0 .. 2 - 1
         /\ StripPlace(s) = Number(2, Nsc, Nm, Nt, s.a, s.p, s.c, s.m, s.t)
<1>1. /\ s.m \in 0 .. Nm - 1 /\ s.a \in 0 .. Na - 1 /\ s.c \in 0 .. Nsc - 1
      /\ s.t \in 0 .. Nt - 1 /\ s.p \in 0 .. 2 - 1
  BY DEF KeptSamples, SamplesUpTo
<1>2. s.m \in Nat /\ s.a \in Nat /\ s.p \in Nat /\ s.c \in Nat /\ s.t \in Nat
  BY <1>1, Sizes
<1>3. s \in Samples
  BY Sizes DEF KeptSamples, Samples, SamplesUpTo
<1> QED BY <1>1, <1>2, <1>3, StripDigits, SMTT(30) DEF StripPlace

\* Every sample has a byte of its own inside the input block.
THEOREM InputOneToOne ==
  /\ \A s \in Samples : InputPlace(s) \in InBytes
  /\ \A s, u \in Samples : InputPlace(s) = InputPlace(u) => s = u
<1>1. ASSUME NEW s \in Samples PROVE InputPlace(s) \in InBytes
  <2>0. /\ s.m \in 0 .. Nm - 1 /\ s.a \in 0 .. Na - 1 /\ s.c \in 0 .. Nc - 1
        /\ s.t \in 0 .. Nt - 1 /\ s.p \in 0 .. 2 - 1
    BY InputSample
  <2>1. Number(Na, Nc, Nt, 2, s.m, s.a, s.c, s.t, s.p) \in 0 .. 2 * (Nt * (Nc * (Na * Nm))) - 1
    BY <2>0, Sizes, NumberRange, Zenon
  <2>2. 2 * (Nt * (Nc * (Na * Nm))) = NBytesPerBlock
    BY Sizes DEF NBytesPerBlock
  <2> QED BY <2>1, <2>2, InputSample DEF InBytes
<1>2. ASSUME NEW s \in Samples, NEW u \in Samples, InputPlace(s) = InputPlace(u)
      PROVE  s = u
  <2>0. /\ s.m \in 0 .. Nm - 1 /\ s.a \in 0 .. Na - 1 /\ s.c \in 0 .. Nc - 1
        /\ s.t \in 0 .. Nt - 1 /\ s.p \in 0 .. 2 - 1
        /\ u.m \in 0 .. Nm - 1 /\ u.a \in 0 .. Na - 1 /\ u.c \in 0 .. Nc - 1
        /\ u.t \in 0 .. Nt - 1 /\ u.p \in 0 .. 2 - 1
        /\ s.m \in Nat /\ u.m \in Nat
        /\ Number(Na, Nc, Nt, 2, s.m, s.a, s.c, s.t, s.p) = Number(Na, Nc, Nt, 2, u.m, u.a, u.c, u.t, u.p)
    BY <1>2, InputSample
  <2>1. /\ ReadsAs(Na, Nc, Nt, 2, Number(Na, Nc, Nt, 2, s.m, s.a, s.c, s.t, s.p), s.m, s.a, s.c, s.t, s.p)
        /\ ReadsAs(Na, Nc, Nt, 2, Number(Na, Nc, Nt, 2, u.m, u.a, u.c, u.t, u.p), u.m, u.a, u.c, u.t, u.p)
    BY <2>0, Sizes, NumberRead, Zenon
  <2>2. s.m = u.m /\ s.a = u.a /\ s.c = u.c /\ s.t = u.t /\ s.p = u.p
    BY <2>0, <2>1 DEF ReadsAs
  <2> QED BY <2>2, InputSample
<1> QED BY <1>1, <1>2

\* Every sample that is kept has a byte of its own inside the stripper block:
\* the transposition overwrites nothing.
THEOREM StripOneToOne ==
  /\ \A s \in KeptSamples : StripPlace(s) \in OutBytes
  /\ \A s, u \in KeptSamples : StripPlace(s) = StripPlace(u) => s = u
<1>1. ASSUME NEW s \in KeptSamples PROVE StripPlace(s) \in OutBytes
  <2>0. /\ s.m \in 0 .. Nm - 1 /\ s.a \in 0 .. Na - 1 /\ s.c \in 0 .. Nsc - 1
        /\ s.t \in 0 .. Nt - 1 /\ s.p \in 0 .. 2 - 1
    BY StripSample
  <2>1. Number(2, Nsc, Nm, Nt, s.a, s.p, s.c, s.m, s.t) \in 0 .. Nt * (Nm * (Nsc * (2 * Na))) - 1
    BY <2>0, Sizes, NumberRange, Zenon
  <2>2. Nt * (Nm * (Nsc * (2 * Na))) = NBytesPerStrpBlock
    BY Sizes DEF NBytesPerStrpBlock
  <2> QED BY <2>1, <2>2, StripSample DEF OutBytes
<1>2. ASSUME NEW s \in KeptSamples, NEW u \in KeptSamples, StripPlace(s) = StripPlace(u)
      PROVE  s = u
  <2>1. /\ s.m \in 0 .. Nm - 1 /\ s.a \in 0 .. Na - 1 /\ s.c \in 0 .. Nsc - 1
        /\ s.t \in 0 .. Nt - 1 /\ s.p \in 0 .. 2 - 1
        /\ u.m \in 0 .. Nm - 1 /\ u.a \in 0 .. Na - 1 /\ u.c \in 0 .. Nsc - 1
        /\ u.t \in 0 .. Nt - 1 /\ u.p \in 0 .. 2 - 1
        /\ s.a \in Nat /\ u.a \in Nat
        /\ Number(2, Nsc, Nm, Nt, s.a, s.p, s.c, s.m, s.t) = Number(2, Nsc, Nm, Nt, u.a, u.p, u.c, u.m, u.t)
    BY <1>2, StripSample, InputSample
  <2>2. /\ ReadsAs(2, Nsc, Nm, Nt, Number(2, Nsc, Nm, Nt, s.a, s.p, s.c, s.m, s.t), s.a, s.p, s.c, s.m, s.t)
        /\ ReadsAs(2, Nsc, Nm, Nt, Number(2, Nsc, Nm, Nt, u.a, u.p, u.c, u.m, u.t), u.a, u.p, u.c, u.m, u.t)
    BY <2>1, Sizes, NumberRead, Zenon
  <2>3. s.m = u.m /\ s.a = u.a /\ s.c = u.c /\ s.t = u.t /\ s.p = u.p
    BY <2>1, <2>2 DEF ReadsAs
  <2> QED BY <2>3, StripSample, InputSample
<1> QED BY <1>1, <1>2

\* The loops of the strip thread visit each sample that is kept exactly once.
LEMMA LoopsVisitEach ==
  /\ \A n \in 0 .. Iterations - 1 : LoopSample(n) \in KeptSamples /\ LoopPlace(LoopSample(n)) = n
  /\ \A s \in KeptSamples : LoopPlace(s) \in 0 .. Iterations - 1
  /\ \A s, u \in KeptSamples : LoopPlace(s) = LoopPlace(u) => s = u
<1>1. Iterations = 2 * (Nt * (Nsc * (Na * Nm)))
  BY Sizes DEF Iterations
<1>2. ASSUME NEW n \in 0 .. Iterations - 1
      PROVE  LoopSample(n) \in KeptSamples /\ LoopPlace(LoopSample(n)) = n
  <2> DEFINE s == LoopSample(n)
  <2>1. /\ Na * Nsc * Nt * Np = Na * (Nsc * (Nt * 2))
        /\ Nsc * Nt * Np = Nsc * (Nt * 2)
    BY Sizes
  <2>2. /\ s.m = n \div (Na * (Nsc * (Nt * 2))) /\ s.a = (n \div (Nsc * (Nt * 2))) % Na
        /\ s.c = (n \div (Nt * 2)) % Nsc /\ s.t = (n \div 2) % Nt /\ s.p = n % 2
    BY <2>1 DEF LoopSample
  <2>3. n \in 0 .. 2 * (Nt * (Nsc * (Na * Nm))) - 1
    BY <1>1
  <2>4. /\ s.m \in 0 .. Nm - 1 /\ s.a \in 0 .. Na - 1 /\ s.c \in 0 .. Nsc - 1
        /\ s.t \in 0 .. Nt - 1 /\ s.p \in 0 .. 2 - 1
        /\ n = Number(Na, Nsc, Nt, 2, s.m, s.a, s.c, s.t, s.p)
    <3>1. Splits(Nm, Na, Nsc, Nt, 2, n)
      BY <2>3, Sizes, NumberSplit, Zenon
    <3> HIDE DEF s
    <3> QED BY <2>2, <3>1 DEF Splits
  <2>5. s \in KeptSamples
    BY <2>4 DEF LoopSample, KeptSamples, SamplesUpTo
  <2> QED BY <2>4, <2>5 DEF LoopPlace
<1>3. ASSUME NEW s \in KeptSamples PROVE LoopPlace(s) \in 0 .. Iterations - 1
  <2>1. /\ s.m \in 0 .. Nm - 1 /\ s.a \in 0 .. Na - 1 /\ s.c \in 0 .. Nsc - 1
        /\ s.t \in 0 .. Nt - 1 /\ s.p \in 0 .. 2 - 1
    BY StripSample
  <2>2. Number(Na, Nsc, Nt, 2, s.m, s.a, s.c, s.t, s.p) \in 0 .. 2 * (Nt * (Nsc * (Na * Nm))) - 1
    BY <2>1, Sizes, NumberRange, Zenon
  <2> QED BY <1>1, <2>2 DEF LoopPlace
<1>4. ASSUME NEW s \in KeptSamples, NEW u \in KeptSamples, LoopPlace(s) = LoopPlace(u)
      PROVE  s = u
  <2>1. /\ s.m \in 0 .. Nm - 1 /\ s.a \in 0 .. Na - 1 /\ s.c \in 0 .. Nsc - 1
        /\ s.t \in 0 .. Nt - 1 /\ s.p \in 0 .. 2 - 1
        /\ u.m \in 0 .. Nm - 1 /\ u.a \in 0 .. Na - 1 /\ u.c \in 0 .. Nsc - 1
        /\ u.t \in 0 .. Nt - 1 /\ u.p \in 0 .. 2 - 1
        /\ s.m \in Nat /\ u.m \in Nat
        /\ Number(Na, Nsc, Nt, 2, s.m, s.a, s.c, s.t, s.p) = Number(Na, Nsc, Nt, 2, u.m, u.a, u.c, u.t, u.p)
    BY <1>4, StripSample, InputSample DEF LoopPlace
  <2>2. /\ ReadsAs(Na, Nsc, Nt, 2, Number(Na, Nsc, Nt, 2, s.m, s.a, s.c, s.t, s.p), s.m, s.a, s.c, s.t, s.p)
        /\ ReadsAs(Na, Nsc, Nt, 2, Number(Na, Nsc, Nt, 2, u.m, u.a, u.c, u.t, u.p), u.m, u.a, u.c, u.t, u.p)
    BY <2>1, Sizes, NumberRead, Zenon
  <2>3. s.m = u.m /\ s.a = u.a /\ s.c = u.c /\ s.t = u.t /\ s.p = u.p
    BY <2>1, <2>2 DEF ReadsAs
  <2> QED BY <2>3, StripSample, InputSample
<1> QED BY <1>2, <1>3, <1>4

\* The sample of a place of a chunk: antenna, polarisation, channel, time.
ChunkSample(a, p, c, time) ==
  [m |-> time \div Nt, a |-> a, p |-> p, c |-> c, t |-> time % Nt]

\* HDF5 takes for each place of a chunk the byte the strip thread put there.
LEMMA ElementOfPlace ==
  ASSUME NEW a \in 0 .. NAnts - 1, NEW p \in 0 .. 1, NEW c \in 0 .. NStrpChansPerX - 1,
         NEW time \in 0 .. NTimePerBlock - 1
  PROVE  /\ ChunkSample(a, p, c, time) \in KeptSamples
         /\ BlockElement(a, p, c, time) = StripPlace(ChunkSample(a, p, c, time))
<1> DEFINE s == ChunkSample(a, p, c, time)
<1>1. /\ time \div Nt \in 0 .. Nm - 1 /\ time % Nt \in 0 .. Nt - 1
      /\ time = Digit(Nt, time \div Nt, time % Nt)
  BY Sizes, DigitSplit
<1>2. s \in KeptSamples
  BY <1>1 DEF ChunkSample, KeptSamples, SamplesUpTo
<1>3. StripPlace(s) = Number(2, Nsc, Nm, Nt, a, p, c, time \div Nt, time % Nt)
  BY <1>2, StripSample DEF ChunkSample
<1>4. ASSUME NEW m \in Nat, NEW t \in Nat
      PROVE  BlockElement(a, p, c, Digit(Nt, m, t)) = Number(2, Nsc, Nm, Nt, a, p, c, m, t)
  BY Sizes DEF BlockElement, Number, Digit
<1>5. time \div Nt \in Nat /\ time % Nt \in Nat
  BY <1>1, Sizes
<1>6. BlockElement(a, p, c, time) = Number(2, Nsc, Nm, Nt, a, p, c, time \div Nt, time % Nt)
  BY <1>1, <1>4, <1>5
<1> QED BY <1>2, <1>3, <1>6

-----------------------------------------------------------------------------
(* Packets. *)

\* What is known of any packet.
LEMMA PacketFacts ==
  ASSUME NEW pkt \in Packets
  PROVE  /\ pkt.m \in 0 .. Nm - 1 /\ pkt.m \in Nat
         /\ pkt.ant \in Nat
         /\ pkt.chan % Nc \in Nat /\ pkt.chan % Nc < Nc
<1>1. pkt.m \in 0 .. Nm - 1 /\ pkt.ant \in PktAnts /\ pkt.chan \in PktChans
  BY DEF Packets
<1>2. pkt.ant \in Nat /\ pkt.chan \in Nat
  BY <1>1, LayoutAssumption
<1>3. pkt.chan % NChanPerX \in 0 .. NChanPerX - 1
  BY <1>2, Sizes
<1> QED BY <1>1, <1>2, <1>3, Sizes

\* The bytes of a row and of a payload: rows are whole words, a payload is at most a
\* row, and the block is as many rows as there are antennas for each m.
LEMMA RowFacts ==
  /\ RowLength \in Nat \ {0} /\ PayloadLength \in Nat \ {0}
  /\ PayloadLength <= RowLength
  /\ NBytesPerBlock = (Nm * Na) * RowLength
  /\ RowLength % Word = 0
<1>1. NChanPerPacket <= NChanPerX /\ (NChanPerX * NTimePerPacket * 2) % Word = 0
  BY LayoutAssumption
<1>2. RowLength \in Nat \ {0} /\ PayloadLength \in Nat \ {0}
  BY Sizes DEF RowLength, PayloadLength
<1>3. PayloadLength <= RowLength
  <2>1. (2 * NTimePerPacket) * NChanPerPacket <= (2 * NTimePerPacket) * NChanPerX
    <3> DEFINE x == 2 * NTimePerPacket
    <3>1. x \in Nat
      BY Sizes
    <3> HIDE DEF x
    <3> QED BY <1>1, <3>1, Sizes
  <2> QED BY <2>1, Sizes DEF RowLength, PayloadLength
<1>4. NBytesPerBlock = (Nm * Na) * RowLength
  BY Sizes DEF NBytesPerBlock, RowLength
<1> QED BY <1>1, <1>2, <1>3, <1>4 DEF RowLength

\* A payload starts less than a row into its row, and no further than its channel.
LEMMA OffsetFacts ==
  ASSUME NEW pkt \in Packets
  PROVE  /\ RowOffset(pkt) \in 0 .. RowLength - 1
         /\ ((pkt.chan % Nc) * Nt * Np) % Word = 0 => RowOffset(pkt) = (pkt.chan % Nc) * Nt * Np
<1> DEFINE c == pkt.chan % Nc
           x == c * Nt * Np
<1>1. c \in Nat /\ c < Nc /\ x \in Nat
  <2>1. c \in Nat /\ c < Nc
    BY PacketFacts
  <2> HIDE DEF c
  <2> QED BY <2>1, Sizes
<1>2. x < RowLength
  <2> DEFINE y == Nt * Np
  <2>1. y \in Nat \ {0}
    BY Sizes
  <2> HIDE DEF c, y
  <2>2. c * y < Nc * y
    BY <1>1, <2>1, Sizes
  <2>3. x = c * y /\ RowLength = Nc * y
    BY <1>1, Sizes DEF y, RowLength
  <2> QED BY <2>2, <2>3
<1>3. RowOffset(pkt) = Word * (x \div Word)
  BY DEF RowOffset
<1> HIDE DEF x, c
<1>4. Word \in Nat \ {0} /\ RowLength \in Nat
  BY Sizes, RowFacts
<1>5. PICK q \in Nat, r \in 0 .. Word - 1 : x = Word * q + r
  BY <1>1, <1>4, DivModExist
<1>6. x \div Word = q /\ x % Word = r
  BY <1>1, <1>4, <1>5, DivModUnique
<1>7. RowOffset(pkt) = Word * q /\ Word * q \in Nat
  BY <1>3, <1>4, <1>6
<1>8. RowOffset(pkt) \in 0 .. RowLength - 1
  <2> DEFINE y == Word * q
  <2>1. y \in Nat /\ x = y + r /\ RowOffset(pkt) = y
    BY <1>5, <1>7
  <2> HIDE DEF y
  <2> QED BY <1>1, <1>2, <1>4, <2>1
<1>9. ASSUME x % Word = 0 PROVE RowOffset(pkt) = x
  BY <1>1, <1>4, <1>5, <1>6, <1>7, <1>9
<1> QED BY <1>8, <1>9 DEF x, c

\* The payload of an antenna starts at the word its channel is in, in its row.
LEMMA DestinationRow ==
  ASSUME NEW pkt \in Packets, NEW i \in 0 .. AntsPerPacket - 1
  PROVE  /\ pkt.m * Na + pkt.ant + i \in Nat
         /\ Destination(pkt, i) = (pkt.m * Na + pkt.ant + i) * RowLength + RowOffset(pkt)
         /\ Destination(pkt, i) \in Nat
<1> DEFINE a == pkt.ant + i
           c == pkt.chan % Nc
           y == pkt.m * Na + pkt.ant + i
           o == c * Nt * Np
           x == pkt.m*Na*Nc*Nt*Np + a*Nc*Nt*Np + c*Nt*Np + 0*Np
<1>1. a \in Nat /\ c \in Nat /\ pkt.m \in Nat /\ y = pkt.m * Na + a /\ y \in Nat
  BY PacketFacts, Sizes
<1>2. o \in Nat
  <2> HIDE DEF c
  <2> QED BY <1>1, Sizes
<1>3. x = y * RowLength + o
  <2> HIDE DEF a, c
  <2>0. \A m, b \in Nat : m*Na*Nc*Nt*Np + b*Nc*Nt*Np = (m * Na + b) * (Nc * Nt * Np)
    BY Sizes
  <2>1. pkt.m*Na*Nc*Nt*Np + a*Nc*Nt*Np = (pkt.m * Na + a) * (Nc * Nt * Np)
    BY <1>1, <2>0, Zenon
  <2>2. x = (pkt.m * Na + a) * (Nc * Nt * Np) + c * Nt * Np
    BY <1>1, <2>1, Sizes
  <2> HIDE DEF x, y
  <2> QED BY <1>1, <2>2 DEF RowLength
<1>4. Destination(pkt, i) = Word * (x \div Word)
  BY DEF Destination, hdr_input_databuf_data_idx, BlockChan
<1>5. RowOffset(pkt) = Word * (o \div Word)
  BY DEF RowOffset
<1>6. Word \in Nat \ {0} /\ RowLength \in Nat /\ RowLength % Word = 0
  BY Sizes, RowFacts
<1> HIDE DEF a, c, y, o, x
<1>7. PICK q \in Nat : RowLength = Word * q
  <2>1. PICK q \in Nat, r \in 0 .. Word - 1 : RowLength = Word * q + r
    BY <1>6, DivModExist
  <2>2. r = 0
    BY <1>6, <2>1, DivModUnique
  <2> QED BY <1>6, <2>1, <2>2
<1>8. PICK e \in Nat, r \in 0 .. Word - 1 : o = Word * e + r
  BY <1>2, <1>6, DivModExist
<1>9. o \div Word = e
  BY <1>2, <1>6, <1>8, DivModUnique
<1> DEFINE z == y * q + e
<1>10. z \in Nat /\ Word * z = y * RowLength + Word * e
  <2>1. y \in Nat /\ q \in Nat /\ e \in Nat /\ Word \in Nat
    BY <1>1, <1>6
  <2>2. y * q + e \in Nat /\ Word * (y * q + e) = y * (Word * q) + Word * e
    BY <2>1
  <2> QED BY <1>7, <2>2, Zenon
<1>11. x = Word * z + r /\ x \in Int
  <2> DEFINE g == y * RowLength
             h == Word * e
             w == Word * z
  <2>1. g \in Int /\ h \in Int /\ w = g + h
    BY <1>1, <1>6, <1>10
  <2>2. x = g + o /\ o = h + r
    BY <1>3, <1>8
  <2> HIDE DEF g, h, w, z
  <2>3. x = w + r /\ x \in Int
    BY <2>1, <2>2
  <2> QED BY <2>3 DEF w
<1> HIDE DEF z
<1>12. x \div Word = z
  <2>1. Word \in Nat \ {0} /\ z \in Nat /\ r \in 0 .. Word - 1 /\ x \in Int /\ x = Word * z + r
    BY <1>6, <1>10, <1>11
  <2> QED BY <2>1, DivModUnique, Zenon
<1>13. Destination(pkt, i) = y * RowLength + RowOffset(pkt)
  BY <1>4, <1>5, <1>9, <1>10, <1>12
<1>14. Destination(pkt, i) \in Nat
  <2>1. RowOffset(pkt) \in Nat
    BY OffsetFacts, RowFacts
  <2> QED BY <1>1, <1>6, <1>13, <2>1
<1> QED BY <1>1, <1>13, <1>14 DEF y

\* A packet that is taken stays inside the block unless it is past the end.
LEMMA PayloadInside ==
  ASSUME NEW pkt \in Packets, calc_block_indexes(pkt)
  PROVE  /\ ~PastTheEnd(pkt) =>
              \A i \in 0 .. AntsPerPacket - 1 : Destination(pkt, i) + PayloadLength <= NBytesPerBlock
         /\ PastTheEnd(pkt) =>
              Destination(pkt, AntsPerPacket - 1) + PayloadLength > NBytesPerBlock
<1> DEFINE R == RowLength
           L == PayloadLength
           o == RowOffset(pkt)
           T == Nm * Na
           w == pkt.m * Na
           row(i) == w + pkt.ant + i
<1>1. /\ R \in Nat \ {0} /\ L \in Nat \ {0} /\ L <= R /\ o \in 0 .. R - 1
      /\ NBytesPerBlock = T * R
  BY RowFacts, OffsetFacts
<1>2. T \in Nat /\ w \in Nat /\ w + Na <= T
  <2>1. T \in Nat /\ w \in Nat /\ pkt.m + 1 <= Nm /\ pkt.m \in Nat
    BY PacketFacts, Sizes
  <2>2. (pkt.m + 1) * Na <= Nm * Na
    BY <2>1, Sizes
  <2>3. (pkt.m + 1) * Na = w + Na
    BY <2>1, Sizes
  <2> QED BY <2>1, <2>2, <2>3
<1>3. pkt.m # Nm - 1 => w + Na + Na <= T
  <2> SUFFICES ASSUME pkt.m # Nm - 1 PROVE w + Na + Na <= T
    OBVIOUS
  <2>1. pkt.m + 2 <= Nm /\ pkt.m \in Nat
    BY PacketFacts, Sizes
  <2>2. (pkt.m + 2) * Na <= Nm * Na
    BY <2>1, Sizes
  <2>3. (pkt.m + 2) * Na = w + Na + Na
    BY <2>1, Sizes
  <2> QED BY <2>2, <2>3
<1>4. pkt.m = Nm - 1 => w + Na = T
  BY Sizes
<1>5. pkt.ant \in Nat /\ pkt.ant < Na
  BY PacketFacts DEF calc_block_indexes
<1>6. \A i \in 0 .. AntsPerPacket - 1 : row(i) \in Nat /\ Destination(pkt, i) = row(i) * R + o
  BY DestinationRow
<1>7. AntsPerPacket \in Nat \ {0} /\ AntsPerPacket <= Na /\ Na \in Nat
  BY Sizes, LayoutAssumption
<1>8. PastTheEnd(pkt) <=>
        /\ pkt.m = Nm - 1
        /\ \/ pkt.ant + AntsPerPacket > Na
           \/ pkt.ant + AntsPerPacket = Na /\ o + L > R
  BY DEF PastTheEnd
<1> HIDE DEF R, L, o, T, w
\* Rows before the last but one, the last, and past the last.
<1>9. ASSUME NEW y \in Nat, y + 2 <= T PROVE y * R + o + L <= T * R
  <2>1. (y + 2) * R <= T * R
    BY <1>1, <1>2, <1>9
  <2>2. (y + 2) * R = y * R + R + R /\ y * R \in Nat /\ T * R \in Nat
    BY <1>1, <1>2
  <2> QED BY <1>1, <2>1, <2>2
<1>10. ASSUME NEW y \in Nat, y + 1 = T PROVE y * R + o + L <= T * R <=> o + L <= R
  <2>1. T * R = y * R + R /\ y * R \in Nat
    BY <1>1, <1>10
  <2> QED BY <1>1, <2>1
<1>11. ASSUME NEW y \in Nat, y >= T PROVE y * R + o + L > T * R
  <2>1. y * R >= T * R /\ y * R \in Nat /\ T * R \in Nat
    BY <1>1, <1>2, <1>11
  <2> QED BY <1>1, <2>1
<1>12. ASSUME ~PastTheEnd(pkt), NEW i \in 0 .. AntsPerPacket - 1
       PROVE  Destination(pkt, i) + L <= NBytesPerBlock
  <2>1. row(i) \in Nat /\ Destination(pkt, i) = row(i) * R + o
    BY <1>6
  <2>2. row(i) + 2 <= T \/ (row(i) + 1 = T /\ o + L <= R)
    <3>1. row(i) = w + pkt.ant + i /\ i \in Nat /\ i + 1 <= AntsPerPacket
      BY <1>7
    <3>2. CASE pkt.m # Nm - 1
      BY <1>2, <1>3, <1>5, <1>7, <3>1, <3>2
    <3>3. CASE pkt.m = Nm - 1 /\ pkt.ant + AntsPerPacket < Na
      BY <1>2, <1>4, <1>5, <1>7, <3>1, <3>3
    <3>4. CASE pkt.m = Nm - 1 /\ pkt.ant + AntsPerPacket = Na /\ o + L <= R
      BY <1>2, <1>4, <1>5, <1>7, <3>1, <3>4
    <3> QED BY <1>1, <1>5, <1>7, <1>8, <1>12, <3>2, <3>3, <3>4
  <2> HIDE DEF row
  <2>3. row(i) * R + o + L <= T * R
    BY <1>9, <1>10, <2>1, <2>2
  <2> QED BY <1>1, <2>1, <2>3
<1>13. ASSUME PastTheEnd(pkt)
       PROVE  Destination(pkt, AntsPerPacket - 1) + L > NBytesPerBlock
  <2> DEFINE y == row(AntsPerPacket - 1)
  <2>1. y \in Nat /\ Destination(pkt, AntsPerPacket - 1) = y * R + o
    BY <1>6, <1>7
  <2>2. y + 1 = w + pkt.ant + AntsPerPacket
    BY <1>2, <1>5, <1>7
  <2>3. y >= T \/ (y + 1 = T /\ ~(o + L <= R))
    <3> HIDE DEF y
    <3> QED BY <1>1, <1>2, <1>4, <1>5, <1>7, <1>8, <1>13, <2>1, <2>2
  <2> HIDE DEF y
  <2>4. ~(y * R + o + L <= T * R)
    <3>1. CASE y >= T
      <4>1. y * R + o + L > T * R
        BY <1>11, <2>1, <3>1
      <4>2. y * R + o + L \in Int /\ T * R \in Int
        BY <1>1, <1>2, <2>1
      <4> QED BY <4>1, <4>2
    <3>2. CASE y + 1 = T /\ ~(o + L <= R)
      BY <1>10, <2>1, <3>2
    <3> QED BY <2>3, <3>1, <3>2
  <2>5. y * R \in Int /\ T * R \in Int
    BY <1>1, <1>2, <2>1
  <2> QED BY <1>1, <2>1, <2>4, <2>5
<1> QED BY <1>12, <1>13 DEF L

\* So a packet that is taken writes inside the block exactly when it is not.
LEMMA WrittenInside ==
  ASSUME NEW pkt \in Packets, calc_block_indexes(pkt)
  PROVE  WrittenBytes(pkt) \subseteq InBytes <=> ~PastTheEnd(pkt)
<1>1. PayloadLength \in Nat \ {0} /\ NBytesPerBlock \in Nat
  BY RowFacts, Sizes
<1>2. \A i \in 0 .. AntsPerPacket - 1 : Destination(pkt, i) \in Nat
  BY DestinationRow
<1>3. ASSUME ~PastTheEnd(pkt) PROVE WrittenBytes(pkt) \subseteq InBytes
  <2> SUFFICES ASSUME NEW i \in 0 .. AntsPerPacket - 1,
                      NEW b \in Destination(pkt, i) .. Destination(pkt, i) + PayloadLength - 1
               PROVE  b \in InBytes
    BY DEF WrittenBytes
  <2>1. Destination(pkt, i) + PayloadLength <= NBytesPerBlock
    BY <1>3, PayloadInside
  <2> QED BY <1>1, <1>2, <2>1 DEF InBytes
<1>4. ASSUME PastTheEnd(pkt) PROVE ~(WrittenBytes(pkt) \subseteq InBytes)
  <2> DEFINE i == AntsPerPacket - 1
             b == Destination(pkt, i) + PayloadLength - 1
  <2>1. i \in 0 .. AntsPerPacket - 1 /\ Destination(pkt, i) + PayloadLength > NBytesPerBlock
    BY <1>4, PayloadInside, Sizes
  <2> HIDE DEF i
  <2>2. b \in Destination(pkt, i) .. Destination(pkt, i) + PayloadLength - 1 /\ b \notin InBytes
    BY <1>1, <1>2, <2>1 DEF InBytes
  <2> HIDE DEF b
  <2> QED BY <2>1, <2>2 DEF WrittenBytes
<1> QED BY <1>3, <1>4

\* A byte some antenna's payload is copied over is a written one.
LEMMA WritersWrite ==
  ASSUME NEW pkt \in Packets, NEW b \in Int
  PROVE  Writers(pkt, b) # {} <=> b \in WrittenBytes(pkt)
<1>1. PayloadLength \in Nat
  BY RowFacts
<1>2. ASSUME NEW i \in 0 .. AntsPerPacket - 1
      PROVE  b - Destination(pkt, i) \in 0 .. PayloadLength - 1 <=>
               b \in Destination(pkt, i) .. Destination(pkt, i) + PayloadLength - 1
  <2>1. Destination(pkt, i) \in Nat
    BY DestinationRow
  <2> QED BY <1>1, <2>1
<1> QED BY <1>2 DEF Writers, WrittenBytes

\* No two antennas of a packet are copied over one byte, well placed or not.
LEMMA OneWriter ==
  ASSUME NEW pkt \in Packets, NEW b \in Int, Writers(pkt, b) # {}
  PROVE  LastWriter(pkt, b) \in Writers(pkt, b)
<1> DEFINE R == RowLength
<1>0. R \in Nat \ {0} /\ PayloadLength \in Nat /\ PayloadLength <= R
  BY RowFacts
<1>1. ASSUME NEW i \in Writers(pkt, b), NEW j \in Writers(pkt, b) PROVE j <= i
  <2> DEFINE y == pkt.m * Na + pkt.ant
             u == y + i
             v == y + j
             o == RowOffset(pkt)
  <2>1. /\ i \in 0 .. AntsPerPacket - 1 /\ b - Destination(pkt, i) \in 0 .. PayloadLength - 1
        /\ j \in 0 .. AntsPerPacket - 1 /\ b - Destination(pkt, j) \in 0 .. PayloadLength - 1
    BY DEF Writers
  <2>2. y \in Nat /\ u \in Nat /\ v \in Nat /\ i \in Nat /\ j \in Nat
    BY <2>1, PacketFacts, Sizes
  <2>3. /\ Destination(pkt, i) = u * R + o /\ Destination(pkt, j) = v * R + o
        /\ Destination(pkt, i) \in Nat /\ Destination(pkt, j) \in Nat
    BY <2>1, DestinationRow
  <2>4. o \in Nat
    BY <1>0, OffsetFacts
  <2>5. ~(i < j)
    <3> SUFFICES ASSUME i < j PROVE FALSE
      OBVIOUS
    <3>1. u + 1 <= v
      BY <2>2
    <3> HIDE DEF R, u, v, o
    <3>2. (u + 1) * R <= v * R /\ (u + 1) * R = u * R + R
      BY <1>0, <2>2, <3>1
    <3>3. u * R \in Nat /\ v * R \in Nat
      BY <1>0, <2>2
    <3> QED BY <1>0, <2>1, <2>3, <2>4, <3>2, <3>3
  <2> QED BY <2>2, <2>5
<1> QED BY <1>1 DEF LastWriter

\* The payload of a well placed packet starts at its first sample's place.
LEMMA DestinationPlace ==
  ASSUME NEW pkt \in Packets, WellPlaced(pkt), NEW i \in 0 .. AntsPerPacket - 1
  PROVE  Destination(pkt, i) =
           hdr_input_databuf_data_idx8(pkt.m, pkt.ant + i, 0, pkt.chan % Nc, 0)
<1> DEFINE a == pkt.ant + i
           c == pkt.chan % Nc
<1>1. a \in Nat /\ c \in Nat /\ pkt.m \in Nat
  BY PacketFacts, Sizes
<1>2. RowOffset(pkt) = c * Nt * Np
  BY OffsetFacts DEF WellPlaced
<1>3. Destination(pkt, i) = (pkt.m * Na + pkt.ant + i) * RowLength + RowOffset(pkt)
  BY DestinationRow
<1>4. pkt.m * Na + pkt.ant + i = pkt.m * Na + a
  BY PacketFacts, Sizes
<1>5. hdr_input_databuf_data_idx8(pkt.m, a, 0, c, 0) = (pkt.m * Na + a) * RowLength + c * Nt * Np
  <2> HIDE DEF a, c
  <2> QED BY <1>1, Sizes DEF hdr_input_databuf_data_idx8, RowLength
<1> QED BY <1>2, <1>3, <1>4, <1>5

\* Byte b of the payload of the i-th antenna of a well placed packet: what it is and where it is copied.
LEMMA PayloadPlace ==
  ASSUME NEW pkt \in Packets, WellPlaced(pkt), NEW i \in 0 .. AntsPerPacket - 1,
         NEW b \in 0 .. PayloadLength - 1
  PROVE  /\ PayloadSample(pkt, i, b) \in SamplesOf(pkt)
         /\ PayloadSample(pkt, i, b) \in Samples
         /\ InputPlace(PayloadSample(pkt, i, b)) = Destination(pkt, i) + b
<1> DEFINE s  == PayloadSample(pkt, i, b)
           c  == pkt.chan % Nc
           d  == b \div (Nt * 2)
           t  == (b \div 2) % Nt
           p  == b % 2
           h  == b \div 2
<1>1. PayloadLength = 2 * (Nt * NChanPerPacket)
  BY Sizes DEF PayloadLength
<1>2. h \in 0 .. Nt * NChanPerPacket - 1 /\ p \in 0 .. 2 - 1 /\ b = Digit(2, h, p)
  <2> DEFINE x == Nt * NChanPerPacket
  <2>1. x \in Nat
    BY Sizes
  <2>2. b \in 0 .. 2 * x - 1
    BY <1>1
  <2> HIDE DEF x
  <2>3. h \in 0 .. x - 1 /\ p \in 0 .. 2 - 1 /\ b = Digit(2, h, p)
    BY <2>1, <2>2, Sizes, DigitSplit, Zenon
  <2> QED BY <2>3 DEF x
<1>3. b \in Nat
  BY <1>1, <1>2, Sizes DEF Digit
<1>4. d = h \div Nt
  BY <1>3, Sizes, DivDiv
<1>5. h \div Nt \in 0 .. NChanPerPacket - 1 /\ t \in 0 .. Nt - 1 /\ h = Digit(Nt, h \div Nt, t)
  <2> HIDE DEF h
  <2>1. h \in 0 .. Nt * NChanPerPacket - 1 /\ NChanPerPacket \in Nat /\ Nt \in Nat \ {0}
    BY <1>2, Sizes
  <2>2. /\ h \div Nt \in 0 .. NChanPerPacket - 1 /\ h % Nt \in 0 .. Nt - 1
        /\ h = Digit(Nt, h \div Nt, h % Nt)
    BY <2>1, DigitSplit, Zenon
  <2>3. t = h % Nt
    BY DEF h
  <2> HIDE DEF t
  <2> QED BY <2>2, <2>3
<1>6. d \in 0 .. NChanPerPacket - 1 /\ h = Digit(Nt, d, t)
  BY <1>4, <1>5
<1>7. b = Digit(2, Digit(Nt, d, t), p)
  BY <1>2, <1>6
<1>8. s = [m |-> pkt.m, a |-> pkt.ant + i, p |-> p, c |-> c + d, t |-> t]
  BY DEF PayloadSample, BlockChan
<1> HIDE DEF d, t, p, h, c, s
<1>9. s \in Samples /\ s \in SamplesOf(pkt)
  <2>1. /\ pkt.ant + i \in 0 .. Na - 1 /\ c + d \in 0 .. Nc - 1
        /\ pkt.ant + i \in pkt.ant .. pkt.ant + AntsPerPacket - 1
        /\ c + d \in c .. c + NChanPerPacket - 1
    BY <1>6, PacketFacts, Sizes DEF c, WellPlaced
  <2>2. pkt.m \in 0 .. Nm - 1
    BY PacketFacts
  <2>3. s \in Samples
    BY <1>2, <1>5, <1>8, <2>1, <2>2 DEF Samples, SamplesUpTo
  <2> QED BY <1>8, <2>1, <2>3 DEF SamplesOf, c
<1>10. InputPlace(s) = Destination(pkt, i) + b
  <2> DEFINE a == pkt.ant + i
  <2>1. a \in Nat /\ c \in Nat /\ d \in Nat /\ t \in Nat /\ p \in Nat /\ pkt.m \in Nat
    BY <1>2, <1>5, <1>6, PacketFacts, Sizes DEF c
  <2>2. InputPlace(s) = hdr_input_databuf_data_idx8(pkt.m, a, p, c + d, t)
    BY <1>8 DEF InputPlace
  <2>3. Destination(pkt, i) = hdr_input_databuf_data_idx8(pkt.m, a, 0, c, 0)
    BY DestinationPlace DEF c
  <2> HIDE DEF a
  <2>4. hdr_input_databuf_data_idx8(pkt.m, a, p, c + d, t) =
          hdr_input_databuf_data_idx8(pkt.m, a, 0, c, 0) + Digit(2, Digit(Nt, d, t), p)
    BY <2>1, Sizes DEF hdr_input_databuf_data_idx8, Digit
  <2> QED BY <1>7, <2>2, <2>3, <2>4
<1> QED BY <1>9, <1>10 DEF s

\* Every sample of a packet is somewhere in its payload.
LEMMA PayloadHasAll ==
  ASSUME NEW pkt \in Packets, NEW s \in SamplesOf(pkt)
  PROVE  \E i \in 0 .. AntsPerPacket - 1, b \in 0 .. PayloadLength - 1 :
           s = PayloadSample(pkt, i, b)
<1> DEFINE c == pkt.chan % Nc
           d == s.c - c
           i == s.a - pkt.ant
           h == Digit(Nt, d, s.t)
           b == Digit(2, h, s.p)
<1>1. /\ s \in Samples /\ s.m = pkt.m
      /\ s.a \in pkt.ant .. pkt.ant + AntsPerPacket - 1
      /\ s.c \in c .. c + NChanPerPacket - 1
  BY DEF SamplesOf
<1>2. /\ s.t \in 0 .. Nt - 1 /\ s.p \in 0 .. 2 - 1
      /\ s = [m |-> s.m, a |-> s.a, p |-> s.p, c |-> s.c, t |-> s.t]
  BY <1>1, InputSample
<1>3. /\ d \in 0 .. NChanPerPacket - 1 /\ i \in 0 .. AntsPerPacket - 1
      /\ pkt.ant + i = s.a /\ c + d = s.c
  <2>1. c \in Nat /\ pkt.ant \in Nat
    BY PacketFacts
  <2> HIDE DEF c
  <2> QED BY <1>1, <2>1, Sizes
<1> HIDE DEF d, i, c
<1>4. h \in 0 .. Nt * NChanPerPacket - 1 /\ h \in Nat /\ Nt * NChanPerPacket \in Nat
  BY <1>2, <1>3, Sizes, DigitRange
<1>5. h \div Nt = d /\ h % Nt = s.t
  BY <1>2, <1>3, Sizes, DigitRead
<1>6. b \in 0 .. PayloadLength - 1 /\ b \in Nat
  <2> DEFINE x == Nt * NChanPerPacket
  <2>1. 2 * x = PayloadLength
    BY Sizes DEF PayloadLength
  <2>2. h \in 0 .. x - 1 /\ x \in Nat
    BY <1>4
  <2> HIDE DEF h, x
  <2>3. b \in 0 .. 2 * x - 1 /\ b \in Nat
    BY <1>2, <2>2, Sizes, DigitRange, Zenon
  <2> QED BY <2>1, <2>3
<1>7. b \div 2 = h /\ b % 2 = s.p
  <2> HIDE DEF h
  <2> QED BY <1>2, <1>4, Sizes, DigitRead, Zenon
<1>8. b \div (Nt * 2) = (b \div 2) \div Nt
  <2> HIDE DEF b
  <2> QED BY <1>6, Sizes, DivDiv
<1>9. s = PayloadSample(pkt, i, b)
  <2> HIDE DEF b, h
  <2>1. b \div (Nt * Np) = d /\ (b \div Np) % Nt = s.t /\ b % Np = s.p
    BY <1>5, <1>7, <1>8
  <2>2. PayloadSample(pkt, i, b) = [m |-> pkt.m, a |-> s.a, p |-> s.p, c |-> s.c, t |-> s.t]
    BY <1>3, <2>1 DEF PayloadSample, BlockChan, c
  <2> QED BY <1>1, <1>2, <2>2
<1> HIDE DEF b
<1> QED BY <1>3, <1>6, <1>9

\* What a well placed packet writes to byte b: a sample whose place it is.
LEMMA WriterPlace ==
  ASSUME NEW pkt \in Packets, WellPlaced(pkt), NEW b \in Int, NEW i \in Writers(pkt, b)
  PROVE  /\ PayloadSample(pkt, i, b - Destination(pkt, i)) \in SamplesOf(pkt)
         /\ PayloadSample(pkt, i, b - Destination(pkt, i)) \in Samples
         /\ InputPlace(PayloadSample(pkt, i, b - Destination(pkt, i))) = b
         /\ b \in InBytes
<1> DEFINE j == b - Destination(pkt, i)
<1>1. i \in 0 .. AntsPerPacket - 1 /\ j \in 0 .. PayloadLength - 1
  BY DEF Writers
<1>2. Destination(pkt, i) \in Nat
  BY <1>1, DestinationRow
<1>3. Destination(pkt, i) + j = b
  BY <1>2
<1> HIDE DEF j
<1>4. /\ PayloadSample(pkt, i, j) \in SamplesOf(pkt)
      /\ PayloadSample(pkt, i, j) \in Samples
      /\ InputPlace(PayloadSample(pkt, i, j)) = b
  BY <1>1, <1>3, PayloadPlace
<1>5. b \in InBytes
  BY <1>4, InputOneToOne
<1> QED BY <1>4, <1>5 DEF j

\* The bytes a well placed packet writes are those of its samples.
LEMMA WritersOfSample ==
  ASSUME NEW pkt \in Packets, WellPlaced(pkt), NEW s \in Samples
  PROVE  /\ s \in SamplesOf(pkt) => Writers(pkt, InputPlace(s)) # {}
         /\ \A i \in Writers(pkt, InputPlace(s)) :
              /\ s \in SamplesOf(pkt)
              /\ PayloadSample(pkt, i, InputPlace(s) - Destination(pkt, i)) = s
<1>1. ASSUME s \in SamplesOf(pkt) PROVE Writers(pkt, InputPlace(s)) # {}
  <2>1. PICK i \in 0 .. AntsPerPacket - 1, b \in 0 .. PayloadLength - 1 : s = PayloadSample(pkt, i, b)
    BY <1>1, PayloadHasAll
  <2>2. InputPlace(s) = Destination(pkt, i) + b
    BY <2>1, PayloadPlace
  <2>3. Destination(pkt, i) \in Nat
    BY DestinationRow
  <2>4. InputPlace(s) - Destination(pkt, i) = b
    BY <2>2, <2>3
  <2> QED BY <2>1, <2>4 DEF Writers
<1>2. ASSUME NEW i \in Writers(pkt, InputPlace(s))
      PROVE  /\ s \in SamplesOf(pkt)
             /\ PayloadSample(pkt, i, InputPlace(s) - Destination(pkt, i)) = s
  <2> DEFINE b == InputPlace(s)
             u == PayloadSample(pkt, i, b - Destination(pkt, i))
  <2>1. b \in Int
    BY InputOneToOne DEF InBytes
  <2>2. u \in SamplesOf(pkt) /\ u \in Samples /\ InputPlace(u) = b
    <3> HIDE DEF b
    <3> QED BY <1>2, <2>1, WriterPlace DEF b
  <2>3. u = s
    BY <2>2, InputOneToOne
  <2> QED BY <2>2, <2>3
<1> QED BY <1>1, <1>2

-----------------------------------------------------------------------------
(* The inductive invariant. *)

\* Nothing has come in a turn that has not begun.
LaterTurnsEmpty == \A j \in Turns : j > nblks => received[j] = {}

\* The loops only count while the strip thread has the block; what they have
\* passed is in the stripper block.
CopiedSoFar ==
  /\ phase # "strip" => k = 0
  /\ \A s \in KeptSamples :
       (phase = "write" \/ (phase = "strip" /\ LoopPlace(s) < k)) =>
         outdata[StripPlace(s)] = indata[InputPlace(s)]

\* The two invariants of Layout with the places named as above.
InputOk ==
  \A s \in Samples : Spoilt(nblks, s) \/ IsLastReceived(indata[InputPlace(s)], nblks, s)

\* The place of a sample in the chunk of turn n.
FilePlace(n, s) == <<s.a, s.p, s.c, n * NTimePerBlock + s.m * Nt + s.t>>

FileOk ==
  \A n \in Turns : n < nblks =>
    \A s \in KeptSamples : Spoilt(n, s) \/ IsLastReceived(file[FilePlace(n, s)], n, s)

LayoutInv ==
  TypeOK /\ OnlyLastRowLeavesBlock /\ LaterTurnsEmpty /\ CopiedSoFar /\ InputOk /\ FileOk

\* The two are the properties of Layout.
LEMMA NamesAgree == (InputOk <=> InputIsLastReceived) /\ (FileOk <=> FileIsLastReceived)
BY DEF InputOk, InputIsLastReceived, FileOk, FileIsLastReceived, InputPlace, FilePlace

\* The invariant holds of zeroed blocks and an empty file.
LEMMA LayoutInit == Init => LayoutInv
<1> SUFFICES ASSUME Init PROVE LayoutInv
  OBVIOUS
<1> USE DEF Init
<1>1. NBlockPerFile \in Nat \ {0} /\ Iterations \in Nat
  BY Sizes DEF Iterations
<1>2. TypeOK
  <2>1. InBytes \subseteq Nat
    BY Sizes DEF InBytes, NBytesPerBlock
  <2> QED BY <1>1, <2>1 DEF TypeOK, Bytes, Turns
<1>7. OnlyLastRowLeavesBlock
  BY DEF OnlyLastRowLeavesBlock
<1>3. LaterTurnsEmpty
  BY DEF LaterTurnsEmpty
<1>4. CopiedSoFar
  <2>1. \A s \in KeptSamples : LoopPlace(s) \in 0 .. Iterations - 1
    BY LoopsVisitEach
  <2> QED BY <2>1 DEF CopiedSoFar
<1>5. InputOk
  <2> SUFFICES ASSUME NEW s \in Samples PROVE IsLastReceived(indata[InputPlace(s)], nblks, s)
    BY DEF InputOk
  <2>1. TurnsReceived(nblks, s) = {}
    BY DEF TurnsReceived
  <2>2. indata[InputPlace(s)] = Zero
    BY InputOneToOne
  <2> QED BY <2>1, <2>2 DEF IsLastReceived
<1>6. FileOk
  BY DEF FileOk, Turns
<1> QED BY <1>2, <1>3, <1>4, <1>5, <1>6, <1>7 DEF LayoutInv

\* A stored packet counts for its own samples in this turn, and only if it has a
\* place; what was spoilt up to a turn stays so while the turns received do.
LEMMA StoreTurns ==
  ASSUME TypeOK, NEW pkt \in Packets, StorePacket(pkt), NEW n \in Int, NEW s,
         n < nblks \/ ~WellPlaced(pkt) \/ s \notin SamplesOf(pkt)
  PROVE  /\ TurnsReceived(n, s)' = TurnsReceived(n, s)
         /\ Spoilt(n, s) => Spoilt(n, s)'
<1>1. /\ nblks \in Turns /\ nblks \in Int
      /\ received' = [received EXCEPT ![nblks] = received[nblks] \union {pkt}]
      /\ received \in [Turns -> SUBSET Packets]
  BY Sizes DEF TypeOK, StorePacket, Turns
<1>2. ASSUME NEW j \in Turns, j <= n
      PROVE  (\E q \in received'[j] : WellPlaced(q) /\ s \in SamplesOf(q))
               <=> (\E q \in received[j] : WellPlaced(q) /\ s \in SamplesOf(q))
  <2>1. CASE j = nblks
    <3>1. ~(WellPlaced(pkt) /\ s \in SamplesOf(pkt))
      BY <1>1, <1>2, <2>1
    <3>2. received'[j] = received[j] \union {pkt}
      BY <1>1, <2>1
    <3> QED BY <3>1, <3>2
  <2>2. CASE j # nblks
    BY <1>1, <2>2
  <2> QED BY <2>1, <2>2
<1>3. TurnsReceived(n, s)' = TurnsReceived(n, s)
  BY <1>2 DEF TurnsReceived
<1>4. \A j \in Turns : received[j] \subseteq received'[j]
  BY <1>1
<1>5. Spoilt(n, s) => Spoilt(n, s)'
  BY <1>3, <1>4 DEF Spoilt
<1> QED BY <1>3, <1>5

\* process_packet's copy keeps the invariant.
LEMMA StoreStep ==
  ASSUME LayoutInv, NEW pkt \in Packets, StorePacket(pkt)
  PROVE  LayoutInv'
<1> USE DEF LayoutInv
<1>1. /\ nblks \in Turns /\ nblks \in Int /\ InBytes \subseteq DOMAIN indata
      /\ received' = [received EXCEPT ![nblks] = received[nblks] \union {pkt}]
      /\ phase = "receive" /\ UNCHANGED <<phase, outdata, k, nblks, file>>
      /\ calc_block_indexes(pkt)
  BY Sizes DEF TypeOK, StorePacket, Turns
<1> DEFINE new(b) == IF Writers(pkt, b) = {} THEN indata[b]
                     ELSE Taken(nblks, PayloadSample(pkt, LastWriter(pkt, b),
                                                     b - Destination(pkt, LastWriter(pkt, b))))
<1>2. indata' = [b \in DOMAIN indata \union WrittenBytes(pkt) |-> new(b)]
  BY DEF StorePacket
<1>3. ASSUME NEW b \in WrittenBytes(pkt) PROVE b \in Nat
  <2>1. PICK i \in 0 .. AntsPerPacket - 1 :
          b \in Destination(pkt, i) .. Destination(pkt, i) + PayloadLength - 1
    BY DEF WrittenBytes
  <2>2. Destination(pkt, i) \in Nat /\ PayloadLength \in Nat
    BY DestinationRow, RowFacts
  <2> QED BY <2>1, <2>2
<1>4. TypeOK'
  <2>1. ASSUME NEW b \in DOMAIN indata \union WrittenBytes(pkt)
        PROVE  b \in Nat /\ new(b) \in Bytes
    <3>0. b \in Nat /\ b \in Int
      BY <1>3 DEF TypeOK
    <3>1. CASE Writers(pkt, b) = {}
      <4>1. b \in DOMAIN indata
        BY <3>0, <3>1, WritersWrite
      <4> QED BY <3>0, <3>1, <4>1 DEF TypeOK
    <3>2. CASE Writers(pkt, b) # {}
      <4> DEFINE i == LastWriter(pkt, b)
                 d == b - Destination(pkt, i)
      <4>1. i \in Writers(pkt, b)
        BY <3>0, <3>2, OneWriter
      <4>2. i \in 0 .. AntsPerPacket - 1 /\ d \in 0 .. PayloadLength - 1
        BY <4>1 DEF Writers
      <4>3. d \in Nat /\ i \in Nat
        BY <4>2, RowFacts, Sizes
      <4> HIDE DEF d, i
      <4>4. d \div (Nt * 2) \in Nat /\ d % 2 \in 0 .. 1 /\ (d \div 2) % Nt \in 0 .. Nt - 1
        <5>1. Nt * 2 \in Nat \ {0} /\ Nt \in Nat \ {0}
          BY Sizes
        <5>2. d \div 2 \in Nat /\ d % 2 \in 0 .. 1
          BY <4>3
        <5> DEFINE w == Nt * 2
                   h == d \div 2
        <5> HIDE DEF w, h
        <5>3. d \div w \in Nat
          BY <4>3, <5>1 DEF w
        <5>4. h % Nt \in 0 .. Nt - 1
          BY <5>1, <5>2 DEF h
        <5> QED BY <5>2, <5>3, <5>4 DEF w, h
      <4>5. /\ pkt.m \in Nat /\ pkt.ant + i \in Nat
            /\ (pkt.chan % Nc) + d \div (Nt * 2) \in Nat
        BY <4>3, <4>4, PacketFacts
      <4>6. PayloadSample(pkt, i, d) \in [m : Nat, a : Nat, p : 0 .. Np - 1, c : Nat, t : 0 .. Nt - 1]
        BY <4>4, <4>5 DEF PayloadSample, BlockChan
      <4>7. new(b) = Taken(nblks, PayloadSample(pkt, i, d))
        BY <3>2 DEF i, d
      <4> HIDE DEF new
      <4> QED BY <1>1, <3>0, <4>6, <4>7 DEF Taken, Bytes
    <3> HIDE DEF new
    <3> QED BY <3>1, <3>2
  <2>2. InBytes \subseteq DOMAIN indata' /\ \A b \in DOMAIN indata' : b \in Nat /\ indata'[b] \in Bytes
    <3> HIDE DEF new
    <3> QED BY <1>1, <1>2, <2>1
  <2>3. received' \in [Turns -> SUBSET Packets]
    BY <1>1 DEF TypeOK
  <2> QED BY <1>1, <2>2, <2>3 DEF TypeOK
<1>5. OnlyLastRowLeavesBlock'
  <2>1. DOMAIN indata' = DOMAIN indata \union WrittenBytes(pkt)
    BY <1>2
  <2>2. DOMAIN indata' = InBytes <=> DOMAIN indata = InBytes /\ ~PastTheEnd(pkt)
    BY <1>1, <2>1, WrittenInside
  <2>3. (\A n \in Turns : \A q \in received'[n] : ~PastTheEnd(q)) <=>
          (\A n \in Turns : \A q \in received[n] : ~PastTheEnd(q)) /\ ~PastTheEnd(pkt)
    <3>1. received'[nblks] = received[nblks] \union {pkt}
      BY <1>1 DEF TypeOK
    <3>2. \A n \in Turns : n # nblks => received'[n] = received[n]
      BY <1>1 DEF TypeOK
    <3> QED BY <1>1, <3>1, <3>2
  <2> QED BY <2>2, <2>3 DEF OnlyLastRowLeavesBlock
<1>6. LaterTurnsEmpty'
  BY <1>1 DEF LaterTurnsEmpty, TypeOK, Turns
<1>7. CopiedSoFar'
  BY <1>1 DEF CopiedSoFar
<1>8. InputOk'
  <2> SUFFICES ASSUME NEW s \in Samples
               PROVE  Spoilt(nblks, s)' \/ IsLastReceived(indata[InputPlace(s)], nblks, s)'
    BY DEF InputOk
  <2> DEFINE b == InputPlace(s)
  <2>1. b \in InBytes /\ b \in Int /\ b \in DOMAIN indata
    BY <1>1, InputOneToOne DEF InBytes
  <2>2. Spoilt(nblks, s) \/ IsLastReceived(indata[b], nblks, s)
    BY DEF InputOk
  <2>3. ASSUME ~(WellPlaced(pkt) /\ s \in SamplesOf(pkt))
        PROVE  /\ TurnsReceived(nblks, s)' = TurnsReceived(nblks, s)
               /\ Spoilt(nblks, s) => Spoilt(nblks, s)'
    <3>1. /\ TurnsReceived(nblks, s) = TurnsReceived(nblks, s)
          /\ \A n \in Int : TurnsReceived(n, s)' = TurnsReceived(n, s) /\ (Spoilt(n, s) => Spoilt(n, s)')
      BY <2>3, StoreTurns
    <3>2. TurnsReceived(nblks, s)' =
            {j \in Turns : j <= nblks' /\ \E q \in received'[j] : WellPlaced(q) /\ s \in SamplesOf(q)}
      BY DEF TurnsReceived
    <3>3. TurnsReceived(nblks, s)' = TurnsReceived(nblks, s)
      BY <1>1, <3>1, <3>2 DEF TurnsReceived
    <3>4. \A j \in Turns : received[j] \subseteq received'[j]
      BY <1>1 DEF TypeOK
    <3>5. Spoilt(nblks, s) => Spoilt(nblks, s)'
      BY <1>1, <3>3, <3>4 DEF Spoilt
    <3> QED BY <3>3, <3>5
  <2>4. CASE ~(WellPlaced(pkt) /\ s \in SamplesOf(pkt)) /\ Writers(pkt, b) = {}
    <3>1. indata'[b] = indata[b]
      BY <1>2, <2>1, <2>4
    <3> QED BY <1>1, <2>2, <2>3, <2>4, <3>1 DEF IsLastReceived
  <2>5. CASE ~(WellPlaced(pkt) /\ s \in SamplesOf(pkt)) /\ Writers(pkt, b) # {}
    <3>1. ~WellPlaced(pkt)
      BY <2>5, WritersOfSample
    <3>2. b \in WrittenBytes(pkt)
      BY <2>1, <2>5, WritersWrite
    <3>3. pkt \in received'[nblks] /\ nblks' = nblks
      BY <1>1 DEF TypeOK
    <3>4. \A i \in TurnsReceived(nblks, s)' : i <= nblks
      BY <3>3 DEF TurnsReceived
    <3>5. Spoilt(nblks, s)'
      BY <1>1, <3>1, <3>2, <3>3, <3>4 DEF Spoilt, InputPlace
    <3> QED BY <3>5
  <2>6. CASE WellPlaced(pkt) /\ s \in SamplesOf(pkt)
    <3>1. Writers(pkt, b) # {}
      BY <2>6, WritersOfSample
    <3>2. LastWriter(pkt, b) \in Writers(pkt, b)
      BY <2>1, <3>1, OneWriter
    <3>3. PayloadSample(pkt, LastWriter(pkt, b), b - Destination(pkt, LastWriter(pkt, b))) = s
      BY <2>6, <3>2, WritersOfSample
    <3>4. indata'[b] = Taken(nblks, s)
      BY <1>2, <2>1, <3>1, <3>3
    <3>5. pkt \in received'[nblks]
      BY <1>1 DEF TypeOK
    <3>6. nblks \in TurnsReceived(nblks, s)' /\ \A i \in TurnsReceived(nblks, s)' : i <= nblks
      BY <1>1, <2>6, <3>5 DEF TurnsReceived
    <3> QED BY <1>1, <3>4, <3>6 DEF IsLastReceived
  <2> QED BY <2>4, <2>5, <2>6
<1>9. FileOk'
  <2> SUFFICES ASSUME NEW n \in Turns, n < nblks, NEW s \in KeptSamples
               PROVE  Spoilt(n, s)' \/ IsLastReceived(file[FilePlace(n, s)], n, s)'
    BY <1>1 DEF FileOk
  <2>1. n \in Int
    BY DEF Turns
  <2>2. TurnsReceived(n, s)' = TurnsReceived(n, s) /\ (Spoilt(n, s) => Spoilt(n, s)')
    BY <2>1, StoreTurns
  <2>3. Spoilt(n, s) \/ IsLastReceived(file[FilePlace(n, s)], n, s)
    BY DEF FileOk
  <2> QED BY <1>1, <2>2, <2>3 DEF IsLastReceived
<1> QED BY <1>4, <1>5, <1>6, <1>7, <1>8, <1>9

\* Steps that leave the turn and what came in it alone keep what depends on them.
LEMMA SameTurn ==
  ASSUME UNCHANGED <<nblks, received>>
  PROVE  /\ \A s : TurnsReceived(nblks, s)' = TurnsReceived(nblks, s)
         /\ \A n, s : TurnsReceived(n, s)' = TurnsReceived(n, s)
         /\ OnlyLastRowLeavesBlock /\ UNCHANGED indata => OnlyLastRowLeavesBlock'
         /\ InputOk /\ UNCHANGED indata => InputOk'
         /\ FileOk /\ UNCHANGED file => FileOk'
         /\ LaterTurnsEmpty => LaterTurnsEmpty'
<1>1. \A s : TurnsReceived(nblks, s)' = TurnsReceived(nblks, s)
  BY DEF TurnsReceived
<1>2. \A n, s : TurnsReceived(n, s)' = TurnsReceived(n, s)
  BY DEF TurnsReceived
<1>6. (\A s : Spoilt(nblks, s)' = Spoilt(nblks, s)) /\ (\A n, s : Spoilt(n, s)' = Spoilt(n, s))
  BY <1>1, <1>2 DEF Spoilt
<1>3. InputOk /\ UNCHANGED indata => InputOk'
  BY <1>1, <1>6 DEF InputOk, IsLastReceived
<1>4. FileOk /\ UNCHANGED file => FileOk'
  BY <1>2, <1>6 DEF FileOk, IsLastReceived
<1>7. OnlyLastRowLeavesBlock /\ UNCHANGED indata => OnlyLastRowLeavesBlock'
  BY DEF OnlyLastRowLeavesBlock
<1>5. LaterTurnsEmpty => LaterTurnsEmpty'
  BY DEF LaterTurnsEmpty
<1> QED BY <1>1, <1>2, <1>3, <1>4, <1>5, <1>7

\* Handing the block to the strip thread keeps it: nothing is copied yet.
LEMMA SetFilledStep ==
  ASSUME LayoutInv, SetFilled
  PROVE  LayoutInv'
<1> USE DEF LayoutInv, SetFilled
<1>1. TypeOK'
  BY DEF TypeOK
<1>2. CopiedSoFar'
  <2>1. \A s \in KeptSamples : LoopPlace(s) \in 0 .. Iterations - 1
    BY LoopsVisitEach
  <2>2. k = 0 /\ k' = 0 /\ phase' = "strip"
    BY DEF CopiedSoFar
  <2> QED BY <2>1, <2>2 DEF CopiedSoFar
<1> QED BY <1>1, <1>2, SameTurn

\* An iteration of the strip thread's loops keeps it.
LEMMA StripCopyStep ==
  ASSUME LayoutInv, StripCopy
  PROVE  LayoutInv'
<1> USE DEF LayoutInv
<1> DEFINE u == LoopSample(k)
<1>1. /\ k \in 0 .. Iterations - 1 /\ k \in Nat /\ Iterations \in Nat
      /\ phase = "strip" /\ k' = k + 1
      /\ UNCHANGED <<phase, indata, nblks, file, received>>
  BY Sizes DEF StripCopy, TypeOK, Iterations
<1>2. u \in KeptSamples /\ LoopPlace(u) = k
  BY <1>1, LoopsVisitEach
<1>3. StripPlace(u) \in OutBytes /\ InputPlace(u) \in InBytes
  BY <1>2, StripOneToOne, InputOneToOne, StripSample
<1>4. outdata' = [b \in OutBytes |-> IF b = StripPlace(u) THEN indata[InputPlace(u)] ELSE outdata[b]]
  BY <1>3 DEF StripCopy, TypeOK, StripPlace, InputPlace
<1> HIDE DEF u
<1>5. TypeOK'
  BY <1>1, <1>3, <1>4 DEF TypeOK
<1>6. CopiedSoFar'
  <2> SUFFICES ASSUME NEW s \in KeptSamples, LoopPlace(s) < k + 1
               PROVE  outdata'[StripPlace(s)] = indata[InputPlace(s)]
    BY <1>1 DEF CopiedSoFar
  <2>1. StripPlace(s) \in OutBytes /\ LoopPlace(s) \in Int
    BY StripOneToOne, LoopsVisitEach
  <2>2. CASE LoopPlace(s) = k
    <3>1. s = u
      BY <1>2, <2>2, LoopsVisitEach
    <3> QED BY <1>4, <2>1, <3>1
  <2>3. CASE LoopPlace(s) # k
    <3>1. LoopPlace(s) < k /\ s # u
      BY <1>1, <1>2, <2>1, <2>3
    <3>2. StripPlace(s) # StripPlace(u)
      BY <1>2, <3>1, StripOneToOne
    <3>3. outdata[StripPlace(s)] = indata[InputPlace(s)]
      BY <1>1, <3>1 DEF CopiedSoFar
    <3> QED BY <1>4, <2>1, <3>2, <3>3
  <2> QED BY <2>2, <2>3
<1> QED BY <1>1, <1>5, <1>6, SameTurn

\* After the last iteration everything is copied.
LEMMA StripDoneStep ==
  ASSUME LayoutInv, StripDone
  PROVE  LayoutInv'
<1> USE DEF LayoutInv, StripDone
<1>1. TypeOK'
  BY Sizes DEF TypeOK, Iterations
<1>2. CopiedSoFar'
  <2>1. \A s \in KeptSamples : LoopPlace(s) < k
    <3>1. \A s \in KeptSamples : LoopPlace(s) \in 0 .. k - 1 /\ k \in Int
      BY LoopsVisitEach DEF TypeOK
    <3> QED BY <3>1
  <2> QED BY <2>1 DEF CopiedSoFar
<1> QED BY <1>1, <1>2, SameTurn

\* The places of the samples of a chunk, and the chunk they are in.
LEMMA PlaceInFile ==
  ASSUME NEW n \in Turns, NEW s \in KeptSamples
  PROVE  /\ FilePlace(n, s) \in FilePlaces
         /\ s.m * Nt + s.t \in 0 .. NTimePerBlock - 1
         /\ ChunkSample(s.a, s.p, s.c, s.m * Nt + s.t) = s
<1> DEFINE time == s.m * Nt + s.t
<1>1. /\ s.m \in 0 .. Nm - 1 /\ s.a \in 0 .. Na - 1 /\ s.c \in 0 .. Nsc - 1
      /\ s.t \in 0 .. Nt - 1 /\ s.p \in 0 .. 2 - 1 /\ s.m \in Nat
      /\ s = [m |-> s.m, a |-> s.a, p |-> s.p, c |-> s.c, t |-> s.t]
  BY StripSample, InputSample
<1>2. time = Digit(Nt, s.m, s.t)
  BY <1>1, Sizes DEF Digit
<1>3. time \in 0 .. NTimePerBlock - 1
  BY <1>1, <1>2, Sizes, DigitRange
<1>4. time \div Nt = s.m /\ time % Nt = s.t
  <2> HIDE DEF time
  <2> QED BY <1>1, <1>2, Sizes, DigitRead
<1>5. n * NTimePerBlock + time \in 0 .. NBlockPerFile * NTimePerBlock - 1
  <2> HIDE DEF time
  <2>1. n \in 0 .. NBlockPerFile - 1
    BY DEF Turns
  <2>2. Digit(NTimePerBlock, n, time) \in 0 .. NTimePerBlock * NBlockPerFile - 1
    BY <1>3, <2>1, Sizes, DigitRange
  <2> QED BY <1>3, <2>1, <2>2, Sizes DEF Digit
<1>6. FilePlace(n, s) = <<s.a, s.p, s.c, n * NTimePerBlock + time>>
  BY <1>1, <1>5, Sizes DEF FilePlace, Turns
<1>7. FilePlace(n, s) \in FilePlaces
  <2> HIDE DEF time
  <2> QED BY <1>1, <1>5, <1>6 DEF FilePlaces
<1>8. ChunkSample(s.a, s.p, s.c, time) = s
  <2> HIDE DEF time
  <2> QED BY <1>1, <1>4 DEF ChunkSample
<1> QED BY <1>3, <1>7, <1>8

\* Writing a chunk keeps it: the chunk is right, and no other chunk changes.
LEMMA WriteBlockStep ==
  ASSUME LayoutInv, WriteBlock
  PROVE  LayoutInv'
<1> USE DEF LayoutInv
<1>1. /\ nblks \in Turns /\ nblks \in Nat /\ nblks + 1 \in 0 .. NBlockPerFile
      /\ nblks' = nblks + 1 /\ phase = "write" /\ phase' = "receive"
      /\ UNCHANGED <<indata, outdata, k, received>>
  BY Sizes DEF WriteBlock, TypeOK, Turns
<1> DEFINE off(q) == q[4] - nblks * NTimePerBlock
           new(q) == IF off(q) \in 0 .. NTimePerBlock - 1
                     THEN outdata[BlockElement(q[1], q[2], q[3], off(q))] ELSE file[q]
<1>2. file' = [q \in FilePlaces |-> new(q)]
  BY DEF WriteBlock, TimeOffset
<1>3. TypeOK'
  <2>1. ASSUME NEW q \in FilePlaces PROVE new(q) \in Bytes
    <3>1. CASE off(q) \in 0 .. NTimePerBlock - 1
      <4>1. q[1] \in 0 .. NAnts - 1 /\ q[2] \in 0 .. 1 /\ q[3] \in 0 .. NStrpChansPerX - 1
        BY DEF FilePlaces
      <4> DEFINE s == ChunkSample(q[1], q[2], q[3], off(q))
      <4>2. s \in KeptSamples /\ BlockElement(q[1], q[2], q[3], off(q)) = StripPlace(s)
        <5> HIDE DEF off
        <5> QED BY <3>1, <4>1, ElementOfPlace
      <4>3. StripPlace(s) \in OutBytes
        BY <4>2, StripOneToOne
      <4>4. BlockElement(q[1], q[2], q[3], off(q)) \in OutBytes
        BY <4>2, <4>3
      <4> HIDE DEF off
      <4> QED BY <3>1, <4>4 DEF TypeOK
    <3>2. CASE off(q) \notin 0 .. NTimePerBlock - 1
      <4> HIDE DEF off
      <4> QED BY <3>2 DEF TypeOK
    <3> QED BY <3>1, <3>2
  <2>2. file' \in [FilePlaces -> Bytes]
    <3> HIDE DEF new
    <3> QED BY <1>2, <2>1
  <2> QED BY <1>1, <2>2 DEF TypeOK
<1>4. LaterTurnsEmpty'
  BY <1>1 DEF LaterTurnsEmpty, Turns
<1>5. CopiedSoFar' /\ OnlyLastRowLeavesBlock'
  BY <1>1 DEF CopiedSoFar, OnlyLastRowLeavesBlock
<1>6. InputOk'
  <2> SUFFICES ASSUME NEW s \in Samples
               PROVE  Spoilt(nblks, s)' \/ IsLastReceived(indata[InputPlace(s)], nblks, s)'
    BY DEF InputOk
  <2>1. TurnsReceived(nblks, s)' = TurnsReceived(nblks, s)
    <3>1. TurnsReceived(nblks, s)' =
            {j \in Turns : j <= nblks + 1 /\ \E q \in received[j] : WellPlaced(q) /\ s \in SamplesOf(q)}
      BY <1>1 DEF TurnsReceived
    <3>2. ASSUME NEW j \in Turns, NEW q \in received[j]
          PROVE  j <= nblks + 1 <=> j <= nblks
      <4>1. ~(j > nblks)
        BY <3>2 DEF LaterTurnsEmpty
      <4> QED BY <1>1, <4>1 DEF Turns
    <3> QED BY <3>1, <3>2 DEF TurnsReceived
  <2>2. Spoilt(nblks, s) => Spoilt(nblks, s)'
    <3>1. \A j \in Turns : j <= nblks => j <= nblks + 1
      BY <1>1 DEF Turns
    <3> QED BY <1>1, <2>1, <3>1 DEF Spoilt
  <2>3. Spoilt(nblks, s) \/ IsLastReceived(indata[InputPlace(s)], nblks, s)
    BY DEF InputOk
  <2> QED BY <1>1, <2>1, <2>2, <2>3 DEF IsLastReceived
<1>7. FileOk'
  <2> SUFFICES ASSUME NEW n \in Turns, n < nblks + 1, NEW s \in KeptSamples
               PROVE  Spoilt(n, s)' \/ IsLastReceived(file[FilePlace(n, s)], n, s)'
    BY <1>1 DEF FileOk
  <2> DEFINE q == FilePlace(n, s)
             time == s.m * Nt + s.t
  <2>1. /\ q \in FilePlaces /\ time \in 0 .. NTimePerBlock - 1
        /\ ChunkSample(s.a, s.p, s.c, time) = s
        /\ q[1] = s.a /\ q[2] = s.p /\ q[3] = s.c /\ q[4] = n * NTimePerBlock + time
        /\ n \in Nat
    <3>1. n \in Nat /\ s.m \in Nat /\ s.t \in Nat
      BY StripSample, InputSample, Sizes DEF Turns
    <3>2. q = <<s.a, s.p, s.c, n * NTimePerBlock + s.m * Nt + s.t>>
      BY DEF FilePlace
    <3>3. n * NTimePerBlock + s.m * Nt + s.t = n * NTimePerBlock + time
      BY <3>1, Sizes
    <3> QED BY <3>1, <3>2, <3>3, PlaceInFile
  <2> HIDE DEF q, time
  <2>2. TurnsReceived(n, s)' = TurnsReceived(n, s) /\ (Spoilt(n, s) => Spoilt(n, s)')
    <3>1. TurnsReceived(n, s)' = TurnsReceived(n, s)
      BY <1>1 DEF TurnsReceived
    <3> QED BY <1>1, <3>1 DEF Spoilt
  <2>3. CASE n = nblks
    <3>1. off(q) = time
      BY <2>1, <2>3, Sizes
    <3>2. BlockElement(q[1], q[2], q[3], off(q)) = StripPlace(s)
      <4>1. s.a \in 0 .. NAnts - 1 /\ s.p \in 0 .. 1 /\ s.c \in 0 .. NStrpChansPerX - 1
        BY StripSample
      <4> HIDE DEF off
      <4> QED BY <2>1, <3>1, <4>1, ElementOfPlace
    <3>3. outdata[StripPlace(s)] = indata[InputPlace(s)]
      BY <1>1 DEF CopiedSoFar
    <3>4. file'[q] = indata[InputPlace(s)]
      <4> HIDE DEF off
      <4> QED BY <1>2, <2>1, <3>1, <3>2, <3>3
    <3>5. Spoilt(nblks, s) \/ IsLastReceived(indata[InputPlace(s)], nblks, s)
      BY StripSample DEF InputOk
    <3> QED BY <2>2, <2>3, <3>4, <3>5 DEF IsLastReceived, q
  <2>4. CASE n # nblks
    <3>1. n + 1 <= nblks
      BY <1>1, <2>1, <2>4
    <3>2. off(q) < 0
      <4>1. (n + 1) * NTimePerBlock <= nblks * NTimePerBlock
        BY <1>1, <2>1, <3>1, Sizes
      <4>2. (n + 1) * NTimePerBlock = n * NTimePerBlock + NTimePerBlock
        BY <2>1, Sizes
      <4> DEFINE x == n * NTimePerBlock
                 y == nblks * NTimePerBlock
      <4>3. x \in Int /\ y \in Int /\ x + NTimePerBlock <= y
        BY <1>1, <2>1, <4>1, <4>2, Sizes
      <4>4. off(q) = (x + time) - y
        BY <2>1, Zenon
      <4> HIDE DEF x, y, off
      <4> QED BY <2>1, <4>3, <4>4, Sizes
    <3>3. file'[q] = file[q]
      <4> HIDE DEF off
      <4> QED BY <1>2, <2>1, <3>2
    <3>4. Spoilt(n, s) \/ IsLastReceived(file[q], n, s)
      BY <1>1, <2>1, <3>1 DEF FileOk, q
    <3> QED BY <2>2, <3>3, <3>4 DEF IsLastReceived, q
  <2> QED BY <2>3, <2>4
<1> QED BY <1>3, <1>4, <1>5, <1>6, <1>7

\* Every step keeps the invariant.
LEMMA LayoutStep == LayoutInv /\ [Next]_vars => LayoutInv'
<1> SUFFICES ASSUME LayoutInv, [Next]_vars PROVE LayoutInv'
  OBVIOUS
<1>1. ASSUME NEW pkt \in Packets, StorePacket(pkt) PROVE LayoutInv'
  BY <1>1, StoreStep
<1>2. CASE SetFilled
  BY <1>2, SetFilledStep
<1>3. CASE StripCopy
  BY <1>3, StripCopyStep
<1>4. CASE StripDone
  BY <1>4, StripDoneStep
<1>5. CASE WriteBlock
  BY <1>5, WriteBlockStep
<1>6. CASE UNCHANGED vars
  <2>1. UNCHANGED <<nblks, received>> /\ UNCHANGED indata /\ UNCHANGED file
    BY <1>6 DEF vars
  <2>2. TypeOK' /\ CopiedSoFar'
    BY <1>6 DEF vars, LayoutInv, TypeOK, CopiedSoFar
  <2> QED BY <2>1, <2>2, SameTurn DEF LayoutInv
<1> QED BY <1>1, <1>2, <1>3, <1>4, <1>5, <1>6 DEF Next

\* It always holds.
LEMMA LayoutInvariant == Spec => []LayoutInv
BY LayoutInit, LayoutStep, PTL DEF Spec

-----------------------------------------------------------------------------
\* Every byte of the rings and of the file is a byte of some payload or was never
\* stored, and the strip thread writes inside its block, whatever the sizes and
\* whatever antennas and channels the packets name.
THEOREM TypeCorrect == Spec => []TypeOK
<1>1. LayoutInv => TypeOK
  BY DEF LayoutInv
<1> QED BY <1>1, LayoutInvariant, PTL

\* A copy leaves the input block exactly when a packet for the last m lacks
\* antennas or channels in the last row: the check of the first antenna is enough
\* for all others.
THEOREM LeavesBlockOnlyPastEnd == Spec => []OnlyLastRowLeavesBlock
<1>1. LayoutInv => OnlyLastRowLeavesBlock
  BY DEF LayoutInv
<1> QED BY <1>1, LayoutInvariant, PTL

\* The input block holds every sample where the strip thread looks for it, as
\* it last came, unless a packet that has no place was copied over it since.
THEOREM InputRight == Spec => []InputIsLastReceived
<1>1. LayoutInv => InputIsLastReceived
  BY NamesAgree DEF LayoutInv
<1> QED BY <1>1, LayoutInvariant, PTL

\* So does the file, at its antenna, polarisation, channel and time, unless it
\* was spoilt before the chunk was stripped.
THEOREM FileRight == Spec => []FileIsLastReceived
<1>1. LayoutInv => FileIsLastReceived
  BY NamesAgree DEF LayoutInv
<1> QED BY <1>1, LayoutInvariant, PTL
=============================================================================
