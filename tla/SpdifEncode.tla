------------------------------ MODULE SpdifEncode ------------------------------
(***************************************************************************)
(* The S/PDIF coding of spdif_encode.c, bit by bit, and a receiver to hold *)
(* it against.  A machine word is a function from the numbers of its bits  *)
(* to {0, 1}, bit 0 being sent first.  A 1 in the output of the encoder is *)
(* a change of the level of the line (NRZI).                               *)
(***************************************************************************)
EXTENDS Integers, FiniteSets

SPDIF_BLOCK_FRAMES == 192

Bits32 == 0 .. 31

\* Bit i of the number n.
BitOf(n, i) == (n \div 2^i) % 2

Xor(a, b) == (a + b) % 2

ShiftLeft(word, n) == [i \in Bits32 |-> IF i < n THEN 0 ELSE word[i - n]]
ShiftRight(word, n) == [i \in Bits32 |-> IF i + n > 31 THEN 0 ELSE word[i + n]]

-------------------------------------------------------------------------------
(* The encoder.  A stream is a record of its bit depth, rate and non_pcm.  *)

frequency_code(rate) == CASE rate = 44100 -> 0
                          [] rate = 48000 -> 2
                          [] rate = 88200 -> 8
                          [] rate = 96000 -> 10
                          [] rate = 192000 -> 14

\* The channel status of a block: 24 bytes, of which four are not always zero.
Status(stream) ==
  [byte \in 0 .. 23 |-> CASE byte = 0 -> IF stream.non_pcm THEN 6 ELSE 4
                          [] byte = 3 -> frequency_code(stream.rate)
                          [] byte = 4 -> IF stream.bit_depth = 16 THEN 2 ELSE 11
                          [] OTHER -> 0]

\* Mutant: the bits of a status byte are sent from the top.
StatusBitFromTop(stream, frame) == BitOf(Status(stream)[frame \div 8], 7 - (frame % 8))

\* `c` of spdif_encode_block
StatusBit(stream, frame) == BitOf(Status(stream)[frame \div 8], frame % 8)

\* Mutant: 32-bit samples keep their low bits.
AlignedLow(stream, sample) ==
  IF stream.bit_depth = 16 THEN ShiftLeft(sample, 8) ELSE sample

\* A right-aligned sample in the 24 bits of a subframe.
Aligned(stream, sample) == CASE stream.bit_depth = 16 -> ShiftLeft(sample, 8)
                             [] stream.bit_depth = 24 -> sample
                             [] stream.bit_depth = 32 -> ShiftRight(sample, 8)

\* parity ^= parity >> n
Fold(word, n) == [i \in Bits32 |-> Xor(word[i], ShiftRight(word, n)[i])]

\* Mutant: one of the five foldings is missing.
ParityOfEveryOther(word) == Fold(Fold(Fold(Fold(word, 16), 8), 4), 2)[0]

Parity(word) == Fold(Fold(Fold(Fold(Fold(word, 16), 8), 4), 2), 1)[0]

\* `payload` of spdif_encode_block: sample, V, U, C and P in the slots 4 to 31.
Payload(stream, sample, c) ==
  LET aligned == Aligned(stream, sample)
      body    == [i \in Bits32 |-> CASE i \in 4 .. 27 -> aligned[i - 4]
                                     [] i = 28 -> IF stream.non_pcm THEN 1 ELSE 0
                                     [] i = 30 -> c
                                     [] OTHER -> 0]
  IN  [body EXCEPT ![31] = Parity(body)]

\* 0x69 for the right channel, 0x39 for the left of the first frame, else 0xc9.
Preamble(frame, channel) == IF channel = 1 THEN 105 ELSE IF frame = 0 THEN 57 ELSE 201

\* The table of spdif_encode_init: a change at the beginning of every cell, and one in
\* the middle of the cells of the ones.
bmc(bits) == [i \in 0 .. 15 |-> IF i % 2 = 0 THEN 1 ELSE bits[i \div 2]]

\* (payload >> from) masked to `count` bits
Field(payload, from, count) ==
  [i \in 0 .. 7 |-> IF i < count THEN payload[from + i] ELSE 0]

\* The two words spdif_encode_block emits for a sample.  Of the nibble's code only the
\* low half fits into the first.
Words(frame, channel, payload) ==
  [word \in {0, 1} |->
    [i \in Bits32 |->
      IF word = 0
      THEN CASE i < 8       -> BitOf(Preamble(frame, channel), i)
             [] i \in 8..23 -> bmc(Field(payload, 4, 8))[i - 8]
             [] OTHER       -> bmc(Field(payload, 12, 4))[i - 24]
      ELSE IF i < 16 THEN bmc(Field(payload, 16, 8))[i]
                     ELSE bmc(Field(payload, 24, 8))[i - 16]]]

\* What a subframe puts on the line: the words, each from bit 0.
Subframe(stream, frame, channel, sample) ==
  LET words == Words(frame, channel, Payload(stream, sample, StatusBit(stream, frame)))
  IN  [t \in 0 .. 63 |-> words[t \div 32][t % 32]]

\* A block: the subframes of left and right samples in turn.
Block(stream, samples) ==
  [t \in 0 .. 128 * SPDIF_BLOCK_FRAMES - 1 |->
     LET k == t \div 64 IN Subframe(stream, k \div 2, k % 2, samples[k])[t % 64]]

-------------------------------------------------------------------------------
(* The receiver, after IEC 60958: it knows the line only, not the words.   *)

\* The level of the line after half-cell t, had it been `start` before.
Level(line, start, t) ==
  (start + Cardinality({u \in 0 .. t : line[u] = 1})) % 2

\* Biphase-mark: a one is a cell whose halves differ.
Decoded(line) ==
  LET level == [t \in 0 .. 63 |-> Level(line, 0, t)]
  IN  [slot \in 4 .. 31 |-> IF level[2 * slot] # level[2 * slot + 1] THEN 1 ELSE 0]

\* The levels of the three preambles on a line that was low.
Preambles == [B |-> <<1, 1, 1, 0, 1, 0, 0, 0>>,
              M |-> <<1, 1, 1, 0, 0, 0, 1, 0>>,
              W |-> <<1, 1, 1, 0, 0, 1, 0, 0>>]

IsPreamble(name, line) ==
  \A t \in 1 .. 8 : Level(line, 0, t - 1) = Preambles[name][t]

-------------------------------------------------------------------------------
(* Bounds: the streams and samples the properties are stated for.          *)

PcmStreams == [bit_depth : {16, 24, 32}, rate : {44100, 48000, 88200, 96000, 192000},
               non_pcm : {FALSE}]
NonPcmStreams == [bit_depth : {16}, rate : {48000, 96000, 192000}, non_pcm : {TRUE}]

\* Sign-extended samples of a depth: zero, minus one, the extremes, single bits and
\* a pattern.
Samples(depth) ==
  {[i \in Bits32 |-> 0], [i \in Bits32 |-> 1],
   [i \in Bits32 |-> IF i >= depth - 1 THEN 1 ELSE 0],
   [i \in Bits32 |-> IF i < depth - 1 THEN 1 ELSE 0],
   [i \in Bits32 |-> IF i = 0 THEN 1 ELSE 0],
   [i \in Bits32 |-> IF i < depth THEN (i \div 3) % 2 ELSE 0]}

\* The first frames of a block: all whose status bit may be one, and one after.
Frames == 0 .. 40

-------------------------------------------------------------------------------
(* What the receiver makes of a stream *)

\* The sample, left-justified in 24 bits, V and U, and even parity over slots 4 to 31.
SampleArrives(stream, frame, channel, sample) ==
  LET got  == Decoded(Subframe(stream, frame, channel, sample))
      From == stream.bit_depth - 24
  IN  /\ \A i \in 0 .. 23 : got[4 + i] = IF From + i < 0 THEN 0 ELSE sample[From + i]
      /\ got[28] = IF stream.non_pcm THEN 1 ELSE 0
      /\ got[29] = 0
      /\ Cardinality({slot \in 4 .. 31 : got[slot] = 1}) % 2 = 0

SamplesArrive(stream) ==
  \A sample \in Samples(stream.bit_depth), frame \in {0, 1, 2} :
    SampleArrives(stream, frame, 0, sample)

\* The names IEC 60958 has for a sampling rate and a word length, low bit first.
RateBits(rate) == CASE rate = 44100 -> <<0, 0, 0, 0>> [] rate = 48000 -> <<0, 1, 0, 0>>
                    [] rate = 88200 -> <<0, 0, 0, 1>> [] rate = 96000 -> <<0, 1, 0, 1>>
                    [] rate = 192000 -> <<0, 1, 1, 1>>
LengthBits(bit_depth) == IF bit_depth = 16 THEN <<0, 1, 0, 0>> ELSE <<1, 1, 0, 1>>

\* The C bits c of some frames describe a stream: consumer use, PCM or not, copying
\* permitted; sampling rate; word length.
Describes(c, frames, stream) ==
  /\ c[0] = 0 /\ c[2] = 1
  /\ c[1] = IF stream.non_pcm THEN 1 ELSE 0
  /\ \A i \in 1 .. 4 : /\ c[23 + i] = RateBits(stream.rate)[i]
                       /\ c[31 + i] = LengthBits(stream.bit_depth)[i]
  /\ \A frame \in frames \ ({0, 1, 2} \cup 24 .. 27 \cup 32 .. 35) : c[frame] = 0

FormatArrives(stream) ==
  LET silence == [i \in Bits32 |-> 0]
  IN  \A channel \in {0, 1} :
        Describes([frame \in Frames |->
                     Decoded(Subframe(stream, frame, channel, silence))[30]], Frames, stream)

\* Each subframe begins with the preamble of its place, two half-cells without a change
\* (which data never has) lie only inside preambles, and the line ends at the level it
\* began with.
SubframeIsFound(stream, frame, channel, sample) ==
  LET line == Subframe(stream, frame, channel, sample)
  IN  /\ IsPreamble(IF channel = 1 THEN "W" ELSE IF frame = 0 THEN "B" ELSE "M", line)
      /\ \A t \in 7 .. 62 : line[t] = 1 \/ line[t + 1] = 1
      /\ line[63] = 1 \/ line[0] = 1
      /\ Level(line, 0, 63) = 0

SubframesAreFound(stream) ==
  \A frame \in {0, 1, SPDIF_BLOCK_FRAMES - 1}, channel \in {0, 1} :
    \A sample \in Samples(stream.bit_depth) : SubframeIsFound(stream, frame, channel, sample)
===============================================================================
