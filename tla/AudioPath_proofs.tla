---------------------------- MODULE AudioPath_proofs ----------------------------
(***************************************************************************)
(* Proofs about AudioPath: its types, the agreement of the parts of the    *)
(* stream, and that nothing old is played, for any number of requests and  *)
(* resets and any length of the queue.                                     *)
(*                                                                         *)
(* The argument: an audio event is current only if it was captured since   *)
(* the receiver last went on or off.  The host changes what it believes    *)
(* of the stream only when its request is answered, and then the receiver  *)
(* has been off in between, or the host was silent.  So a current packet   *)
(* was sent for the stream the host believes in, and the stream empties    *)
(* its buffers at every change.                                            *)
(***************************************************************************)
EXTENDS AudioPath, SequenceTheorems, TLAPS

-------------------------------------------------------------------------------
(* The inductive invariant *)

AllRates == Rates \cup {AUDIO_EAC3_RATE}
Formats == [bits : {16, 24, 32}, non_pcm : BOOLEAN]
Outputs == [running : BOOLEAN, rate : AllRates, format : Formats,
            playing : SUBSET Packets, queued : Seq(SUBSET Packets)]

AudioEvents == [kind : {"audio"}, packet : Packets, generation : Nat]
Requests == [kind : {"interface"}, value : Alts]
              \cup [kind : {"rate"}, value : Rates]
              \cup [kind : {"configuration"}, value : {0, 1}]
              \cup [kind : {"reset"}, value : {0}]
Events == AudioEvents \cup Requests

Hosts == [alt : Alts, rate : AllRates, stream : Nat, requests : 0 .. MaxRequests,
          asking : {"nothing", "interface", "rate", "configuration", "reset"}]

\* The types of the stream's variables.
StreamTypes ==
  /\ state \in States /\ alt \in Alts /\ rate \in AllRates
  /\ format \in Formats /\ g_format \in {16, 24, 32}
  /\ ring \in Seq(Packets) /\ Len(ring) <= Capacity
  /\ ring_rate \in AllRates
  /\ output \in Outputs /\ Len(output.queued) <= 1
  /\ fed \in BOOLEAN

\* While nothing was submitted yet, the ring is filled to the recovery level.
Primed == state = "PLAYING" /\ ~fed => FilledTo(RECOVERY_WATER_LEVEL)

StreamInv == StreamTypes /\ Consistent /\ Primed

\* The types of the path's variables.
PathTypes ==
  /\ queue \in Seq(Events) /\ Len(queue) <= USB_QUEUE_LENGTH
  /\ audio_rx_enabled \in BOOLEAN
  /\ audio_rx_generation \in Nat
  /\ pc \in {"loop", "disabled", "enabled"}
  /\ target \in Alts
  /\ host \in Hosts
  /\ host.stream <= host.requests
  /\ host.asking = "interface" => host.stream < host.requests

\* The receiver follows the interface, step by step through a change of it.
Receiver == /\ pc = "loop" => (audio_rx_enabled <=> alt # 0)
            /\ pc = "disabled" => ~audio_rx_enabled
            /\ pc = "enabled" => (audio_rx_enabled <=> target # 0)

IsRequest(i) == queue[i].kind # "audio"

\* What the host waits for is all that is queued or in hand, unless it has reset the
\* bus since; then a reset follows what it gave up.
Asked ==
  /\ \A i \in DOMAIN queue :
       IsRequest(i) => queue[i].kind = host.asking \/ host.asking = "reset"
  /\ host.asking # "reset" =>
       \A i, j \in DOMAIN queue : IsRequest(i) /\ IsRequest(j) => i = j /\ pc = "loop"
  /\ \A i \in DOMAIN queue :
       IsRequest(i) /\ queue[i].kind # "reset" /\ host.asking = "reset" =>
         \E j \in DOMAIN queue : i < j /\ queue[j].kind = "reset"
  /\ pc # "loop" => host.asking \in {"interface", "reset"}
  /\ host.asking = "reset" => host.alt = 0

Current(i) == /\ queue[i].kind = "audio"
              /\ queue[i].generation = audio_rx_generation

\* A packet that would be accepted was sent for the present stream.
Fresh ==
  /\ \A i \in DOMAIN queue :
       queue[i].kind = "audio" => queue[i].generation <= audio_rx_generation
  /\ audio_rx_enabled =>
       \A i \in DOMAIN queue :
         Current(i) => pc = "loop" /\ queue[i].packet.stream = host.stream

IInv == StreamInv /\ PathTypes /\ Receiver /\ Asked /\ Fresh /\ NoStaleAudio

\* A host with an open stream knows its rate; it sends nothing after it asked for
\* another, so what would be accepted was sent for the rate of the stream.
RateInv ==
  /\ host.alt # 0 => host.rate = rate
  /\ \A i, j \in DOMAIN queue : queue[i].kind = "rate" /\ queue[j].kind = "audio" => j < i
  /\ audio_rx_enabled =>
       \A i \in DOMAIN queue : Current(i) => queue[i].packet.rate = rate
  /\ NoOldRate

-------------------------------------------------------------------------------
(* Lemmas on sequences and on the operators *)

\* What taking the head of a queue leaves.
LEMMA TakeHead ==
  ASSUME NEW S, NEW s \in Seq(S), s # <<>>
  PROVE  /\ Head(s) = s[1] /\ 1 \in DOMAIN s /\ Head(s) \in S
         /\ Tail(s) \in Seq(S) /\ Len(Tail(s)) = Len(s) - 1
         /\ \A i \in DOMAIN Tail(s) : i + 1 \in DOMAIN s /\ Tail(s)[i] = s[i + 1]
         /\ \A i \in DOMAIN s : i # 1 => i - 1 \in DOMAIN Tail(s)
  OBVIOUS

\* What putting an element at the end adds.
LEMMA PutLast ==
  ASSUME NEW S, NEW s \in Seq(S), NEW e \in S
  PROVE  /\ Append(s, e) \in Seq(S) /\ Len(Append(s, e)) = Len(s) + 1
         /\ Len(s) + 1 \in DOMAIN Append(s, e) /\ Append(s, e)[Len(s) + 1] = e
         /\ \A i \in DOMAIN s : i \in DOMAIN Append(s, e) /\ Append(s, e)[i] = s[i]
         /\ \A i \in DOMAIN Append(s, e) : i \in DOMAIN s \/ i = Len(s) + 1
  OBVIOUS

\* Every alternate setting has a format.
LEMMA FormatTypes ==
  /\ \A a \in 0 .. AUDIO_ALT_EAC3 : FormatOf(a) \in Formats
  /\ \A a \in Alts : FormatOf(a) \in Formats
<1> SUFFICES ASSUME NEW a \in 0 .. AUDIO_ALT_EAC3 PROVE FormatOf(a) \in Formats
  BY AltsAssumption
<1>1. a \in 0 .. 8
  BY DEF AUDIO_ALT_EAC3
<1>2. CASE a = 2
  BY <1>1, <1>2 DEF FormatOf, Formats, AUDIO_ALT_AC3
<1>3. CASE a = 3
  BY <1>1, <1>3 DEF FormatOf, Formats, AUDIO_ALT_AC3
<1>4. CASE a # 2 /\ a # 3
  BY <1>1, <1>4 DEF FormatOf, Formats, AUDIO_ALT_AC3
<1> QED
  BY <1>2, <1>3, <1>4

\* A rate a host may ask for, or the E-AC-3 carrier forces, is one of three.
LEMMA RateTypes ==
  /\ AllRates \subseteq {48, 96, 192} /\ 48 \in AllRates
  /\ Rates \subseteq AllRates /\ AUDIO_EAC3_RATE \in AllRates
  BY RatesAssumption DEF AllRates, AUDIO_EAC3_RATE

\* A block takes one to four packets.
LEMMA BlockSize == ASSUME StreamTypes PROVE BlockMs \in 1 .. 4
<1>1. output.rate \in {48, 96, 192}
  BY RateTypes DEF StreamTypes, Outputs
<1>2. CASE output.rate = 48
  BY <1>2 DEF BlockMs, SPDIF_BLOCK_FRAMES
<1>3. CASE output.rate = 96
  BY <1>3 DEF BlockMs, SPDIF_BLOCK_FRAMES
<1>4. CASE output.rate = 192
  BY <1>4 DEF BlockMs, SPDIF_BLOCK_FRAMES
<1> QED
  BY <1>1, <1>2, <1>3, <1>4

-------------------------------------------------------------------------------
(* The stream *)

\* Stopping leaves a closed stream, ...
LEMMA StopTypes ==
  ASSUME StreamTypes, StreamStop
  PROVE  /\ state' = "STOPPED" /\ format' \in Formats /\ ring_rate' \in AllRates
         /\ ring' \in Seq(Packets) /\ Len(ring') <= Capacity
         /\ output' \in Outputs /\ Len(output'.queued) <= 1
         /\ output'.running = FALSE
<1>1. /\ output \in Outputs
      /\ output' = [output EXCEPT !.running = FALSE, !.playing = {}, !.queued = <<>>]
      /\ <<>> \in Seq(SUBSET Packets) /\ {} \in SUBSET Packets
  BY DEF StreamTypes, StreamStop, Silence
<1>2. output' = [running |-> FALSE, rate |-> output.rate, format |-> output.format,
                 playing |-> {}, queued |-> <<>>]
  BY <1>1 DEF Outputs
<1>3. output' \in Outputs
  BY <1>1, <1>2 DEF Outputs
<1> QED
  BY <1>2, <1>3 DEF StreamTypes, StreamStop

\* ... and starting one that is set up for its format and its rate, and empty.
LEMMA StartTypes ==
  ASSUME NEW f \in Formats, NEW r \in AllRates, StreamStart(f, r)
  PROVE  /\ state' = "BUFFERING" /\ format' = f /\ ring_rate' = r
         /\ ring' \in Seq(Packets) /\ Len(ring') <= Capacity /\ ring' = <<>>
         /\ output' \in Outputs /\ Len(output'.queued) <= 1
         /\ output'.running = FALSE /\ output'.format = f /\ output'.rate = r
         /\ output'.playing = {} /\ output'.queued = <<>>
  BY DEF StreamStart, Configured, Outputs, Silence, Capacity

\* An empty ring and an empty output hold nothing.
LEMMA NothingHeld ==
  ASSUME ring' = <<>>, output'.playing = {}, output'.queued = <<>> PROVE Held' = {}
  BY DEF Held

\* SET_INTERFACE keeps the stream in order.
LEMMA SetInterfaceStep ==
  ASSUME StreamInv, NEW a \in Alts, SetInterface(a)
  PROVE  /\ StreamInv' /\ alt' = a
         /\ state' # "STOPPED" => Held' = {}
<1>1. alt' = a /\ fed' = FALSE
  BY DEF SetInterface
<1>2. rate' \in AllRates
  BY RateTypes DEF SetInterface, StreamInv, StreamTypes
<1>3. CASE a = 0
  <2>1. StreamStop /\ g_format' = g_format
    BY <1>3 DEF SetInterface
  <2>2. StreamTypes' /\ state' = "STOPPED" /\ output'.running = FALSE
    BY <1>1, <1>2, <2>1, StopTypes DEF StreamInv, StreamTypes, States
  <2> QED
    BY <1>1, <1>3, <2>2 DEF StreamInv, Consistent, Primed
<1>4. CASE a # 0
  <2>1. StreamStart(FormatOf(a), rate') /\ g_format' = FormatOf(a).bits
    BY <1>4 DEF SetInterface
  <2>2. FormatOf(a) \in Formats /\ FormatOf(a).bits \in {16, 24, 32}
    BY FormatTypes DEF Formats
  <2>3. PICK r \in AllRates : r = rate'
    BY <1>2
  <2>4. /\ state' = "BUFFERING" /\ format' = FormatOf(a) /\ ring_rate' = rate'
        /\ ring' \in Seq(Packets) /\ Len(ring') <= Capacity /\ ring' = <<>>
        /\ output' \in Outputs /\ Len(output'.queued) <= 1
        /\ output'.running = FALSE /\ output'.format = FormatOf(a)
        /\ output'.rate = rate'
        /\ output'.playing = {} /\ output'.queued = <<>>
    BY <2>1, <2>2, <2>3, StartTypes
  <2>5. StreamTypes'
    BY <1>1, <1>2, <2>1, <2>2, <2>4 DEF StreamTypes, States
  <2>6. FormatOf(alt)' = FormatOf(a)
    BY <1>1 DEF FormatOf
  <2>7. Consistent' /\ Primed'
    BY <1>1, <1>4, <2>1, <2>4, <2>6 DEF Consistent, Primed
  <2> QED
    BY <1>1, <2>4, <2>5, <2>7, NothingHeld DEF StreamInv
<1> QED
  BY <1>3, <1>4

\* So does a change of the rate.
LEMMA SetRateStep ==
  ASSUME StreamInv, NEW r \in Rates, SetSamplingFreq(r)
  PROVE  /\ StreamInv' /\ alt' = alt /\ rate' = r
         /\ state' # "STOPPED" => Held' = {}
<1>1. /\ rate' = r /\ alt' = alt /\ g_format' = g_format /\ fed' = FALSE
      /\ r \in AllRates
  BY RateTypes DEF SetSamplingFreq
<1>2. CASE state = "STOPPED"
  <2>1. StreamStop
    BY <1>2 DEF SetSamplingFreq
  <2>2. StreamTypes' /\ state' = "STOPPED" /\ output'.running = FALSE
    BY <1>1, <2>1, StopTypes DEF StreamInv, StreamTypes, States
  <2> QED
    BY <1>1, <1>2, <2>2 DEF StreamInv, Consistent, Primed
<1>3. CASE state # "STOPPED"
  <2>1. StreamStart(format, r) /\ format \in Formats
    BY <1>3 DEF SetSamplingFreq, StreamInv, StreamTypes
  <2>2. PICK f \in Formats : f = format
    BY <2>1
  <2>3. /\ state' = "BUFFERING" /\ format' = format /\ ring_rate' = r
        /\ ring' \in Seq(Packets) /\ Len(ring') <= Capacity /\ ring' = <<>>
        /\ output' \in Outputs /\ Len(output'.queued) <= 1
        /\ output'.running = FALSE /\ output'.format = format
        /\ output'.rate = r
        /\ output'.playing = {} /\ output'.queued = <<>>
    BY <1>1, <2>1, <2>2, StartTypes
  <2>4. StreamTypes'
    BY <1>1, <2>1, <2>3 DEF StreamInv, StreamTypes, States
  <2>5. FormatOf(alt)' = FormatOf(alt)
    BY <1>1 DEF FormatOf
  <2>6. Consistent' /\ Primed'
    BY <1>1, <1>3, <2>3, <2>5 DEF StreamInv, Consistent, Primed
  <2> QED
    BY <1>1, <2>3, <2>4, <2>6, NothingHeld DEF StreamInv
<1> QED
  BY <1>2, <1>3

\* A packet is appended or dropped.
LEMMA RxStep ==
  ASSUME StreamInv, NEW p \in Packets, OnUsbRx(p)
  PROVE  /\ StreamInv' /\ UNCHANGED <<state, alt, rate, output>>
         /\ Held' \subseteq Held \cup {p}
<1>1. UNCHANGED <<state, alt, rate, format, g_format, ring_rate, output, fed>>
  BY DEF OnUsbRx
<1>2. ring \in Seq(Packets) /\ Len(ring) <= Capacity
  BY DEF StreamInv, StreamTypes
<1>3. /\ ring' \in Seq(Packets) /\ Len(ring') <= Capacity
      /\ Len(ring) <= Len(ring')
      /\ \A i \in DOMAIN ring' : ring'[i] = p \/ (i \in DOMAIN ring /\ ring'[i] = ring[i])
  <2>1. CASE ring' = ring
    BY <1>2, <2>1
  <2>2. CASE ring' = Append(ring, p) /\ Len(ring) < Capacity
    BY <1>2, <2>2, PutLast DEF Capacity
  <2> QED
    BY <2>1, <2>2 DEF OnUsbRx
<1>4. StreamTypes'
  BY <1>1, <1>3 DEF StreamInv, StreamTypes
<1>5. Consistent'
  BY <1>1 DEF StreamInv, Consistent, FormatOf
<1>6. Primed'
  BY <1>1, <1>2, <1>3 DEF StreamInv, Primed, FilledTo, RECOVERY_WATER_LEVEL, Capacity
<1>7. Held' \subseteq Held \cup {p}
  BY <1>1, <1>3 DEF Held
<1> QED
  BY <1>1, <1>4, <1>5, <1>6, <1>7 DEF StreamInv

\* The output emits what was queued, or silence.
LEMMA FinishStep ==
  ASSUME StreamInv, OutputFinish
  PROVE  /\ StreamInv' /\ UNCHANGED <<state, alt, rate, fed>>
         /\ output'.rate = output.rate
         /\ Held' \subseteq Held
<1>1. UNCHANGED <<state, alt, rate, format, g_format, ring, ring_rate, fed>>
  BY DEF OutputFinish
<1>2. output \in Outputs /\ Len(output.queued) <= 1
  BY DEF StreamInv, StreamTypes
<1>3. PICK playing \in SUBSET Packets :
        /\ output' = [output EXCEPT !.playing = playing, !.queued = <<>>]
        /\ \/ playing = {}
           \/ output.queued # <<>> /\ playing = output.queued[1]
  <2>1. CASE output.queued = <<>>
    BY <2>1 DEF OutputFinish, Silence
  <2>2. CASE output.queued # <<>>
    <3>1. Head(output.queued) = output.queued[1] /\ Head(output.queued) \in SUBSET Packets
      BY <1>2, <2>2, TakeHead DEF Outputs
    <3> QED
      BY <2>2, <3>1 DEF OutputFinish
  <2> QED
    BY <2>1, <2>2
<1>4. output' = [running |-> output.running, rate |-> output.rate,
                 format |-> output.format, playing |-> playing, queued |-> <<>>]
  BY <1>2, <1>3 DEF Outputs
<1>5. output' \in Outputs /\ Len(output'.queued) <= 1
  <2>1. <<>> \in Seq(SUBSET Packets) /\ Len(<<>>) = 0
    OBVIOUS
  <2> QED
    BY <1>2, <1>4, <2>1 DEF Outputs
<1>6. StreamTypes'
  BY <1>1, <1>5 DEF StreamInv, StreamTypes
<1>7. Consistent' /\ Primed'
  BY <1>1, <1>4 DEF StreamInv, Consistent, Primed, FormatOf, FilledTo
<1>8. Held' \subseteq Held
  <2>1. output.queued # <<>> => 1 \in DOMAIN output.queued
    BY <1>2 DEF Outputs
  <2>2. output'.playing = playing /\ DOMAIN output'.queued = {}
    BY <1>4
  <2> QED
    BY <1>1, <1>3, <2>1, <2>2 DEF Held
<1> QED
  BY <1>1, <1>4, <1>6, <1>7, <1>8 DEF StreamInv

\* Submitting a block adds it to the output and changes nothing else of it.
LEMMA SubmitTypes ==
  ASSUME output \in Outputs, NEW block \in SUBSET Packets, SubmitBlock(block)
  PROVE  /\ output' \in Outputs /\ Len(output'.queued) <= 1
         /\ output'.running = output.running /\ output'.rate = output.rate
         /\ output'.format = output.format /\ output'.playing = output.playing
         /\ output'.queued = <<block>>
<1>1. output' = [running |-> output.running, rate |-> output.rate,
                 format |-> output.format, playing |-> output.playing,
                 queued |-> <<block>>]
  BY DEF SubmitBlock, Outputs
<1>2. <<block>> \in Seq(SUBSET Packets) /\ Len(<<block>>) = 1
  OBVIOUS
<1> QED
  BY <1>1, <1>2 DEF Outputs

\* What is held after a block was submitted: what was, and the block.
LEMMA SubmitHeld ==
  ASSUME NEW block, output'.queued = <<block>>, output'.playing = output.playing,
         {ring'[i] : i \in DOMAIN ring'} \subseteq {ring[i] : i \in DOMAIN ring},
         block \subseteq {ring[i] : i \in DOMAIN ring}
  PROVE  Held' \subseteq Held
<1>1. UNION {output'.queued[i] : i \in DOMAIN output'.queued} = block
  BY DOMAIN output'.queued = {1}
<1> QED
  BY <1>1 DEF Held

\* A step of the main loop keeps the stream in order, and stalls only after audio.
LEMMA TaskStep ==
  ASSUME StreamInv, AudioTask
  PROVE  /\ StreamInv' /\ UNCHANGED <<alt, rate>>
         /\ output'.rate = output.rate
         /\ state' = "STOPPED" <=> state = "STOPPED"
         /\ Held' \subseteq Held
         /\ state = "PLAYING" /\ state' = "STALLED" => fed
<1> DEFINE packets == {ring[i] : i \in DOMAIN ring}
<1>1. /\ output \in Outputs /\ ring \in Seq(Packets) /\ Len(ring) <= Capacity
      /\ UNCHANGED <<alt, rate, format, g_format, ring_rate>>
      /\ FormatOf(alt)' = FormatOf(alt)
  BY DEF StreamInv, StreamTypes, AudioTask, FormatOf
<1> PICK silence : silence = Silence
  OBVIOUS
<1>7. silence \in SUBSET Packets /\ silence \subseteq packets
  BY DEF Silence
<1>2. CASE StartPlaying
  <2>1. /\ output' = [running |-> TRUE, rate |-> output.rate, format |-> output.format,
                      playing |-> output.playing, queued |-> output.queued]
        /\ state = "BUFFERING" /\ state' = "PLAYING" /\ fed' = FALSE /\ ring' = ring
    BY <1>1, <1>2 DEF StartPlaying, Outputs
  <2>2. StreamTypes'
    BY <1>1, <2>1 DEF StreamInv, StreamTypes, States, Outputs
  <2>3. Consistent'
    BY <1>1, <2>1 DEF StreamInv, Consistent
  <2>4. Primed'
    BY <1>1, <1>2, <2>1
      DEF StartPlaying, Primed, FilledTo, SAFE_WATER_LEVEL, RECOVERY_WATER_LEVEL, Capacity
  <2>5. Held' = Held
    BY <2>1 DEF Held
  <2> QED
    BY <1>1, <2>1, <2>2, <2>3, <2>4, <2>5 DEF StreamInv
<1>3. CASE Resume
  <2>1. /\ state = "STALLED" /\ state' = "PLAYING" /\ fed' = FALSE
        /\ ring' = ring /\ output' = output
    BY <1>3 DEF Resume
  <2>2. StreamTypes'
    BY <1>1, <2>1 DEF StreamInv, StreamTypes, States
  <2>3. Consistent'
    BY <1>1, <2>1 DEF StreamInv, Consistent
  <2>4. Primed'
    BY <1>1, <1>3, <2>1 DEF Resume, Primed, FilledTo
  <2>5. Held' = Held
    BY <2>1 DEF Held
  <2> QED
    BY <1>1, <2>1, <2>2, <2>3, <2>4, <2>5 DEF StreamInv
<1>4. CASE FeedSilence
  <2>1. /\ state = "STALLED" /\ state' = state /\ fed' = fed /\ ring' = ring
        /\ SubmitBlock(silence)
    BY <1>4 DEF FeedSilence
  <2>2. /\ output' \in Outputs /\ Len(output'.queued) <= 1
        /\ output'.running = output.running /\ output'.rate = output.rate
        /\ output'.format = output.format /\ output'.playing = output.playing
        /\ output'.queued = <<silence>>
    BY <1>1, <1>7, <2>1, SubmitTypes
  <2>3. StreamTypes' /\ Consistent' /\ Primed'
    BY <1>1, <2>1, <2>2 DEF StreamInv, StreamTypes, Consistent, Primed
  <2>4. Held' \subseteq Held
    <3>1. {ring'[i] : i \in DOMAIN ring'} \subseteq packets
      BY <2>1
    <3> QED
      BY <1>7, <2>2, <3>1, SubmitHeld
  <2> QED
    BY <1>1, <2>1, <2>2, <2>3, <2>4 DEF StreamInv
<1>5. CASE Underrun
  <2>1. /\ state = "PLAYING" /\ state' = "STALLED" /\ fed' = fed /\ ring' = ring
        /\ SubmitBlock(silence)
    BY <1>5 DEF Underrun
  <2>2. /\ output' \in Outputs /\ Len(output'.queued) <= 1
        /\ output'.running = output.running /\ output'.rate = output.rate
        /\ output'.format = output.format /\ output'.playing = output.playing
        /\ output'.queued = <<silence>>
    BY <1>1, <1>7, <2>1, SubmitTypes
  <2>3. StreamTypes' /\ Consistent' /\ Primed'
    BY <1>1, <2>1, <2>2 DEF StreamInv, StreamTypes, States, Consistent, Primed
  <2>4. Held' \subseteq Held
    <3>1. {ring'[i] : i \in DOMAIN ring'} \subseteq packets
      BY <2>1
    <3> QED
      BY <1>7, <2>2, <3>1, SubmitHeld
  <2>5. fed
    <3>1. Len(ring) <= 4
      <4>1. BlockMs \in 1 .. 4
        BY BlockSize DEF StreamInv
      <4>2. 100 * Len(ring) <= 16 * 16 \/ Len(ring) < BlockMs
        BY <1>5 DEF Underrun, Starved, UNDERRUN_WATER_LEVEL, Capacity
      <4> QED
        BY <1>1, <4>1, <4>2
    <3>2. ~FilledTo(RECOVERY_WATER_LEVEL)
      BY <1>1, <3>1 DEF FilledTo, RECOVERY_WATER_LEVEL, Capacity
    <3>3. Primed
      BY DEF StreamInv
    <3> QED
      BY <2>1, <3>2, <3>3 DEF Primed
  <2> QED
    BY <1>1, <2>1, <2>2, <2>3, <2>4, <2>5 DEF StreamInv
<1>6. CASE PlayBlock
  <2>1. PICK n \in 1 .. 4 : n = BlockMs
    BY BlockSize DEF StreamInv
  <2>2. n <= Len(ring)
    BY <1>1, <1>6, <2>1 DEF PlayBlock, Starved
  <2>3. PICK block : block = {ring[i] : i \in 1 .. n}
    OBVIOUS
  <2>4. block \in SUBSET Packets /\ block \subseteq packets
    BY <1>1, <2>1, <2>2, <2>3
  <2>5. /\ state = "PLAYING" /\ state' = state /\ fed' = TRUE
        /\ ring' = SubSeq(ring, n + 1, Len(ring)) /\ SubmitBlock(block)
    BY <1>6, <2>1, <2>3 DEF PlayBlock
  <2>6. /\ ring' \in Seq(Packets) /\ Len(ring') = Len(ring) - n
        /\ \A i \in DOMAIN ring' : n + i \in DOMAIN ring /\ ring'[i] = ring[n + i]
    BY <1>1, <2>1, <2>2, <2>5
  <2>7. /\ output' \in Outputs /\ Len(output'.queued) <= 1
        /\ output'.running = output.running /\ output'.rate = output.rate
        /\ output'.format = output.format /\ output'.playing = output.playing
        /\ output'.queued = <<block>>
    BY <1>1, <2>4, <2>5, SubmitTypes
  <2>8. StreamTypes'
    BY <1>1, <2>1, <2>5, <2>6, <2>7 DEF StreamInv, StreamTypes, Capacity
  <2>9. Consistent' /\ Primed'
    BY <1>1, <2>5, <2>7 DEF StreamInv, Consistent, Primed
  <2>10. Held' \subseteq Held
    <3>1. {ring'[i] : i \in DOMAIN ring'} \subseteq packets
      BY <2>6
    <3> QED
      BY <2>4, <2>7, <3>1, SubmitHeld
  <2> QED
    BY <1>1, <2>5, <2>7, <2>8, <2>9, <2>10 DEF StreamInv
<1> QED
  BY <1>2, <1>3, <1>4, <1>5, <1>6 DEF AudioTask

\* What does not touch the stream keeps it in order.
LEMMA StreamStutter ==
  ASSUME StreamInv, UNCHANGED streamVars PROVE StreamInv' /\ Held' = Held
<1>1. UNCHANGED <<state, alt, rate, format, g_format, ring, ring_rate, output, fed>>
  BY DEF streamVars
<1>2. StreamTypes'
  BY <1>1 DEF StreamInv, StreamTypes
<1>3. Consistent'
  BY <1>1 DEF StreamInv, Consistent, FormatOf
<1>4. Primed' /\ Held' = Held
  BY <1>1 DEF StreamInv, Primed, FilledTo, Held
<1> QED
  BY <1>2, <1>3, <1>4 DEF StreamInv

-------------------------------------------------------------------------------
(* The queue *)

\* What an event holds.
LEMMA EventFields ==
  ASSUME NEW e \in Events
  PROVE  /\ e.kind = "audio" => e.packet \in Packets /\ e.generation \in Nat
         /\ e.kind # "audio" => e \in Requests
         /\ e.kind = "interface" => e.value \in Alts
         /\ e.kind = "rate" => e.value \in Rates
         /\ e.kind \in {"audio", "interface", "rate", "configuration", "reset"}
  BY DEF Events, AudioEvents, Requests

\* The main loop takes the oldest event, and the others move up.
LEMMA Taken ==
  ASSUME PathTypes, NEW kind, Takes(kind)
  PROVE  /\ pc = "loop"
         /\ 1 \in DOMAIN queue /\ Head(queue) = queue[1]
         /\ queue[1] \in Events /\ queue[1].kind = kind
         /\ queue' \in Seq(Events) /\ Len(queue') <= USB_QUEUE_LENGTH
         /\ \A i \in DOMAIN queue' :
              /\ i \in Nat \ {0} /\ i + 1 \in DOMAIN queue /\ i + 1 # 1
              /\ queue'[i] = queue[i + 1] /\ queue'[i] \in Events
         /\ \A i \in DOMAIN queue :
              i # 1 => i \in Nat /\ i - 1 \in DOMAIN queue' /\ queue'[i - 1] = queue[i]
<1>1. queue \in Seq(Events) /\ queue # <<>> /\ queue' = Tail(queue)
      /\ Len(queue) <= USB_QUEUE_LENGTH /\ USB_QUEUE_LENGTH \in Nat
      /\ pc = "loop" /\ Head(queue).kind = kind
  BY QueueAssumption DEF PathTypes, Takes
<1>2. /\ Head(queue) = queue[1] /\ 1 \in DOMAIN queue /\ Head(queue) \in Events
      /\ queue' \in Seq(Events) /\ Len(queue') = Len(queue) - 1
      /\ \A i \in DOMAIN queue' : i + 1 \in DOMAIN queue /\ queue'[i] = queue[i + 1]
      /\ \A i \in DOMAIN queue : i # 1 => i - 1 \in DOMAIN queue'
  BY <1>1, TakeHead
<1>3. \A i \in DOMAIN queue' : i \in Nat \ {0} /\ i + 1 # 1 /\ queue'[i] \in Events
  BY <1>2
<1>4. ASSUME NEW i \in DOMAIN queue, i # 1
      PROVE  i \in Nat /\ i - 1 \in DOMAIN queue' /\ queue'[i - 1] = queue[i]
  <2>1. i \in Nat /\ i - 1 \in DOMAIN queue'
    BY <1>1, <1>2, <1>4
  <2>2. queue'[i - 1] = queue[(i - 1) + 1]
    BY <1>2, <2>1
  <2>3. (i - 1) + 1 = i
    BY <2>1
  <2> QED
    BY <2>1, <2>2, <2>3
<1> QED
  BY <1>1, <1>2, <1>3, <1>4

\* Another event is put behind those in the queue.
LEMMA Put ==
  ASSUME PathTypes, NEW e \in Events, queue' = Append(queue, e),
         Len(queue) < USB_QUEUE_LENGTH
  PROVE  /\ queue' \in Seq(Events) /\ Len(queue') <= USB_QUEUE_LENGTH
         /\ Len(queue) + 1 \in DOMAIN queue' /\ queue'[Len(queue) + 1] = e
         /\ \A i \in DOMAIN queue :
              i \in Nat /\ i < Len(queue) + 1 /\ i \in DOMAIN queue' /\ queue'[i] = queue[i]
         /\ \A i \in DOMAIN queue' : i \in DOMAIN queue \/ i = Len(queue) + 1
<1>1. queue \in Seq(Events) /\ USB_QUEUE_LENGTH \in Nat
  BY QueueAssumption DEF PathTypes
<1>2. /\ queue' \in Seq(Events) /\ Len(queue') = Len(queue) + 1
      /\ Len(queue) + 1 \in DOMAIN queue' /\ queue'[Len(queue) + 1] = e
      /\ \A i \in DOMAIN queue : i \in DOMAIN queue' /\ queue'[i] = queue[i]
      /\ \A i \in DOMAIN queue' : i \in DOMAIN queue \/ i = Len(queue) + 1
  BY <1>1, PutLast
<1>3. \A i \in DOMAIN queue : i \in Nat /\ i < Len(queue) + 1
  BY <1>1
<1>4. Len(queue') <= USB_QUEUE_LENGTH
  BY <1>1, <1>2
<1> QED
  BY <1>2, <1>3, <1>4

\* Taking what the host waits for, or its last reset, leaves no request behind.
LEMMA NoneLeft ==
  ASSUME PathTypes, Asked, NEW kind, Takes(kind), kind # "audio",
         \/ host.asking # "reset"
         \/ ~ \E i \in DOMAIN queue' : queue'[i].kind = "reset"
  PROVE  \A i \in DOMAIN queue' : queue'[i].kind = "audio"
<1> SUFFICES ASSUME NEW i \in DOMAIN queue', queue'[i].kind # "audio" PROVE FALSE
  OBVIOUS
<1>1. /\ 1 \in DOMAIN queue /\ queue[1].kind = kind
      /\ i \in Nat /\ i + 1 \in DOMAIN queue /\ i + 1 # 1 /\ queue'[i] = queue[i + 1]
  BY Taken
<1>2. CASE host.asking # "reset"
  <2>1. \A j, k \in DOMAIN queue : IsRequest(j) /\ IsRequest(k) => j = k
    BY <1>2 DEF Asked
  <2>2. IsRequest(1) /\ IsRequest(i + 1)
    BY <1>1 DEF IsRequest
  <2> QED
    BY <1>1, <2>1, <2>2
<1>3. CASE host.asking = "reset"
  <2>1. ~ \E j \in DOMAIN queue' : queue'[j].kind = "reset"
    BY <1>3
  <2>2. IsRequest(i + 1) /\ queue[i + 1].kind # "reset"
    BY <1>1, <2>1 DEF IsRequest
  <2>3. PICK j \in DOMAIN queue : i + 1 < j /\ queue[j].kind = "reset"
    BY <1>1, <1>3, <2>2 DEF Asked
  <2>4. j # 1
    <3>1. j \in Int
      BY DEF PathTypes
    <3> QED
      BY <1>1, <2>3, <3>1
  <2>5. j - 1 \in DOMAIN queue' /\ queue'[j - 1] = queue[j]
    BY <2>4, Taken
  <2> QED
    BY <2>1, <2>3, <2>5
<1> QED
  BY <1>2, <1>3

\* The generations of the events that are left are no later than the receiver's.
LEMMA NoLater ==
  ASSUME PathTypes, Fresh, NEW kind, Takes(kind)
  PROVE  \A i \in DOMAIN queue' : queue'[i].kind = "audio" =>
           queue'[i].generation \in Nat /\ queue'[i].generation <= audio_rx_generation
<1> SUFFICES ASSUME NEW i \in DOMAIN queue', queue'[i].kind = "audio"
             PROVE  /\ queue'[i].generation \in Nat
                    /\ queue'[i].generation <= audio_rx_generation
  OBVIOUS
<1>1. i + 1 \in DOMAIN queue /\ queue'[i] = queue[i + 1] /\ queue'[i] \in Events
  BY Taken
<1>2. queue'[i].generation \in Nat
  BY <1>1, EventFields
<1> QED
  BY <1>1, <1>2 DEF Fresh

\* After the receiver went on or off nothing in the queue is current.
LEMMA NoneCurrent ==
  ASSUME PathTypes, audio_rx_generation' = audio_rx_generation + 1,
         \A i \in DOMAIN queue' : queue'[i].kind = "audio" =>
           queue'[i].generation \in Nat /\ queue'[i].generation <= audio_rx_generation
  PROVE  Fresh' /\ \A i \in DOMAIN queue' : ~Current(i)'
<1>1. audio_rx_generation \in Nat
  BY DEF PathTypes
<1>2. \A g \in Nat : g <= audio_rx_generation =>
        g <= audio_rx_generation' /\ g # audio_rx_generation'
  BY <1>1
<1> QED
  BY <1>2 DEF Fresh, Current

-------------------------------------------------------------------------------
(* The host's actions *)

\* The host starts with nothing asked.
LEMMA InitInv == ASSUME Init PROVE IInv
<1>1. FormatOf(1) \in Formats
  BY FormatTypes DEF AUDIO_ALT_EAC3
<1>2. /\ state = "STOPPED" /\ alt = 0 /\ rate = 48 /\ format = FormatOf(1)
      /\ g_format = 16 /\ ring = <<>> /\ ring_rate = 48 /\ fed = FALSE
      /\ output = [running |-> FALSE, rate |-> 48, format |-> FormatOf(1),
                   playing |-> {}, queued |-> <<>>]
  BY DEF Init, StreamInit, Configured, Silence
<1>3. StreamTypes
  <2>1. <<>> \in Seq(SUBSET Packets) /\ <<>> \in Seq(Packets) /\ Len(<<>>) = 0
    OBVIOUS
  <2>2. output \in Outputs /\ Len(output.queued) = 0
    BY <1>1, <1>2, <2>1, RateTypes DEF Outputs
  <2>3. 48 \in AllRates /\ 0 \in Alts
    BY RateTypes, AltsAssumption
  <2>4. ring \in Seq(Packets) /\ Len(ring) <= Capacity
    BY <1>2, <2>1 DEF Capacity
  <2>5. /\ state \in States /\ alt \in Alts /\ rate \in AllRates /\ ring_rate \in AllRates
        /\ format \in Formats /\ g_format \in {16, 24, 32} /\ fed \in BOOLEAN
    BY <1>1, <1>2, <2>3 DEF States
  <2>6. Len(output.queued) <= 1
    BY <2>2
  <2> QED
    BY <2>2, <2>4, <2>5, <2>6 DEF StreamTypes
<1>4. StreamInv
  BY <1>2, <1>3 DEF StreamInv, Consistent, Primed
<1>5. /\ queue = <<>> /\ audio_rx_enabled = FALSE /\ audio_rx_generation = 0
      /\ pc = "loop" /\ target = 0
      /\ host = [alt |-> 0, rate |-> 48, stream |-> 0, asking |-> "nothing",
                 requests |-> 0]
  BY DEF Init
<1>6. PathTypes
  <2>1. host \in Hosts
    BY <1>5, RateTypes, AltsAssumption, RequestsAssumption DEF Hosts
  <2>2. queue \in Seq(Events) /\ Len(queue) <= USB_QUEUE_LENGTH
    BY <1>5, QueueAssumption
  <2>3. host.stream <= host.requests /\ host.asking # "interface"
    BY <1>5
  <2>4. /\ audio_rx_enabled \in BOOLEAN /\ audio_rx_generation \in Nat
        /\ pc \in {"loop", "disabled", "enabled"} /\ target \in Alts
    BY <1>5, AltsAssumption
  <2> QED
    BY <2>1, <2>2, <2>3, <2>4 DEF PathTypes
<1>7. Receiver /\ Asked /\ Fresh
  BY <1>2, <1>5 DEF Receiver, Asked, Fresh
<1> QED
  BY <1>2, <1>4, <1>6, <1>7 DEF IInv, NoStaleAudio

\* A packet is sent for the stream the host believes in.
LEMMA SendPacketStep == ASSUME IInv, SendPacket PROVE IInv'
<1>1. /\ UNCHANGED <<streamVars, audio_rx_enabled, audio_rx_generation, pc, target, host>>
      /\ audio_rx_enabled /\ Len(queue) < USB_QUEUE_LENGTH
  BY QueueAssumption DEF SendPacket, CanCapture, IInv, PathTypes
<1>2. PICK e \in Events :
        /\ queue' = Append(queue, e)
        /\ e.kind = "audio" /\ e.generation = audio_rx_generation
        /\ e.packet.stream = host.stream /\ e.packet.rate = host.rate
  <2>1. [stream |-> host.stream, rate |-> host.rate] \in Packets
    <3>1. host.stream \in 0 .. MaxRequests
      BY RequestsAssumption DEF IInv, PathTypes, Hosts
    <3>2. host.rate \in AllRates
      BY DEF IInv, PathTypes, Hosts
    <3> QED
      BY <3>1, <3>2 DEF Packets, AllRates
  <2>2. AudioEvent([stream |-> host.stream, rate |-> host.rate]) \in Events
    BY <2>1 DEF AudioEvent, Events, AudioEvents, IInv, PathTypes
  <2> QED
    BY <2>2 DEF SendPacket, AudioEvent
<1>3. /\ queue' \in Seq(Events) /\ Len(queue') <= USB_QUEUE_LENGTH
      /\ Len(queue) + 1 \in DOMAIN queue' /\ queue'[Len(queue) + 1] = e
      /\ \A i \in DOMAIN queue :
           i \in Nat /\ i < Len(queue) + 1 /\ i \in DOMAIN queue' /\ queue'[i] = queue[i]
      /\ \A i \in DOMAIN queue' : i \in DOMAIN queue \/ i = Len(queue) + 1
  BY <1>1, <1>2, Put DEF IInv
<1>4. StreamInv' /\ Held' = Held /\ state' = state /\ alt' = alt
  BY <1>1, StreamStutter DEF IInv, streamVars
<1>5. PathTypes' /\ Receiver'
  BY <1>1, <1>3, <1>4 DEF IInv, PathTypes, Receiver
<1>6. Asked'
  <2>1. \A i \in DOMAIN queue' : queue'[i].kind # "audio" =>
          i \in DOMAIN queue /\ queue'[i] = queue[i]
    BY <1>2, <1>3
  <2> QED
    BY <1>1, <1>3, <2>1 DEF IInv, Asked, IsRequest
<1>7. pc = "loop"
  <2>1. host.asking \notin {"interface", "configuration"} \/ pc # "enabled"
    BY DEF SendPacket, Sending
  <2>2. host.asking # "reset"
    BY DEF SendPacket, Sending, IInv, Asked
  <2> QED
    BY <1>1, <2>1, <2>2 DEF IInv, Asked, PathTypes, Receiver
<1>8. Fresh'
  <2>1. \A i \in DOMAIN queue' : queue'[i].kind = "audio" =>
          queue'[i].generation <= audio_rx_generation
    <3>1. audio_rx_generation <= audio_rx_generation
      BY DEF IInv, PathTypes
    <3> QED
      BY <1>2, <1>3, <3>1 DEF IInv, Fresh
  <2>2. \A i \in DOMAIN queue' : Current(i)' => queue'[i].packet.stream = host.stream
    BY <1>1, <1>2, <1>3 DEF IInv, Fresh, Current
  <2> QED
    BY <1>1, <1>7, <2>1, <2>2 DEF Fresh
<1> QED
  BY <1>1, <1>4, <1>5, <1>6, <1>8 DEF IInv, NoStaleAudio

\* What the host knows after it asked.
LEMMA AskHost ==
  ASSUME host \in Hosts, NEW kind, NEW values, Ask(kind, values)
  PROVE  /\ host.asking = "nothing"
         /\ host' = [alt |-> host.alt, rate |-> host.rate, stream |-> host.stream,
                     asking |-> kind, requests |-> host.requests + 1]
<1>1. PICK n : n = host.requests + 1
  OBVIOUS
<1>2. host' = [host EXCEPT !.asking = kind, !.requests = n] /\ host.asking = "nothing"
  BY <1>1 DEF Ask
<1> QED
  BY <1>1, <1>2 DEF Hosts

\* A request, and a reset, are put behind the packets that were sent before.
LEMMA HostAsksStep == ASSUME IInv, HostAsks PROVE IInv'
<1>1. /\ UNCHANGED <<streamVars, audio_rx_enabled, audio_rx_generation, pc, target>>
      /\ Len(queue) < USB_QUEUE_LENGTH
  BY DEF HostAsks, Ask, BusReset
<1>2. /\ host.requests < MaxRequests /\ host \in Hosts
      /\ host.stream \in Nat /\ host.requests \in Nat /\ MaxRequests \in Nat
  BY RequestsAssumption DEF HostAsks, Ask, BusReset, IInv, PathTypes, Hosts
<1>3. PICK e \in Requests :
        /\ queue' = Append(queue, e)
        /\ \/ /\ host.asking = "nothing" /\ e.kind # "reset"
              /\ host' = [alt |-> host.alt, rate |-> host.rate, stream |-> host.stream,
                          asking |-> e.kind, requests |-> host.requests + 1]
           \/ /\ e.kind = "reset"
              /\ host' = [alt |-> 0, rate |-> host.rate, stream |-> host.stream,
                          asking |-> "reset", requests |-> host.requests + 1]
  <2>1. CASE Ask("interface", Alts)
    <3>1. PICK value \in Alts : queue' = Append(queue, Request("interface", value))
      BY <2>1 DEF Ask
    <3>2. Request("interface", value) \in Requests
      BY DEF Request, Requests
    <3>3. Request("interface", value).kind = "interface"
      BY DEF Request
    <3> QED
      BY <1>2, <2>1, <3>1, <3>2, <3>3, AskHost
  <2>2. CASE Ask("rate", Rates)
    <3>1. PICK value \in Rates : queue' = Append(queue, Request("rate", value))
      BY <2>2 DEF Ask
    <3>2. Request("rate", value) \in Requests
      BY DEF Request, Requests
    <3>3. Request("rate", value).kind = "rate"
      BY DEF Request
    <3> QED
      BY <1>2, <2>2, <3>1, <3>2, <3>3, AskHost
  <2>3. CASE Ask("configuration", {0, 1})
    <3>1. PICK value \in {0, 1} : queue' = Append(queue, Request("configuration", value))
      BY <2>3 DEF Ask
    <3>2. Request("configuration", value) \in Requests
      BY DEF Request, Requests
    <3>3. Request("configuration", value).kind = "configuration"
      BY DEF Request
    <3> QED
      BY <1>2, <2>3, <3>1, <3>2, <3>3, AskHost
  <2>4. CASE BusReset
    <3>1. Request("reset", 0) \in Requests
      BY DEF Request, Requests
    <3>2. Request("reset", 0).kind = "reset"
      BY DEF Request
    <3>3. PICK n : n = host.requests + 1
      OBVIOUS
    <3>4. /\ queue' = Append(queue, Request("reset", 0))
          /\ host' = [host EXCEPT !.alt = 0, !.asking = "reset", !.requests = n]
      BY <2>4, <3>3 DEF BusReset
    <3>5. host' = [alt |-> 0, rate |-> host.rate, stream |-> host.stream,
                   asking |-> "reset", requests |-> n]
      BY <1>2, <3>4 DEF Hosts
    <3> QED
      BY <3>1, <3>2, <3>3, <3>4, <3>5
  <2> QED
    BY <2>1, <2>2, <2>3, <2>4 DEF HostAsks
<1>4. /\ e \in Events /\ e.kind \in {"interface", "rate", "configuration", "reset"}
  BY <1>3 DEF Events, Requests
<1>5. /\ queue' \in Seq(Events) /\ Len(queue') <= USB_QUEUE_LENGTH
      /\ Len(queue) + 1 \in DOMAIN queue' /\ queue'[Len(queue) + 1] = e
      /\ \A i \in DOMAIN queue :
           i \in Nat /\ i < Len(queue) + 1 /\ i \in DOMAIN queue' /\ queue'[i] = queue[i]
      /\ \A i \in DOMAIN queue' : i \in DOMAIN queue \/ i = Len(queue) + 1
  BY <1>1, <1>3, <1>4, Put DEF IInv
<1>6. StreamInv' /\ Held' = Held /\ state' = state /\ alt' = alt
  BY <1>1, StreamStutter DEF IInv, streamVars
<1>7. host' \in Hosts /\ host'.stream = host.stream /\ host'.asking = e.kind
  <2>1. host.requests + 1 \in 0 .. MaxRequests
    BY <1>2
  <2> QED
    BY <1>2, <1>3, <1>4, <2>1, AltsAssumption DEF Hosts
<1>8. PathTypes'
  <2>1. host'.requests = host.requests + 1
    BY <1>3
  <2>2. host.stream <= host.requests
    BY DEF IInv, PathTypes
  <2>3. host'.stream <= host'.requests /\ host'.stream < host'.requests
    BY <1>2, <1>7, <2>1, <2>2
  <2> QED
    BY <1>1, <1>5, <1>7, <2>3 DEF IInv, PathTypes
<1>9. Receiver'
  BY <1>1, <1>6 DEF IInv, Receiver
<1>10. Asked'
  <2>1. CASE e.kind = "reset"
    <3>1. host'.asking = "reset" /\ host'.alt = 0
      BY <1>3, <2>1
    <3>2. \A i \in DOMAIN queue' : queue'[i].kind # "reset" =>
            \E j \in DOMAIN queue' : i < j /\ queue'[j].kind = "reset"
      BY <1>5, <2>1
    <3> QED
      BY <3>1, <3>2 DEF Asked
  <2>2. CASE e.kind # "reset"
    <3>1. host.asking = "nothing" /\ host'.asking = e.kind
      BY <1>3, <2>2
    <3>2. \A i \in DOMAIN queue : queue[i].kind = "audio"
      <4>1. \A i \in DOMAIN queue : queue[i].kind # "nothing"
        BY EventFields DEF IInv, PathTypes
      <4> QED
        BY <3>1, <4>1 DEF IInv, Asked, IsRequest
    <3>3. pc = "loop"
      BY <3>1 DEF IInv, Asked
    <3>4. \A i \in DOMAIN queue' : IsRequest(i)' =>
            i = Len(queue) + 1 /\ queue'[i].kind = host'.asking
      BY <1>5, <3>1, <3>2 DEF IsRequest
    <3> QED
      BY <1>1, <2>2, <3>1, <3>3, <3>4 DEF Asked
  <2> QED
    BY <2>1, <2>2
<1>11. Fresh'
  BY <1>1, <1>4, <1>5, <1>7 DEF IInv, Fresh, Current
<1> QED
  BY <1>6, <1>7, <1>8, <1>9, <1>10, <1>11 DEF IInv, NoStaleAudio

-------------------------------------------------------------------------------
(* The main loop's actions *)

\* Taking an event without answering anything leaves what was asked as it was.
LEMMA AskedKept ==
  ASSUME PathTypes, Asked, NEW kind, Takes(kind), UNCHANGED host,
         \/ kind = "audio"
         \/ /\ host.asking = "reset"
            /\ kind = "reset" => \E i \in DOMAIN queue' : queue'[i].kind = "reset",
         UNCHANGED pc
  PROVE  Asked'
<1>1. /\ pc = "loop" /\ 1 \in DOMAIN queue /\ queue[1].kind = kind
      /\ \A i \in DOMAIN queue' : /\ i \in Nat \ {0} /\ i + 1 \in DOMAIN queue
                                  /\ i + 1 # 1 /\ queue'[i] = queue[i + 1]
      /\ \A i \in DOMAIN queue :
           i # 1 => i \in Nat /\ i - 1 \in DOMAIN queue' /\ queue'[i - 1] = queue[i]
  BY Taken
<1>2. \A i \in DOMAIN queue' :
        IsRequest(i)' => queue'[i].kind = host'.asking \/ host'.asking = "reset"
  BY <1>1 DEF Asked, IsRequest
<1>3. ASSUME host'.asking # "reset", NEW i \in DOMAIN queue', NEW j \in DOMAIN queue',
             IsRequest(i)', IsRequest(j)'
      PROVE  i = j /\ pc' = "loop"
  <2>1. IsRequest(i + 1) /\ IsRequest(j + 1)
    BY <1>1, <1>3 DEF IsRequest
  <2>2. i + 1 = j + 1
    BY <1>1, <1>3, <2>1 DEF Asked
  <2> QED
    BY <1>1, <2>2
<1>4. ASSUME NEW i \in DOMAIN queue', IsRequest(i)', queue'[i].kind # "reset",
             host'.asking = "reset"
      PROVE  \E j \in DOMAIN queue' : i < j /\ queue'[j].kind = "reset"
  <2>1. IsRequest(i + 1) /\ queue[i + 1].kind # "reset"
    BY <1>1, <1>4 DEF IsRequest
  <2>2. PICK j \in DOMAIN queue : i + 1 < j /\ queue[j].kind = "reset"
    BY <1>1, <1>4, <2>1 DEF Asked
  <2>3. j \in Int
    BY DEF PathTypes
  <2>4. j # 1 /\ i < j - 1
    BY <1>1, <2>2, <2>3
  <2>5. j - 1 \in DOMAIN queue' /\ queue'[j - 1].kind = "reset"
    BY <1>1, <2>2, <2>4
  <2> QED
    BY <2>4, <2>5
<1>5. /\ pc' # "loop" => host'.asking \in {"interface", "reset"}
      /\ host'.asking = "reset" => host'.alt = 0
  BY DEF Asked
<1> QED
  BY <1>2, <1>3, <1>4, <1>5 DEF Asked

\* Where nothing is left of what was asked, nothing has to be answered.
LEMMA AskedNothing ==
  ASSUME \A i \in DOMAIN queue' : queue'[i].kind = "audio",
         pc' # "loop" => host'.asking \in {"interface", "reset"},
         host'.asking = "reset" => host'.alt = 0
  PROVE  Asked'
  BY DEF Asked, IsRequest

\* A packet that is accepted was sent for the present stream.
LEMMA HandleAudioStep == ASSUME IInv, HandleAudio PROVE IInv'
<1>1. /\ Takes("audio") /\ PathTypes /\ Asked /\ Fresh
      /\ UNCHANGED <<audio_rx_enabled, audio_rx_generation, pc, target, host>>
  BY DEF HandleAudio, IInv
<1>2. /\ pc = "loop" /\ Head(queue) = queue[1] /\ 1 \in DOMAIN queue
      /\ queue[1] \in Events /\ queue[1].kind = "audio"
      /\ queue' \in Seq(Events) /\ Len(queue') <= USB_QUEUE_LENGTH
      /\ \A i \in DOMAIN queue' : i + 1 \in DOMAIN queue /\ queue'[i] = queue[i + 1]
  BY <1>1, Taken
<1>3. PathTypes'
  BY <1>1, <1>2 DEF PathTypes
<1>4. Asked'
  BY <1>1, AskedKept
<1>5. Fresh'
  BY <1>1, <1>2 DEF Fresh, Current
<1>6. CASE ~IsCurrent(Head(queue))
  <2>1. UNCHANGED streamVars
    BY <1>6 DEF HandleAudio
  <2>2. StreamInv' /\ Held' = Held /\ state' = state /\ alt' = alt
    BY <2>1, StreamStutter DEF IInv, streamVars
  <2> QED
    BY <1>1, <1>3, <1>4, <1>5, <2>2 DEF IInv, Receiver, NoStaleAudio
<1>7. CASE IsCurrent(Head(queue))
  <2>1. PICK p \in Packets : p = queue[1].packet
    BY <1>2, EventFields
  <2>2. OnUsbRx(p)
    BY <1>2, <1>7, <2>1 DEF HandleAudio
  <2>3. p.stream = host.stream
    BY <1>1, <1>2, <1>7, <2>1 DEF IsCurrent, Fresh, Current
  <2>4. StreamInv' /\ UNCHANGED <<state, alt>> /\ Held' \subseteq Held \cup {p}
    BY <2>2, RxStep DEF IInv
  <2>5. NoStaleAudio'
    BY <1>1, <2>3, <2>4 DEF IInv, NoStaleAudio
  <2> QED
    BY <1>1, <1>3, <1>4, <1>5, <2>4, <2>5 DEF IInv, Receiver
<1> QED
  BY <1>6, <1>7

\* SET_INTERFACE, first step.
LEMMA DisableEndpointStep == ASSUME IInv, DisableEndpoint PROVE IInv'
<1>1. /\ Takes("interface") /\ PathTypes /\ Asked /\ Fresh /\ Receiver
      /\ UNCHANGED <<streamVars, host>> /\ pc' = "disabled"
  BY DEF DisableEndpoint, IInv
<1>2. /\ pc = "loop" /\ Head(queue) = queue[1] /\ 1 \in DOMAIN queue
      /\ queue[1] \in Events /\ queue[1].kind = "interface"
      /\ queue' \in Seq(Events) /\ Len(queue') <= USB_QUEUE_LENGTH
      /\ \A i \in DOMAIN queue' : /\ i \in Nat \ {0} /\ i + 1 \in DOMAIN queue
                                  /\ i + 1 # 1 /\ queue'[i] = queue[i + 1]
      /\ \A i \in DOMAIN queue :
           i # 1 => i \in Nat /\ i - 1 \in DOMAIN queue' /\ queue'[i - 1] = queue[i]
  BY <1>1, Taken
<1>3. target' \in Alts
  BY <1>2, EventFields DEF DisableEndpoint
<1>4. StreamInv' /\ Held' = Held /\ state' = state /\ alt' = alt
  BY <1>1, StreamStutter DEF IInv, streamVars
<1>5. /\ audio_rx_enabled' = FALSE
      /\ \/ audio_rx_generation' = audio_rx_generation
         \/ audio_rx_generation' = audio_rx_generation + 1
      /\ audio_rx_generation \in Nat
  BY <1>1, <1>2 DEF DisableEndpoint, ReceiverOff, Receiver, PathTypes
<1>6. PathTypes' /\ Receiver'
  <2>1. audio_rx_generation' \in Nat
    BY <1>5
  <2>2. audio_rx_enabled' \in BOOLEAN
    BY <1>5
  <2>3. host' \in Hosts /\ host'.stream <= host'.requests
        /\ (host'.asking = "interface" => host'.stream < host'.requests)
    BY <1>1 DEF PathTypes
  <2>4. PathTypes'
    BY <1>1, <1>2, <1>3, <2>1, <2>2, <2>3 DEF PathTypes
  <2> QED
    BY <1>1, <1>5, <2>4 DEF Receiver
<1>7. host.asking \in {"interface", "reset"}
  BY <1>1, <1>2 DEF Asked, IsRequest
<1>8. Asked'
  <2>1. CASE host.asking = "interface"
    BY <1>1, <2>1, NoneLeft, AskedNothing
  <2>2. CASE host.asking = "reset"
    <3>1. ASSUME NEW i \in DOMAIN queue', queue'[i].kind # "audio",
                 queue'[i].kind # "reset"
          PROVE  \E j \in DOMAIN queue' : i < j /\ queue'[j].kind = "reset"
      <4>1. IsRequest(i + 1) /\ queue[i + 1].kind # "reset"
        BY <1>2, <3>1 DEF IsRequest
      <4>2. PICK j \in DOMAIN queue : i + 1 < j /\ queue[j].kind = "reset"
        BY <1>1, <1>2, <2>2, <4>1 DEF Asked
      <4>3. j \in Int
        BY <1>1 DEF PathTypes
      <4>4. j # 1 /\ i < j - 1
        BY <1>2, <4>2, <4>3
      <4>5. j - 1 \in DOMAIN queue' /\ queue'[j - 1].kind = "reset"
        BY <1>2, <4>2, <4>4
      <4> QED
        BY <4>4, <4>5
    <3> QED
      BY <1>1, <2>2, <3>1 DEF Asked, IsRequest
  <2> QED
    BY <1>7, <2>1, <2>2
<1>9. Fresh'
  <2>1. \A i \in DOMAIN queue' : queue'[i].kind = "audio" =>
          queue'[i].generation \in Nat /\ queue'[i].generation <= audio_rx_generation
    BY <1>1, NoLater
  <2> QED
    BY <1>5, <2>1 DEF Fresh
<1> QED
  BY <1>1, <1>4, <1>6, <1>8, <1>9 DEF IInv, NoStaleAudio

\* SET_INTERFACE, second step.
LEMMA EnableEndpointStep == ASSUME IInv, EnableEndpoint PROVE IInv'
<1>1. /\ PathTypes /\ Asked /\ Fresh /\ Receiver
      /\ UNCHANGED <<streamVars, queue, target, host>> /\ pc = "disabled" /\ pc' = "enabled"
      /\ ~audio_rx_enabled
  BY DEF EnableEndpoint, IInv, Receiver
<1>2. StreamInv' /\ Held' = Held /\ state' = state /\ alt' = alt
  BY <1>1, StreamStutter DEF IInv, streamVars
<1>3. \/ /\ target # 0 /\ audio_rx_enabled' = TRUE
         /\ audio_rx_generation' = audio_rx_generation + 1
      \/ target = 0 /\ UNCHANGED <<audio_rx_enabled, audio_rx_generation>>
  BY DEF EnableEndpoint, ReceiverOn
<1>4. PathTypes'
  <2>1. audio_rx_generation' \in Nat
    BY <1>1, <1>3 DEF PathTypes
  <2>2. audio_rx_enabled' \in BOOLEAN
    BY <1>1, <1>3 DEF PathTypes
  <2> QED
    BY <1>1, <2>1, <2>2 DEF PathTypes
<1>5. Receiver'
  BY <1>1, <1>3 DEF Receiver
<1>6. Asked'
  BY <1>1 DEF Asked, IsRequest
<1>7. Fresh'
  <2>1. \A i \in DOMAIN queue : queue[i].kind = "audio" =>
          queue[i].generation \in Nat /\ queue[i].generation <= audio_rx_generation
    BY <1>1, EventFields DEF Fresh, PathTypes
  <2>2. CASE audio_rx_generation' = audio_rx_generation + 1
    BY <1>1, <2>1, <2>2, NoneCurrent
  <2>3. CASE UNCHANGED <<audio_rx_enabled, audio_rx_generation>>
    BY <1>1, <2>3 DEF Fresh
  <2> QED
    BY <1>3, <2>2, <2>3
<1> QED
  BY <1>1, <1>2, <1>4, <1>5, <1>6, <1>7 DEF IInv, NoStaleAudio

\* SET_INTERFACE, last step: the host and the stream turn to the new setting, and
\* there is no packet in the queue that would be accepted.
LEMMA ApplyInterfaceStep == ASSUME IInv, ApplyInterface PROVE IInv'
<1>1. /\ PathTypes /\ Asked /\ Fresh /\ Receiver /\ target \in Alts /\ host \in Hosts
      /\ UNCHANGED <<queue, target, audio_rx_enabled, audio_rx_generation>>
      /\ pc = "enabled" /\ pc' = "loop" /\ SetInterface(target)
  BY DEF ApplyInterface, IInv, PathTypes
<1>2. PICK a \in Alts : a = target
  BY <1>1
<1>3. /\ StreamInv' /\ alt' = target
      /\ state' # "STOPPED" => Held' = {}
  BY <1>1, <1>2, SetInterfaceStep DEF IInv
<1>4. rate' \in AllRates
  BY <1>3 DEF StreamInv, StreamTypes
<1>5. \/ /\ host.asking = "interface"
         /\ host' = [alt |-> target, rate |-> rate', stream |-> host.stream + 1,
                     asking |-> "nothing", requests |-> host.requests]
      \/ host.asking = "reset" /\ host' = host
  <2>1. host.asking \in {"interface", "reset"}
    BY <1>1 DEF Asked
  <2>2. CASE host.asking = "interface"
    <3>1. PICK n, r : n = host.stream + 1 /\ r = rate'
      OBVIOUS
    <3>2. host' = [[host EXCEPT !.alt = a, !.stream = n, !.rate = r]
                     EXCEPT !.asking = "nothing"]
      BY <1>2, <2>2, <3>1 DEF ApplyInterface, Answer
    <3>3. host' = [alt |-> a, rate |-> r, stream |-> n, asking |-> "nothing",
                   requests |-> host.requests]
      BY <1>1, <3>2 DEF Hosts
    <3> QED
      BY <1>2, <2>2, <3>1, <3>3
  <2>3. CASE host.asking = "reset"
    BY <2>3 DEF ApplyInterface, Answer
  <2> QED
    BY <2>1, <2>2, <2>3
<1>6. PathTypes'
  <2>1. CASE host' = host
    BY <1>1, <2>1 DEF PathTypes
  <2>2. CASE host.asking = "interface"
    <3>1. /\ host.stream \in Nat /\ host.requests \in 0 .. MaxRequests
          /\ MaxRequests \in Nat /\ host.stream < host.requests
      BY <1>1, <2>2, RequestsAssumption DEF PathTypes, Hosts
    <3>2. host' = [alt |-> target, rate |-> rate', stream |-> host.stream + 1,
                   asking |-> "nothing", requests |-> host.requests]
      BY <1>5, <2>2
    <3>3. host' \in Hosts
      BY <1>1, <1>4, <3>1, <3>2 DEF Hosts
    <3>4. host'.stream <= host'.requests /\ host'.asking # "interface"
      BY <3>1, <3>2
    <3> QED
      BY <1>1, <3>3, <3>4 DEF PathTypes
  <2> QED
    BY <1>5, <2>1, <2>2
<1>7. Receiver'
  BY <1>1, <1>3 DEF Receiver
<1>8. Asked'
  <2>1. CASE host.asking = "interface"
    <3>1. \A i \in DOMAIN queue' : queue'[i].kind = "audio"
      BY <1>1, <2>1 DEF Asked, IsRequest
    <3>2. host'.asking = "nothing"
      BY <1>5, <2>1
    <3> QED
      BY <1>1, <3>1, <3>2, AskedNothing
  <2>2. CASE host.asking = "reset" /\ host' = host
    BY <1>1, <2>2 DEF Asked, IsRequest
  <2> QED
    BY <1>5, <2>1, <2>2
<1>9. Fresh'
  BY <1>1 DEF Fresh, Current
<1> QED
  BY <1>3, <1>6, <1>7, <1>8, <1>9 DEF IInv, NoStaleAudio

\* Where the receiver is turned off and the stream closed, nothing can be stale.
LEMMA CloseStep ==
  ASSUME IInv, NEW kind, Takes(kind), ReceiverOff, SetInterface(0), UNCHANGED pc,
         host' \in Hosts, host'.stream = host.stream, host'.requests = host.requests,
         host'.asking \in {"nothing", host.asking}, target' = target, Asked'
  PROVE  IInv'
<1>1. /\ PathTypes /\ Asked /\ Fresh /\ 0 \in Alts
      /\ audio_rx_enabled' = FALSE
      /\ audio_rx_generation' = audio_rx_generation + 1
      /\ audio_rx_generation \in Nat
  BY AltsAssumption DEF IInv, PathTypes, ReceiverOff
<1>2. /\ StreamInv' /\ alt' = 0 /\ (state' # "STOPPED" => Held' = {})
  BY <1>1, SetInterfaceStep DEF IInv
<1>3. pc = "loop" /\ queue' \in Seq(Events) /\ Len(queue') <= USB_QUEUE_LENGTH
  BY <1>1, Taken
<1>4. PathTypes'
  <2>1. audio_rx_generation' \in Nat
    BY <1>1
  <2>2. /\ host'.stream <= host'.requests
        /\ host'.asking = "interface" => host'.stream < host'.requests
    BY <1>1 DEF PathTypes
  <2> QED
    BY <1>1, <1>3, <2>1, <2>2 DEF PathTypes
<1>5. Receiver'
  BY <1>1, <1>2, <1>3 DEF Receiver
<1>6. Fresh'
  BY <1>1, NoLater, NoneCurrent
<1> QED
  BY <1>2, <1>4, <1>5, <1>6 DEF IInv, NoStaleAudio

\* SET_CONFIGURATION closes the stream.
LEMMA HandleConfigurationStep == ASSUME IInv, HandleConfiguration PROVE IInv'
<1>1. /\ Takes("configuration") /\ ReceiverOff /\ SetInterface(0)
      /\ UNCHANGED <<pc, target>> /\ PathTypes /\ Asked /\ host \in Hosts
  BY DEF HandleConfiguration, IInv, PathTypes
<1>2. pc = "loop" /\ 1 \in DOMAIN queue /\ queue[1].kind = "configuration"
  BY <1>1, Taken
<1>3. \/ /\ host.asking = "configuration"
         /\ host' = [alt |-> 0, rate |-> host.rate, stream |-> host.stream,
                     asking |-> "nothing", requests |-> host.requests]
      \/ host.asking = "reset" /\ host' = host
  <2>1. host.asking \in {"configuration", "reset"}
    BY <1>1, <1>2 DEF Asked, IsRequest
  <2>2. CASE host.asking = "configuration"
    BY <1>1, <2>2 DEF HandleConfiguration, Answer, Hosts
  <2>3. CASE host.asking = "reset"
    BY <2>3 DEF HandleConfiguration, Answer
  <2> QED
    BY <2>1, <2>2, <2>3
<1>4. /\ host' \in Hosts /\ host'.stream = host.stream /\ host'.requests = host.requests
      /\ host'.asking \in {"nothing", host.asking}
  BY <1>1, <1>3, AltsAssumption DEF Hosts
<1>5. Asked'
  <2>1. CASE host.asking = "configuration"
    BY <1>1, <1>2, <1>3, <2>1, NoneLeft, AskedNothing
  <2>2. CASE host.asking = "reset" /\ host' = host
    BY <1>1, <2>2, AskedKept
  <2> QED
    BY <1>3, <2>1, <2>2
<1> QED
  BY <1>1, <1>4, <1>5, CloseStep

\* So does a bus reset.
LEMMA HandleResetStep == ASSUME IInv, HandleReset PROVE IInv'
<1>1. /\ Takes("reset") /\ ReceiverOff /\ SetInterface(0)
      /\ UNCHANGED <<pc, target>> /\ PathTypes /\ Asked /\ host \in Hosts
  BY DEF HandleReset, IInv, PathTypes
<1>2. pc = "loop" /\ 1 \in DOMAIN queue /\ queue[1].kind = "reset"
  BY <1>1, Taken
<1>3. host.asking = "reset" /\ host.alt = 0
  BY <1>1, <1>2 DEF Asked, IsRequest
<1>4. \/ /\ \E i \in DOMAIN queue' : queue'[i].kind = "reset"
         /\ host' = host
      \/ /\ ~ \E i \in DOMAIN queue' : queue'[i].kind = "reset"
         /\ host' = [alt |-> host.alt, rate |-> host.rate, stream |-> host.stream,
                     asking |-> "nothing", requests |-> host.requests]
  BY <1>1, <1>3 DEF HandleReset, Answer, Hosts
<1>5. /\ host' \in Hosts /\ host'.stream = host.stream /\ host'.requests = host.requests
      /\ host'.asking \in {"nothing", host.asking}
  BY <1>1, <1>4 DEF Hosts
<1>6. Asked'
  <2>1. CASE \E i \in DOMAIN queue' : queue'[i].kind = "reset"
    BY <1>1, <1>3, <1>4, <2>1, AskedKept
  <2>2. CASE ~ \E i \in DOMAIN queue' : queue'[i].kind = "reset"
    <3>1. \A i \in DOMAIN queue' : queue'[i].kind = "audio"
      BY <1>1, <2>2, NoneLeft
    <3>2. host'.asking = "nothing"
      BY <1>4, <2>2
    <3> QED
      BY <1>1, <1>2, <3>1, <3>2, AskedNothing
  <2> QED
    BY <2>1, <2>2
<1> QED
  BY <1>1, <1>5, <1>6, CloseStep

\* A change of the rate empties the stream and leaves the receiver alone.
LEMMA HandleRateStep ==
  ASSUME IInv, HandleRate
  PROVE  IInv' /\ \E r \in Rates : SetSamplingFreq(r)
<1>1. /\ Takes("rate") /\ PathTypes /\ Asked /\ Fresh /\ Receiver /\ host \in Hosts
      /\ UNCHANGED <<audio_rx_enabled, audio_rx_generation, pc, target>>
  BY DEF HandleRate, IInv, PathTypes
<1>2. /\ pc = "loop" /\ 1 \in DOMAIN queue /\ queue[1].kind = "rate"
      /\ queue[1] \in Events /\ Head(queue) = queue[1]
      /\ queue' \in Seq(Events) /\ Len(queue') <= USB_QUEUE_LENGTH
      /\ \A i \in DOMAIN queue' : i + 1 \in DOMAIN queue /\ queue'[i] = queue[i + 1]
  BY <1>1, Taken
<1>3. PICK r \in Rates : r = queue[1].value
  BY <1>2, EventFields
<1>4. SetSamplingFreq(r)
  BY <1>2, <1>3 DEF HandleRate
<1>5. /\ StreamInv' /\ alt' = alt /\ rate' = r
      /\ state' # "STOPPED" => Held' = {}
  BY <1>4, SetRateStep DEF IInv
<1>6. r \in AllRates
  BY RateTypes
<1>7. \/ /\ host.asking = "rate"
         /\ host' = [alt |-> host.alt, rate |-> r, stream |-> host.stream,
                     asking |-> "nothing", requests |-> host.requests]
      \/ host.asking = "reset" /\ host' = host
  <2>1. host.asking \in {"rate", "reset"}
    BY <1>1, <1>2 DEF Asked, IsRequest
  <2>2. CASE host.asking = "rate"
    <3>1. host' = [[host EXCEPT !.rate = r] EXCEPT !.asking = "nothing"]
      BY <1>5, <2>2 DEF HandleRate, Answer
    <3> QED
      BY <1>1, <2>2, <3>1 DEF Hosts
  <2>3. CASE host.asking = "reset"
    BY <2>3 DEF HandleRate, Answer
  <2> QED
    BY <2>1, <2>2, <2>3
<1>8. /\ host' \in Hosts /\ host'.stream = host.stream /\ host'.requests = host.requests
      /\ host'.asking \in {"nothing", host.asking} /\ host'.alt = host.alt
  BY <1>1, <1>6, <1>7 DEF Hosts
<1>9. PathTypes'
  <2>1. /\ host'.stream <= host'.requests
        /\ host'.asking = "interface" => host'.stream < host'.requests
    BY <1>1, <1>8 DEF PathTypes
  <2> QED
    BY <1>1, <1>2, <1>8, <2>1 DEF PathTypes
<1>10. Receiver' /\ Fresh'
  BY <1>1, <1>2, <1>5, <1>8 DEF Receiver, Fresh, Current
<1>11. Asked'
  <2>1. CASE host.asking = "rate"
    BY <1>1, <1>2, <1>7, <2>1, NoneLeft, AskedNothing
  <2>2. CASE host.asking = "reset" /\ host' = host
    BY <1>1, <2>2, AskedKept
  <2> QED
    BY <1>7, <2>1, <2>2
<1> QED
  BY <1>4, <1>5, <1>9, <1>10, <1>11 DEF IInv, NoStaleAudio

\* Playing and emitting take from what is held.
LEMMA PlayStep ==
  ASSUME IInv, Play \/ Emit
  PROVE  /\ IInv' /\ UNCHANGED <<rate, usbVars, host>>
         /\ output'.rate = output.rate /\ Held' \subseteq Held
         /\ state' = "STOPPED" <=> state = "STOPPED"
<1>1. UNCHANGED <<queue, audio_rx_enabled, audio_rx_generation, pc, target, host, usbVars>>
  BY DEF Play, Emit, usbVars
<1>2. /\ StreamInv' /\ UNCHANGED <<alt, rate>> /\ output'.rate = output.rate
      /\ Held' \subseteq Held
      /\ state' = "STOPPED" <=> state = "STOPPED"
  <2>1. CASE Play
    BY <2>1, TaskStep DEF Play, IInv
  <2>2. CASE Emit
    BY <2>2, FinishStep DEF Emit, IInv
  <2> QED
    BY <2>1, <2>2
<1>3. PathTypes'
  BY <1>1 DEF IInv, PathTypes
<1>4. Receiver'
  BY <1>1, <1>2 DEF IInv, Receiver
<1>5. Asked' /\ Fresh'
  BY <1>1 DEF IInv, Asked, Fresh, IsRequest, Current
<1>6. NoStaleAudio'
  BY <1>1, <1>2 DEF IInv, NoStaleAudio
<1> QED
  BY <1>1, <1>2, <1>3, <1>4, <1>5, <1>6 DEF IInv

\* Every step keeps the invariant.
LEMMA NextInv == ASSUME IInv, [Next]_vars PROVE IInv'
<1>1. CASE SendPacket
  BY <1>1, SendPacketStep
<1>2. CASE HostAsks
  BY <1>2, HostAsksStep
<1>3. CASE HandleAudio
  BY <1>3, HandleAudioStep
<1>4. CASE DisableEndpoint
  BY <1>4, DisableEndpointStep
<1>5. CASE EnableEndpoint
  BY <1>5, EnableEndpointStep
<1>6. CASE ApplyInterface
  BY <1>6, ApplyInterfaceStep
<1>7. CASE HandleConfiguration
  BY <1>7, HandleConfigurationStep
<1>8. CASE HandleRate
  BY <1>8, HandleRateStep
<1>9. CASE HandleReset
  BY <1>9, HandleResetStep
<1>10. CASE Play \/ Emit
  BY <1>10, PlayStep
<1>11. CASE UNCHANGED vars
  <2>1. UNCHANGED <<streamVars, queue, audio_rx_enabled, audio_rx_generation, pc, target,
                    host>>
    BY <1>11 DEF vars, usbVars
  <2>2. StreamInv' /\ Held' = Held /\ state' = state /\ alt' = alt
    BY <2>1, StreamStutter DEF IInv, streamVars
  <2>3. PathTypes' /\ Receiver'
    BY <2>1, <2>2 DEF IInv, PathTypes, Receiver
  <2>4. Asked' /\ Fresh'
    BY <2>1 DEF IInv, Asked, Fresh, IsRequest, Current
  <2> QED
    BY <2>1, <2>2, <2>3, <2>4 DEF IInv, NoStaleAudio
<1> QED
  BY <1>1, <1>2, <1>3, <1>4, <1>5, <1>6, <1>7, <1>8, <1>9, <1>10, <1>11
    DEF Next, HandleEvent

\* The invariant holds in every reachable state.
LEMMA Invariance == Spec => []IInv
<1>1. Init => IInv
  BY InitInv
<1>2. IInv /\ [Next]_vars => IInv'
  BY NextInv
<1> QED
  BY <1>1, <1>2, PTL DEF Spec

-------------------------------------------------------------------------------
(* The rate, for a host that sends nothing while it changes it *)

\* No packet follows a request for another rate, and what would be accepted was sent
\* for the rate of the stream.
LEMMA RateStep ==
  ASSUME PausesForRate, IInv, RateInv, [Next]_vars PROVE RateInv'
<1> DEFINE KnowsRate == host.alt # 0 => host.rate = rate
           RateLast == \A i, j \in DOMAIN queue :
                         queue[i].kind = "rate" /\ queue[j].kind = "audio" => j < i
           FreshRate == audio_rx_enabled =>
                          \A i \in DOMAIN queue : Current(i) => queue[i].packet.rate = rate
<1>1. KnowsRate /\ RateLast /\ FreshRate /\ NoOldRate
  BY DEF RateInv
<1>2. SUFFICES KnowsRate' /\ RateLast' /\ FreshRate' /\ NoOldRate'
  BY DEF RateInv
<1>3. /\ StreamInv /\ PathTypes /\ Receiver /\ Asked /\ Fresh
      /\ StreamInv' /\ PathTypes' /\ Receiver' /\ Asked' /\ Fresh'
  BY NextInv DEF IInv
\* What is taken leaves the order as it is.
<1>4. ASSUME NEW kind, Takes(kind) PROVE RateLast'
  <2>1. \A i \in DOMAIN queue' : /\ i \in Nat \ {0} /\ i + 1 \in DOMAIN queue
                                 /\ queue'[i] = queue[i + 1]
    BY <1>3, <1>4, Taken
  <2>2. ASSUME NEW i \in DOMAIN queue', NEW j \in DOMAIN queue',
               queue'[i].kind = "rate", queue'[j].kind = "audio"
        PROVE  j < i
    <3>1. j + 1 < i + 1
      BY <1>1, <2>1, <2>2
    <3> QED
      BY <2>1, <3>1
  <2> QED
    BY <2>2
\* Where the receiver is off afterwards and the stream is closed, nothing is left to say.
<1>5. ASSUME ReceiverOff, SetInterface(0), NEW kind, Takes(kind),
             host'.alt = 0
      PROVE  KnowsRate' /\ RateLast' /\ FreshRate' /\ NoOldRate'
  <2>1. audio_rx_enabled' = FALSE
    BY <1>5 DEF ReceiverOff
  <2>2. state' # "STOPPED" => Held' = {}
    BY <1>3, <1>5, AltsAssumption, SetInterfaceStep
  <2> QED
    BY <1>4, <1>5, <2>1, <2>2 DEF NoOldRate
<1>6. CASE SendPacket
  <2>1. /\ UNCHANGED <<streamVars, audio_rx_enabled, audio_rx_generation, pc, target, host>>
        /\ host.alt # 0 /\ host.asking # "rate"
        /\ audio_rx_enabled
    BY <1>6 DEF SendPacket, Sending, CanCapture
  <2>2. PICK e : /\ e = AudioEvent([stream |-> host.stream, rate |-> host.rate])
                 /\ queue' = Append(queue, e)
    BY <1>6 DEF SendPacket
  <2>3. e.kind = "audio" /\ e.packet.rate = host.rate
    BY <2>2 DEF AudioEvent
  <2>4. queue \in Seq(Events) /\ queue' = Append(queue, e)
    BY <1>3, <2>2 DEF PathTypes
  <2>5. /\ \A i \in DOMAIN queue : i \in DOMAIN queue' /\ queue'[i] = queue[i]
        /\ \A i \in DOMAIN queue' :
             i \in DOMAIN queue \/ (i = Len(queue) + 1 /\ queue'[i] = e)
    BY <2>4
  <2>6. \A i \in DOMAIN queue : queue[i].kind # "rate"
    BY <1>3, <2>1 DEF Asked, IsRequest
  <2>7. \A i \in DOMAIN queue' : queue'[i].kind # "rate"
    BY <2>3, <2>5, <2>6
  <2>8. rate' = rate /\ host' = host
    BY <2>1 DEF streamVars
  <2>9. FreshRate'
    BY <1>1, <2>1, <2>3, <2>5, <2>8 DEF Current
  <2>10. NoOldRate'
    <3>1. Held' = Held /\ state' = state /\ output' = output
      BY <1>3, <2>1, StreamStutter DEF streamVars
    <3> QED
      BY <1>1, <3>1 DEF NoOldRate
  <2> QED
    BY <1>1, <2>7, <2>8, <2>9, <2>10
<1>7. CASE HostAsks
  <2>1. UNCHANGED <<streamVars, audio_rx_enabled, audio_rx_generation>>
    BY <1>7 DEF HostAsks, Ask, BusReset
  <2>2. \E kind \in {"interface", "rate", "configuration", "reset"} : \E value :
          queue' = Append(queue, Request(kind, value))
    BY <1>7 DEF HostAsks, Ask, BusReset
  <2>3. PICK e : queue' = Append(queue, e) /\ e.kind # "audio"
    <3>1. PICK kind \in {"interface", "rate", "configuration", "reset"} :
            \E value : queue' = Append(queue, Request(kind, value))
      BY <2>2
    <3>2. PICK value : queue' = Append(queue, Request(kind, value))
      BY <3>1
    <3>3. Request(kind, value).kind # "audio"
      BY DEF Request
    <3> QED
      BY <3>2, <3>3
  <2>4. queue \in Seq(Events)
    BY <1>3 DEF PathTypes
  <2>5. /\ \A i \in DOMAIN queue : i \in Nat /\ i < Len(queue) + 1
        /\ \A i \in DOMAIN queue' :
             \/ i \in DOMAIN queue /\ queue'[i] = queue[i]
             \/ i = Len(queue) + 1 /\ queue'[i] = e
    BY <2>3, <2>4
  <2>6. RateLast'
    BY <1>1, <2>3, <2>5
  <2>7. rate' = rate
    BY <2>1 DEF streamVars
  <2>8. KnowsRate'
    <3>1. host \in Hosts
      BY <1>3 DEF PathTypes
    <3>2. host'.alt = 0 \/ (host'.alt = host.alt /\ host'.rate = host.rate)
      BY <1>7, <3>1 DEF HostAsks, Ask, BusReset, Hosts
    <3> QED
      BY <1>1, <2>7, <3>2
  <2>9. FreshRate'
    BY <1>1, <2>1, <2>3, <2>5, <2>7 DEF Current
  <2>10. NoOldRate'
    <3>1. Held' = Held /\ state' = state /\ output' = output
      BY <1>3, <2>1, StreamStutter DEF streamVars
    <3> QED
      BY <1>1, <3>1 DEF NoOldRate
  <2> QED
    BY <2>6, <2>8, <2>9, <2>10
<1>8. CASE HandleAudio
  <2>1. /\ Takes("audio") /\ UNCHANGED <<audio_rx_enabled, audio_rx_generation, host>>
    BY <1>8 DEF HandleAudio
  <2>2. /\ Head(queue) = queue[1] /\ 1 \in DOMAIN queue
        /\ queue[1] \in Events /\ queue[1].kind = "audio"
        /\ \A i \in DOMAIN queue' : i + 1 \in DOMAIN queue /\ queue'[i] = queue[i + 1]
    BY <1>3, <2>1, Taken
  <2>3. rate' = rate /\ NoOldRate'
    <3>1. CASE ~IsCurrent(Head(queue))
      <4>1. UNCHANGED streamVars
        BY <1>8, <3>1 DEF HandleAudio
      <4>2. Held' = Held /\ state' = state /\ output' = output /\ rate' = rate
        BY <1>3, <4>1, StreamStutter DEF streamVars
      <4> QED
        BY <1>1, <4>2 DEF NoOldRate
    <3>2. CASE IsCurrent(Head(queue))
      <4>1. PICK p \in Packets : p = queue[1].packet
        BY <2>2, EventFields
      <4>2. OnUsbRx(p)
        BY <1>8, <2>2, <3>2, <4>1 DEF HandleAudio
      <4>3. p.rate = rate
        BY <1>1, <2>2, <3>2, <4>1 DEF IsCurrent, Current
      <4>4. UNCHANGED <<state, rate, output>> /\ Held' \subseteq Held \cup {p}
        BY <1>3, <4>2, RxStep
      <4>5. state # "STOPPED" => output.rate = rate
        BY <1>3 DEF StreamInv, Consistent
      <4> QED
        BY <1>1, <4>3, <4>4, <4>5 DEF NoOldRate
    <3> QED
      BY <3>1, <3>2
  <2>4. FreshRate'
    BY <1>1, <2>1, <2>2, <2>3 DEF Current
  <2> QED
    BY <1>1, <1>4, <2>1, <2>3, <2>4
<1>9. CASE DisableEndpoint
  <2>1. /\ Takes("interface") /\ UNCHANGED <<streamVars, host>> /\ pc' = "disabled"
    BY <1>9 DEF DisableEndpoint
  <2>2. Held' = Held /\ state' = state /\ output' = output /\ rate' = rate
    BY <1>3, <2>1, StreamStutter DEF streamVars
  <2>3. ~audio_rx_enabled'
    BY <1>3, <2>1 DEF Receiver
  <2> QED
    BY <1>1, <1>4, <2>1, <2>2, <2>3 DEF NoOldRate
<1>10. CASE EnableEndpoint
  <2>1. UNCHANGED <<streamVars, queue, host>> /\ pc' = "enabled"
    BY <1>10 DEF EnableEndpoint
  <2>2. Held' = Held /\ state' = state /\ output' = output /\ rate' = rate
    BY <1>3, <2>1, StreamStutter DEF streamVars
  <2>3. FreshRate'
    BY <1>3, <2>1 DEF Fresh
  <2> QED
    BY <1>1, <2>1, <2>2, <2>3 DEF NoOldRate
<1>11. CASE ApplyInterface
  <2>1. /\ SetInterface(target) /\ target \in Alts /\ pc = "enabled"
        /\ UNCHANGED <<queue, audio_rx_enabled, audio_rx_generation>>
    BY <1>3, <1>11 DEF ApplyInterface, PathTypes
  <2>2. PICK a \in Alts : a = target
    BY <2>1
  <2>3. state' # "STOPPED" => Held' = {}
    BY <1>3, <2>1, <2>2, SetInterfaceStep
  <2>4. FreshRate'
    BY <1>3, <2>1 DEF Fresh, Current
  <2>5. KnowsRate'
    <3>1. PICK n, r : n = host.stream + 1 /\ r = rate'
      OBVIOUS
    <3>2. CASE host.asking = "interface"
      <4>1. host' = [[host EXCEPT !.alt = a, !.stream = n, !.rate = r]
                       EXCEPT !.asking = "nothing"]
        BY <1>11, <2>2, <3>1, <3>2 DEF ApplyInterface, Answer
      <4>2. host \in Hosts
        BY <1>3 DEF PathTypes
      <4> QED
        BY <3>1, <4>1, <4>2 DEF Hosts
    <3>3. CASE host.asking # "interface"
      <4>1. host.asking = "reset" /\ host.alt = 0
        BY <1>3, <2>1, <3>3 DEF Asked
      <4>2. host' = host
        BY <1>11, <3>3 DEF ApplyInterface, Answer
      <4> QED
        BY <4>1, <4>2
    <3> QED
      BY <3>2, <3>3
  <2> QED
    BY <1>1, <2>1, <2>3, <2>4, <2>5 DEF NoOldRate
<1>12. CASE HandleConfiguration
  <2>1. /\ Takes("configuration") /\ ReceiverOff /\ SetInterface(0) /\ host \in Hosts
    BY <1>3, <1>12 DEF HandleConfiguration, PathTypes
  <2>2. 1 \in DOMAIN queue /\ queue[1].kind = "configuration"
    BY <1>3, <2>1, Taken
  <2>3. host.asking = "configuration" \/ (host.asking = "reset" /\ host.alt = 0)
    BY <1>3, <2>2 DEF Asked, IsRequest
  <2>4. host'.alt = 0
    BY <1>12, <2>1, <2>3 DEF HandleConfiguration, Answer, Hosts
  <2> QED
    BY <1>5, <2>1, <2>4
<1>13. CASE HandleReset
  <2>1. /\ Takes("reset") /\ ReceiverOff /\ SetInterface(0) /\ host \in Hosts
    BY <1>3, <1>13 DEF HandleReset, PathTypes
  <2>2. 1 \in DOMAIN queue /\ queue[1].kind = "reset"
    BY <1>3, <2>1, Taken
  <2>3. host.alt = 0
    BY <1>3, <2>2 DEF Asked, IsRequest
  <2>4. host'.alt = 0
    BY <1>13, <2>1, <2>3 DEF HandleReset, Answer, Hosts
  <2> QED
    BY <1>5, <2>1, <2>4
<1>14. CASE HandleRate
  <2>1. /\ Takes("rate") /\ host \in Hosts
        /\ UNCHANGED <<audio_rx_enabled, audio_rx_generation>>
    BY <1>3, <1>14 DEF HandleRate, PathTypes
  <2>2. /\ 1 \in DOMAIN queue /\ queue[1].kind = "rate"
        /\ \A i \in DOMAIN queue' : /\ i \in Nat \ {0} /\ i + 1 \in DOMAIN queue
                                    /\ queue'[i] = queue[i + 1]
    BY <1>3, <2>1, Taken
  <2>3. PICK r \in Rates : SetSamplingFreq(r)
    BY <1>14, HandleRateStep
  <2>4. rate' = r /\ (state' # "STOPPED" => Held' = {})
    BY <1>3, <2>3, SetRateStep
  <2>5. \A i \in DOMAIN queue' : queue'[i].kind # "audio"
    <3>1. ASSUME NEW i \in DOMAIN queue', queue'[i].kind = "audio" PROVE FALSE
      <4>1. i + 1 < 1
        BY <1>1, <2>2, <3>1
      <4> QED
        BY <2>2, <4>1
    <3> QED
      BY <3>1
  <2>6. KnowsRate'
    <3>1. host.asking = "rate" \/ (host.asking = "reset" /\ host.alt = 0)
      BY <1>3, <2>2 DEF Asked, IsRequest
    <3>2. CASE host.asking = "rate"
      <4>1. host' = [[host EXCEPT !.rate = r] EXCEPT !.asking = "nothing"]
        BY <1>14, <2>4, <3>2 DEF HandleRate, Answer
      <4> QED
        BY <2>1, <2>4, <4>1 DEF Hosts
    <3>3. CASE host.asking = "reset" /\ host.alt = 0
      BY <1>14, <3>3 DEF HandleRate, Answer
    <3> QED
      BY <3>1, <3>2, <3>3
  <2> QED
    BY <1>4, <2>1, <2>4, <2>5, <2>6 DEF NoOldRate, Current
<1>15. CASE Play \/ Emit
  <2>1. /\ UNCHANGED <<rate, usbVars, host>> /\ output'.rate = output.rate
        /\ Held' \subseteq Held /\ (state' = "STOPPED" <=> state = "STOPPED")
    BY <1>15, PlayStep
  <2>2. UNCHANGED <<queue, audio_rx_enabled, audio_rx_generation>>
    BY <2>1 DEF usbVars
  <2> QED
    BY <1>1, <2>1, <2>2 DEF NoOldRate, Current
<1>16. CASE UNCHANGED vars
  <2>1. UNCHANGED <<streamVars, queue, audio_rx_enabled, audio_rx_generation, host>>
    BY <1>16 DEF vars, usbVars
  <2>2. Held' = Held /\ state' = state /\ output' = output /\ rate' = rate
    BY <1>3, <2>1, StreamStutter DEF streamVars
  <2> QED
    BY <1>1, <2>1, <2>2 DEF NoOldRate, Current
<1> QED
  BY <1>6, <1>7, <1>8, <1>9, <1>10, <1>11, <1>12, <1>13, <1>14, <1>15, <1>16
    DEF Next, HandleEvent

-------------------------------------------------------------------------------
(* The theorems *)

\* The variables keep their types, whatever the host asks and however often.
THEOREM TypeCorrect == Spec => []TypeOK
<1>1. IInv => TypeOK
  <2> SUFFICES ASSUME IInv PROVE TypeOK
    OBVIOUS
  <2>1. StreamTypes /\ PathTypes /\ Fresh
    BY DEF IInv, StreamInv
  <2>2. \A i \in DOMAIN queue :
          /\ queue[i].kind \in {"audio", "interface", "rate", "configuration", "reset"}
          /\ queue[i].kind = "audio" => /\ queue[i].packet \in Packets
                                        /\ queue[i].generation \in 0 .. audio_rx_generation
    <3> SUFFICES ASSUME NEW i \in DOMAIN queue
                 PROVE  /\ queue[i].kind \in {"audio", "interface", "rate",
                                              "configuration", "reset"}
                        /\ queue[i].kind = "audio" =>
                             /\ queue[i].packet \in Packets
                             /\ queue[i].generation \in 0 .. audio_rx_generation
      OBVIOUS
    <3>1. queue[i] \in Events
      BY <2>1 DEF PathTypes
    <3>2. queue[i].kind = "audio" => queue[i].generation <= audio_rx_generation
      BY <2>1 DEF Fresh
    <3> QED
      BY <2>1, <3>1, <3>2, EventFields DEF PathTypes
  <2>3. output.playing \subseteq Packets
    BY <2>1 DEF StreamTypes, Outputs
  <2> QED
    BY <2>1, <2>2, <2>3 DEF TypeOK, StreamTypes, PathTypes, AllRates
<1> QED
  BY <1>1, Invariance, PTL

\* The state machine, the interface, the unpacker, the ring and the back end are always
\* configured alike (SetInterface, SetSamplingFreq, audio_device_task).
THEOREM PartsAgree == Spec => []Consistent
<1>1. IInv => Consistent
  BY DEF IInv, StreamInv
<1> QED
  BY <1>1, Invariance, PTL

\* No packet from before a change of format, a stop or a bus reset is in the ring or in
\* the output afterwards, for any interleaving of captures, requests and handlers.
THEOREM OldPacketsDropped == Spec => []NoStaleAudio
<1>1. IInv => NoStaleAudio
  BY DEF IInv
<1> QED
  BY <1>1, Invariance, PTL

\* For a host that pauses while it changes the rate, all audio that is played is played
\* at the rate it was sent for.
THEOREM OldRatesDropped == ASSUME PausesForRate PROVE Spec => []NoOldRate
<1>1. Init => RateInv
  BY DEF Init, StreamInit, RateInv, NoOldRate
<1>2. IInv /\ RateInv /\ [Next]_vars => RateInv'
  BY RateStep
<1>3. RateInv => NoOldRate
  BY DEF RateInv
<1> QED
  BY <1>1, <1>2, <1>3, Invariance, PTL DEF Spec

\* Playback that started or resumed never stalls again before a block of audio was
\* submitted: the recovery level suffices for any output rate.
THEOREM AudioBeforeStall == Spec => NoFlapping
<1>1. ASSUME IInv, [Next]_vars
      PROVE  [state = "PLAYING" /\ state' = "STALLED" => fed]_streamVars
  <2> SUFFICES ASSUME state = "PLAYING", state' = "STALLED" PROVE fed
    OBVIOUS
  <2>1. StreamInv
    BY <1>1 DEF IInv
  <2>2. CASE Play
    BY <2>1, <2>2, TaskStep DEF Play
  <2>3. CASE ~Play
    <3>1. CASE UNCHANGED state
      BY <3>1
    <3>2. CASE \E a : SetInterface(a)
      BY <3>2 DEF SetInterface, StreamStop, StreamStart
    <3>3. CASE \E r : SetSamplingFreq(r)
      BY <3>3 DEF SetSamplingFreq, StreamStop, StreamStart
    <3> QED
      <4>1. CASE SendPacket \/ HostAsks \/ DisableEndpoint \/ EnableEndpoint
        BY <3>1, <4>1
          DEF SendPacket, HostAsks, Ask, BusReset, DisableEndpoint, EnableEndpoint, streamVars
      <4>2. CASE HandleAudio
        BY <3>1, <4>2 DEF HandleAudio, OnUsbRx, streamVars
      <4>3. CASE ApplyInterface \/ HandleConfiguration \/ HandleReset
        BY <3>2, <4>3 DEF ApplyInterface, HandleConfiguration, HandleReset
      <4>4. CASE HandleRate
        BY <3>3, <4>4 DEF HandleRate
      <4>5. CASE Emit \/ UNCHANGED vars
        BY <3>1, <4>5 DEF Emit, OutputFinish, vars, streamVars
      <4> QED
        BY <1>1, <2>3, <4>1, <4>2, <4>3, <4>4, <4>5 DEF Next, HandleEvent
  <2> QED
    BY <2>2, <2>3
<1> QED
  BY <1>1, Invariance, PTL DEF Spec, NoFlapping
===============================================================================
