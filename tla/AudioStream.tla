------------------------------ MODULE AudioStream ------------------------------
(***************************************************************************)
(* The audio stream of audio_device.c and the stream handlers of           *)
(* usb_audio.c: packets go through the ring buffer to the output back end, *)
(* under a state machine with water levels.  Everything here runs in the   *)
(* main loop, except OutputFinish.  AudioPath composes it with the USB     *)
(* side that calls it.                                                     *)
(*                                                                         *)
(* The ring is measured in milliseconds of audio: it is sized for 16 ms at *)
(* every rate, and a packet carries 1 ms.  (At 44.1 and 88.2 kHz packets   *)
(* and blocks are not whole milliseconds; these rates are left out.)       *)
(***************************************************************************)
EXTENDS Integers, Sequences

CONSTANTS
  Alts,          \* the alternate settings of the streaming interface in use
  Rates          \* the sampling rates a host may ask for, in kHz

AUDIO_ALT_AC3 == 4
AUDIO_ALT_EAC3 == 8
AUDIO_EAC3_RATE == 192

ASSUME AltsAssumption == 0 \in Alts /\ Alts \subseteq 0 .. AUDIO_ALT_EAC3
ASSUME RatesAssumption == Rates \subseteq {48, 96, 192} /\ 48 \in Rates

VARIABLES
  state,         \* g_current_state
  alt,           \* audio_stream_current_alt
  rate,          \* current_sample_rate
  format,        \* current_bit_depth and current_non_pcm
  g_format,      \* how packets are unpacked
  ring,          \* the packets in the ring buffer, oldest first
  ring_rate,     \* the rate the ring was sized for
  output,        \* the back end: its configuration and its two blocks
  fed            \* history: audio was submitted since playing began or resumed

streamVars == <<state, alt, rate, format, g_format, ring, ring_rate, output, fed>>

Capacity == 16            \* calc_buffer_size, in ms
SAFE_WATER_LEVEL == 50    \* percent
UNDERRUN_WATER_LEVEL == 16
\* Mutant: playback resumes at the level it stalls at.
RECOVERY_AT_UNDERRUN == 16

RECOVERY_WATER_LEVEL == 40

SPDIF_BLOCK_FRAMES == 192

\* ringbuffer_fill_ratio compared with a percentage.
FilledTo(percent) == percent * Capacity <= 100 * Len(ring)

\* How many ms of audio one output block takes.
BlockMs == SPDIF_BLOCK_FRAMES \div output.rate

FormatOf(a) == [bits |-> CASE a = 2 -> 24 [] a = 3 -> 32 [] OTHER -> 16,
                non_pcm |-> a >= AUDIO_ALT_AC3]

\* A block is the set of packets whose audio it carries.
Silence == {}

Configured(f, r) == [running |-> FALSE, rate |-> r, format |-> f,
                     playing |-> Silence, queued |-> <<>>]

StreamInit == /\ state = "STOPPED"
              /\ alt = 0
              /\ rate = 48
              /\ format = FormatOf(1)
              /\ g_format = 16
              /\ ring = <<>>
              /\ ring_rate = 48
              /\ output = Configured(FormatOf(1), 48)
              /\ fed = FALSE

-------------------------------------------------------------------------------
(* Starting and stopping, called by the USB handlers *)

\* audio_device_stream_stop: the ring keeps its contents.
StreamStop == /\ state' = "STOPPED"
              /\ output' = [output EXCEPT !.running = FALSE, !.playing = Silence,
                                          !.queued = <<>>]
              /\ UNCHANGED <<format, ring, ring_rate>>

\* audio_device_stream_start: the back end is set up anew for the format, the
\* ring is resized and, because a resize to the same size does nothing, cleared.
StreamStart(f, r) == /\ format' = f
                     /\ output' = Configured(f, r)
                     /\ ring' = <<>>
                     /\ ring_rate' = r
                     /\ state' = "BUFFERING"

\* Mutant: the carrier rate is set after the stream was started.
SetInterfaceRateLast(a) ==
  /\ alt' = a
  /\ rate' = IF a = AUDIO_ALT_EAC3 THEN AUDIO_EAC3_RATE ELSE rate
  /\ IF a = 0 THEN StreamStop ELSE StreamStart(FormatOf(a), rate)
  /\ g_format' = IF a = 0 THEN g_format ELSE FormatOf(a).bits
  /\ fed' = FALSE

\* usb_audio_stream_set_interface.  The E-AC-3 carrier forces its own rate.
SetInterface(a) ==
  /\ alt' = a
  /\ rate' = IF a = AUDIO_ALT_EAC3 THEN AUDIO_EAC3_RATE ELSE rate
  /\ IF a = 0 THEN StreamStop ELSE StreamStart(FormatOf(a), rate')
  /\ g_format' = IF a = 0 THEN g_format ELSE FormatOf(a).bits
  /\ fed' = FALSE

\* Mutant: the rate of an active stream changes without a restart.
SetSamplingFreqOnly(freq) ==
  rate' = freq /\ UNCHANGED <<state, alt, format, g_format, ring, ring_rate, output, fed>>

\* audio_device_set_sampling_freq: an active stream is restarted.
SetSamplingFreq(freq) ==
  /\ rate' = freq
  /\ IF state = "STOPPED" THEN StreamStop ELSE StreamStart(format, freq)
  /\ fed' = FALSE
  /\ UNCHANGED <<alt, g_format>>

\* Mutant: the ring grows beyond its size.
OnUsbRxUnbounded(packet) ==
  /\ ring' = IF alt # 0 THEN Append(ring, packet) ELSE ring
  /\ UNCHANGED <<state, alt, rate, format, g_format, ring_rate, output, fed>>

\* ep_audio_out_handler and audio_device_on_usb_rx: what does not fit is dropped.
\* (A packet that is too long or no whole number of frames is counted and dropped,
\* as one that arrives with the interface closed.)
OnUsbRx(packet) ==
  /\ ring' = IF alt # 0 /\ Len(ring) < Capacity THEN Append(ring, packet) ELSE ring
  /\ UNCHANGED <<state, alt, rate, format, g_format, ring_rate, output, fed>>

-------------------------------------------------------------------------------
(* audio_device_task *)

BufferReady == output.running /\ output.queued = <<>>

SubmitBlock(block) == output' = [output EXCEPT !.queued = <<block>>]

StartPlaying == /\ state = "BUFFERING"
                /\ FilledTo(SAFE_WATER_LEVEL)
                /\ output' = [output EXCEPT !.running = TRUE]
                /\ state' = "PLAYING"
                /\ fed' = FALSE
                /\ UNCHANGED ring

Resume == /\ state = "STALLED"
          /\ FilledTo(RECOVERY_WATER_LEVEL)
          /\ state' = "PLAYING"
          /\ fed' = FALSE
          /\ UNCHANGED <<ring, output>>

\* Mutant: what arrived while stalled is thrown away to catch up.
FeedSilenceAndDiscard ==
  /\ state = "STALLED"
  /\ ~FilledTo(RECOVERY_WATER_LEVEL)
  /\ BufferReady
  /\ SubmitBlock(Silence)
  /\ ring' = <<>>
  /\ UNCHANGED <<state, fed>>

FeedSilence == /\ state = "STALLED"
               /\ ~FilledTo(RECOVERY_WATER_LEVEL)
               /\ BufferReady
               /\ SubmitBlock(Silence)
               /\ UNCHANGED <<state, ring, fed>>

\* The ring is nearly empty, or holds less than a block.
Starved == \/ 100 * Len(ring) <= UNDERRUN_WATER_LEVEL * Capacity
           \/ Len(ring) < BlockMs

Underrun == /\ state = "PLAYING"
            /\ BufferReady
            /\ Starved
            /\ state' = "STALLED"
            /\ SubmitBlock(Silence)
            /\ UNCHANGED <<ring, fed>>

PlayBlock == /\ state = "PLAYING"
             /\ BufferReady
             /\ ~Starved
             /\ SubmitBlock({ring[i] : i \in 1 .. BlockMs})
             /\ ring' = SubSeq(ring, BlockMs + 1, Len(ring))
             /\ fed' = TRUE
             /\ UNCHANGED state

AudioTask == /\ \/ StartPlaying \/ Resume \/ FeedSilence \/ Underrun \/ PlayBlock
             /\ UNCHANGED <<alt, rate, format, g_format, ring_rate>>

\* The back end has emitted a block and goes on with the queued one, or with
\* silence (SpdifOutput shows what it takes to do so).
OutputFinish ==
  /\ output.running
  /\ output' = [output EXCEPT
       !.playing = IF output.queued = <<>> THEN Silence ELSE Head(output.queued),
       !.queued = <<>>]
  /\ UNCHANGED <<state, alt, rate, format, g_format, ring, ring_rate, fed>>

-------------------------------------------------------------------------------
(* Properties of the stream, whatever calls it *)

States == {"STOPPED", "BUFFERING", "PLAYING", "STALLED"}

\* The packets in the ring and in the output's blocks.
Held == {ring[i] : i \in DOMAIN ring} \cup output.playing
          \cup UNION {output.queued[i] : i \in DOMAIN output.queued}

\* The state machine, the interface, the unpacker, the ring and the back end agree:
\* the stream is open exactly while the interface is, the output runs exactly in the
\* two playing states, and everything is configured for the format of the current
\* alternate setting and for the current rate ("the same rate, the same depth").
Consistent ==
  /\ state = "STOPPED" <=> alt = 0
  /\ output.running <=> state \in {"PLAYING", "STALLED"}
  /\ state # "STOPPED" => /\ format = FormatOf(alt)
                          /\ g_format = format.bits
                          /\ output.format = format
                          /\ output.rate = rate
                          /\ ring_rate = rate

\* The recovery level leaves a hysteresis: playback that starts or resumes always
\* submits a block of audio before it stalls again, so the stream cannot toggle
\* between the two states while it emits nothing but silence.
NoFlapping == [][state = "PLAYING" /\ state' = "STALLED" => fed]_streamVars
===============================================================================
