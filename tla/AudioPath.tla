------------------------------- MODULE AudioPath -------------------------------
(***************************************************************************)
(* The way of a packet from the host to the output: the USB interrupt of   *)
(* usb.c copies it into the event queue with the generation of the         *)
(* receiver, the main loop takes it out and, if the generation still is    *)
(* the same, gives it to the stream.  Requests that open, close or change  *)
(* the stream travel in the same queue, and each side of such a change     *)
(* happens at its own moment: the host's, the endpoint's, the stream's.    *)
(*                                                                         *)
(* The host is the environment.  It has at most one request outstanding,   *)
(* and it sends packets while it has the stream open.  Its packets may     *)
(* still arrive after it asked for another alternate setting (they were    *)
(* scheduled), but none between the moment the endpoint is enabled for     *)
(* the new one and the answer.                                             *)
(***************************************************************************)
EXTENDS AudioStream

CONSTANTS
  USB_QUEUE_LENGTH,
  MaxRequests,           \* bound on the requests and bus resets of a behaviour
  PausesForRate          \* the host sends no packet while it changes the rate

ASSUME QueueAssumption == USB_QUEUE_LENGTH \in Nat /\ USB_QUEUE_LENGTH > 4
ASSUME RequestsAssumption == MaxRequests \in Nat
ASSUME PausesAssumption == PausesForRate \in BOOLEAN

VARIABLES
  queue,                 \* the events from the interrupt to the main loop
  audio_rx_enabled,
  audio_rx_generation,
  pc,                    \* where the main loop is in a SET_INTERFACE
  target,                \* the alternate setting it is changing to
  host                   \* what the host believes and is waiting for

usbVars == <<queue, audio_rx_enabled, audio_rx_generation, pc, target>>
vars == <<streamVars, usbVars, host>>

Init == /\ StreamInit
        /\ queue = <<>>
        /\ audio_rx_enabled = FALSE
        /\ audio_rx_generation = 0
        /\ pc = "loop"
        /\ target = 0
        /\ host = [alt |-> 0, rate |-> 48, stream |-> 0, asking |-> "nothing",
                   requests |-> 0]

-------------------------------------------------------------------------------
(* The host, and the interrupt that takes down what it does *)

AudioEvent(packet) == [kind |-> "audio", packet |-> packet,
                       generation |-> audio_rx_generation]
Request(kind, value) == [kind |-> kind, value |-> value]

Sending == /\ host.alt # 0
           /\ host.asking = "rate" => ~PausesForRate
           /\ host.asking \in {"interface", "configuration"} => pc # "enabled"

\* The four places kept free are for the other events.
CanCapture == audio_rx_enabled /\ Len(queue) < USB_QUEUE_LENGTH - 4

\* usb_handle_buff_done_isr for the audio endpoint.  `stream` is the number of
\* times the host had changed the interface when it sent the packet.
SendPacket ==
  /\ Sending
  /\ CanCapture
  /\ queue' = Append(queue,
                AudioEvent([stream |-> host.stream, rate |-> host.rate]))
  /\ UNCHANGED <<streamVars, audio_rx_enabled, audio_rx_generation, pc, target, host>>

Ask(kind, values) ==
  /\ host.asking = "nothing"
  /\ host.requests < MaxRequests
  /\ Len(queue) < USB_QUEUE_LENGTH
  /\ \E value \in values : queue' = Append(queue, Request(kind, value))
  /\ host' = [host EXCEPT !.asking = kind, !.requests = @ + 1]
  /\ UNCHANGED <<streamVars, audio_rx_enabled, audio_rx_generation, pc, target>>

\* A bus reset ends the stream for the host at once, whatever it was waiting for.
BusReset ==
  /\ host.requests < MaxRequests
  /\ Len(queue) < USB_QUEUE_LENGTH
  /\ queue' = Append(queue, Request("reset", 0))
  /\ host' = [host EXCEPT !.alt = 0, !.asking = "reset", !.requests = @ + 1]
  /\ UNCHANGED <<streamVars, audio_rx_enabled, audio_rx_generation, pc, target>>

HostAsks == \/ Ask("interface", Alts)
            \/ Ask("rate", Rates)
            \/ Ask("configuration", {0, 1})
            \/ BusReset

-------------------------------------------------------------------------------
(* The main loop *)

Takes(kind) == /\ pc = "loop"
               /\ queue # <<>>
               /\ Head(queue).kind = kind
               /\ queue' = Tail(queue)

\* The host learns the outcome, unless it has reset the bus since it asked.
Answer(kind, changed) ==
  host' = IF host.asking = kind THEN [changed EXCEPT !.asking = "nothing"] ELSE host

\* Mutant: packets of an earlier generation are accepted.
IsCurrentIfEnabled(event) == audio_rx_enabled

\* usb_handle_buff_done for a captured packet: packets of an earlier life of the
\* endpoint are dropped.
IsCurrent(event) == /\ audio_rx_enabled
                    /\ event.generation = audio_rx_generation

HandleAudio ==
  /\ Takes("audio")
  /\ IF IsCurrent(Head(queue)) THEN OnUsbRx(Head(queue).packet)
                               ELSE UNCHANGED streamVars
  /\ UNCHANGED <<audio_rx_enabled, audio_rx_generation, pc, target, host>>

ReceiverOff == /\ audio_rx_enabled' = FALSE
               /\ audio_rx_generation' = audio_rx_generation + 1

\* Mutant: the new endpoint is enabled before the old one is disabled.
ReceiverOnThenOff == ReceiverOff

ReceiverOn == /\ audio_rx_enabled' = TRUE
              /\ audio_rx_generation' = audio_rx_generation + 1

\* SET_INTERFACE.  The endpoint of the old alternate setting is disabled, ...
DisableEndpoint ==
  /\ Takes("interface")
  /\ target' = Head(queue).value
  /\ pc' = "disabled"
  /\ IF alt # 0 THEN ReceiverOff ELSE UNCHANGED <<audio_rx_enabled, audio_rx_generation>>
  /\ UNCHANGED <<streamVars, host>>

\* ... that of the new one is enabled, ...
EnableEndpoint ==
  /\ pc = "disabled"
  /\ pc' = "enabled"
  /\ IF target # 0 THEN ReceiverOn ELSE UNCHANGED <<audio_rx_enabled, audio_rx_generation>>
  /\ UNCHANGED <<streamVars, queue, target, host>>

\* ... and the stream follows.
ApplyInterface ==
  /\ pc = "enabled"
  /\ pc' = "loop"
  /\ SetInterface(target)
  /\ Answer("interface", [host EXCEPT !.alt = target, !.stream = host.stream + 1, !.rate = rate'])
  /\ UNCHANGED <<queue, target, audio_rx_enabled, audio_rx_generation>>

\* usb_set_configuration closes the stream, also to configure anew.
HandleConfiguration ==
  /\ Takes("configuration")
  /\ ReceiverOff
  /\ SetInterface(0)
  /\ Answer("configuration", [host EXCEPT !.alt = 0])
  /\ UNCHANGED <<pc, target>>

\* A SET_CUR of the clock: the endpoint and its generation stay as they are.
HandleRate ==
  /\ Takes("rate")
  /\ SetSamplingFreq(Head(queue).value)
  /\ Answer("rate", [host EXCEPT !.rate = rate'])
  /\ UNCHANGED <<audio_rx_enabled, audio_rx_generation, pc, target>>

\* usb_bus_reset.  The host goes on after the last of its resets.
HandleReset ==
  /\ Takes("reset")
  /\ ReceiverOff
  /\ SetInterface(0)
  /\ IF \E i \in DOMAIN queue' : queue'[i].kind = "reset"
       THEN UNCHANGED host
       ELSE Answer("reset", host)
  /\ UNCHANGED <<pc, target>>

HandleEvent == \/ HandleAudio \/ DisableEndpoint \/ EnableEndpoint \/ ApplyInterface
               \/ HandleConfiguration \/ HandleRate \/ HandleReset

Play == pc = "loop" /\ AudioTask /\ UNCHANGED <<usbVars, host>>

Emit == OutputFinish /\ UNCHANGED <<usbVars, host>>

Next == SendPacket \/ HostAsks \/ HandleEvent \/ Play \/ Emit

Spec == Init /\ [][Next]_vars

\* The main loop calls usb_device_task and audio_device_task in turn for ever, and
\* the output runs off the system clock.  That a host with an open stream goes on
\* sending is the assumption under which playback is promised at all.
FairSpec == Spec /\ WF_vars(HandleEvent) /\ WF_vars(Play) /\ WF_vars(Emit)
                 /\ WF_vars(SendPacket)

-------------------------------------------------------------------------------
(* Properties *)

Packets == [stream : 0 .. MaxRequests, rate : Rates \cup {AUDIO_EAC3_RATE}]

\* Every variable has its type.
TypeOK ==
  /\ state \in States /\ alt \in Alts
  /\ rate \in Rates \cup {AUDIO_EAC3_RATE}
  /\ ring \in Seq(Packets) /\ Len(ring) <= Capacity
  /\ output.playing \subseteq Packets /\ Len(output.queued) <= 1
  /\ \A i \in DOMAIN queue :
       /\ queue[i].kind \in {"audio", "interface", "rate", "configuration", "reset"}
       /\ queue[i].kind = "audio" => /\ queue[i].packet \in Packets
                                     /\ queue[i].generation \in 0 .. audio_rx_generation
  /\ Len(queue) <= USB_QUEUE_LENGTH
  /\ audio_rx_enabled \in BOOLEAN
  /\ pc \in {"loop", "disabled", "enabled"} /\ target \in Alts

\* While a stream is open, all the audio in the ring and in the output was sent for
\* that stream: nothing from before a change of format, a stop or a bus reset is
\* played after it ("format switching, stop and bus reset drop old packets").
NoStaleAudio == state # "STOPPED" => \A p \in Held : p.stream = host.stream

\* All of it is played at the rate it was sent for ("a change of the rate resets
\* the output and the audio buffers", SPDIF.md:76).
NoOldRate == state # "STOPPED" => \A p \in Held : p.rate = output.rate

\* A stream that was opened starts to play, and one that stalled recovers, unless
\* it is closed or started anew: no combination of dropped packets, water levels
\* and refused blocks keeps it silent while the host sends.
Recovers == /\ state = "BUFFERING" ~> state \in {"PLAYING", "STOPPED"}
            /\ state = "STALLED" ~> state # "STALLED"
===============================================================================
