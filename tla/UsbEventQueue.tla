---------------------------- MODULE UsbEventQueue ----------------------------
(***************************************************************************)
(* The event queue of usb.c as a shared resource.  The interrupt puts the  *)
(* completions of every endpoint, SETUPs and bus resets into it; the main  *)
(* loop takes them out and arms endpoints again.  Audio packets are        *)
(* dropped when few places are left; any other event that finds no place   *)
(* is a panic.  The main loop may be arbitrarily slow.                     *)
(*                                                                         *)
(* The host is the environment: it makes one control request at a time and *)
(* waits for its end (or resets the bus, and then waits for the device to  *)
(* answer at address 0), and it stops polling the streaming endpoints      *)
(* before it asks for a change of them.  A request that is refused brings  *)
(* no event after its SETUP and is left out.                               *)
(***************************************************************************)
EXTENDS Integers, Sequences, FiniteSets

CONSTANTS
  USB_QUEUE_LENGTH,
  HID_ENABLE,            \* the HID interface is built in
  MaxResets              \* bound on the bus resets of a behaviour

ASSUME LengthAssumption == USB_QUEUE_LENGTH \in Nat /\ USB_QUEUE_LENGTH > 4
ASSUME HidAssumption == HID_ENABLE \in BOOLEAN
ASSUME ResetsAssumption == MaxResets \in Nat

VARIABLES
  queue,                 \* the queued events, by kind
  panicked,
  armed,                 \* endpoints whose buffer the controller may complete
  audio_rx_enabled,
  read,                  \* control_state.read
  host                   \* the stage of its control request, and what it polls

vars == <<queue, panicked, armed, audio_rx_enabled, read, host>>

HidEndpoints == IF HID_ENABLE THEN {"hid_in", "hid_out"} ELSE {}
ControlEndpoints == {"ep0_in", "ep0_out"}
Endpoints == {"feedback"} \cup HidEndpoints \cup ControlEndpoints

Init == /\ queue = <<>>
        /\ panicked = FALSE
        /\ armed = {"ep0_out"}
        /\ audio_rx_enabled = FALSE
        /\ read = FALSE
        /\ host = [stage |-> "idle", request |-> "command", configured |-> FALSE,
                   open |-> FALSE, resets |-> 0]

Event(kind, what) == [kind |-> kind, what |-> what]

Queued(kind) == \E i \in DOMAIN queue : queue[i].kind = kind

-------------------------------------------------------------------------------
(* The host, and the interrupt handler *)

\* event_put
Put(event) == IF Len(queue) < USB_QUEUE_LENGTH
              THEN queue' = Append(queue, event) /\ UNCHANGED panicked
              ELSE panicked' = TRUE /\ UNCHANGED queue

\* Mutant: none is kept free, nor is the queue found full.
AudioAlwaysFits == TRUE

\* Four places are kept free of audio.
AudioFits == Len(queue) < USB_QUEUE_LENGTH - 4

\* usb_handle_buff_done_isr for the audio endpoint, which arms itself again.
AudioPacket == /\ ~panicked
               /\ host.open /\ audio_rx_enabled
               /\ AudioFits
               /\ queue' = Append(queue, Event("audio", ""))
               /\ UNCHANGED <<panicked, armed, audio_rx_enabled, read, host>>

Polls(endpoint) ==
  CASE endpoint = "feedback" -> host.open
    [] endpoint \in HidEndpoints -> host.configured
    [] endpoint = "ep0_in" -> host.stage \in {"data_in", "status_in"}
    [] endpoint = "ep0_out" -> host.stage \in {"data_out", "status_out"}

\* The stage that follows one the endpoint has completed.
NextStage == CASE host.stage = "data_in" -> "status_out"
               [] host.stage = "data_out" -> "status_in"
               [] OTHER -> "idle"

Concluded == IF NextStage # "idle" THEN [host EXCEPT !.stage = NextStage]
             ELSE [host EXCEPT !.stage = "idle",
                               !.configured = @ \/ host.request = "configure",
                               !.open = @ \/ host.request = "open"]

\* Mutant: every endpoint's buffer is opened again by the interrupt, as that of audio.
CompletionAndRearm(endpoint) ==
  /\ ~panicked
  /\ endpoint \in armed
  /\ Polls(endpoint)
  /\ host' = IF endpoint \in ControlEndpoints THEN Concluded ELSE host
  /\ Put(Event(endpoint, IF endpoint = "ep0_out" THEN host.stage ELSE ""))
  /\ UNCHANGED <<armed, audio_rx_enabled, read>>

\* usb_handle_buff_done_isr for every other endpoint.
Completion(endpoint) ==
  /\ ~panicked
  /\ endpoint \in armed
  /\ Polls(endpoint)
  /\ armed' = armed \ {endpoint}
  /\ host' = IF endpoint \in ControlEndpoints THEN Concluded ELSE host
  /\ Put(Event(endpoint, IF endpoint = "ep0_out" THEN host.stage ELSE ""))
  /\ UNCHANGED <<audio_rx_enabled, read>>

Requests == {"read", "write", "command", "configure"}
              \cup (IF host.configured THEN {"open", "close"} ELSE {})

FirstStage(request) == CASE request = "read" -> "data_in"
                         [] request = "write" -> "data_out"
                         [] OTHER -> "status_in"

\* The SETUP branch of isr_usbctrl_handler.
Setup == /\ ~panicked
         /\ host.stage = "idle" /\ ~Queued("reset")
         /\ \E request \in Requests :
              /\ host' = [host EXCEPT
                   !.stage = FirstStage(request), !.request = request,
                   !.configured = @ /\ request # "configure",
                   !.open = @ /\ request \notin {"configure", "open", "close"}]
              /\ Put(Event("setup", request))
         /\ armed' = armed \ ControlEndpoints
         /\ UNCHANGED <<audio_rx_enabled, read>>

BusReset == /\ ~panicked
            /\ host.resets < MaxResets /\ ~Queued("reset")
            /\ host' = [host EXCEPT !.stage = "idle", !.configured = FALSE, !.open = FALSE,
                                    !.resets = @ + 1]
            /\ Put(Event("reset", ""))
            /\ UNCHANGED <<armed, audio_rx_enabled, read>>

-------------------------------------------------------------------------------
(* The main loop *)

Takes(kind) == /\ ~panicked
               /\ queue # <<>>
               /\ Head(queue).kind = kind
               /\ queue' = Tail(queue)
               /\ UNCHANGED <<panicked, host>>

HandleAudio == Takes("audio") /\ UNCHANGED <<armed, audio_rx_enabled, read>>

\* ep_audio_in_handler, ep_hid_in_handler and ep_hid_out_handler end by arming their
\* endpoint again.
HandleEndpoint(endpoint) == /\ Takes(endpoint)
                            /\ armed' = armed \cup {endpoint}
                            /\ UNCHANGED <<audio_rx_enabled, read>>

\* A SETUP that was queued behind a completion of endpoint 0 makes it stale.
IsStale == \E i \in DOMAIN Tail(queue) : Tail(queue)[i].kind = "setup"

\* handle_ep0: the status of a read follows its data.  An OUT packet with data is
\* answered by call_handler.
HandleEp0In ==
  /\ Takes("ep0_in")
  /\ armed' = IF read /\ ~IsStale THEN armed \cup {"ep0_out"} ELSE armed
  /\ UNCHANGED <<audio_rx_enabled, read>>

HandleEp0Out ==
  /\ Takes("ep0_out")
  /\ armed' = IF Head(queue).what = "data_out" /\ ~IsStale
              THEN armed \cup {"ep0_in"} ELSE armed
  /\ UNCHANGED <<audio_rx_enabled, read>>

HandleTransfer ==
  /\ Takes("setup")
  /\ Head(queue).what \in {"read", "write", "command"}
  /\ read' = (Head(queue).what = "read")
  /\ armed' = armed \cup {IF Head(queue).what = "write" THEN "ep0_out" ELSE "ep0_in"}
  /\ UNCHANGED audio_rx_enabled

\* Mutant: the HID endpoints are enabled, but their interface is not initialised.
ConfigureEndpointsOnly ==
  /\ Takes("setup")
  /\ Head(queue).what = "configure"
  /\ read' = FALSE
  /\ audio_rx_enabled' = FALSE
  /\ armed' = (armed \ {"feedback"}) \cup {"ep0_in"}

\* usb_set_configuration: the streaming interface goes back to alternate setting 0,
\* which has no endpoints, and the HID interface arms both of its own.
Configure ==
  /\ Takes("setup")
  /\ Head(queue).what = "configure"
  /\ read' = FALSE
  /\ audio_rx_enabled' = FALSE
  /\ armed' = (armed \ {"feedback"}) \cup HidEndpoints \cup {"ep0_in"}

\* usb_set_interface and usb_audio_stream_set_interface
Open == /\ Takes("setup")
        /\ Head(queue).what = "open"
        /\ read' = FALSE
        /\ audio_rx_enabled' = TRUE
        /\ armed' = armed \cup {"feedback", "ep0_in"}

Close == /\ Takes("setup")
         /\ Head(queue).what = "close"
         /\ read' = FALSE
         /\ audio_rx_enabled' = FALSE
         /\ armed' = (armed \ {"feedback"}) \cup {"ep0_in"}

\* usb_bus_reset does not touch the endpoints' buffers.
HandleReset == /\ Takes("reset")
               /\ audio_rx_enabled' = FALSE
               /\ UNCHANGED <<armed, read>>

HandleSetup == HandleTransfer \/ Configure \/ Open \/ Close
HandleEvent == \/ HandleAudio
               \/ \E endpoint \in Endpoints \ ControlEndpoints : HandleEndpoint(endpoint)
               \/ HandleEp0In \/ HandleEp0Out \/ HandleSetup \/ HandleReset

Next == \/ AudioPacket \/ Setup \/ BusReset
        \/ \E endpoint \in Endpoints : Completion(endpoint)
        \/ HandleEvent

Spec == Init /\ [][Next]_vars

-------------------------------------------------------------------------------
(* Properties *)

Kinds == {"audio", "setup", "reset"} \cup Endpoints

\* Every variable has its type.
TypeOK == /\ Len(queue) <= USB_QUEUE_LENGTH
          /\ \A i \in DOMAIN queue : queue[i].kind \in Kinds
          /\ panicked \in BOOLEAN
          /\ armed \subseteq Endpoints
          /\ audio_rx_enabled \in BOOLEAN
          /\ read \in BOOLEAN
          /\ host.stage \in {"idle", "data_in", "data_out", "status_in", "status_out"}

\* The places audio leaves suffice for the events that must not be lost, however far
\* the main loop is behind: "reserve queue places for control and feedback events"
\* (usb.c:806).
NeverPanics == ~panicked

Others == {i \in DOMAIN queue : queue[i].kind # "audio"}

\* How many places they can need: a SETUP, a completion of endpoint 0 and a bus reset,
\* and one for each streaming endpoint, since an endpoint is armed again only by the
\* main loop that takes its event.  That is four without HID, what the code keeps free,
\* and six with it.
OthersAreBounded == Cardinality(Others) <= 3 + Cardinality(Endpoints \ ControlEndpoints)

\* An endpoint the host polls never falls silent: its buffer is armed, or the event
\* whose handler arms it is in the queue.  It takes only one lost step of the chain
\* from completion to handler to arming to end feedback, or the buttons, for good.
ChainUnbroken ==
  \A endpoint \in Endpoints \ ControlEndpoints :
    ~panicked /\ Polls(endpoint) => endpoint \in armed \/ Queued(endpoint)
===============================================================================
