----------------------------- MODULE UsbEndpoints -----------------------------
(***************************************************************************)
(* The numbered endpoints of usb.c: their registers, buffers and data      *)
(* toggles under SET_CONFIGURATION, SET_INTERFACE, CLEAR_FEATURE and bus   *)
(* resets, with the traffic of the two HID pipes (usb_hid.c), whose        *)
(* completions reach the main loop through the event queue.  A handshake   *)
(* can be lost, so that a packet comes twice.  The traffic of the audio    *)
(* endpoints is in AudioPath and UsbEventQueue.                            *)
(*                                                                         *)
(* The host does not poll an endpoint that an outstanding request is       *)
(* about, and after a bus reset gives the device its recovery time.        *)
(***************************************************************************)
EXTENDS Integers, Sequences, FiniteSetsExt

CONSTANTS
  AltMax,         \* AUDIO_ALT_MAX: 3 (I2S), 7 (S/PDIF) or 8 (E-AC-3)
  MaxRequests     \* bound on the requests and bus resets of a behaviour

ASSUME AltMaxAssumption == AltMax \in {3, 7, 8}
ASSUME RequestsAssumption == MaxRequests \in Nat

VARIABLES
  ep,                       \* ep_ctrl, buf_ctrl and next_pid of each endpoint
  max_size, buf,            \* max_packet_size and buf of its endpoint_config
  alt_settings, configured,
  queue,                    \* the events the main loop has not handled
  pipe,                     \* the traffic of each HID endpoint (history)
  host

layout == <<max_size, buf>>
vars == <<ep, layout, alt_settings, configured, queue, pipe, host>>

Endpoints == {"feedback_in", "audio_out", "hid_in", "hid_out"}
HidEndpoints == {"hid_in", "hid_out"}

\* The endpoint descriptors of the configuration: the interface and alternate
\* setting they belong to, and wMaxPacketSize.
Described(itf, alts, e, size) == [itf : {itf}, alt : alts, ep : {e}, size : {size}]
configuration_descriptor ==
  Described("stream", 1 .. AltMax, "feedback_in", 4)
    \cup Described("stream", 1 .. 3, "audio_out", 776)
    \cup Described("stream", (1 .. AltMax) \cap (4 .. 7), "audio_out", 388)
    \cup Described("stream", (1 .. AltMax) \cap {8}, "audio_out", 772)
    \cup Described("hid", {0}, "hid_in", 17)
    \cup Described("hid", {0}, "hid_out", 2)

Alternates(itf) == IF itf = "stream" THEN 0 .. AltMax ELSE {0}

Closed == [enabled |-> FALSE, avail |-> FALSE, pid |-> 0, next_pid |-> 0]
Empty == [unread |-> 0, unconfirmed |-> 0]
OneReport == [unread |-> 1, unconfirmed |-> 1]
NoRequest == [kind |-> "none"]
NoAlternates == [itf \in {"stream", "hid"} |-> 0]

Init == /\ ep = [e \in Endpoints |-> Closed]
        /\ max_size = [e \in Endpoints |-> 0] /\ buf = [e \in Endpoints |-> 0]
        /\ alt_settings = NoAlternates
        /\ configured = FALSE
        /\ queue = <<>>
        /\ pipe = [e \in HidEndpoints |-> Empty]
        /\ host = [config |-> 0, alts |-> NoAlternates, request |-> NoRequest,
                   answer |-> "none", requests |-> 0,
                   pid |-> [e \in HidEndpoints |-> 0]]

-------------------------------------------------------------------------------
(* The host and the controller *)

Concerns(request, e) ==
  \/ request.kind = "config"
  \/ request.kind = "interface" /\ (request.itf = "hid" <=> e \in HidEndpoints)
  \/ request.kind = "clear" /\ request.ep = e

HostUses(e) == host.config = 1 /\ ~Concerns(host.request, e)

Requests ==
  [kind : {"config"}, value : 0 .. 2]
    \cup IF host.config # 1 THEN {}
         ELSE [kind : {"interface"}, itf : {"stream"}, alt : 0 .. AltMax + 1]
                \cup [kind : {"interface"}, itf : {"hid"}, alt : {0, 1}]
                \cup [kind : {"clear"}, ep : Endpoints]

HostRequests ==
  /\ host.request = NoRequest
  /\ host.requests < MaxRequests
  /\ \A i \in DOMAIN queue : queue[i].kind # "reset"
  /\ \E request \in Requests :
       /\ host' = [host EXCEPT !.request = request, !.requests = @ + 1]
       /\ queue' = Append(queue, request)
  /\ UNCHANGED <<ep, layout, alt_settings, configured, pipe>>

\* The status stage: what was executed, the host now relies on, and it restarts
\* its data toggles of the endpoints the request is about.
HostIsAnswered ==
  /\ host.answer = "ack"
  /\ LET request == host.request IN
     host' = [host EXCEPT
       !.request = NoRequest, !.answer = "none",
       !.config = IF request.kind = "config" THEN request.value ELSE @,
       !.alts = CASE request.kind = "config" -> NoAlternates
                  [] request.kind = "interface" -> [@ EXCEPT ![request.itf] = request.alt]
                  [] OTHER -> @,
       !.pid = [e \in HidEndpoints |-> IF Concerns(request, e) THEN 0 ELSE @[e]]]
  /\ UNCHANGED <<ep, layout, alt_settings, configured, queue, pipe>>

HostIsRefused ==
  /\ host.answer = "stall"
  /\ host' = [host EXCEPT !.request = NoRequest, !.answer = "none"]
  /\ UNCHANGED <<ep, layout, alt_settings, configured, queue, pipe>>

\* The interrupt handler queues the event; until then the main loop works on.
BusReset ==
  /\ host.requests < MaxRequests
  /\ host' = [host EXCEPT !.config = 0, !.alts = NoAlternates, !.request = NoRequest,
                          !.answer = "none", !.requests = @ + 1]
  /\ queue' = Append(queue, [kind |-> "reset"])
  /\ UNCHANGED <<ep, layout, alt_settings, configured, pipe>>

\* The controller's transfer in buffer e is over: usb_handle_buff_done_isr.
Complete(e) == /\ ep' = [ep EXCEPT ![e].avail = FALSE]
               /\ queue' = Append(queue, [kind |-> "done", ep |-> e])

Ready(e) == HostUses(e) /\ ep[e].enabled /\ ep[e].avail

\* The host polls the report endpoint.  A packet with the toggle of the one
\* before is taken for a repetition; both sorts are acknowledged.
HostReads(acknowledged) ==
  /\ Ready("hid_in")
  /\ LET fresh == ep["hid_in"].pid = host.pid["hid_in"] IN
     /\ host' = [host EXCEPT !.pid["hid_in"] = IF fresh THEN 1 - @ ELSE @]
     /\ pipe' = [pipe EXCEPT !["hid_in"].unread = IF fresh THEN @ - 1 ELSE @,
                             !["hid_in"].unconfirmed = IF acknowledged THEN @ - 1 ELSE @]
  /\ IF acknowledged THEN Complete("hid_in") ELSE UNCHANGED <<ep, queue>>
  /\ UNCHANGED <<layout, alt_settings, configured>>

HostOffersCommand ==
  /\ HostUses("hid_out")
  /\ pipe["hid_out"].unconfirmed = 0
  /\ pipe' = [pipe EXCEPT !["hid_out"].unread = @ + 1, !["hid_out"].unconfirmed = 1]
  /\ UNCHANGED <<ep, layout, alt_settings, configured, queue, host>>

\* The host sends its command; the controller drops one it takes for a repetition.
HostWrites(acknowledged) ==
  /\ Ready("hid_out")
  /\ pipe["hid_out"].unconfirmed = 1
  /\ LET fresh == ep["hid_out"].pid = host.pid["hid_out"] IN
     /\ host' = [host EXCEPT !.pid["hid_out"] = IF acknowledged THEN 1 - @ ELSE @]
     /\ pipe' = [pipe EXCEPT !["hid_out"].unread = IF fresh THEN @ - 1 ELSE @,
                             !["hid_out"].unconfirmed = IF acknowledged THEN 0 ELSE @]
     /\ IF fresh THEN Complete("hid_out") ELSE UNCHANGED <<ep, queue>>
  /\ UNCHANGED <<layout, alt_settings, configured>>

-------------------------------------------------------------------------------
(* The main loop: usb_device_task takes the oldest event *)

usb_start_transfer(eps, e) ==
  [eps EXCEPT ![e] = [enabled |-> eps[e].enabled, avail |-> TRUE,
                      pid |-> eps[e].next_pid, next_pid |-> 1 - eps[e].next_pid]]

\* usb_device_enable_endpoint and usb_device_disable_endpoint, for each endpoint
\* descriptor that walk_descriptor meets.

enable_ep(eps, descriptors) ==
  [e \in Endpoints |->
     IF \E d \in descriptors : d.ep = e
     THEN [enabled |-> TRUE, avail |-> TRUE, pid |-> 0, next_pid |-> 0]
     ELSE eps[e]]
packet_sizes(sizes, descriptors) ==
  [e \in Endpoints |->
     IF \E d \in descriptors : d.ep = e THEN (CHOOSE d \in descriptors : d.ep = e).size
     ELSE sizes[e]]
\* Mutant: the buffer is taken back, the endpoint stays on.
DisarmOnly(eps, descriptors) ==
  [e \in Endpoints |->
     IF \E d \in descriptors : d.ep = e THEN [eps[e] EXCEPT !.avail = FALSE] ELSE eps[e]]

disable_ep(eps, descriptors) ==
  [e \in Endpoints |->
     IF \E d \in descriptors : d.ep = e
     THEN [eps[e] EXCEPT !.enabled = FALSE, !.avail = FALSE]
     ELSE eps[e]]

walk_descriptor(itf, alt) == {d \in configuration_descriptor : d.itf = itf /\ d.alt = alt}

\* The space an endpoint needs: its largest packet over all alternate settings.
max_packet_size(e) == Max({d.size : d \in {c \in configuration_descriptor : c.ep = e}})

\* Mutant: positions are rounded down.
AlignedDown(position) == (position \div 64) * 64

\* Each buffer begins at the next multiple of 64 after the one before.
Aligned(position) == ((position + 63) \div 64) * 64
LayoutOrder == <<"feedback_in", "audio_out", "hid_in", "hid_out">>
BufferEnd[i \in 0 .. Len(LayoutOrder)] ==
  IF i = 0 THEN 0 ELSE Aligned(BufferEnd[i - 1]) + max_packet_size(LayoutOrder[i])
usb_layout_buffers ==
  [e \in Endpoints |->
     Aligned(BufferEnd[(CHOOSE i \in DOMAIN LayoutOrder : LayoutOrder[i] = e) - 1])]

\* Mutant: each of the two HID endpoints initialises the interface.
SetInterfacePerEndpoint(eps) ==
  usb_start_transfer(usb_start_transfer(
    usb_start_transfer(usb_start_transfer(eps, "hid_in"), "hid_out"), "hid_in"), "hid_out")

\* The HID interface arms a report of released keys and a buffer for a command.
usb_hid_set_interface(eps) ==
  usb_start_transfer(usb_start_transfer(eps, "hid_in"), "hid_out")

\* What the host offered before is lost; a pipe set up again begins with the
\* report of released keys.
PipesEmpty == [e \in HidEndpoints |-> Empty]
PipesSetUp == [PipesEmpty EXCEPT !["hid_in"] = OneReport]

Answer(answer) ==
  host' = IF host.request = NoRequest THEN host ELSE [host EXCEPT !.answer = answer]

Take(kind) == queue # <<>> /\ Head(queue).kind = kind /\ queue' = Tail(queue)

\* ep_hid_in_handler and ep_hid_out_handler: the next report, the next command.
ep_hid_handler ==
  /\ Take("done")
  /\ LET e == Head(queue).ep IN
     /\ ep' = usb_start_transfer(ep, e)
     /\ pipe' = IF e = "hid_in"
                THEN [pipe EXCEPT ![e].unread = @ + 1, ![e].unconfirmed = @ + 1]
                ELSE pipe
  /\ UNCHANGED <<layout, alt_settings, configured, host>>

\* Only the data toggles and the settings: buffers and ep_ctrl stay as they are.
usb_bus_reset ==
  /\ Take("reset")
  /\ ep' = [e \in Endpoints |-> [ep[e] EXCEPT !.next_pid = 0]]
  /\ alt_settings' = NoAlternates
  /\ configured' = FALSE
  /\ pipe' = PipesEmpty
  /\ UNCHANGED <<layout, host>>

\* Alternate 0 of every interface is enabled, and the interfaces are initialised.
usb_set_configuration ==
  /\ Take("config")
  /\ LET config == Head(queue).value
         off == [e \in Endpoints |-> [ep[e] EXCEPT !.enabled = FALSE]]
         first == walk_descriptor("stream", 0) \cup walk_descriptor("hid", 0)
     IN \/ /\ config = 0
           /\ ep' = off
           /\ pipe' = PipesEmpty
           /\ configured' = FALSE /\ alt_settings' = NoAlternates
           /\ Answer("ack")
           /\ UNCHANGED layout
        \/ /\ config = 1
           /\ buf' = usb_layout_buffers
           /\ max_size' = packet_sizes(max_size, first)
           /\ ep' = usb_hid_set_interface(enable_ep(off, first))
           /\ pipe' = PipesSetUp
           /\ configured' = TRUE /\ alt_settings' = NoAlternates
           /\ Answer("ack")
        \/ /\ config > 1
           /\ Answer("stall")
           /\ UNCHANGED <<ep, layout, alt_settings, configured, pipe>>

usb_set_interface ==
  /\ Take("interface")
  /\ LET itf == Head(queue).itf
         alt == Head(queue).alt
         new == walk_descriptor(itf, alt)
         switched == enable_ep(disable_ep(ep, walk_descriptor(itf, alt_settings[itf])), new)
     IN \/ /\ alt \notin Alternates(itf)
           /\ Answer("stall")
           /\ UNCHANGED <<ep, max_size, alt_settings, pipe>>
        \/ /\ alt \in Alternates(itf)
           /\ alt_settings' = [alt_settings EXCEPT ![itf] = alt]
           /\ max_size' = packet_sizes(max_size, new)
           /\ ep' = IF itf = "hid" THEN usb_hid_set_interface(switched) ELSE switched
           /\ pipe' = IF itf = "hid" THEN PipesSetUp ELSE pipe
           /\ Answer("ack")
  /\ UNCHANGED <<buf, configured>>

\* Mutant: the toggles of both directions are restarted.
ClearHaltBothWays(e) ==
  ep' = [f \in Endpoints |->
           IF f \notin HidEndpoints THEN ep[f]
           ELSE [ep[f] EXCEPT !.pid = 0, !.next_pid = IF ep[f].avail THEN 1 ELSE 0]]
\* Mutant: the buffer is taken back, and nothing arms it again.
ClearHaltDisarms(e) == ep' = [ep EXCEPT ![e].avail = FALSE, ![e].pid = 0, ![e].next_pid = 0]

\* An armed packet stays armed and becomes the first of the new sequence.
usb_buffer_control_clear_halt(e) ==
  ep' = [ep EXCEPT ![e].pid = 0, ![e].next_pid = IF ep[e].avail THEN 1 ELSE 0]

\* The host offers a packet again that it does not know to be taken, and takes
\* again one it could not acknowledge.
usb_clear_endpoint_halt ==
  /\ Take("clear")
  /\ LET e == Head(queue).ep IN
       \/ /\ configured /\ e \in HidEndpoints
          /\ usb_buffer_control_clear_halt(e)
          /\ pipe' = [pipe EXCEPT ![e].unread = pipe[e].unconfirmed]
          /\ Answer("ack")
       \/ /\ ~(configured /\ e \in HidEndpoints)
          /\ Answer("stall")
          /\ UNCHANGED <<ep, pipe>>
  /\ UNCHANGED <<layout, alt_settings, configured>>

-------------------------------------------------------------------------------
MainLoop == \/ ep_hid_handler
            \/ usb_bus_reset
            \/ usb_set_configuration
            \/ usb_set_interface
            \/ usb_clear_endpoint_halt

Next == \/ HostRequests
        \/ HostIsAnswered
        \/ HostIsRefused
        \/ BusReset
        \/ \E acknowledged \in BOOLEAN : HostReads(acknowledged) \/ HostWrites(acknowledged)
        \/ HostOffersCommand
        \/ MainLoop

Spec == Init /\ [][Next]_vars

\* The main loop does not stop, and the host goes on polling; a handshake that
\* is tried again and again comes through.
FairSpec == /\ Spec
            /\ WF_vars(MainLoop)
            /\ WF_vars(HostIsAnswered) /\ WF_vars(HostIsRefused)
            /\ WF_vars(HostReads(TRUE)) /\ WF_vars(HostWrites(TRUE))
            /\ WF_vars(HostOffersCommand)

-------------------------------------------------------------------------------
(* Properties *)

EndpointState == [enabled : BOOLEAN, avail : BOOLEAN, pid : {0, 1}, next_pid : {0, 1}]
Events == [kind : {"done"}, ep : HidEndpoints] \cup {[kind |-> "reset"]}
            \cup [kind : {"config"}, value : 0 .. 2]
            \cup [kind : {"interface"}, itf : {"stream", "hid"}, alt : 0 .. AltMax + 1]
            \cup [kind : {"clear"}, ep : Endpoints]

\* Type correctness of the registers, the settings, the queue and the host; no
\* pipe has more than one report under way (usb_start_transfer never writes over
\* a buffer that holds a report not taken), and alt_settings names described
\* alternates only.
TypeOK ==
  /\ ep \in [Endpoints -> EndpointState]
  /\ \A itf \in {"stream", "hid"} : alt_settings[itf] \in Alternates(itf)
  /\ configured \in BOOLEAN
  /\ \A i \in DOMAIN queue : queue[i] \in Events
  /\ pipe \in [HidEndpoints -> [unread : {0, 1}, unconfirmed : {0, 1}]]
  /\ host.config \in {0, 1} /\ host.requests \in 0 .. MaxRequests

\* Whenever no request is outstanding, the endpoints that are enabled, and their
\* packet sizes, are those of the alternate settings the host believes are
\* selected, whatever it asked for and was refused (usb_set_configuration,
\* usb_set_interface; "Reject unknown alternate settings before disabling the
\* active endpoints").
EndpointsFollowHost ==
  host.config = 1 /\ host.request = NoRequest =>
    /\ configured /\ alt_settings = host.alts
    /\ {<<e, max_size[e]>> : e \in {f \in Endpoints : ep[f].enabled}}
         = UNION {{<<d.ep, d.size>> : d \in walk_descriptor(itf, host.alts[itf])}
                    : itf \in {"stream", "hid"}}

\* The buffers of the enabled endpoints lie in epx_data (3712 bytes), begin where
\* the address field of ep_ctrl can point and do not overlap, whichever
\* alternate setting is selected (usb_layout_buffers).
BuffersApart ==
  \A e \in Endpoints : ep[e].enabled =>
    /\ buf[e] % 64 = 0 /\ buf[e] + max_size[e] <= 3712
    /\ \A f \in Endpoints \ {e} : ep[f].enabled /\ buf[e] <= buf[f]
                                    => buf[e] + max_size[e] <= buf[f]

\* The report pipe keeps the promise of ReportPipe: the host takes every report
\* the program sent exactly once, in order, whatever handshakes are lost; only
\* SET_CONFIGURATION, SET_INTERFACE, CLEAR_FEATURE and bus resets lose or repeat
\* one (usb_buffer_control_clear_halt, usb_hid_set_interface).
InPipe == INSTANCE ReportPipe WITH
            unread <- pipe["hid_in"].unread, unconfirmed <- pipe["hid_in"].unconfirmed,
            open <- HostUses("hid_in")
InIsPipe == InPipe!Spec

\* So does the command pipe: a command the host knows to be received has been put
\* into the program's buffer exactly once, and the first one after a configuration
\* too ("overwriting the armed DATA0 receive with DATA1 before the host had sent
\* its first LED command").
OutPipe == INSTANCE ReportPipe WITH
             unread <- pipe["hid_out"].unread, unconfirmed <- pipe["hid_out"].unconfirmed,
             open <- HostUses("hid_out")
OutIsPipe == OutPipe!Spec

\* While the host stays configured, reports go on reaching it: no sequence of
\* requests leaves the report endpoint without a report the host will accept.
ReportsKeepComing ==
  <>[](host.config = 1) => /\ []<>(pipe["hid_in"].unread = 1)
                           /\ []<>(pipe["hid_in"].unread = 0)

===============================================================================
