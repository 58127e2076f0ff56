------------------------------ MODULE UsbControl ------------------------------
(***************************************************************************)
(* Control transfers on endpoint 0 of usb.c: the host's SETUP and buffer   *)
(* completions reach the main loop through the event queue, and the main   *)
(* loop arms the endpoint's buffers for the next stage.  The interrupt can *)
(* come between the moment the main loop takes an event and the moment it  *)
(* arms a buffer for it.                                                   *)
(*                                                                         *)
(* Kinds of transfers: "read" (data IN in one or more packets, status      *)
(* OUT), "write" (data OUT in one packet, status IN), "command" (status IN *)
(* only), "address" (the command SET_ADDRESS) and "ignored" (a standard    *)
(* command to an interface other than SET_INTERFACE, which the program     *)
(* neither answers nor refuses).  No response of the program is a multiple *)
(* of 64 bytes and shorter than requested, so the terminating zero-length  *)
(* packet of handle_ep0 is never due.                                      *)
(***************************************************************************)
EXTENDS Integers, Sequences

CONSTANTS
  MaxTransfers,      \* bound on the SETUPs of a behaviour
  MaxPackets,        \* bound on the packets of a read
  MaxResets,         \* bound on the bus resets of a behaviour
  AbandonsAnyTime    \* the host may abandon a transfer at any time; otherwise only
                     \* while the main loop is not between SETUP and answer, or
                     \* between a completion and what follows it.  A transfer that
                     \* follows one that ended may begin at any time

ASSUME BoundsAssumption == MaxTransfers \in Nat /\ MaxResets \in Nat /\ MaxPackets \in Nat \ {0}
ASSUME AbandonsAssumption == AbandonsAnyTime \in BOOLEAN

VARIABLES
  queue,
  control_generation,
  in_buf, out_buf,       \* what the controller may do next with each buffer
  event,                 \* the event the main loop is handling
  transfer,              \* transfer_state_ep0_out and control_state
  last_packet,           \* the SETUP of the write whose data is awaited
  address,               \* device_address, should_set_address, dev_addr_ctrl
  host

device == <<transfer, last_packet, address>>
buffers == <<in_buf, out_buf>>
vars == <<queue, control_generation, buffers, event, device, host>>

NoBuffer == [kind |-> "none"]
Stalled == [kind |-> "stall"]
\* A buffer armed for transfer id: the index of the data packet, 0 for a status.
Armed(id, index) == [kind |-> "armed", id |-> id, index |-> index]

NoEvent == [kind |-> "none"]
NoRequest == [id |-> 0, kind |-> "command", packets |-> 0]

Init == /\ queue = <<>>
        /\ control_generation = 0
        /\ in_buf = NoBuffer
        /\ out_buf = Armed(0, 1)                  \* usb_setup_endpoints
        /\ event = NoEvent
        /\ transfer = [id |-> 0, total |-> 0, sent |-> 0, read |-> FALSE]
        /\ last_packet = NoRequest
        /\ address = [new |-> 0, pending |-> FALSE, active |-> 0]
        /\ host = [request |-> NoRequest, stage |-> "idle", got |-> 0,
                   address |-> 0, resets |-> 0]

-------------------------------------------------------------------------------
(* The host, and the interrupt handler that answers the controller *)

Requests(id) == [id : {id}, kind : {"read"}, packets : 1 .. MaxPackets]
                  \cup [id : {id}, kind : {"write", "command", "address", "ignored"}, packets : {0}]

\* The stage a transfer begins with.
FirstStage(kind) == CASE kind = "read" -> "data_in"
                      [] kind = "write" -> "data_out"
                      [] OTHER -> "status_in"

SetupQueued == \E i \in DOMAIN queue : queue[i].kind = "setup"

\* The host begins a transfer: the one before has ended, whatever the main loop still
\* has to do for it, or it was given up, by the host or by a reset of the bus.  The
\* SETUP branch of isr_usbctrl_handler takes both buffers back.
Setup == /\ host.request.id < MaxTransfers
         /\ address.active = host.address
         /\ \/ host.stage = "idle"
            \/ /\ host.stage = "reset" \/ host.request.kind # "address"
               /\ AbandonsAnyTime \/ (event = NoEvent /\ ~SetupQueued)
         /\ \E request \in Requests(host.request.id + 1) :
              /\ host' = [host EXCEPT !.request = request, !.got = 0,
                                      !.stage = FirstStage(request.kind)]
              /\ queue' = Append(queue, [kind |-> "setup", request |-> request])
         /\ control_generation' = control_generation + 1
         /\ in_buf' = NoBuffer /\ out_buf' = NoBuffer
         /\ UNCHANGED <<event, device>>

\* usb_handle_buff_done_isr: the completion is tagged with the generation.
Completed(direction, buf) ==
  queue' = Append(queue, [kind |-> direction, buf |-> buf,
                          generation |-> control_generation])

\* The host reads a packet, and knows which one is the last.
HostIn ==
  /\ host.stage \in {"data_in", "status_in"}
  /\ in_buf.kind = "armed"
  /\ host' = [host EXCEPT
       !.got = @ + 1,
       !.stage = CASE @ = "status_in" -> "idle"
                   [] @ = "data_in" /\ host.got + 1 = host.request.packets -> "status_out"
                   [] OTHER -> @,
       !.address = IF host.stage = "status_in" /\ host.request.kind = "address"
                   THEN host.request.id ELSE @]
  /\ Completed("in", in_buf)
  /\ in_buf' = NoBuffer
  /\ UNCHANGED <<control_generation, out_buf, event, device>>

HostOut ==
  /\ host.stage \in {"data_out", "status_out"}
  /\ out_buf.kind = "armed"
  /\ host' = [host EXCEPT !.stage = IF @ = "data_out" THEN "status_in" ELSE "idle"]
  /\ Completed("out", out_buf)
  /\ out_buf' = NoBuffer
  /\ UNCHANGED <<control_generation, in_buf, event, device>>

HostIsRefused ==
  /\ \/ host.stage \in {"data_in", "status_in"} /\ in_buf.kind = "stall"
     \/ host.stage \in {"data_out", "status_out"} /\ out_buf.kind = "stall"
  /\ host' = [host EXCEPT !.stage = "idle"]
  /\ UNCHANGED <<queue, control_generation, buffers, event, device>>

BusReset ==
  /\ host.resets < MaxResets
  /\ host' = [host EXCEPT !.stage = "reset", !.address = 0, !.resets = @ + 1]
  /\ queue' = Append(queue, [kind |-> "reset"])
  /\ UNCHANGED <<control_generation, buffers, event, device>>

-------------------------------------------------------------------------------
(* The main loop *)

\* Mutant: completions are not compared with the generation.
IsNeverStale(e) == FALSE

\* usb_device_task takes an event.  A completion of an earlier generation is
\* dropped here, and only here.
IsStale(e) == e.kind \in {"in", "out"} /\ e.generation # control_generation

Take == /\ event = NoEvent
        /\ queue # <<>>
        /\ queue' = Tail(queue)
        /\ event' = IF IsStale(Head(queue)) THEN NoEvent ELSE Head(queue)
        /\ UNCHANGED <<control_generation, buffers, device, host>>

Does(kind) == /\ event.kind = kind
              /\ event' = NoEvent
              /\ UNCHANGED <<queue, control_generation, host>>

\* usb_ep0_start_transfer, with its first usb_ep0_continue_transfer; no packets is
\* the acknowledgement usb_ep0_out_ack.
StartTransfer(id, packets, read) ==
  /\ transfer' = [id |-> id, total |-> packets, sent |-> IF packets = 0 THEN 0 ELSE 1,
                  read |-> read]
  /\ in_buf' = Armed(id, IF packets = 0 THEN 0 ELSE 1)

\* Mutant: only the IN direction is stalled.
StallIn(id, read) == /\ in_buf' = Stalled
                     /\ transfer' = [transfer EXCEPT !.read = read]
                     /\ UNCHANGED out_buf

\* usb_ep0_stall
Stall(id, read) == /\ in_buf' = Stalled /\ out_buf' = Stalled
                   /\ transfer' = [transfer EXCEPT !.read = read]

\* usb_handle_setup_packet: the request is refused, ...
RefuseSetup == /\ Does("setup")
               /\ event.request.kind \notin {"address", "ignored"}
               /\ Stall(event.request.id, event.request.kind = "read")
               /\ UNCHANGED <<last_packet, address>>

\* ... or falls through every case and is left unanswered, ...
IgnoreSetup == /\ Does("setup")
               /\ event.request.kind = "ignored"
               /\ transfer' = [transfer EXCEPT !.read = FALSE]
               /\ UNCHANGED <<buffers, last_packet, address>>

\* Mutant: the address is taken before its acknowledgement is sent.
AnswerAndMove ==
  /\ Does("setup")
  /\ event.request.kind \notin {"write", "ignored"}
  /\ StartTransfer(event.request.id, event.request.packets, event.request.kind = "read")
  /\ address' = IF event.request.kind = "address"
                THEN [address EXCEPT !.active = event.request.id]
                ELSE address
  /\ UNCHANGED <<out_buf, last_packet>>

\* ... or answered (GET_STATUS of the device twice: its case falls through to that
\* of the interface), ...
AnswerSetup ==
  /\ event.kind = "setup"
  /\ event.request.kind \notin {"write", "ignored"}
  /\ \/ event' = NoEvent
     \/ event.request.packets = 1 /\ event' = [kind |-> "setup_again", request |-> event.request]
  /\ StartTransfer(event.request.id, event.request.packets, event.request.kind = "read")
  /\ address' = IF event.request.kind = "address"
                THEN [address EXCEPT !.new = event.request.id, !.pending = TRUE]
                ELSE address
  /\ UNCHANGED <<queue, control_generation, host, out_buf, last_packet>>

AnswerAgain == /\ Does("setup_again")
               /\ StartTransfer(event.request.id, 1, TRUE)
               /\ UNCHANGED <<out_buf, last_packet, address>>

\* ... or its data is awaited.
AwaitData == /\ Does("setup")
             /\ event.request.kind = "write"
             /\ last_packet' = event.request
             /\ transfer' = [transfer EXCEPT !.read = FALSE]
             /\ out_buf' = Armed(event.request.id, 1)
             /\ UNCHANGED <<in_buf, address>>

\* handle_ep0, IN completions: an announced address takes effect, ...
SetAddress == /\ Does("in")
              /\ address.pending
              /\ address' = [address EXCEPT !.active = address.new, !.pending = FALSE]
              /\ UNCHANGED <<buffers, transfer, last_packet>>

\* Mutant: the status packet of a write is taken for the last data of a read.
StatusAwaited == /\ Does("in")
                 /\ ~address.pending /\ ~transfer.read
                 /\ out_buf' = Armed(transfer.id, 0)
                 /\ UNCHANGED <<in_buf, device>>

\* ... a status packet ends the transfer, while the host may have begun the next (an OUT
\* buffer armed here would take its data), ...
StatusSent == /\ Does("in")
              /\ ~address.pending /\ ~transfer.read
              /\ UNCHANGED <<buffers, device>>

\* Mutant: a packet more than the response has.
SendOneMore == /\ Does("in")
               /\ ~address.pending /\ transfer.read /\ transfer.sent <= transfer.total
               /\ transfer' = [transfer EXCEPT !.sent = @ + 1]
               /\ in_buf' = Armed(transfer.id, transfer.sent + 1)
               /\ UNCHANGED <<out_buf, last_packet, address>>

\* ... the next packet of a read follows, or its status is awaited.
SendNext == /\ Does("in")
            /\ ~address.pending /\ transfer.read /\ transfer.sent < transfer.total
            /\ transfer' = [transfer EXCEPT !.sent = @ + 1]
            /\ in_buf' = Armed(transfer.id, transfer.sent + 1)
            /\ UNCHANGED <<out_buf, last_packet, address>>

AwaitStatus == /\ Does("in")
               /\ ~address.pending /\ transfer.read /\ transfer.sent = transfer.total
               /\ out_buf' = Armed(transfer.id, 0)
               /\ UNCHANGED <<in_buf, device>>

\* call_handler for OUT data: the interface takes it or refuses it.  A status
\* packet (of length 0) needs nothing.
DataArrived == /\ Does("out")
               /\ event.buf.index # 0
               /\ \/ StartTransfer(last_packet.id, 0, transfer.read) /\ UNCHANGED out_buf
                  \/ Stall(last_packet.id, transfer.read)
               /\ UNCHANGED <<last_packet, address>>

StatusArrived == /\ Does("out")
                 /\ event.buf.index = 0
                 /\ UNCHANGED <<buffers, device>>

\* usb_bus_reset.  It leaves the buffers and the generation as they are.
HandleReset == /\ Does("reset")
               /\ address' = [new |-> 0, pending |-> FALSE, active |-> 0]
               /\ UNCHANGED <<buffers, transfer, last_packet>>

MainLoop == \/ Take \/ RefuseSetup \/ IgnoreSetup \/ AnswerSetup \/ AnswerAgain \/ AwaitData
            \/ SetAddress \/ StatusSent \/ SendNext \/ AwaitStatus
            \/ DataArrived \/ StatusArrived \/ HandleReset

HostGoesOn == HostIn \/ HostOut \/ HostIsRefused

Next == Setup \/ HostGoesOn \/ BusReset \/ MainLoop

Spec == Init /\ [][Next]_vars

\* The main loop runs for ever, and the host polls the endpoint until the transfer
\* it began is over.  It need not begin one.
FairSpec == Spec /\ WF_vars(MainLoop) /\ WF_vars(HostGoesOn)

-------------------------------------------------------------------------------
(* Properties *)

Ids == 0 .. MaxTransfers
Buffers == {NoBuffer, Stalled} \cup [kind : {"armed"}, id : Ids, index : 0 .. MaxPackets]

\* Every variable has its type.
TypeOK ==
  /\ in_buf \in Buffers /\ out_buf \in Buffers
  /\ event.kind \in {"none", "setup", "setup_again", "in", "out", "reset"}
  /\ transfer \in [id : Ids, total : 0 .. MaxPackets, sent : 0 .. MaxPackets, read : BOOLEAN]
  /\ last_packet.id \in Ids
  /\ address \in [new : Ids, pending : BOOLEAN, active : Ids]
  /\ control_generation = host.request.id
  /\ host.stage \in {"idle", "reset", "data_in", "data_out", "status_in", "status_out"}

\* Whatever the host can read is what it is waiting for: the packet of its current
\* transfer that follows those it has, or that transfer's status.  A completion or a
\* buffer left from an abandoned transfer never answers the next one ("A new SETUP
\* aborts both directions of the previous control transfer").
OwnAnswer ==
  /\ host.stage = "data_in" /\ in_buf.kind = "armed" =>
       in_buf = Armed(host.request.id, host.got + 1)
  /\ host.stage = "status_in" /\ in_buf.kind = "armed" =>
       in_buf = Armed(host.request.id, 0)

\* Whatever the host writes is taken for what it is: the data or the status of its
\* current transfer.  The data reaches the interface with the SETUP it belongs to.
OwnData ==
  /\ host.stage = "data_out" /\ out_buf.kind = "armed" =>
       out_buf = Armed(host.request.id, 1) /\ last_packet.id = host.request.id
  /\ host.stage = "status_out" /\ out_buf.kind = "armed" =>
       out_buf = Armed(host.request.id, 0)
  /\ event.kind = "out" /\ event.generation = control_generation /\ event.buf.index # 0 =>
       last_packet.id = event.buf.id

ResetQueued == \E i \in DOMAIN queue : queue[i].kind = "reset"

\* The device changes its address only once the host has seen the acknowledgement
\* at the old one, and then to the address the host goes on with; else the two
\* never meet again.  A reset of the bus may come first, and is then yet to be handled.
AddressAfterStatus ==
  [][address'.active # address.active => address'.active = host.address \/ ResetQueued]_vars

\* Every transfer the program does not ignore comes to an end: each stage is armed or
\* refused, whatever became of the transfers before.
TransferEnds == \A id \in 1 .. MaxTransfers :
  (host.request.id = id /\ host.request.kind # "ignored" /\ host.stage \notin {"idle", "reset"})
    ~> (host.request.id # id \/ host.stage \in {"idle", "reset"})
===============================================================================
