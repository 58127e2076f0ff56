-------------------------- MODULE UsbEndpoints_proofs --------------------------
(***************************************************************************)
(* Proofs about UsbEndpoints, for any number of requests and bus resets    *)
(* and every set of alternate settings.  A first inductive invariant, IInv,*)
(* relates the toggles of both HID pipes to the event queue: each pipe     *)
(* implements ReportPipe.  A second one, DInv, relates what the device has *)
(* set up to what the host will believe once it has read the answer.       *)
(***************************************************************************)
EXTENDS UsbEndpoints, TLAPS

-------------------------------------------------------------------------------
(* The inductive invariant *)

AnyRequest == [kind : {"config"}, value : 0 .. 2]
                \cup [kind : {"interface"}, itf : {"stream", "hid"}, alt : Nat]
                \cup [kind : {"clear"}, ep : Endpoints]
Done(e) == [kind |-> "done", ep |-> e]
AnyEvent == AnyRequest \cup {Done(e) : e \in HidEndpoints} \cup {[kind |-> "reset"]}

Hosts == [config : {0, 1}, alts : [{"stream", "hid"} -> Nat],
          request : AnyRequest \cup {NoRequest}, answer : {"none", "ack", "stall"},
          requests : Nat, pid : [HidEndpoints -> {0, 1}]]

Types == /\ ep \in [Endpoints -> EndpointState]
         /\ queue \in Seq(AnyEvent)
         /\ pipe \in [HidEndpoints -> [unread : {0, 1}, unconfirmed : {0, 1}]]
         /\ host \in Hosts

IsRequest(event) == event.kind \in {"config", "interface", "clear"}
NoReset == \A i \in DOMAIN queue : queue[i].kind # "reset"

\* What a completion of e must not follow in the queue.
Affects(event, e) == event = Done(e) \/ Concerns(event, e)

Order == \A i, j \in DOMAIN queue : i < j =>
           /\ queue[i].kind = "reset" => queue[j].kind = "reset"
           /\ \A e \in HidEndpoints : queue[j] = Done(e) => ~Affects(queue[i], e)

\* A request is in the queue, or answered, or left over from before a bus reset.
Phase ==
  /\ ~NoReset => host.config = 0 /\ host.request = NoRequest
  /\ host.answer # "none" => host.request # NoRequest
  /\ host.answer = "ack" /\ host.request.kind = "config" => host.request.value \in {0, 1}
  /\ host.request.kind \in {"interface", "clear"} => host.config = 1
  /\ NoReset => \A i \in DOMAIN queue : IsRequest(queue[i]) =>
                  /\ queue[i] = host.request /\ host.answer = "none"
                  /\ \A j \in DOMAIN queue : IsRequest(queue[j]) => j = i

Queued(e) == \E i \in DOMAIN queue : queue[i] = Done(e)

\* The toggle a buffer is armed with, or will be once its completion is handled.
Armed(e, pid) == \/ ep[e].avail /\ ~Queued(e) /\ ep[e].pid = pid /\ ep[e].next_pid = 1 - pid
                 \/ ~ep[e].avail /\ Queued(e) /\ ep[e].next_pid = pid

\* The toggles fit a host whose next toggle is pid: the packet in the report buffer is
\* a new one exactly if it was not read; the command buffer is armed for the packet
\* the host will send next, or after it if the host missed the handshake.
Sync(e, pid) ==
  IF e = "hid_in"
  THEN IF Queued(e) THEN Armed(e, pid) /\ pipe[e] = Empty
       ELSE Armed(e, IF pipe[e].unread = 1 THEN pid ELSE 1 - pid) /\ pipe[e].unconfirmed = 1
  ELSE /\ Armed(e, IF pipe[e].unread = pipe[e].unconfirmed THEN pid ELSE 1 - pid)
       /\ pipe[e].unread <= pipe[e].unconfirmed

Executed(e) == host.answer = "ack" /\ Concerns(host.request, e)

InStep ==
  /\ \A e \in HidEndpoints :
       /\ Executed(e) => Sync(e, 0) \/ host.request = [kind |-> "config", value |-> 0]
       /\ host.config = 1 /\ ~Executed(e) => Sync(e, host.pid[e])
  /\ Queued("hid_in") => pipe["hid_in"] = Empty

IInv == Types /\ Order /\ Phase /\ InStep

-------------------------------------------------------------------------------
(* Events and the queue *)

LEMMA Kinds ==
  ASSUME NEW event \in AnyEvent
  PROVE  /\ event.kind \in {"config", "interface", "clear", "done", "reset"}
         /\ IsRequest(event) => event \in AnyRequest
         /\ event.kind = "done" => event.ep \in HidEndpoints /\ event = Done(event.ep)
         /\ event.kind = "config" =>
              event.value \in 0 .. 2 /\ event = [kind |-> "config", value |-> event.value]
         /\ event.kind = "clear" => event.ep \in Endpoints
         /\ event.kind = "interface" => event.itf \in {"stream", "hid"} /\ event.alt \in Nat
<1>1. CASE event \in AnyRequest
  <2>1. event.kind \in {"config", "interface", "clear"}
    BY <1>1 DEF AnyRequest
  <2>2. /\ event.kind = "config" =>
             event.value \in 0 .. 2 /\ event = [kind |-> "config", value |-> event.value]
        /\ event.kind = "clear" => event.ep \in Endpoints
        /\ event.kind = "interface" => event.itf \in {"stream", "hid"} /\ event.alt \in Nat
    BY <1>1 DEF AnyRequest
  <2> QED
    BY <1>1, <2>1, <2>2
<1>2. CASE event \in {Done(e) : e \in HidEndpoints}
  <2>1. PICK e \in HidEndpoints : event = Done(e)
    BY <1>2
  <2>2. event.kind = "done" /\ event.ep = e
    BY <2>1 DEF Done
  <2> QED
    BY <2>1, <2>2 DEF IsRequest
<1>3. CASE event = [kind |-> "reset"]
  BY <1>3 DEF IsRequest
<1> QED
  BY <1>1, <1>2, <1>3 DEF AnyEvent

LEMMA DoneIs ==
  ASSUME NEW e \in HidEndpoints
  PROVE  /\ Done(e) \in AnyEvent /\ Done(e).kind = "done" /\ Done(e).ep = e
         /\ ~IsRequest(Done(e))
         /\ \A f \in HidEndpoints : Done(e) = Done(f) => e = f
         /\ \A f \in HidEndpoints : ~Concerns(Done(e), f)
<1>1. Done(e).kind = "done" /\ \A f \in HidEndpoints : Done(f).ep = f
  BY DEF Done
<1> QED
  BY <1>1 DEF AnyEvent, IsRequest, Concerns

LEMMA Appended ==
  ASSUME NEW S, NEW s \in Seq(S), NEW x \in S
  PROVE  /\ Append(s, x) \in Seq(S)
         /\ DOMAIN Append(s, x) = 1 .. Len(s) + 1 /\ DOMAIN s = 1 .. Len(s) /\ Len(s) \in Nat
         /\ \A i \in 1 .. Len(s) : Append(s, x)[i] = s[i] /\ s[i] \in S
         /\ Append(s, x)[Len(s) + 1] = x
OBVIOUS

LEMMA Removed ==
  ASSUME NEW S, NEW s \in Seq(S), s # <<>>
  PROVE  /\ Tail(s) \in Seq(S)
         /\ Head(s) = s[1] /\ 1 \in DOMAIN s
         /\ DOMAIN Tail(s) = 1 .. Len(s) - 1 /\ DOMAIN s = 1 .. Len(s) /\ Len(s) \in Nat
         /\ \A i \in 1 .. Len(s) - 1 : Tail(s)[i] = s[i + 1]
         /\ \A i \in 1 .. Len(s) : s[i] \in S
OBVIOUS

\* Another event is queued.
LEMMA AfterAppend ==
  ASSUME Types, Order, NEW event \in AnyEvent, queue' = Append(queue, event),
         event.kind # "reset" => NoReset,
         \A e \in HidEndpoints : event = Done(e) => \A i \in DOMAIN queue : ~Affects(queue[i], e)
  PROVE  /\ queue' \in Seq(AnyEvent)
         /\ Order'
         /\ \A e \in HidEndpoints : Queued(e)' <=> Queued(e) \/ event = Done(e)
         /\ NoReset' <=> NoReset /\ event.kind # "reset"
<1>1. /\ queue' \in Seq(AnyEvent)
      /\ DOMAIN queue' = 1 .. Len(queue) + 1 /\ DOMAIN queue = 1 .. Len(queue)
      /\ Len(queue) \in Nat
      /\ \A i \in 1 .. Len(queue) : queue'[i] = queue[i]
      /\ queue'[Len(queue) + 1] = event
  BY Appended DEF Types
<1>2. Order'
  <2> SUFFICES ASSUME NEW i \in DOMAIN queue', NEW j \in DOMAIN queue', i < j
               PROVE  /\ queue'[i].kind = "reset" => queue'[j].kind = "reset"
                      /\ \A e \in HidEndpoints : queue'[j] = Done(e) => ~Affects(queue'[i], e)
    BY DEF Order, Affects, Concerns, Done
  <2>1. i \in DOMAIN queue /\ queue'[i] = queue[i]
    BY <1>1
  <2>2. CASE j = Len(queue) + 1
    BY <1>1, <2>1, <2>2 DEF NoReset
  <2>3. CASE j # Len(queue) + 1
    <3>1. j \in DOMAIN queue /\ queue'[j] = queue[j]
      BY <1>1, <2>3
    <3> QED
      BY <2>1, <3>1 DEF Order
  <2> QED
    BY <2>2, <2>3
<1>3. ASSUME NEW e \in HidEndpoints PROVE Queued(e)' <=> Queued(e) \/ event = Done(e)
  BY <1>1 DEF Queued, Done
<1>4. NoReset' <=> NoReset /\ event.kind # "reset"
  BY <1>1 DEF NoReset
<1> QED
  BY <1>1, <1>2, <1>3, <1>4

\* The oldest event is taken.
LEMMA AfterTake ==
  ASSUME Types, Order, NEW kind, Take(kind)
  PROVE  /\ queue' \in Seq(AnyEvent)
         /\ Head(queue) \in AnyEvent /\ Head(queue).kind = kind
         /\ Order'
         /\ \A e \in HidEndpoints :
              /\ Queued(e)' => Queued(e) /\ ~Affects(Head(queue), e) /\ kind # "reset"
              /\ Queued(e) => Queued(e)' \/ Head(queue) = Done(e)
              /\ Head(queue) = Done(e) => Queued(e)
         /\ kind # "reset" => (NoReset' <=> NoReset)
         /\ kind = "reset" => ~NoReset
         /\ kind = "reset" => \A i \in DOMAIN queue' : queue'[i].kind = "reset"
         /\ \A i \in DOMAIN queue' : i + 1 \in DOMAIN queue /\ queue'[i] = queue[i + 1]
<1>1. /\ queue' \in Seq(AnyEvent)
      /\ Head(queue) = queue[1] /\ 1 \in DOMAIN queue
      /\ DOMAIN queue' = 1 .. Len(queue) - 1 /\ DOMAIN queue = 1 .. Len(queue)
      /\ Len(queue) \in Nat
      /\ \A i \in 1 .. Len(queue) - 1 : queue'[i] = queue[i + 1]
      /\ \A i \in 1 .. Len(queue) : queue[i] \in AnyEvent
  BY Removed DEF Types, Take
<1>2. Head(queue) \in AnyEvent /\ Head(queue).kind = kind
  BY <1>1 DEF Take
<1>3. \A i \in DOMAIN queue' : i + 1 \in DOMAIN queue /\ 1 < i + 1 /\ queue'[i] = queue[i + 1]
  BY <1>1
<1>4. Order'
  <2> SUFFICES ASSUME NEW i \in DOMAIN queue', NEW j \in DOMAIN queue', i < j
               PROVE  /\ queue'[i].kind = "reset" => queue'[j].kind = "reset"
                      /\ \A e \in HidEndpoints : queue'[j] = Done(e) => ~Affects(queue'[i], e)
    BY DEF Order, Affects, Concerns, Done
  <2>1. i + 1 < j + 1
    BY <1>1
  <2> QED
    BY <1>3, <2>1 DEF Order
<1>5. ASSUME NEW e \in HidEndpoints
      PROVE  /\ Queued(e)' => Queued(e) /\ ~Affects(Head(queue), e) /\ kind # "reset"
             /\ Queued(e) => Queued(e)' \/ Head(queue) = Done(e)
             /\ Head(queue) = Done(e) => Queued(e)
  <2>1. ASSUME Queued(e)' PROVE Queued(e) /\ ~Affects(Head(queue), e) /\ kind # "reset"
    <3>1. PICK i \in DOMAIN queue' : queue'[i] = Done(e)
      BY <2>1 DEF Queued, Done
    <3>2. i + 1 \in DOMAIN queue /\ 1 < i + 1 /\ queue[i + 1] = Done(e)
      BY <1>3, <3>1
    <3>3. ~Affects(queue[1], e)
      BY <1>1, <3>2 DEF Order
    <3>4. queue[1].kind # "reset"
      BY <1>1, <3>2, DoneIs DEF Order
    <3> QED
      BY <1>1, <1>2, <3>2, <3>3, <3>4 DEF Queued
  <2>2. ASSUME Queued(e), Head(queue) # Done(e) PROVE Queued(e)'
    <3>1. PICK i \in DOMAIN queue : queue[i] = Done(e)
      BY <2>2 DEF Queued
    <3>2. i # 1
      BY <1>1, <2>2, <3>1
    <3>3. i - 1 \in DOMAIN queue' /\ queue'[i - 1] = queue[i]
      BY <1>1, <3>1, <3>2
    <3> QED
      BY <3>1, <3>3 DEF Queued, Done
  <2>3. Head(queue) = Done(e) => Queued(e)
    BY <1>1 DEF Queued
  <2> QED
    BY <2>1, <2>2, <2>3
<1>6. ASSUME kind # "reset" PROVE NoReset' <=> NoReset
  <2>1. NoReset => NoReset'
    BY <1>3 DEF NoReset
  <2>2. ASSUME NoReset' PROVE NoReset
    <3> SUFFICES ASSUME NEW i \in DOMAIN queue PROVE queue[i].kind # "reset"
      BY DEF NoReset
    <3>1. CASE i = 1
      BY <1>1, <1>2, <1>6, <3>1
    <3>2. CASE i # 1
      <4>1. i - 1 \in DOMAIN queue' /\ queue'[i - 1] = queue[i]
        BY <1>1, <3>2
      <4> QED
        BY <2>2, <4>1 DEF NoReset
    <3> QED
      BY <3>1, <3>2
  <2> QED
    BY <2>1, <2>2
<1>7. ASSUME kind = "reset" PROVE ~NoReset /\ \A i \in DOMAIN queue' : queue'[i].kind = "reset"
  <2>1. queue[1].kind = "reset"
    BY <1>1, <1>2, <1>7
  <2> QED
    BY <1>1, <1>3, <2>1 DEF NoReset, Order
<1> QED
  BY <1>1, <1>2, <1>3, <1>4, <1>5, <1>6, <1>7

-------------------------------------------------------------------------------
(* Requests and answers *)

\* A request is executed for the host that still waits for it, or for none.
LEMMA Answered ==
  ASSUME Types, Order, Phase,
         NEW kind \in {"config", "interface", "clear"}, Take(kind),
         NEW answer \in {"ack", "stall"}, Answer(answer),
         answer = "ack" /\ kind = "config" => Head(queue).value \in {0, 1}
  PROVE  /\ host' \in Hosts /\ Phase'
         /\ host'.config = host.config /\ host'.request = host.request /\ host'.pid = host.pid
         /\ \/ /\ host' = host /\ host.config = 0 /\ host.request = NoRequest
               /\ host.answer = "none"
            \/ host.request = Head(queue) /\ host.answer = "none" /\ host'.answer = answer
<1>1. /\ Head(queue) \in AnyEvent /\ Head(queue).kind = kind
      /\ NoReset' <=> NoReset
      /\ \A i \in DOMAIN queue' : i + 1 \in DOMAIN queue /\ queue'[i] = queue[i + 1]
  BY AfterTake
<1>2. /\ Head(queue) = queue[1] /\ 1 \in DOMAIN queue
      /\ queue' \in Seq(AnyEvent)
      /\ DOMAIN queue' = 1 .. Len(queue) - 1 /\ Len(queue) \in Nat
  BY Removed DEF Types, Take
<1>3. IsRequest(queue[1])
  BY <1>1, <1>2 DEF IsRequest
<1>4. CASE ~NoReset
  <2>1. host.config = 0 /\ host.request = NoRequest /\ host' = host /\ host.answer = "none"
    BY <1>4 DEF Phase, Answer, Types, Hosts
  <2>2. Phase'
    BY <1>1, <1>4, <2>1 DEF Phase, NoRequest
  <2> QED
    BY <2>1, <2>2 DEF Types
<1>5. CASE NoReset
  <2>1. /\ host.request = Head(queue) /\ host.answer = "none"
        /\ \A j \in DOMAIN queue : IsRequest(queue[j]) => j = 1
    BY <1>2, <1>3, <1>5 DEF Phase
  <2>2. host.request # NoRequest
    BY <1>1, <2>1 DEF NoRequest
  <2>3. /\ host' \in Hosts
        /\ host'.config = host.config /\ host'.request = host.request /\ host'.pid = host.pid
        /\ host'.answer = answer
    BY <2>2 DEF Answer, Types, Hosts
  <2>4. \A j \in DOMAIN queue' : ~IsRequest(queue'[j])
    BY <1>1, <1>2, <2>1
  <2>5. Phase'
    BY <1>1, <1>5, <2>1, <2>2, <2>3, <2>4 DEF Phase, IsRequest
  <2> QED
    BY <2>1, <2>3, <2>5
<1> QED
  BY <1>4, <1>5

\* The other events concern no request.
LEMMA NotAnswered ==
  ASSUME Types, Order, Phase, NEW kind \in {"done", "reset"}, Take(kind), host' = host
  PROVE  Phase'
<1>1. /\ kind # "reset" => (NoReset' <=> NoReset)
      /\ kind = "reset" => ~NoReset /\ \A i \in DOMAIN queue' : queue'[i].kind = "reset"
      /\ \A i \in DOMAIN queue' : i + 1 \in DOMAIN queue /\ queue'[i] = queue[i + 1]
      /\ DOMAIN queue' = 1 .. Len(queue) - 1 /\ Len(queue) \in Nat
  BY AfterTake, Removed DEF Types, Take
<1>2. CASE kind = "reset"
  BY <1>1, <1>2 DEF Phase, IsRequest, NoRequest
<1>3. CASE kind # "reset" /\ ~NoReset
  BY <1>1, <1>3 DEF Phase
<1>4. CASE kind # "reset" /\ NoReset
  <2>1. ASSUME NEW i \in DOMAIN queue', IsRequest(queue'[i])
        PROVE  /\ queue'[i] = host.request /\ host.answer = "none"
               /\ \A j \in DOMAIN queue' : IsRequest(queue'[j]) => j = i
    <3>1. i + 1 \in DOMAIN queue /\ queue'[i] = queue[i + 1]
      BY <1>1
    <3>2. /\ queue[i + 1] = host.request /\ host.answer = "none"
          /\ \A j \in DOMAIN queue : IsRequest(queue[j]) => j = i + 1
      BY <1>4, <2>1, <3>1 DEF Phase, IsRequest
    <3>3. ASSUME NEW j \in DOMAIN queue', IsRequest(queue'[j]) PROVE j = i
      <4>1. j + 1 \in DOMAIN queue /\ queue'[j] = queue[j + 1]
        BY <1>1
      <4>2. j + 1 = i + 1
        BY <3>2, <3>3, <4>1 DEF IsRequest
      <4> QED
        BY <1>1, <4>2
    <3> QED
      BY <3>1, <3>2, <3>3
  <2> QED
    BY <1>1, <1>4, <2>1 DEF Phase, IsRequest
<1> QED
  BY <1>2, <1>3, <1>4

-------------------------------------------------------------------------------
(* Endpoints *)

Registers == [Endpoints -> EndpointState]

LEMMA Transfer ==
  ASSUME NEW eps \in Registers, NEW e \in Endpoints
  PROVE  LET new == usb_start_transfer(eps, e) IN
         /\ new \in Registers
         /\ new[e].avail /\ new[e].pid = eps[e].next_pid
         /\ new[e].next_pid = 1 - eps[e].next_pid
         /\ \A f \in Endpoints : f # e => new[f] = eps[f]
<1> DEFINE one == [enabled |-> eps[e].enabled, avail |-> TRUE,
                   pid |-> eps[e].next_pid, next_pid |-> 1 - eps[e].next_pid]
<1>1. eps[e].enabled \in BOOLEAN /\ eps[e].next_pid \in {0, 1}
  BY DEF Registers, EndpointState
<1>2. one \in EndpointState
  BY <1>1 DEF EndpointState
<1>3. one.avail = TRUE /\ one.pid = eps[e].next_pid /\ one.next_pid = 1 - eps[e].next_pid
  OBVIOUS
<1>4. usb_start_transfer(eps, e) = [eps EXCEPT ![e] = one]
  BY DEF usb_start_transfer
<1>5. one.avail
  BY <1>3
<1> HIDE DEF one
<1>6. usb_start_transfer(eps, e) \in Registers
  BY <1>2, <1>4 DEF Registers
<1>7. /\ usb_start_transfer(eps, e)[e] = one
      /\ \A f \in Endpoints : f # e => usb_start_transfer(eps, e)[f] = eps[f]
  BY <1>4 DEF Registers
<1> QED
  BY <1>3, <1>5, <1>6, <1>7

\* The audio interface has no HID endpoint; the HID interface has both.
LEMMA Descriptors ==
  /\ \A alt : \A d \in walk_descriptor("stream", alt) : d.ep \notin HidEndpoints
  /\ \A e \in HidEndpoints : \E d \in walk_descriptor("hid", 0) : d.ep = e
<1> DEFINE Feedback == Described("stream", 1 .. AltMax, "feedback_in", 4)
           Audio == Described("stream", 1 .. 3, "audio_out", 776)
                      \cup Described("stream", (1 .. AltMax) \cap (4 .. 7), "audio_out", 388)
                      \cup Described("stream", (1 .. AltMax) \cap {8}, "audio_out", 772)
           Reports == Described("hid", {0}, "hid_in", 17)
           Commands == Described("hid", {0}, "hid_out", 2)
           Report == [itf |-> "hid", alt |-> 0, ep |-> "hid_in", size |-> 17]
           Command == [itf |-> "hid", alt |-> 0, ep |-> "hid_out", size |-> 2]
<1>1. configuration_descriptor = Feedback \cup Audio \cup Reports \cup Commands
  BY DEF configuration_descriptor
<1>2. /\ \A d \in Feedback : d.ep \notin HidEndpoints
      /\ \A d \in Audio : d.ep \notin HidEndpoints
      /\ \A d \in Reports \cup Commands : d.itf = "hid"
  <2>1. \A d \in Feedback : d.ep = "feedback_in"
    BY DEF Described
  <2>2. ASSUME NEW d \in Audio PROVE d.ep = "audio_out"
    <3>1. PICK alts, size : d \in Described("stream", alts, "audio_out", size)
      OBVIOUS
    <3> QED
      BY <3>1 DEF Described
  <2>3. \A d \in Reports \cup Commands : d.itf = "hid"
    BY DEF Described
  <2> HIDE DEF Feedback, Audio, Reports, Commands
  <2> QED
    BY <2>1, <2>2, <2>3 DEF HidEndpoints
<1>3. /\ Report \in Reports /\ Report.itf = "hid" /\ Report.alt = 0 /\ Report.ep = "hid_in"
      /\ Command \in Commands /\ Command.itf = "hid" /\ Command.alt = 0 /\ Command.ep = "hid_out"
  BY DEF Described
<1> HIDE DEF Feedback, Audio, Reports, Commands, Report, Command
<1>4. ASSUME NEW alt, NEW d \in walk_descriptor("stream", alt)
      PROVE  d.ep \notin HidEndpoints
  BY <1>1, <1>2 DEF walk_descriptor, HidEndpoints
<1>5. Report \in walk_descriptor("hid", 0) /\ Command \in walk_descriptor("hid", 0)
  BY <1>1, <1>3 DEF walk_descriptor
<1>6. \A e \in HidEndpoints : \E d \in walk_descriptor("hid", 0) : d.ep = e
  BY <1>3, <1>5 DEF HidEndpoints
<1> QED
  BY <1>4, <1>6

LEMMA Enabled ==
  ASSUME NEW eps \in Registers, NEW descriptors
  PROVE  /\ enable_ep(eps, descriptors) \in Registers
         /\ disable_ep(eps, descriptors) \in Registers
         /\ \A e \in Endpoints : (\E d \in descriptors : d.ep = e) =>
              /\ enable_ep(eps, descriptors)[e].next_pid = 0
         /\ \A e \in Endpoints : ~(\E d \in descriptors : d.ep = e) =>
              /\ enable_ep(eps, descriptors)[e] = eps[e]
              /\ disable_ep(eps, descriptors)[e] = eps[e]
<1>1. [enabled |-> TRUE, avail |-> TRUE, pid |-> 0, next_pid |-> 0] \in EndpointState
  BY DEF EndpointState
<1>2. \A e \in Endpoints : [eps[e] EXCEPT !.enabled = FALSE, !.avail = FALSE] \in EndpointState
  BY DEF EndpointState, Registers
<1>3. enable_ep(eps, descriptors) \in Registers
  BY <1>1 DEF enable_ep, Registers
<1>4. disable_ep(eps, descriptors) \in Registers
  BY <1>2 DEF disable_ep, Registers
<1>5. \A e \in Endpoints : (\E d \in descriptors : d.ep = e) =>
        enable_ep(eps, descriptors)[e].next_pid = 0
  BY DEF enable_ep
<1>6. \A e \in Endpoints : ~(\E d \in descriptors : d.ep = e) =>
        /\ enable_ep(eps, descriptors)[e] = eps[e]
        /\ disable_ep(eps, descriptors)[e] = eps[e]
  BY DEF enable_ep, disable_ep
<1> QED
  BY <1>3, <1>4, <1>5, <1>6

\* Once the interface is initialised both pipes begin a new sequence.

LEMMA TwoTransfers ==
  ASSUME NEW eps \in Registers, NEW a \in Endpoints, NEW b \in Endpoints, a # b,
         eps[a].next_pid = 0, eps[b].next_pid = 0,
         NEW new, new = usb_start_transfer(usb_start_transfer(eps, a), b)
  PROVE  /\ new \in Registers
         /\ new[a].avail /\ new[a].pid = 0 /\ new[a].next_pid = 1
         /\ new[b].avail /\ new[b].pid = 0 /\ new[b].next_pid = 1
<1>1. PICK mid : mid = usb_start_transfer(eps, a)
  OBVIOUS
<1>2. /\ mid \in Registers /\ mid[b] = eps[b]
      /\ mid[a].avail /\ mid[a].pid = 0 /\ mid[a].next_pid = 1
  BY <1>1, Transfer
<1>3. new = usb_start_transfer(mid, b)
  BY <1>1
<1>4. /\ new \in Registers /\ new[a] = mid[a]
      /\ new[b].avail /\ new[b].pid = 0 /\ new[b].next_pid = 1
  BY <1>2, <1>3, Transfer
<1> QED
  BY <1>2, <1>4

LEMMA SetUp ==
  ASSUME NEW eps \in Registers, \A e \in HidEndpoints : eps[e].next_pid = 0,
         ep' = usb_hid_set_interface(eps), pipe' = PipesSetUp,
         \A e \in HidEndpoints : ~Queued(e)'
  PROVE  /\ ep' \in Registers
         /\ pipe' \in [HidEndpoints -> [unread : {0, 1}, unconfirmed : {0, 1}]]
         /\ \A e \in HidEndpoints : Sync(e, 0)'
<1>1. "hid_in" \in Endpoints /\ "hid_out" \in Endpoints /\ "hid_in" # "hid_out"
      /\ HidEndpoints = {"hid_in", "hid_out"}
  BY DEF Endpoints, HidEndpoints
<1>4. /\ ep' \in Registers
      /\ ep'["hid_in"].avail /\ ep'["hid_in"].pid = 0 /\ ep'["hid_in"].next_pid = 1
      /\ ep'["hid_out"].avail /\ ep'["hid_out"].pid = 0 /\ ep'["hid_out"].next_pid = 1
  BY <1>1, TwoTransfers DEF usb_hid_set_interface
<1>5. pipe'["hid_in"] = OneReport /\ pipe'["hid_out"] = Empty
      /\ pipe' = [e \in HidEndpoints |-> IF e = "hid_in" THEN OneReport ELSE Empty]
  BY <1>1 DEF PipesSetUp, PipesEmpty
<1>6. /\ OneReport \in [unread : {0, 1}, unconfirmed : {0, 1}]
      /\ Empty \in [unread : {0, 1}, unconfirmed : {0, 1}]
      /\ OneReport.unread = 1 /\ OneReport.unconfirmed = 1
      /\ Empty.unread = 0 /\ Empty.unconfirmed = 0
  BY DEF OneReport, Empty
<1>7. pipe' \in [HidEndpoints -> [unread : {0, 1}, unconfirmed : {0, 1}]]
  BY <1>5, <1>6
<1>8. Sync("hid_in", 0)'
  BY <1>1, <1>4, <1>5, <1>6 DEF Sync, Armed
<1>9. Sync("hid_out", 0)'
  BY <1>1, <1>4, <1>5, <1>6 DEF Sync, Armed
<1> QED
  BY <1>1, <1>4, <1>7, <1>8, <1>9

LEMMA SyncSame ==
  ASSUME NEW e \in HidEndpoints, NEW pid,
         ep'[e] = ep[e], pipe'[e] = pipe[e], Queued(e)' <=> Queued(e), Sync(e, pid)
  PROVE  Sync(e, pid)'
<1>1. ASSUME NEW p, Armed(e, p) PROVE Armed(e, p)'
  BY <1>1 DEF Armed
<1> QED
  BY <1>1 DEF Sync, Empty

-------------------------------------------------------------------------------
(* The steps of the host *)

LEMMA InitIInv == Init => IInv
<1> SUFFICES ASSUME Init PROVE IInv
  OBVIOUS
<1>1. queue = <<>> /\ DOMAIN queue = {}
  BY DEF Init
<1>2. Types
  <2>1. ep \in [Endpoints -> EndpointState]
    BY DEF Init, Closed, EndpointState
  <2>2. pipe \in [HidEndpoints -> [unread : {0, 1}, unconfirmed : {0, 1}]]
    BY DEF Init, Empty
  <2>3. host \in Hosts
    BY DEF Init, Hosts, NoAlternates
  <2> QED
    BY <1>1, <2>1, <2>2, <2>3 DEF Types
<1>3. Order
  BY <1>1 DEF Order
<1>4. Phase
  BY <1>1 DEF Init, Phase, NoReset, NoRequest
<1>5. InStep
  BY <1>1 DEF Init, InStep, Queued, Executed
<1> QED
  BY <1>2, <1>3, <1>4, <1>5 DEF IInv

\* The steps that neither queue a completion nor touch an endpoint or a pipe.
LEMMA InStepSame ==
  ASSUME InStep, \A e \in HidEndpoints : ep'[e] = ep[e], pipe' = pipe,
         \A e \in HidEndpoints : Queued(e)' <=> Queued(e),
         \A e \in HidEndpoints :
           /\ Executed(e)' => Executed(e) /\ host'.request = host.request
           /\ host'.config = 1 /\ ~Executed(e)' =>
                \/ host.config = 1 /\ ~Executed(e) /\ host'.pid[e] = host.pid[e]
                \/ Sync(e, 0) /\ host'.pid[e] = 0
  PROVE  InStep'
<1>1. ASSUME NEW e \in HidEndpoints, Executed(e)'
      PROVE  Sync(e, 0)' \/ host'.request = [kind |-> "config", value |-> 0]
  BY <1>1, SyncSame DEF InStep
<1>2. ASSUME NEW e \in HidEndpoints, host'.config = 1, ~Executed(e)'
      PROVE  Sync(e, host.pid[e])'
  <2>1. PICK p : p = host'.pid[e]
    OBVIOUS
  <2>2. Sync(e, p)
    BY <1>2, <2>1 DEF InStep
  <2>3. Sync(e, p)'
    BY <2>2, SyncSame
  <2> QED
    BY <2>1, <2>3 DEF Sync, Armed
<1>3. Queued("hid_in")' => pipe'["hid_in"] = Empty
  BY DEF InStep, HidEndpoints
<1> QED
  BY <1>1, <1>2, <1>3 DEF InStep

LEMMA HostRequestsStep == ASSUME IInv, HostRequests PROVE IInv'
<1>1. PICK request \in Requests :
        /\ host' = [host EXCEPT !.request = request, !.requests = @ + 1]
        /\ queue' = Append(queue, request)
  BY DEF HostRequests
<1>2. /\ request \in AnyRequest /\ request \in AnyEvent /\ IsRequest(request)
      /\ request.kind \in {"interface", "clear"} => host.config = 1
  <2>1. CASE request \in [kind : {"config"}, value : 0 .. 2]
    BY <2>1 DEF AnyRequest, AnyEvent, IsRequest
  <2>2. CASE /\ host.config = 1
             /\ request \in [kind : {"interface"}, itf : {"stream"}, alt : 0 .. AltMax + 1]
                               \cup [kind : {"interface"}, itf : {"hid"}, alt : {0, 1}]
    <3>1. 0 .. AltMax + 1 \subseteq Nat
      BY AltMaxAssumption
    <3>2. request \in [kind : {"interface"}, itf : {"stream", "hid"}, alt : Nat]
      BY <2>2, <3>1
    <3> QED
      BY <2>2, <3>2 DEF AnyRequest, AnyEvent, IsRequest
  <2>3. CASE host.config = 1 /\ request \in [kind : {"clear"}, ep : Endpoints]
    BY <2>3 DEF AnyRequest, AnyEvent, IsRequest
  <2> QED
    BY <1>1, <2>1, <2>2, <2>3 DEF Requests
<1>3. host.request = NoRequest /\ NoReset /\ UNCHANGED <<ep, pipe>>
  BY DEF HostRequests, NoReset
<1>4. /\ host' \in Hosts /\ host'.request = request
      /\ host'.config = host.config /\ host'.answer = host.answer /\ host'.pid = host.pid
  <2>1. PICK n \in Nat : n = host.requests + 1
    BY DEF IInv, Types, Hosts
  <2>2. host' = [host EXCEPT !.request = request, !.requests = n]
    BY <1>1, <2>1
  <2> QED
    BY <1>2, <2>2 DEF IInv, Types, Hosts
<1>5. host.answer = "none"
  BY <1>3 DEF IInv, Phase, Types, Hosts
<1>6. \A i \in DOMAIN queue : ~IsRequest(queue[i])
  BY <1>3 DEF IInv, Phase, NoRequest, IsRequest
<1>7. request.kind # "reset" /\ \A e \in HidEndpoints : request # Done(e)
  BY <1>2, DoneIs DEF IsRequest
<1>8. /\ queue' \in Seq(AnyEvent) /\ Order'
      /\ \A e \in HidEndpoints : Queued(e)' <=> Queued(e)
      /\ NoReset'
  BY <1>1, <1>2, <1>3, <1>7, AfterAppend DEF IInv
<1>9. /\ DOMAIN queue' = 1 .. Len(queue) + 1 /\ DOMAIN queue = 1 .. Len(queue)
      /\ Len(queue) \in Nat
      /\ \A i \in 1 .. Len(queue) : queue'[i] = queue[i]
      /\ queue'[Len(queue) + 1] = request
  BY <1>1, <1>2, Appended DEF IInv, Types
<1>10. Phase'
  <2>1. ASSUME NEW i \in DOMAIN queue', IsRequest(queue'[i]) PROVE i = Len(queue) + 1
    BY <1>6, <1>9, <2>1
  <2> QED
    BY <1>2, <1>4, <1>5, <1>8, <1>9, <2>1 DEF Phase, IsRequest
<1>11. InStep'
  BY <1>3, <1>4, <1>5, <1>8, InStepSame DEF IInv, Executed
<1> QED
  BY <1>3, <1>4, <1>8, <1>10, <1>11 DEF IInv, Types

LEMMA HostIsAnsweredStep == ASSUME IInv, HostIsAnswered PROVE IInv'
<1> DEFINE request == host.request
<1>1. /\ host.answer = "ack" /\ request # NoRequest /\ NoReset
      /\ UNCHANGED <<ep, queue, pipe>>
  BY DEF HostIsAnswered, IInv, Phase
<1>2. request \in AnyRequest /\ request \in AnyEvent
  BY <1>1 DEF IInv, Types, Hosts, AnyEvent
<1>3. request.kind = "config" => request.value \in {0, 1}
  BY <1>1 DEF IInv, Phase
<1> DEFINE alts == CASE request.kind = "config" -> NoAlternates
                     [] request.kind = "interface" -> [host.alts EXCEPT ![request.itf] = request.alt]
                     [] OTHER -> host.alts
           pid == [e \in HidEndpoints |-> IF Concerns(request, e) THEN 0 ELSE host.pid[e]]
           config == IF request.kind = "config" THEN request.value ELSE host.config
<1>4. host' = [host EXCEPT !.request = NoRequest, !.answer = "none", !.config = config,
                           !.alts = alts, !.pid = pid]
  BY DEF HostIsAnswered
<1>5. alts \in [{"stream", "hid"} -> Nat]
  BY <1>2, Kinds DEF NoAlternates, IInv, Types, Hosts
<1>6. pid \in [HidEndpoints -> {0, 1}] /\ config \in {0, 1}
  BY <1>3 DEF IInv, Types, Hosts
<1> HIDE DEF alts
<1>7. /\ host' \in Hosts /\ host'.request = NoRequest /\ host'.answer = "none"
      /\ host'.config = config /\ host'.pid = pid
  BY <1>4, <1>5, <1>6 DEF IInv, Types, Hosts
<1>8. Order' /\ NoReset' /\ \A e \in HidEndpoints : Queued(e)' <=> Queued(e)
  BY <1>1 DEF IInv, Order, Affects, Done, NoReset, Queued, Concerns
<1>9. \A i \in DOMAIN queue' : ~IsRequest(queue'[i])
  BY <1>1 DEF IInv, Phase, IsRequest
<1>10. Phase'
  BY <1>7, <1>8, <1>9 DEF Phase, IsRequest, NoRequest
<1>11. ASSUME NEW e \in HidEndpoints
       PROVE  /\ ~Executed(e)'
              /\ host'.config = 1 =>
                   \/ host.config = 1 /\ ~Executed(e) /\ host'.pid[e] = host.pid[e]
                   \/ Sync(e, 0) /\ host'.pid[e] = 0
  <2>1. ~Executed(e)'
    BY <1>7 DEF Executed
  <2>2. CASE Concerns(request, e)
    <3>1. Executed(e) /\ host'.pid[e] = 0
      BY <1>1, <1>7, <2>2 DEF Executed
    <3>2. request = [kind |-> "config", value |-> 0] => config = 0
      OBVIOUS
    <3> QED
      BY <1>7, <2>1, <3>1, <3>2 DEF IInv, InStep
  <2>3. CASE ~Concerns(request, e)
    <3>1. request.kind # "config" /\ ~Executed(e) /\ host'.pid[e] = host.pid[e]
      BY <1>7, <2>3 DEF Concerns, Executed
    <3> QED
      BY <1>7, <2>1, <3>1
  <2> QED
    BY <2>2, <2>3
<1>12. InStep'
  BY <1>1, <1>8, <1>11, InStepSame DEF IInv
<1> QED
  BY <1>1, <1>7, <1>8, <1>10, <1>12 DEF IInv, Types

LEMMA HostIsRefusedStep == ASSUME IInv, HostIsRefused PROVE IInv'
<1>1. /\ host.answer = "stall" /\ host.request # NoRequest /\ NoReset
      /\ UNCHANGED <<ep, queue, pipe>>
  BY DEF HostIsRefused, IInv, Phase
<1>2. /\ host' \in Hosts /\ host'.request = NoRequest /\ host'.answer = "none"
      /\ host'.config = host.config /\ host'.pid = host.pid
  BY DEF HostIsRefused, IInv, Types, Hosts
<1>3. Order' /\ NoReset' /\ \A e \in HidEndpoints : Queued(e)' <=> Queued(e)
  BY <1>1 DEF IInv, Order, Affects, Done, NoReset, Queued, Concerns
<1>4. \A i \in DOMAIN queue' : ~IsRequest(queue'[i])
  BY <1>1 DEF IInv, Phase, IsRequest
<1>5. Phase'
  BY <1>2, <1>3, <1>4 DEF Phase, IsRequest, NoRequest
<1>6. InStep'
  BY <1>1, <1>2, <1>3, InStepSame DEF IInv, Executed
<1> QED
  BY <1>1, <1>2, <1>3, <1>5, <1>6 DEF IInv, Types

LEMMA BusResetStep == ASSUME IInv, BusReset PROVE IInv'
<1> DEFINE reset == [kind |-> "reset"]
<1>1. /\ host' \in Hosts /\ host'.request = NoRequest /\ host'.answer = "none"
      /\ host'.config = 0
  <2>1. PICK n \in Nat : n = host.requests + 1
    BY DEF IInv, Types, Hosts
  <2>2. PICK alts \in [{"stream", "hid"} -> Nat] : alts = NoAlternates
    BY DEF NoAlternates
  <2>3. host' = [host EXCEPT !.config = 0, !.alts = alts, !.request = NoRequest,
                             !.answer = "none", !.requests = n]
    BY <2>1, <2>2 DEF BusReset
  <2> QED
    BY <2>3 DEF IInv, Types, Hosts
<1>2. queue' = Append(queue, reset) /\ UNCHANGED <<ep, pipe>>
  BY DEF BusReset
<1>3. reset \in AnyEvent /\ reset.kind = "reset"
  BY DEF AnyEvent
<1>4. \A e \in HidEndpoints : reset # Done(e)
  BY <1>3, DoneIs
<1>5. /\ queue' \in Seq(AnyEvent) /\ Order' /\ ~NoReset'
      /\ \A e \in HidEndpoints : Queued(e)' <=> Queued(e)
  BY <1>2, <1>3, <1>4, AfterAppend DEF IInv
<1>6. Phase'
  BY <1>1, <1>5 DEF Phase, NoRequest
<1>7. InStep'
  BY <1>1, <1>2, <1>5, InStepSame DEF IInv, Executed
<1> QED
  BY <1>1, <1>2, <1>5, <1>6, <1>7 DEF IInv, Types

-------------------------------------------------------------------------------
(* The traffic *)

\* A host that uses a pipe is configured, and in step with the endpoint.
LEMMA InUse ==
  ASSUME IInv, NEW e \in HidEndpoints, HostUses(e)
  PROVE  host.config = 1 /\ NoReset /\ ~Executed(e) /\ Sync(e, host.pid[e])
BY DEF HostUses, IInv, Phase, Executed, InStep

\* A packet is exchanged only in a buffer whose completion is not queued, and when
\* no event in the queue is about the endpoint.
LEMMA CanComplete ==
  ASSUME IInv, NEW e \in HidEndpoints, Ready(e)
  PROVE  ~Queued(e) /\ \A i \in DOMAIN queue : ~Affects(queue[i], e)
<1>1. HostUses(e) /\ NoReset /\ Sync(e, host.pid[e]) /\ ep[e].avail
  BY InUse DEF Ready
<1>2. ~Queued(e)
  BY <1>1 DEF Sync, Armed
<1>3. ASSUME NEW i \in DOMAIN queue, Affects(queue[i], e) PROVE FALSE
  <2>1. Concerns(queue[i], e)
    BY <1>2, <1>3 DEF Affects, Queued
  <2>2. IsRequest(queue[i])
    BY <2>1 DEF Concerns, IsRequest
  <2>3. queue[i] = host.request
    BY <1>1, <2>2 DEF IInv, Phase
  <2> QED
    BY <1>1, <2>1, <2>3 DEF HostUses
<1> QED
  BY <1>2, <1>3

LEMMA Completed ==
  ASSUME IInv, NEW e \in HidEndpoints, Ready(e), Complete(e)
  PROVE  /\ ep' \in Registers /\ queue' \in Seq(AnyEvent) /\ Order'
         /\ ~ep'[e].avail /\ ep'[e].pid = ep[e].pid /\ ep'[e].next_pid = ep[e].next_pid
         /\ \A f \in Endpoints : f # e => ep'[f] = ep[f]
         /\ Queued(e)' /\ \A f \in HidEndpoints : f # e => (Queued(f)' <=> Queued(f))
         /\ NoReset'
         /\ DOMAIN queue' = 1 .. Len(queue) + 1 /\ DOMAIN queue = 1 .. Len(queue)
         /\ \A i \in 1 .. Len(queue) : queue'[i] = queue[i]
         /\ queue'[Len(queue) + 1] = Done(e)
<1>1. queue' = Append(queue, Done(e)) /\ ep' = [ep EXCEPT ![e].avail = FALSE]
  BY DEF Complete, Done
<1>2. e \in Endpoints
  BY DEF HidEndpoints, Endpoints
<1>3. /\ ep' \in Registers
      /\ ~ep'[e].avail /\ ep'[e].pid = ep[e].pid /\ ep'[e].next_pid = ep[e].next_pid
      /\ \A f \in Endpoints : f # e => ep'[f] = ep[f]
  BY <1>1, <1>2 DEF IInv, Types, Registers, EndpointState
<1>4. NoReset
  BY InUse DEF Ready
<1>5. Done(e) \in AnyEvent /\ Done(e).kind # "reset" /\ \A f \in HidEndpoints : Done(e) = Done(f) => f = e
  BY DoneIs
<1>6. /\ queue' \in Seq(AnyEvent) /\ Order' /\ NoReset'
      /\ Queued(e)' /\ \A f \in HidEndpoints : f # e => (Queued(f)' <=> Queued(f))
  BY <1>1, <1>4, <1>5, CanComplete, AfterAppend DEF IInv
<1> QED
  BY <1>1, <1>3, <1>5, <1>6, Appended DEF IInv, Types

\* A completion is no request.
LEMMA PhaseCompleted ==
  ASSUME IInv, NEW e \in HidEndpoints, Ready(e), Complete(e),
         host'.config = host.config, host'.request = host.request, host'.answer = host.answer
  PROVE  Phase'
<1>1. /\ NoReset' /\ Len(queue) \in Nat
      /\ DOMAIN queue' = 1 .. Len(queue) + 1 /\ DOMAIN queue = 1 .. Len(queue)
      /\ \A i \in 1 .. Len(queue) : queue'[i] = queue[i]
      /\ queue'[Len(queue) + 1] = Done(e)
  BY Completed, Appended DEF IInv, Types
<1>2. NoReset
  BY InUse DEF Ready
<1>3. ASSUME NEW i \in DOMAIN queue', IsRequest(queue'[i])
      PROVE  i \in DOMAIN queue /\ queue'[i] = queue[i] /\ IsRequest(queue[i])
  <2>1. i # Len(queue) + 1
    BY <1>1, <1>3, DoneIs DEF IsRequest
  <2> QED
    BY <1>1, <1>3, <2>1 DEF IsRequest
<1> QED
  BY <1>1, <1>2, <1>3 DEF IInv, Phase, IsRequest

\* The packets counted in a pipe, each 0 or 1.
LEMMA PipeOf ==
  ASSUME Types, NEW e \in HidEndpoints
  PROVE  /\ pipe[e].unread \in {0, 1} /\ pipe[e].unconfirmed \in {0, 1}
         /\ pipe[e] = [unread |-> pipe[e].unread, unconfirmed |-> pipe[e].unconfirmed]
         /\ ep[e].pid \in {0, 1} /\ ep[e].next_pid \in {0, 1}
         /\ host.pid[e] \in {0, 1}
<1>1. e \in Endpoints
  BY DEF HidEndpoints, Endpoints
<1> QED
  BY <1>1 DEF Types, EndpointState, Hosts

\* The traffic of one endpoint leaves the other as it is.
LEMMA InStepOther ==
  ASSUME IInv, NEW e \in HidEndpoints,
         host'.config = host.config, host'.request = host.request, host'.answer = host.answer,
         \A f \in HidEndpoints : f # e =>
           /\ ep'[f] = ep[f] /\ pipe'[f] = pipe[f] /\ (Queued(f)' <=> Queued(f))
           /\ host'.pid[f] = host.pid[f]
  PROVE  /\ \A f \in HidEndpoints : f # e =>
              /\ Executed(f)' => Sync(f, 0)' \/ host'.request = [kind |-> "config", value |-> 0]
              /\ host'.config = 1 /\ ~Executed(f)' => Sync(f, host.pid[f])'
         /\ e # "hid_in" => (Queued("hid_in")' => pipe'["hid_in"] = Empty)
<1>1. ASSUME NEW f \in HidEndpoints, f # e
      PROVE  /\ Executed(f)' => Sync(f, 0)' \/ host'.request = [kind |-> "config", value |-> 0]
             /\ host'.config = 1 /\ ~Executed(f)' => Sync(f, host.pid[f])'
  <2>1. Executed(f)' <=> Executed(f)
    BY DEF Executed
  <2>2. PICK p : p = host.pid[f]
    OBVIOUS
  <2>3. Sync(f, 0) => Sync(f, 0)'
    BY <1>1, SyncSame
  <2>4. Sync(f, p) => Sync(f, p)'
    BY <1>1, SyncSame
  <2>5. Sync(f, p)' => Sync(f, host.pid[f])'
    BY <1>1, <2>2 DEF Sync, Armed
  <2> QED
    BY <2>1, <2>2, <2>3, <2>4, <2>5 DEF IInv, InStep
<1>2. e # "hid_in" => (Queued("hid_in")' => pipe'["hid_in"] = Empty)
  BY DEF IInv, InStep, HidEndpoints
<1> QED
  BY <1>1, <1>2

Pipes == [HidEndpoints -> [unread : {0, 1}, unconfirmed : {0, 1}]]

\* After a poll nothing is unread, and the host's toggle is the next one.
LEMMA Read ==
  ASSUME IInv, NEW acknowledged \in BOOLEAN, HostReads(acknowledged)
  PROVE  /\ pipe["hid_in"].unconfirmed = 1
         /\ pipe'["hid_in"].unread = 0
         /\ pipe'["hid_in"].unconfirmed = IF acknowledged THEN 0 ELSE 1
         /\ pipe'["hid_out"] = pipe["hid_out"] /\ pipe' \in Pipes
         /\ ep["hid_in"].pid = 1 - ep["hid_in"].next_pid
         /\ host' \in Hosts /\ host'.config = host.config
         /\ host'.request = host.request /\ host'.answer = host.answer
         /\ host'.pid["hid_in"] = ep["hid_in"].next_pid
         /\ host'.pid["hid_out"] = host.pid["hid_out"]
<1> DEFINE e == "hid_in"
           fresh == ep[e].pid = host.pid[e]
<1>1. e \in HidEndpoints /\ "hid_out" \in HidEndpoints /\ Ready(e)
  BY DEF HostReads, HidEndpoints
<1>2. Sync(e, host.pid[e]) /\ ~Queued(e)
  BY <1>1, InUse, CanComplete DEF Ready
<1>3. /\ Armed(e, IF pipe[e].unread = 1 THEN host.pid[e] ELSE 1 - host.pid[e])
      /\ pipe[e].unconfirmed = 1
  BY <1>2 DEF Sync
<1>4. /\ ep[e].pid = IF pipe[e].unread = 1 THEN host.pid[e] ELSE 1 - host.pid[e]
      /\ ep[e].next_pid = 1 - ep[e].pid
  BY <1>2, <1>3 DEF Armed
<1>5. /\ pipe[e].unread \in {0, 1} /\ host.pid[e] \in {0, 1}
      /\ ep[e].pid \in {0, 1} /\ ep[e].next_pid \in {0, 1}
  BY <1>1, PipeOf DEF IInv
<1>6. fresh <=> pipe[e].unread = 1
  BY <1>4, <1>5
<1>7. PICK unread \in {0, 1}, unconfirmed \in {0, 1}, pid \in {0, 1} :
        /\ unread = IF fresh THEN pipe[e].unread - 1 ELSE pipe[e].unread
        /\ unconfirmed = IF acknowledged THEN pipe[e].unconfirmed - 1 ELSE pipe[e].unconfirmed
        /\ pid = IF fresh THEN 1 - host.pid[e] ELSE host.pid[e]
  BY <1>3, <1>5, <1>6
<1>8. unread = 0 /\ unconfirmed = (IF acknowledged THEN 0 ELSE 1) /\ pid = ep[e].next_pid
  BY <1>3, <1>4, <1>5, <1>6, <1>7
<1>9. /\ pipe' = [pipe EXCEPT ![e].unread = unread, ![e].unconfirmed = unconfirmed]
      /\ host' = [host EXCEPT !.pid[e] = pid]
  BY <1>7 DEF HostReads
<1> HIDE DEF fresh
<1>10. /\ pipe' \in Pipes /\ pipe'[e].unread = unread /\ pipe'[e].unconfirmed = unconfirmed
       /\ pipe'["hid_out"] = pipe["hid_out"]
  BY <1>1, <1>9 DEF IInv, Types, Pipes
<1>11. /\ host' \in Hosts /\ host'.config = host.config
       /\ host'.request = host.request /\ host'.answer = host.answer
       /\ host'.pid[e] = pid /\ host'.pid["hid_out"] = host.pid["hid_out"]
  BY <1>1, <1>9 DEF IInv, Types, Hosts
<1> QED
  BY <1>3, <1>4, <1>5, <1>8, <1>10, <1>11

\* After a command was sent it is in the buffer, whether or not the host knows.
LEMMA Written ==
  ASSUME IInv, NEW acknowledged \in BOOLEAN, HostWrites(acknowledged)
  PROVE  LET fresh == ep["hid_out"].pid = host.pid["hid_out"] IN
         /\ pipe["hid_out"].unconfirmed = 1
         /\ fresh <=> pipe["hid_out"].unread = 1
         /\ pipe'["hid_out"].unread = 0
         /\ pipe'["hid_out"].unconfirmed = IF acknowledged THEN 0 ELSE 1
         /\ pipe'["hid_in"] = pipe["hid_in"] /\ pipe' \in Pipes
         /\ ep["hid_out"].next_pid = 1 - ep["hid_out"].pid
         /\ ep["hid_out"].pid = IF fresh THEN host.pid["hid_out"] ELSE 1 - host.pid["hid_out"]
         /\ host' \in Hosts /\ host'.config = host.config
         /\ host'.request = host.request /\ host'.answer = host.answer
         /\ host'.pid["hid_out"] = IF acknowledged THEN 1 - host.pid["hid_out"]
                                   ELSE host.pid["hid_out"]
         /\ host'.pid["hid_in"] = host.pid["hid_in"]
<1> DEFINE e == "hid_out"
           fresh == ep[e].pid = host.pid[e]
<1>1. e \in HidEndpoints /\ "hid_in" \in HidEndpoints /\ Ready(e) /\ pipe[e].unconfirmed = 1
  BY DEF HostWrites, HidEndpoints
<1>2. Sync(e, host.pid[e]) /\ ~Queued(e)
  BY <1>1, InUse, CanComplete DEF Ready
<1>3. Armed(e, IF pipe[e].unread = 1 THEN host.pid[e] ELSE 1 - host.pid[e])
  BY <1>1, <1>2 DEF Sync
<1>4. /\ ep[e].pid = IF pipe[e].unread = 1 THEN host.pid[e] ELSE 1 - host.pid[e]
      /\ ep[e].next_pid = 1 - ep[e].pid
  BY <1>2, <1>3 DEF Armed
<1>5. /\ pipe[e].unread \in {0, 1} /\ host.pid[e] \in {0, 1}
      /\ ep[e].pid \in {0, 1} /\ ep[e].next_pid \in {0, 1}
  BY <1>1, PipeOf DEF IInv
<1>6. fresh <=> pipe[e].unread = 1
  BY <1>4, <1>5
<1>7. PICK unread \in {0, 1}, unconfirmed \in {0, 1}, pid \in {0, 1} :
        /\ unread = IF fresh THEN pipe[e].unread - 1 ELSE pipe[e].unread
        /\ unconfirmed = IF acknowledged THEN 0 ELSE pipe[e].unconfirmed
        /\ pid = IF acknowledged THEN 1 - host.pid[e] ELSE host.pid[e]
  BY <1>1, <1>5, <1>6
<1>8. unread = 0 /\ unconfirmed = (IF acknowledged THEN 0 ELSE 1)
  BY <1>1, <1>5, <1>6, <1>7
<1>9. /\ pipe' = [pipe EXCEPT ![e].unread = unread, ![e].unconfirmed = unconfirmed]
      /\ host' = [host EXCEPT !.pid[e] = pid]
  BY <1>7 DEF HostWrites
<1> HIDE DEF fresh
<1>10. /\ pipe' \in Pipes /\ pipe'[e].unread = unread /\ pipe'[e].unconfirmed = unconfirmed
       /\ pipe'["hid_in"] = pipe["hid_in"]
  BY <1>1, <1>9 DEF IInv, Types, Pipes
<1>11. /\ host' \in Hosts /\ host'.config = host.config
       /\ host'.request = host.request /\ host'.answer = host.answer
       /\ host'.pid[e] = pid /\ host'.pid["hid_in"] = host.pid["hid_in"]
  BY <1>1, <1>9 DEF IInv, Types, Hosts
<1>12. ep[e].pid = IF fresh THEN host.pid[e] ELSE 1 - host.pid[e]
  BY <1>4, <1>6
<1> QED
  BY <1>1, <1>4, <1>6, <1>7, <1>8, <1>10, <1>11, <1>12 DEF fresh

LEMMA HostReadsStep ==
  ASSUME IInv, NEW acknowledged \in BOOLEAN, HostReads(acknowledged) PROVE IInv'
<1> DEFINE e == "hid_in"
<1>1. /\ e \in HidEndpoints /\ e \in Endpoints /\ Ready(e)
      /\ \A f \in HidEndpoints : f # e => f = "hid_out"
  BY DEF HostReads, HidEndpoints, Endpoints
<1>2. HostUses(e) /\ ep[e].avail /\ ~Executed(e) /\ ~Queued(e) /\ NoReset
  BY <1>1, InUse, CanComplete DEF Ready
<1>3. /\ pipe'[e].unread = 0 /\ pipe'[e].unconfirmed = IF acknowledged THEN 0 ELSE 1
      /\ pipe'["hid_out"] = pipe["hid_out"] /\ pipe' \in Pipes
      /\ ep[e].pid = 1 - ep[e].next_pid
      /\ host' \in Hosts /\ host'.config = host.config
      /\ host'.request = host.request /\ host'.answer = host.answer
      /\ host'.pid[e] = ep[e].next_pid /\ host'.pid["hid_out"] = host.pid["hid_out"]
  BY Read
<1>4. ~Executed(e)'
  BY <1>2, <1>3 DEF Executed
<1>5. CASE acknowledged
  <2>1. Complete(e)
    BY <1>5 DEF HostReads
  <2>2. /\ ep' \in Registers /\ queue' \in Seq(AnyEvent) /\ Order'
        /\ ~ep'[e].avail /\ ep'[e].next_pid = ep[e].next_pid
        /\ \A f \in Endpoints : f # e => ep'[f] = ep[f]
        /\ Queued(e)' /\ \A f \in HidEndpoints : f # e => (Queued(f)' <=> Queued(f))
    BY <1>1, <2>1, Completed
  <2>3. Phase'
    BY <1>1, <1>3, <2>1, PhaseCompleted
  <2>4. pipe'[e] = Empty
    BY <1>1, <1>3, <1>5 DEF Pipes, Empty
  <2>5. Sync(e, host.pid[e])'
    BY <1>3, <2>2, <2>4 DEF Sync, Armed
  <2>6. \A f \in HidEndpoints : f # e =>
          /\ Executed(f)' => Sync(f, 0)' \/ host'.request = [kind |-> "config", value |-> 0]
          /\ host'.config = 1 /\ ~Executed(f)' => Sync(f, host.pid[f])'
    BY <1>1, <1>3, <2>2, InStepOther DEF HidEndpoints, Endpoints
  <2>7. InStep'
    BY <1>4, <2>4, <2>5, <2>6 DEF InStep
  <2> QED
    BY <1>3, <2>2, <2>3, <2>7 DEF IInv, Types, Pipes, Registers
<1>6. CASE ~acknowledged
  <2>1. ep' = ep /\ queue' = queue
    BY <1>6 DEF HostReads
  <2>2. Order' /\ NoReset' /\ \A f \in HidEndpoints : Queued(f)' <=> Queued(f)
    BY <1>2, <2>1 DEF IInv, Order, Affects, Done, NoReset, Queued, Concerns
  <2>3. Phase'
    BY <1>2, <1>3, <2>1, <2>2 DEF IInv, Phase, IsRequest
  <2>4. ~Queued(e)'
    BY <1>1, <1>2, <2>2
  <2>5. Sync(e, host.pid[e])'
    <3>1. ep[e].next_pid \in {0, 1}
      BY <1>1, PipeOf DEF IInv
    <3>2. Armed(e, 1 - host.pid[e])'
      BY <1>2, <1>3, <2>1, <2>4, <3>1 DEF Armed
    <3> QED
      BY <1>3, <1>6, <2>4, <3>2 DEF Sync, Armed
  <2>6. \A f \in HidEndpoints : f # e =>
          /\ Executed(f)' => Sync(f, 0)' \/ host'.request = [kind |-> "config", value |-> 0]
          /\ host'.config = 1 /\ ~Executed(f)' => Sync(f, host.pid[f])'
    BY <1>1, <1>3, <2>1, <2>2, InStepOther
  <2>7. InStep'
    BY <1>4, <2>4, <2>5, <2>6 DEF InStep
  <2> QED
    BY <1>3, <2>1, <2>2, <2>3, <2>7 DEF IInv, Types, Pipes
<1> QED
  BY <1>5, <1>6

LEMMA HostWritesStep ==
  ASSUME IInv, NEW acknowledged \in BOOLEAN, HostWrites(acknowledged) PROVE IInv'
<1> DEFINE e == "hid_out"
           fresh == ep[e].pid = host.pid[e]
<1>1. /\ e \in HidEndpoints /\ e \in Endpoints /\ Ready(e)
      /\ \A f \in HidEndpoints : f # e => f = "hid_in"
  BY DEF HostWrites, HidEndpoints, Endpoints
<1>2. HostUses(e) /\ ep[e].avail /\ ~Executed(e) /\ ~Queued(e) /\ NoReset
  BY <1>1, InUse, CanComplete DEF Ready
<1>3. /\ pipe'[e].unread = 0 /\ pipe'[e].unconfirmed = IF acknowledged THEN 0 ELSE 1
      /\ pipe'["hid_in"] = pipe["hid_in"] /\ pipe' \in Pipes
      /\ ep[e].next_pid = 1 - ep[e].pid
      /\ ep[e].pid = IF fresh THEN host.pid[e] ELSE 1 - host.pid[e]
      /\ host' \in Hosts /\ host'.config = host.config
      /\ host'.request = host.request /\ host'.answer = host.answer
      /\ host'.pid[e] = IF acknowledged THEN 1 - host.pid[e] ELSE host.pid[e]
      /\ host'.pid["hid_in"] = host.pid["hid_in"]
  BY Written
<1>4. ~Executed(e)' /\ host.pid[e] \in {0, 1}
  BY <1>1, <1>2, <1>3, PipeOf DEF Executed, IInv
<1>5. /\ IF pipe'[e].unread = pipe'[e].unconfirmed
         THEN host'.pid[e] = 1 - host.pid[e] ELSE 1 - host'.pid[e] = 1 - host.pid[e]
      /\ pipe'[e].unread <= pipe'[e].unconfirmed
  BY <1>3, <1>4
<1>6. CASE fresh
  <2>1. Complete(e)
    BY <1>6 DEF HostWrites
  <2>2. /\ ep' \in Registers /\ queue' \in Seq(AnyEvent) /\ Order'
        /\ ~ep'[e].avail /\ ep'[e].next_pid = ep[e].next_pid
        /\ \A f \in Endpoints : f # e => ep'[f] = ep[f]
        /\ Queued(e)' /\ \A f \in HidEndpoints : f # e => (Queued(f)' <=> Queued(f))
    BY <1>1, <2>1, Completed
  <2>3. Phase'
    BY <1>1, <1>3, <2>1, PhaseCompleted
  <2>4. ep'[e].next_pid = 1 - host.pid[e]
    BY <1>3, <1>6, <2>2
  <2>5. Sync(e, host.pid[e])'
    BY <1>5, <2>2, <2>4 DEF Sync, Armed
  <2>6. \A f \in HidEndpoints : f # e =>
          /\ Executed(f)' => Sync(f, 0)' \/ host'.request = [kind |-> "config", value |-> 0]
          /\ host'.config = 1 /\ ~Executed(f)' => Sync(f, host.pid[f])'
    BY <1>1, <1>3, <2>2, InStepOther DEF HidEndpoints, Endpoints
  <2>7. Queued("hid_in")' => pipe'["hid_in"] = Empty
    BY <1>3, <2>2 DEF IInv, InStep, HidEndpoints
  <2>8. InStep'
    BY <1>4, <2>5, <2>6, <2>7 DEF InStep
  <2> QED
    BY <1>3, <2>2, <2>3, <2>8 DEF IInv, Types, Pipes, Registers
<1>7. CASE ~fresh
  <2>1. ep' = ep /\ queue' = queue
    BY <1>7 DEF HostWrites
  <2>2. Order' /\ NoReset' /\ \A f \in HidEndpoints : Queued(f)' <=> Queued(f)
    BY <1>2, <2>1 DEF IInv, Order, Affects, Done, NoReset, Queued, Concerns
  <2>3. Phase'
    BY <1>2, <1>3, <2>1, <2>2 DEF IInv, Phase, IsRequest
  <2>4. ~Queued(e)' /\ ep'[e].avail /\ ep'[e].pid = 1 - host.pid[e] /\ ep'[e].next_pid = host.pid[e]
    BY <1>1, <1>2, <1>3, <1>4, <1>7, <2>1, <2>2
  <2>5. Sync(e, host.pid[e])'
    BY <1>4, <1>5, <2>4 DEF Sync, Armed
  <2>6. \A f \in HidEndpoints : f # e =>
          /\ Executed(f)' => Sync(f, 0)' \/ host'.request = [kind |-> "config", value |-> 0]
          /\ host'.config = 1 /\ ~Executed(f)' => Sync(f, host.pid[f])'
    BY <1>1, <1>3, <2>1, <2>2, InStepOther
  <2>7. Queued("hid_in")' => pipe'["hid_in"] = Empty
    BY <1>3, <2>2 DEF IInv, InStep, HidEndpoints
  <2>8. InStep'
    BY <1>4, <2>5, <2>6, <2>7 DEF InStep
  <2> QED
    BY <1>3, <2>1, <2>2, <2>3, <2>8 DEF IInv, Types, Pipes
<1> QED
  BY <1>6, <1>7

\* A command is offered only when the one before was confirmed: nothing is unread.
LEMMA Offered ==
  ASSUME IInv, HostOffersCommand
  PROVE  /\ pipe["hid_out"].unread = 0 /\ pipe["hid_out"].unconfirmed = 0
         /\ pipe'["hid_out"].unread = 1 /\ pipe'["hid_out"].unconfirmed = 1
         /\ pipe'["hid_in"] = pipe["hid_in"] /\ pipe' \in Pipes
<1>1. "hid_out" \in HidEndpoints /\ "hid_in" \in HidEndpoints
  BY DEF HidEndpoints
<1>2. Sync("hid_out", host.pid["hid_out"]) /\ pipe["hid_out"].unconfirmed = 0
  BY <1>1, InUse DEF HostOffersCommand
<1>3. pipe["hid_out"].unread = 0
  <2>1. pipe["hid_out"].unread <= pipe["hid_out"].unconfirmed
    BY <1>2 DEF Sync
  <2>2. pipe["hid_out"].unread \in {0, 1}
    BY <1>1, PipeOf DEF IInv
  <2> QED
    BY <1>2, <2>1, <2>2
<1>4. pipe' = [pipe EXCEPT !["hid_out"].unread = 1, !["hid_out"].unconfirmed = 1]
  BY <1>3 DEF HostOffersCommand
<1> QED
  BY <1>1, <1>2, <1>3, <1>4 DEF IInv, Types, Pipes

LEMMA HostOffersCommandStep == ASSUME IInv, HostOffersCommand PROVE IInv'
<1> DEFINE e == "hid_out"
<1>1. /\ e \in HidEndpoints /\ \A f \in HidEndpoints : f # e => f = "hid_in"
      /\ UNCHANGED <<ep, queue, host>>
  BY DEF HidEndpoints, HostOffersCommand
<1>2. Sync(e, host.pid[e]) /\ ~Executed(e)
  BY <1>1, InUse DEF HostOffersCommand
<1>3. /\ pipe[e].unread = 0 /\ pipe[e].unconfirmed = 0
      /\ pipe'[e].unread = 1 /\ pipe'[e].unconfirmed = 1
      /\ pipe'["hid_in"] = pipe["hid_in"] /\ pipe' \in Pipes
  BY Offered
<1>4. Order' /\ Phase' /\ \A f \in HidEndpoints : Queued(f)' <=> Queued(f)
  BY <1>1 DEF IInv, Order, Phase, Affects, Done, NoReset, Queued, Concerns, IsRequest
<1>5. Sync(e, host.pid[e])' /\ ~Executed(e)'
  BY <1>1, <1>2, <1>3, <1>4 DEF Sync, Armed, Executed
<1>6. /\ \A f \in HidEndpoints : f # e =>
           /\ Executed(f)' => Sync(f, 0)' \/ host'.request = [kind |-> "config", value |-> 0]
           /\ host'.config = 1 /\ ~Executed(f)' => Sync(f, host.pid[f])'
      /\ Queued("hid_in")' => pipe'["hid_in"] = Empty
  BY <1>1, <1>3, <1>4, InStepOther
<1>7. InStep'
  BY <1>5, <1>6 DEF InStep
<1> QED
  BY <1>1, <1>3, <1>4, <1>7 DEF IInv, Types, Pipes

-------------------------------------------------------------------------------
(* The main loop *)

LEMMA ep_hid_handlerStep ==
  ASSUME IInv, ep_hid_handler
  PROVE  /\ IInv'
         /\ \A e \in HidEndpoints :
              \/ pipe'[e] = pipe[e]
              \/ pipe[e] = Empty /\ pipe'[e].unread = 1 /\ pipe'[e].unconfirmed = 1
<1>1. Take("done") /\ host' = host /\ ep' = usb_start_transfer(ep, Head(queue).ep)
  BY DEF ep_hid_handler
<1>2. /\ queue' \in Seq(AnyEvent) /\ Order'
      /\ Head(queue) \in AnyEvent /\ Head(queue).kind = "done"
      /\ \A f \in HidEndpoints :
           /\ Queued(f)' => Queued(f) /\ ~Affects(Head(queue), f)
           /\ Queued(f) => Queued(f)' \/ Head(queue) = Done(f)
           /\ Head(queue) = Done(f) => Queued(f)
  BY <1>1, AfterTake DEF IInv
<1>3. PICK e \in HidEndpoints : Head(queue) = Done(e) /\ Head(queue).ep = e
  BY <1>2, Kinds
<1>4. /\ Queued(e) /\ ~Queued(e)'
      /\ \A f \in HidEndpoints : f # e => (Queued(f)' <=> Queued(f))
  BY <1>2, <1>3, DoneIs DEF Affects
<1>5. e \in Endpoints /\ ep \in Registers
  BY <1>3 DEF HidEndpoints, Endpoints, IInv, Types, Registers
<1>6. /\ ep' \in Registers
      /\ ep'[e].avail /\ ep'[e].pid = ep[e].next_pid /\ ep'[e].next_pid = 1 - ep[e].next_pid
      /\ \A f \in Endpoints : f # e => ep'[f] = ep[f]
  BY <1>1, <1>3, <1>5, Transfer
<1>7. Phase'
  BY <1>1, NotAnswered DEF IInv
<1>8. e = "hid_in" => pipe["hid_in"] = Empty
  BY <1>4 DEF IInv, InStep
<1>9. /\ pipe' \in Pipes
      /\ e = "hid_in" => pipe'[e].unread = 1 /\ pipe'[e].unconfirmed = 1
      /\ e = "hid_out" => pipe' = pipe
      /\ \A f \in HidEndpoints : f # e => pipe'[f] = pipe[f]
  <2>1. CASE e = "hid_in"
    <3>1. pipe[e].unread = 0 /\ pipe[e].unconfirmed = 0
      BY <1>8, <2>1 DEF Empty
    <3>2. PICK unread, unconfirmed :
            unread = pipe[e].unread + 1 /\ unconfirmed = pipe[e].unconfirmed + 1
      OBVIOUS
    <3>3. pipe' = [pipe EXCEPT ![e].unread = unread, ![e].unconfirmed = unconfirmed]
      BY <1>3, <2>1, <3>2 DEF ep_hid_handler
    <3>4. unread = 1 /\ unconfirmed = 1
      BY <3>1, <3>2
    <3> QED
      BY <1>3, <2>1, <3>3, <3>4 DEF IInv, Types, Pipes
  <2>2. CASE e = "hid_out"
    BY <1>3, <2>2 DEF ep_hid_handler, IInv, Types, Pipes
  <2> QED
    BY <1>3, <2>1, <2>2 DEF HidEndpoints
<1>10. ASSUME NEW p, Sync(e, p) PROVE Sync(e, p)'
  <2>1. Armed(e, p) => Armed(e, p)' /\ ep[e].next_pid = p
    BY <1>4, <1>6 DEF Armed
  <2>2. CASE e = "hid_in"
    BY <1>4, <1>9, <1>10, <2>1, <2>2 DEF Sync, Armed
  <2>3. CASE e = "hid_out"
    <3>1. PICK q : q = IF pipe[e].unread = pipe[e].unconfirmed THEN p ELSE 1 - p
      OBVIOUS
    <3>2. Armed(e, q)
      BY <1>10, <2>3, <3>1 DEF Sync
    <3>3. Armed(e, q)'
      BY <1>4, <1>6, <3>2 DEF Armed
    <3> QED
      BY <1>9, <1>10, <2>3, <3>1, <3>3 DEF Sync, Armed
  <2> QED
    BY <1>3, <2>2, <2>3 DEF HidEndpoints
<1>11. InStep'
  <2>1. /\ \A f \in HidEndpoints : f # e =>
             /\ Executed(f)' => Sync(f, 0)' \/ host'.request = [kind |-> "config", value |-> 0]
             /\ host'.config = 1 /\ ~Executed(f)' => Sync(f, host.pid[f])'
        /\ e # "hid_in" => (Queued("hid_in")' => pipe'["hid_in"] = Empty)
    BY <1>1, <1>3, <1>4, <1>6, <1>9, InStepOther DEF HidEndpoints, Endpoints
  <2>2. /\ Executed(e)' => Sync(e, 0)' \/ host'.request = [kind |-> "config", value |-> 0]
        /\ host'.config = 1 /\ ~Executed(e)' => Sync(e, host.pid[e])'
    <3>1. PICK p : p = host.pid[e]
      OBVIOUS
    <3>2. Sync(e, p)' => Sync(e, host.pid[e])'
      BY <1>1, <3>1 DEF Sync, Armed
    <3> QED
      BY <1>1, <1>3, <1>10, <3>1, <3>2 DEF IInv, InStep, Executed
  <2> QED
    BY <1>3, <1>4, <2>1, <2>2 DEF InStep
<1>12. IInv'
  BY <1>1, <1>2, <1>6, <1>7, <1>9, <1>11 DEF IInv, Types, Pipes, Registers
<1>13. ASSUME NEW f \in HidEndpoints
       PROVE  \/ pipe'[f] = pipe[f]
              \/ pipe[f] = Empty /\ pipe'[f].unread = 1 /\ pipe'[f].unconfirmed = 1
  BY <1>3, <1>8, <1>9 DEF HidEndpoints
<1> QED
  BY <1>12, <1>13

\* What a step of the main loop that starts the pipe of e anew may do to it.
Restarted(e) == /\ ~HostUses(e)
                /\ pipe'[e].unread \in {0, 1} /\ pipe'[e].unconfirmed = pipe'[e].unread

LEMMA EmptyPipes ==
  PipesEmpty \in Pipes /\ \A e \in HidEndpoints :
    PipesEmpty[e] = Empty /\ PipesEmpty[e].unread = 0 /\ PipesEmpty[e].unconfirmed = 0
<1>1. Empty.unread = 0 /\ Empty.unconfirmed = 0 /\ Empty \in [unread : {0, 1}, unconfirmed : {0, 1}]
  BY DEF Empty
<1> QED
  BY <1>1 DEF PipesEmpty, Pipes

LEMMA usb_bus_resetStep ==
  ASSUME IInv, usb_bus_reset
  PROVE  /\ IInv'
         /\ \A e \in HidEndpoints : Restarted(e)
<1>1. Take("reset") /\ host' = host /\ pipe' = PipesEmpty
      /\ ep' = [e \in Endpoints |-> [ep[e] EXCEPT !.next_pid = 0]]
  BY DEF usb_bus_reset
<1>2. /\ queue' \in Seq(AnyEvent) /\ Order' /\ ~NoReset
      /\ \A e \in HidEndpoints : ~Queued(e)'
  BY <1>1, AfterTake DEF IInv
<1>3. host.config = 0 /\ host.request = NoRequest /\ host.answer = "none"
  BY <1>2 DEF IInv, Phase, Types, Hosts
<1>4. Phase'
  BY <1>1, NotAnswered DEF IInv
<1>5. ep' \in Registers
  BY <1>1 DEF IInv, Types, Registers, EndpointState
<1>6. InStep'
  BY <1>1, <1>2, <1>3 DEF InStep, Executed, HidEndpoints
<1>7. IInv'
  BY <1>1, <1>2, <1>4, <1>5, <1>6, EmptyPipes DEF IInv, Types, Registers, Pipes
<1>8. \A e \in HidEndpoints : Restarted(e)
  BY <1>1, <1>3, EmptyPipes DEF Restarted, HostUses
<1> QED
  BY <1>7, <1>8

\* No completion of an endpoint that a request is about is left when it is executed.
LEMMA RequestTaken ==
  ASSUME IInv, NEW kind \in {"config", "interface", "clear"}, Take(kind)
  PROVE  /\ queue' \in Seq(AnyEvent) /\ Order'
         /\ Head(queue) \in AnyEvent /\ Head(queue).kind = kind
         /\ \A e \in HidEndpoints : /\ Queued(e)' <=> Queued(e)
                                    /\ Concerns(Head(queue), e) => ~Queued(e)'
<1>1. /\ queue' \in Seq(AnyEvent) /\ Order'
      /\ Head(queue) \in AnyEvent /\ Head(queue).kind = kind
      /\ \A e \in HidEndpoints :
           /\ Queued(e)' => Queued(e) /\ ~Affects(Head(queue), e)
           /\ Queued(e) => Queued(e)' \/ Head(queue) = Done(e)
  BY AfterTake DEF IInv
<1>2. \A e \in HidEndpoints : Head(queue) # Done(e)
  BY <1>1, DoneIs
<1> QED
  BY <1>1, <1>2 DEF Affects

\* A refused request, or one that is not about the HID endpoints, leaves them alone.
LEMMA LeftAlone ==
  ASSUME IInv, NEW kind \in {"config", "interface", "clear"}, Take(kind),
         NEW answer \in {"ack", "stall"}, Answer(answer),
         answer = "ack" /\ kind = "config" => Head(queue).value \in {0, 1},
         answer = "ack" => \A e \in HidEndpoints : ~Concerns(Head(queue), e),
         ep' \in Registers, \A e \in HidEndpoints : ep'[e] = ep[e], pipe' = pipe
  PROVE  IInv'
<1>1. /\ queue' \in Seq(AnyEvent) /\ Order'
      /\ \A e \in HidEndpoints : Queued(e)' <=> Queued(e)
  BY RequestTaken
<1>2. /\ host' \in Hosts /\ Phase'
      /\ host'.config = host.config /\ host'.request = host.request /\ host'.pid = host.pid
      /\ \/ host' = host /\ host.answer = "none"
         \/ host.request = Head(queue) /\ host.answer = "none" /\ host'.answer = answer
  BY Answered DEF IInv
<1>3. \A e \in HidEndpoints : ~Executed(e) /\ ~Executed(e)'
  BY <1>2 DEF Executed
<1>4. InStep'
  BY <1>1, <1>2, <1>3, InStepSame DEF IInv
<1> QED
  BY <1>1, <1>2, <1>4 DEF IInv, Types, Registers

\* A request about an endpoint is executed while the host does not use it.
LEMMA NotInUse ==
  ASSUME IInv, NEW kind \in {"config", "interface", "clear"}, Take(kind),
         NEW e \in HidEndpoints, Concerns(Head(queue), e)
  PROVE  ~HostUses(e)
<1>1. Head(queue) = queue[1] /\ 1 \in DOMAIN queue /\ IsRequest(queue[1])
  BY Removed DEF IInv, Types, Take, IsRequest
<1>2. NoReset => host.request = Head(queue)
  BY <1>1 DEF IInv, Phase
<1>3. ~NoReset => host.config = 0
  BY DEF IInv, Phase
<1> QED
  BY <1>2, <1>3 DEF HostUses

\* The request is executed, and both pipes begin anew.
LEMMA PipesBegin ==
  ASSUME IInv, NEW kind \in {"config", "interface"}, Take(kind), Answer("ack"),
         kind = "config" => Head(queue).value = 1,
         \A e \in HidEndpoints : Concerns(Head(queue), e),
         NEW eps \in Registers, \A e \in HidEndpoints : eps[e].next_pid = 0,
         ep' = usb_hid_set_interface(eps), pipe' = PipesSetUp
  PROVE  IInv' /\ \A e \in HidEndpoints : Restarted(e)
<1>1. /\ queue' \in Seq(AnyEvent) /\ Order'
      /\ \A e \in HidEndpoints : ~Queued(e)'
  BY RequestTaken
<1>2. ep' \in Registers /\ pipe' \in Pipes /\ \A e \in HidEndpoints : Sync(e, 0)'
  BY <1>1, SetUp DEF Pipes
<1>3. /\ host' \in Hosts /\ Phase'
      /\ host'.config = host.config /\ host'.request = host.request
      /\ \/ host' = host /\ host.config = 0 /\ host.answer = "none"
         \/ host.request = Head(queue) /\ host'.answer = "ack"
  BY Answered DEF IInv
<1>4. \A e \in HidEndpoints : host'.config = 1 => Executed(e)'
  BY <1>3 DEF Executed
<1>5. InStep'
  BY <1>1, <1>2, <1>4 DEF InStep, HidEndpoints
<1>6. IInv'
  BY <1>1, <1>2, <1>3, <1>5 DEF IInv, Types, Registers, Pipes
<1>7. ASSUME NEW e \in HidEndpoints
      PROVE  pipe'[e].unread \in {0, 1} /\ pipe'[e].unconfirmed = pipe'[e].unread
  BY DEF PipesSetUp, PipesEmpty, Empty, OneReport
<1> QED
  BY <1>6, <1>7, NotInUse DEF Restarted

LEMMA usb_set_configurationStep ==
  ASSUME IInv, usb_set_configuration
  PROVE  /\ IInv'
         /\ \A e \in HidEndpoints : pipe'[e] = pipe[e] \/ Restarted(e)
<1> DEFINE config == Head(queue).value
           off == [e \in Endpoints |-> [ep[e] EXCEPT !.enabled = FALSE]]
           first == walk_descriptor("stream", 0) \cup walk_descriptor("hid", 0)
<1>1. Take("config")
  BY DEF usb_set_configuration
<1>2. /\ queue' \in Seq(AnyEvent) /\ Order'
      /\ Head(queue) \in AnyEvent /\ Head(queue).kind = "config"
      /\ \A e \in HidEndpoints : Concerns(Head(queue), e) /\ ~Queued(e)'
  BY <1>1, RequestTaken DEF Concerns
<1>3. off \in Registers
  BY DEF IInv, Types, Registers, EndpointState
<1>4. CASE config = 0 /\ ep' = off /\ pipe' = PipesEmpty /\ Answer("ack")
  <2>1. /\ host' \in Hosts /\ Phase'
        /\ host'.config = host.config /\ host'.request = host.request
        /\ \/ host' = host /\ host.config = 0 /\ host.answer = "none"
           \/ host.request = Head(queue) /\ host'.answer = "ack"
    BY <1>1, <1>4, Answered DEF IInv
  <2>2. Head(queue) = [kind |-> "config", value |-> 0]
    BY <1>2, <1>4, Kinds
  <2>3. InStep'
    BY <1>2, <2>1, <2>2 DEF InStep, Executed, HidEndpoints
  <2>4. IInv'
    BY <1>2, <1>3, <1>4, <2>1, <2>3, EmptyPipes DEF IInv, Types, Registers, Pipes
  <2> QED
    BY <1>1, <1>2, <1>4, <2>4, EmptyPipes, NotInUse DEF Restarted
<1>5. CASE /\ config = 1 /\ ep' = usb_hid_set_interface(enable_ep(off, first))
           /\ pipe' = PipesSetUp /\ Answer("ack")
  <2> HIDE DEF off
  <2>1. \A e \in HidEndpoints : e \in Endpoints /\ \E d \in first : d.ep = e
    BY Descriptors DEF HidEndpoints, Endpoints
  <2>2. PICK eps : eps = enable_ep(off, first)
    OBVIOUS
  <2>3. eps \in Registers /\ \A e \in HidEndpoints : eps[e].next_pid = 0
    BY <1>3, <2>1, <2>2, Enabled
  <2> QED
    BY <1>1, <1>2, <1>5, <2>2, <2>3, PipesBegin
<1>6. CASE config > 1 /\ Answer("stall") /\ ep' = ep /\ pipe' = pipe
  <2>1. IInv'
    BY <1>1, <1>6, LeftAlone DEF IInv, Types, Registers
  <2> QED
    BY <1>6, <2>1
<1> QED
  BY <1>4, <1>5, <1>6 DEF usb_set_configuration

LEMMA usb_set_interfaceStep ==
  ASSUME IInv, usb_set_interface
  PROVE  /\ IInv'
         /\ \A e \in HidEndpoints : pipe'[e] = pipe[e] \/ Restarted(e)
<1> DEFINE itf == Head(queue).itf
           alt == Head(queue).alt
           new == walk_descriptor(itf, alt)
           old == walk_descriptor(itf, alt_settings[itf])
           switched == enable_ep(disable_ep(ep, old), new)
<1>1. Take("interface")
  BY DEF usb_set_interface
<1>2. /\ Head(queue) \in AnyEvent /\ Head(queue).kind = "interface"
      /\ itf \in {"stream", "hid"} /\ ep \in Registers
  BY <1>1, RequestTaken, Kinds DEF IInv, Types, Registers
<1>3. \A e \in HidEndpoints : e \in Endpoints
  BY DEF HidEndpoints, Endpoints
<1>4. PICK off, on : off = disable_ep(ep, old) /\ on = enable_ep(off, new)
  OBVIOUS
<1>5. CASE alt \notin Alternates(itf)
  <2>1. Answer("stall") /\ ep' = ep /\ pipe' = pipe
    BY <1>5 DEF usb_set_interface
  <2>2. IInv'
    BY <1>1, <1>2, <2>1, LeftAlone
  <2> QED
    BY <2>1, <2>2
<1>6. CASE alt \in Alternates(itf) /\ itf = "hid"
  <2>1. /\ Answer("ack") /\ pipe' = PipesSetUp
        /\ ep' = usb_hid_set_interface(on)
    BY <1>4, <1>6 DEF usb_set_interface
  <2>2. alt = 0
    BY <1>6 DEF Alternates
  <2>3. off \in Registers
    BY <1>2, <1>4, Enabled
  <2>4. on \in Registers /\ \A e \in HidEndpoints : on[e].next_pid = 0
    BY <1>3, <1>4, <1>6, <2>2, <2>3, Enabled, Descriptors
  <2>5. \A e \in HidEndpoints : Concerns(Head(queue), e)
    BY <1>2, <1>6 DEF Concerns
  <2> QED
    BY <1>1, <1>2, <2>1, <2>4, <2>5, PipesBegin
<1>7. CASE alt \in Alternates(itf) /\ itf = "stream"
  <2>1. Answer("ack") /\ pipe' = pipe /\ ep' = on
    BY <1>4, <1>7 DEF usb_set_interface
  <2>2. off \in Registers /\ \A e \in HidEndpoints : off[e] = ep[e]
    BY <1>2, <1>3, <1>4, <1>7, Enabled, Descriptors
  <2>3. on \in Registers /\ \A e \in HidEndpoints : on[e] = off[e]
    BY <1>3, <1>4, <1>7, <2>2, Enabled, Descriptors
  <2>4. \A e \in HidEndpoints : ~Concerns(Head(queue), e)
    BY <1>2, <1>7 DEF Concerns
  <2>5. IInv'
    BY <1>1, <1>2, <2>1, <2>2, <2>3, <2>4, LeftAlone
  <2> QED
    BY <2>1, <2>5
<1> QED
  BY <1>2, <1>5, <1>6, <1>7

LEMMA usb_clear_endpoint_haltStep ==
  ASSUME IInv, usb_clear_endpoint_halt
  PROVE  /\ IInv'
         /\ \A e \in HidEndpoints : pipe'[e] = pipe[e] \/ Restarted(e)
<1>1. Take("clear")
  BY DEF usb_clear_endpoint_halt
<1>2. /\ queue' \in Seq(AnyEvent) /\ Order'
      /\ Head(queue) \in AnyEvent /\ Head(queue).kind = "clear"
      /\ \A f \in HidEndpoints : /\ Queued(f)' <=> Queued(f)
                                 /\ Concerns(Head(queue), f) => ~Queued(f)'
  BY <1>1, RequestTaken
<1>3. PICK e : e = Head(queue).ep
  OBVIOUS
<1>4. CASE ~(configured /\ e \in HidEndpoints)
  <2>1. Answer("stall") /\ ep' = ep /\ pipe' = pipe
    BY <1>3, <1>4 DEF usb_clear_endpoint_halt
  <2>2. IInv'
    BY <1>1, <2>1, LeftAlone DEF IInv, Types, Registers
  <2> QED
    BY <2>1, <2>2
<1>5. CASE configured /\ e \in HidEndpoints
  <2>1. /\ Answer("ack")
        /\ ep' = [ep EXCEPT ![e].pid = 0, ![e].next_pid = IF ep[e].avail THEN 1 ELSE 0]
        /\ pipe' = [pipe EXCEPT ![e].unread = pipe[e].unconfirmed]
    BY <1>3, <1>5 DEF usb_clear_endpoint_halt, usb_buffer_control_clear_halt
  <2>2. e \in Endpoints
    BY <1>5 DEF HidEndpoints, Endpoints
  <2>3. /\ ep' \in Registers
        /\ ep'[e].avail = ep[e].avail /\ ep'[e].pid = 0
        /\ ep'[e].next_pid = IF ep[e].avail THEN 1 ELSE 0
        /\ \A f \in Endpoints : f # e => ep'[f] = ep[f]
    <3>1. PICK next_pid \in {0, 1} : next_pid = IF ep[e].avail THEN 1 ELSE 0
      OBVIOUS
    <3>2. ep' = [ep EXCEPT ![e].pid = 0, ![e].next_pid = next_pid]
      BY <2>1, <3>1
    <3> QED
      BY <2>2, <3>1, <3>2 DEF IInv, Types, Registers, EndpointState
  <2>4. /\ pipe' \in Pipes /\ pipe'[e].unread = pipe[e].unconfirmed
        /\ pipe'[e].unconfirmed = pipe[e].unconfirmed
        /\ \A f \in HidEndpoints : f # e => pipe'[f] = pipe[f]
    BY <1>5, <2>1 DEF IInv, Types, Pipes
  <2>5. \A f \in HidEndpoints : Concerns(Head(queue), f) <=> f = e
    BY <1>2, <1>3 DEF Concerns
  <2>6. ~Queued(e) /\ ~Queued(e)'
    BY <1>2, <1>5, <2>5
  <2>7. /\ host' \in Hosts /\ Phase'
        /\ host'.config = host.config /\ host'.request = host.request /\ host'.pid = host.pid
        /\ \/ host' = host /\ host.config = 0 /\ host.answer = "none"
           \/ host.request = Head(queue) /\ host.answer = "none" /\ host'.answer = "ack"
    BY <1>1, <1>2, <2>1, Answered DEF IInv
  <2>8. Queued("hid_in")' => pipe'["hid_in"] = Empty
    <3>1. CASE e = "hid_in"
      BY <2>6, <3>1
    <3>2. CASE e # "hid_in"
      BY <1>2, <2>4, <3>2 DEF IInv, InStep, HidEndpoints
    <3> QED
      BY <3>1, <3>2
  <2>9. InStep'
    <3>1. CASE host' = host /\ host.config = 0 /\ host.answer = "none"
      BY <2>8, <3>1 DEF InStep, Executed
    <3>2. CASE host.request = Head(queue) /\ host.answer = "none" /\ host'.answer = "ack"
      <4>1. host.config = 1 /\ \A f \in HidEndpoints : Sync(f, host.pid[f])
        BY <1>2, <3>2 DEF IInv, Phase, InStep, Executed
      <4>2. Armed(e, 0)'
        <5>1. ep[e].avail
          BY <1>5, <2>6, <4>1 DEF Sync, Armed
        <5> QED
          BY <2>3, <2>6, <5>1 DEF Armed
      <4>3. Sync(e, 0)'
        <5>1. pipe[e].unconfirmed \in {0, 1}
          BY <1>5, PipeOf DEF IInv
        <5>2. CASE e = "hid_in"
          <6>1. pipe[e].unconfirmed = 1
            BY <2>6, <4>1, <1>5, <5>2 DEF Sync
          <6> QED
            BY <2>4, <2>6, <4>2, <5>2, <6>1 DEF Sync, Armed
        <5>3. CASE e = "hid_out"
          BY <2>4, <4>2, <5>1, <5>3 DEF Sync, Armed
        <5> QED
          BY <1>5, <5>2, <5>3 DEF HidEndpoints
      <4>4. ASSUME NEW f \in HidEndpoints, f # e PROVE ~Executed(f)' /\ Sync(f, host.pid[f])'
        <5>1. ~Executed(f)'
          BY <2>5, <2>7, <3>2, <4>4 DEF Executed
        <5>2. PICK p : p = host.pid[f]
          OBVIOUS
        <5>3. ep'[f] = ep[f] /\ pipe'[f] = pipe[f] /\ (Queued(f)' <=> Queued(f)) /\ Sync(f, p)
          BY <1>2, <2>3, <2>4, <4>1, <4>4, <5>2 DEF HidEndpoints, Endpoints
        <5>4. Sync(f, p)'
          BY <5>3, SyncSame
        <5> QED
          BY <2>7, <5>1, <5>2, <5>4 DEF Sync, Armed
      <4>5. Executed(e)'
        BY <1>5, <2>5, <2>7, <3>2 DEF Executed
      <4> QED
        BY <2>8, <4>3, <4>4, <4>5 DEF InStep
    <3> QED
      BY <2>7, <3>1, <3>2
  <2>10. IInv'
    BY <1>2, <2>3, <2>4, <2>7, <2>9 DEF IInv, Types, Registers, Pipes
  <2>11. ASSUME NEW f \in HidEndpoints PROVE pipe'[f] = pipe[f] \/ Restarted(f)
    <3>1. CASE f = e
      BY <1>1, <1>5, <2>4, <2>5, <3>1, NotInUse, PipeOf DEF Restarted, IInv
    <3>2. CASE f # e
      BY <2>4, <3>2
    <3> QED
      BY <3>1, <3>2
  <2> QED
    BY <2>10, <2>11
<1> QED
  BY <1>4, <1>5

-------------------------------------------------------------------------------
(* The refinement *)

\* What any step may do to the pipe of e: leave it, whether or not the host goes on
\* using it, start it anew, offer a report, or exchange the one that is unconfirmed.
SameUse(e) == HostUses(e)' <=> HostUses(e)
PipeStep(e) ==
  \/ pipe'[e] = pipe[e]
  \/ SameUse(e) /\ Restarted(e)
  \/ /\ SameUse(e)
     /\ pipe[e].unread = 0 /\ pipe[e].unconfirmed = 0
     /\ pipe'[e].unread = 1 /\ pipe'[e].unconfirmed = 1
  \/ /\ SameUse(e) /\ HostUses(e)
     /\ pipe[e].unconfirmed = 1 /\ pipe'[e].unread = 0 /\ pipe'[e].unconfirmed \in {0, 1}

LEMMA Steps ==
  ASSUME IInv, [Next]_vars
  PROVE  IInv' /\ \A e \in HidEndpoints : PipeStep(e)
<1>1. "hid_in" \in HidEndpoints /\ "hid_out" \in HidEndpoints
      /\ HidEndpoints = {"hid_in", "hid_out"}
  BY DEF HidEndpoints
<1>2. ASSUME host'.config = host.config, host'.request = host.request
      PROVE  \A e \in HidEndpoints : SameUse(e)
  BY <1>2 DEF SameUse, HostUses
<1>3. CASE HostRequests
  BY <1>3, HostRequestsStep DEF HostRequests, PipeStep
<1>4. CASE HostIsAnswered
  BY <1>4, HostIsAnsweredStep DEF HostIsAnswered, PipeStep
<1>5. CASE HostIsRefused
  BY <1>5, HostIsRefusedStep DEF HostIsRefused, PipeStep
<1>6. CASE BusReset
  BY <1>6, BusResetStep DEF BusReset, PipeStep
<1>7. ASSUME NEW acknowledged \in BOOLEAN, HostReads(acknowledged)
      PROVE  IInv' /\ \A e \in HidEndpoints : PipeStep(e)
  <2>1. \A e \in HidEndpoints : SameUse(e)
    BY <1>2, <1>7, Read
  <2>2. HostUses("hid_in")
    BY <1>7 DEF HostReads, Ready
  <2>3. PipeStep("hid_in")
    BY <1>1, <1>7, <2>1, <2>2, Read DEF PipeStep
  <2>4. PipeStep("hid_out")
    BY <1>7, Read DEF PipeStep
  <2> QED
    BY <1>1, <1>7, <2>3, <2>4, HostReadsStep
<1>8. ASSUME NEW acknowledged \in BOOLEAN, HostWrites(acknowledged)
      PROVE  IInv' /\ \A e \in HidEndpoints : PipeStep(e)
  <2>1. \A e \in HidEndpoints : SameUse(e)
    BY <1>2, <1>8, Written
  <2>2. HostUses("hid_out")
    BY <1>8 DEF HostWrites, Ready
  <2>3. PipeStep("hid_out")
    BY <1>1, <1>8, <2>1, <2>2, Written DEF PipeStep
  <2>4. PipeStep("hid_in")
    BY <1>8, Written DEF PipeStep
  <2> QED
    BY <1>1, <1>8, <2>3, <2>4, HostWritesStep
<1>9. CASE HostOffersCommand
  <2>1. \A e \in HidEndpoints : SameUse(e)
    BY <1>2, <1>9 DEF HostOffersCommand
  <2>2. PipeStep("hid_out") /\ PipeStep("hid_in")
    BY <1>1, <1>9, <2>1, Offered DEF PipeStep
  <2> QED
    BY <1>1, <1>9, <2>2, HostOffersCommandStep
<1>10. CASE ep_hid_handler
  <2>1. \A e \in HidEndpoints : SameUse(e)
    BY <1>2, <1>10 DEF ep_hid_handler
  <2>2. Empty.unread = 0 /\ Empty.unconfirmed = 0
    BY DEF Empty
  <2> QED
    BY <1>10, <2>1, <2>2, ep_hid_handlerStep DEF PipeStep
<1>11. CASE usb_bus_reset
  <2>1. \A e \in HidEndpoints : SameUse(e)
    BY <1>2, <1>11 DEF usb_bus_reset
  <2> QED
    BY <1>11, <2>1, usb_bus_resetStep DEF PipeStep
<1>12. ASSUME usb_set_configuration \/ usb_set_interface \/ usb_clear_endpoint_halt
       PROVE  IInv' /\ \A e \in HidEndpoints : PipeStep(e)
  <2>1. /\ IInv' /\ \A e \in HidEndpoints : pipe'[e] = pipe[e] \/ Restarted(e)
    BY <1>12, usb_set_configurationStep, usb_set_interfaceStep, usb_clear_endpoint_haltStep
  <2>2. \E answer : Answer(answer)
    BY <1>12 DEF usb_set_configuration, usb_set_interface, usb_clear_endpoint_halt
  <2>3. host'.config = host.config /\ host'.request = host.request
    BY <2>2 DEF Answer, IInv, Types, Hosts
  <2> QED
    BY <1>2, <2>1, <2>3 DEF PipeStep
<1>13. CASE UNCHANGED vars
  <2>1. ep' = ep /\ queue' = queue /\ pipe' = pipe /\ host' = host
    BY <1>13 DEF vars
  <2>2. Order' /\ Phase' /\ \A e \in HidEndpoints : Queued(e)' <=> Queued(e)
    BY <2>1 DEF IInv, Order, Phase, Affects, Done, NoReset, Queued, Concerns, IsRequest
  <2>3. InStep'
    BY <2>1, <2>2, InStepSame DEF IInv, Executed
  <2> QED
    BY <2>1, <2>2, <2>3 DEF IInv, Types, PipeStep
<1> QED
  BY <1>3, <1>4, <1>5, <1>6, <1>7, <1>8, <1>9, <1>10, <1>11, <1>12, <1>13 DEF Next, MainLoop

\* Such a step is a step of ReportPipe, or none.
LEMMA Mapped ==
  ASSUME NEW e \in HidEndpoints, PipeStep(e), Types
  PROVE  /\ e = "hid_in" => [InPipe!Next]_(InPipe!pipeVars)
         /\ e = "hid_out" => [OutPipe!Next]_(OutPipe!pipeVars)
<1>1. pipe[e].unread \in {0, 1} /\ pipe[e].unconfirmed \in {0, 1}
  BY PipeOf
<1>2. HostUses(e) \in BOOLEAN /\ HostUses(e)' \in BOOLEAN
  BY DEF HostUses, Concerns
<1>3. CASE e = "hid_in"
  BY <1>1, <1>2, <1>3 DEF PipeStep, SameUse, Restarted, InPipe!Next, InPipe!pipeVars, InPipe!Offer,
     InPipe!Take, InPipe!Confirm, InPipe!OpenOrClose, InPipe!Restart
<1>4. CASE e = "hid_out"
  BY <1>1, <1>2, <1>4 DEF PipeStep, SameUse, Restarted, OutPipe!Next, OutPipe!pipeVars,
     OutPipe!Offer, OutPipe!Take, OutPipe!Confirm, OutPipe!OpenOrClose, OutPipe!Restart
<1> QED
  BY <1>3, <1>4

LEMMA Initially == Init => InPipe!Init /\ OutPipe!Init
BY DEF Init, Empty, HidEndpoints, HostUses, Concerns, NoRequest, InPipe!Init, OutPipe!Init

LEMMA Invariance == Spec => []IInv
<1>1. IInv /\ [Next]_vars => IInv'
  BY Steps
<1> QED
  BY <1>1, InitIInv, PTL DEF Spec

\* The report pipe implements ReportPipe, however many requests and bus resets come.
THEOREM InImplements == Spec => InIsPipe
<1>1. IInv /\ [Next]_vars => [InPipe!Next]_(InPipe!pipeVars)
  BY Steps, Mapped DEF IInv, HidEndpoints
<1> QED
  BY <1>1, Initially, Invariance, PTL DEF Spec, InIsPipe, InPipe!Spec

\* The command pipe implements ReportPipe, however many requests and bus resets come.
THEOREM OutImplements == Spec => OutIsPipe
<1>1. IInv /\ [Next]_vars => [OutPipe!Next]_(OutPipe!pipeVars)
  BY Steps, Mapped DEF IInv, HidEndpoints
<1> QED
  BY <1>1, Initially, Invariance, PTL DEF Spec, OutIsPipe, OutPipe!Spec

-------------------------------------------------------------------------------
(* The second invariant: the device and what the host believes *)

\* The largest packet of each endpoint, over all alternate settings.
Largest == [e \in Endpoints |-> CASE e = "feedback_in" -> 4 [] e = "audio_out" -> 776
                                  [] e = "hid_in" -> 17 [] e = "hid_out" -> 2]

Interfaces == {"stream", "hid"}
Of(itf) == {e \in Endpoints : e \in HidEndpoints <=> itf = "hid"}

Settings ==
  /\ alt_settings \in [Interfaces -> Nat]
  /\ \A itf \in Interfaces : alt_settings[itf] \in Alternates(itf)
  /\ configured \in BOOLEAN
  /\ max_size \in [Endpoints -> Nat] /\ \A e \in Endpoints : max_size[e] <= Largest[e]
  /\ \A i \in DOMAIN queue : queue[i] \in Events
  /\ host.requests <= MaxRequests

\* While configured, each interface has the endpoints of its alternate setting.
SetUpAs(itf, alt) ==
  /\ \A e \in Of(itf) : ep[e].enabled <=> \E d \in walk_descriptor(itf, alt) : d.ep = e
  /\ \A d \in walk_descriptor(itf, alt) : max_size[d.ep] = d.size
Active == configured => \A itf \in Interfaces : SetUpAs(itf, alt_settings[itf])

\* An endpoint stays enabled after a bus reset, but its buffer is where it was laid out.
LaidOut == configured \/ (\E e \in Endpoints : ep[e].enabled) => buf = usb_layout_buffers

\* What the host will believe once it has read the answer.
ToldConfig == IF host.answer = "ack" /\ host.request.kind = "config"
              THEN host.request.value ELSE host.config
ToldAlts == IF host.answer # "ack" THEN host.alts
            ELSE CASE host.request.kind = "config" -> NoAlternates
                   [] host.request.kind = "interface" ->
                        [host.alts EXCEPT ![host.request.itf] = host.request.alt]
                   [] OTHER -> host.alts
Told == ToldConfig = 1 => configured /\ alt_settings = ToldAlts

\* SET_INTERFACE is executed in the configuration it was sent for.
InterfaceFirst ==
  \A i \in DOMAIN queue : queue[i].kind = "interface" =>
    /\ configured
    /\ \A j \in DOMAIN queue : j < i => queue[j].kind \notin {"config", "reset"}

DInv == Settings /\ Active /\ LaidOut /\ Told /\ InterfaceFirst

-------------------------------------------------------------------------------
(* Descriptors, packet sizes and the layout of the buffers *)

\* Every descriptor of the configuration, and that the largest ones exist.
LEMMA DescriptorSizes ==
  /\ \A d \in configuration_descriptor :
       /\ d.ep \in Endpoints /\ d.size \in Nat /\ d.size <= Largest[d.ep]
       /\ d.ep \in HidEndpoints <=> d.itf = "hid"
       /\ d.ep # "audio_out" => d.size = Largest[d.ep]
       /\ d.ep = "audio_out" => d.size = IF d.alt \in 1 .. 3 THEN 776 ELSE IF d.alt = 8 THEN 772 ELSE 388
  /\ \A e \in Endpoints : \E d \in configuration_descriptor : d.ep = e /\ d.size = Largest[e]
<1>1. \A itf, alts, e, size : \A d \in Described(itf, alts, e, size) :
        d.itf = itf /\ d.alt \in alts /\ d.ep = e /\ d.size = size
  BY DEF Described
<1>2. \A itf, alts, e, size : \A alt \in alts :
        \E d \in Described(itf, alts, e, size) : d.ep = e /\ d.size = size
  <2>1. ASSUME NEW itf, NEW alts, NEW e, NEW size, NEW alt \in alts
        PROVE  \E d \in Described(itf, alts, e, size) : d.ep = e /\ d.size = size
    <3>1. PICK d : d = [itf |-> itf, alt |-> alt, ep |-> e, size |-> size]
      OBVIOUS
    <3> QED
      BY <3>1 DEF Described
  <2> QED
    BY <2>1
<1>3. ASSUME NEW d \in configuration_descriptor
      PROVE  \E itf, alts, e, size :
               /\ d \in Described(itf, alts, e, size)
               /\ \/ itf = "stream" /\ e = "feedback_in" /\ size = 4
                  \/ itf = "stream" /\ e = "audio_out" /\ alts = 1 .. 3 /\ size = 776
                  \/ itf = "stream" /\ e = "audio_out" /\ alts = (1 .. AltMax) \cap (4 .. 7) /\ size = 388
                  \/ itf = "stream" /\ e = "audio_out" /\ alts = (1 .. AltMax) \cap {8} /\ size = 772
                  \/ itf = "hid" /\ e = "hid_in" /\ size = 17
                  \/ itf = "hid" /\ e = "hid_out" /\ size = 2
  <2> HIDE DEF Described
  <2> QED
    BY <1>3 DEF configuration_descriptor
<1>4. ASSUME NEW d \in configuration_descriptor
      PROVE  /\ d.ep \in Endpoints /\ d.size \in Nat /\ d.size <= Largest[d.ep]
             /\ d.ep \in HidEndpoints <=> d.itf = "hid"
             /\ d.ep # "audio_out" => d.size = Largest[d.ep]
             /\ d.ep = "audio_out" =>
                  d.size = IF d.alt \in 1 .. 3 THEN 776 ELSE IF d.alt = 8 THEN 772 ELSE 388
  <2>1. PICK itf, alts, e, size :
               /\ d \in Described(itf, alts, e, size)
               /\ \/ itf = "stream" /\ e = "feedback_in" /\ size = 4
                  \/ itf = "stream" /\ e = "audio_out" /\ alts = 1 .. 3 /\ size = 776
                  \/ itf = "stream" /\ e = "audio_out" /\ alts = (1 .. AltMax) \cap (4 .. 7) /\ size = 388
                  \/ itf = "stream" /\ e = "audio_out" /\ alts = (1 .. AltMax) \cap {8} /\ size = 772
                  \/ itf = "hid" /\ e = "hid_in" /\ size = 17
                  \/ itf = "hid" /\ e = "hid_out" /\ size = 2
    BY <1>3
  <2>2. d.itf = itf /\ d.alt \in alts /\ d.ep = e /\ d.size = size
    BY <1>1, <2>1
  <2> QED
    BY <2>1, <2>2 DEF Endpoints, HidEndpoints, Largest
<1>5. ASSUME NEW e \in Endpoints
      PROVE  \E d \in configuration_descriptor : d.ep = e /\ d.size = Largest[e]
  <2>1. CASE e = "feedback_in"
    <3>1. PICK alts : alts = 1 .. AltMax
      OBVIOUS
    <3>2. 1 \in alts
      BY <3>1, AltMaxAssumption
    <3>3. PICK d \in Described("stream", alts, "feedback_in", 4) :
            d.ep = "feedback_in" /\ d.size = 4
      BY <1>2, <3>2
    <3> QED
      BY <2>1, <3>1, <3>3 DEF configuration_descriptor, Endpoints, Largest
  <2>2. CASE e = "audio_out"
    <3>2. PICK d \in Described("stream", 1 .. 3, "audio_out", 776) : d.ep = "audio_out" /\ d.size = 776
      BY <1>2
    <3> QED
      BY <2>2, <3>2 DEF configuration_descriptor, Endpoints, Largest
  <2>3. CASE e = "hid_in"
    <3>2. PICK d \in Described("hid", {0}, "hid_in", 17) : d.ep = "hid_in" /\ d.size = 17
      BY <1>2
    <3> QED
      BY <2>3, <3>2 DEF configuration_descriptor, Endpoints, Largest
  <2>4. CASE e = "hid_out"
    <3>2. PICK d \in Described("hid", {0}, "hid_out", 2) : d.ep = "hid_out" /\ d.size = 2
      BY <1>2
    <3> QED
      BY <2>4, <3>2 DEF configuration_descriptor, Endpoints, Largest
  <2> QED
    BY <2>1, <2>2, <2>3, <2>4 DEF Endpoints
<1> QED
  BY <1>4, <1>5

LEMMA LargestPacket == \A e \in Endpoints : max_packet_size(e) = Largest[e]
<1> SUFFICES ASSUME NEW e \in Endpoints PROVE max_packet_size(e) = Largest[e]
  OBVIOUS
<1> DEFINE sizes == {d.size : d \in {c \in configuration_descriptor : c.ep = e}}
<1>1. Largest[e] \in sizes /\ \A size \in sizes : size \in Nat /\ size <= Largest[e]
  BY DescriptorSizes
<1>2. Largest[e] \in Nat
  BY <1>1
<1>3. max_packet_size(e) = CHOOSE x \in sizes : \A y \in sizes : x >= y
  BY DEF max_packet_size, Max
<1> HIDE DEF sizes
<1>4. PICK m : m = CHOOSE x \in sizes : \A y \in sizes : x >= y
  OBVIOUS
<1>5. m \in sizes /\ \A y \in sizes : m >= y
  BY <1>1, <1>2, <1>4
<1> QED
  BY <1>1, <1>2, <1>3, <1>4, <1>5

LEMMA Layout ==
  /\ usb_layout_buffers["feedback_in"] = 0 /\ usb_layout_buffers["audio_out"] = 64
  /\ usb_layout_buffers["hid_in"] = 896 /\ usb_layout_buffers["hid_out"] = 960
<1> DEFINE Ends == [i \in 0 .. 4 |-> CASE i = 0 -> 0 [] i = 1 -> 4 [] i = 2 -> 840
                                       [] i = 3 -> 913 [] i = 4 -> 962]
<1>1. Len(LayoutOrder) = 4
  BY DEF LayoutOrder
<1>2. /\ max_packet_size(LayoutOrder[1]) = 4 /\ max_packet_size(LayoutOrder[2]) = 776
      /\ max_packet_size(LayoutOrder[3]) = 17 /\ max_packet_size(LayoutOrder[4]) = 2
  BY LargestPacket DEF LayoutOrder, Endpoints, Largest
<1>3. /\ Aligned(0) = 0 /\ Aligned(4) = 64 /\ Aligned(840) = 896 /\ Aligned(913) = 960
  BY DEF Aligned
<1>4. Ends = [i \in 0 .. 4 |-> IF i = 0 THEN 0
                               ELSE Aligned(Ends[i - 1]) + max_packet_size(LayoutOrder[i])]
  <2>1. ASSUME NEW i \in 0 .. 4
        PROVE  Ends[i] = IF i = 0 THEN 0
                         ELSE Aligned(Ends[i - 1]) + max_packet_size(LayoutOrder[i])
    BY <1>2, <1>3
  <2> QED
    BY <2>1
<1> HIDE DEF Ends
<1>5. BufferEnd = [i \in 0 .. 4 |-> IF i = 0 THEN 0
                               ELSE Aligned(BufferEnd[i - 1]) + max_packet_size(LayoutOrder[i])]
  <2>1. BufferEnd = CHOOSE f : f = [i \in 0 .. 4 |-> IF i = 0 THEN 0
                                   ELSE Aligned(f[i - 1]) + max_packet_size(LayoutOrder[i])]
    BY <1>1 DEF BufferEnd
  <2> QED
    BY <1>4, <2>1
<1>6. BufferEnd[0] = 0 
  BY <1>5
<1>7. BufferEnd[1] = 4
  BY <1>2, <1>3, <1>5, <1>6
<1>8. BufferEnd[2] = 840
  BY <1>2, <1>3, <1>5, <1>7
<1>9. BufferEnd[3] = 913
  BY <1>2, <1>3, <1>5, <1>8
<1>10. ASSUME NEW e \in Endpoints, NEW i \in 1 .. 4, LayoutOrder[i] = e
       PROVE  usb_layout_buffers[e] = Aligned(BufferEnd[i - 1])
  <2>1. PICK k : k = CHOOSE j \in DOMAIN LayoutOrder : LayoutOrder[j] = e
    OBVIOUS
  <2>2. usb_layout_buffers[e] = Aligned(BufferEnd[k - 1])
    BY <2>1 DEF usb_layout_buffers
  <2>3. \E j \in DOMAIN LayoutOrder : LayoutOrder[j] = e
    BY <1>10 DEF LayoutOrder
  <2>4. k \in DOMAIN LayoutOrder /\ LayoutOrder[k] = e
    BY <2>1, <2>3
  <2>5. k = i
    BY <1>10, <2>4 DEF LayoutOrder
  <2> QED
    BY <2>2, <2>5
<1>11. usb_layout_buffers["feedback_in"] = Aligned(BufferEnd[0])
  BY <1>10 DEF LayoutOrder, Endpoints
<1>12. usb_layout_buffers["audio_out"] = Aligned(BufferEnd[1])
  BY <1>10 DEF LayoutOrder, Endpoints
<1>13. usb_layout_buffers["hid_in"] = Aligned(BufferEnd[2])
  BY <1>10 DEF LayoutOrder, Endpoints
<1>14. usb_layout_buffers["hid_out"] = Aligned(BufferEnd[3])
  BY <1>10 DEF LayoutOrder, Endpoints
<1> QED
  BY <1>3, <1>6, <1>7, <1>8, <1>9, <1>11, <1>12, <1>13, <1>14

\* The endpoints of one alternate setting belong to its interface and differ.
LEMMA Walked ==
  ASSUME NEW itf \in Interfaces, NEW alt
  PROVE  \A d \in walk_descriptor(itf, alt) :
           /\ d.ep \in Of(itf) /\ d.ep \in Endpoints /\ d.size \in Nat /\ d.size <= Largest[d.ep]
           /\ \A c \in walk_descriptor(itf, alt) : c.ep = d.ep => c.size = d.size
<1> SUFFICES ASSUME NEW d \in walk_descriptor(itf, alt)
             PROVE  /\ d.ep \in Of(itf) /\ d.ep \in Endpoints
                    /\ d.size \in Nat /\ d.size <= Largest[d.ep]
                    /\ \A c \in walk_descriptor(itf, alt) : c.ep = d.ep => c.size = d.size
  OBVIOUS
<1>1. ASSUME NEW c \in walk_descriptor(itf, alt)
      PROVE  c \in configuration_descriptor /\ c.itf = itf /\ c.alt = alt
  BY DEF walk_descriptor
<1>2. \A c \in walk_descriptor(itf, alt) : c.ep = d.ep => c.size = d.size
  <2> SUFFICES ASSUME NEW c \in walk_descriptor(itf, alt), c.ep = d.ep PROVE c.size = d.size
    OBVIOUS
  <2>1. CASE d.ep # "audio_out"
    BY <1>1, <2>1, DescriptorSizes
  <2>2. CASE d.ep = "audio_out"
    <3>1. c.alt = d.alt /\ c.ep = "audio_out"
      BY <1>1, <2>2
    <3>2. /\ c.size = IF c.alt \in 1 .. 3 THEN 776 ELSE IF c.alt = 8 THEN 772 ELSE 388
          /\ d.size = IF d.alt \in 1 .. 3 THEN 776 ELSE IF d.alt = 8 THEN 772 ELSE 388
      BY <1>1, <2>2, <3>1, DescriptorSizes
    <3> QED
      BY <3>1, <3>2
  <2> QED
    BY <2>1, <2>2
<1> QED
  BY <1>1, <1>2, DescriptorSizes DEF Of

\* The packet sizes once the endpoints of some descriptors are set up.
LEMMA Sized ==
  ASSUME NEW sizes \in [Endpoints -> Nat], \A e \in Endpoints : sizes[e] <= Largest[e],
         NEW descriptors,
         \A d \in descriptors :
           /\ d.ep \in Endpoints /\ d.size \in Nat /\ d.size <= Largest[d.ep]
           /\ \A c \in descriptors : c.ep = d.ep => c.size = d.size
  PROVE  LET new == packet_sizes(sizes, descriptors) IN
         /\ new \in [Endpoints -> Nat] /\ \A e \in Endpoints : new[e] <= Largest[e]
         /\ \A d \in descriptors : new[d.ep] = d.size
         /\ \A e \in Endpoints : ~(\E d \in descriptors : d.ep = e) => new[e] = sizes[e]
<1> DEFINE new == packet_sizes(sizes, descriptors)
<1>1. ASSUME NEW d \in descriptors PROVE new[d.ep] = d.size
  <2>1. PICK c : c = CHOOSE b \in descriptors : b.ep = d.ep
    OBVIOUS
  <2>2. c \in descriptors /\ c.ep = d.ep
    BY <2>1
  <2>3. new[d.ep] = c.size
    BY <2>1 DEF packet_sizes
  <2> QED
    BY <2>2, <2>3
<1>2. ASSUME NEW e \in Endpoints, ~(\E d \in descriptors : d.ep = e) PROVE new[e] = sizes[e]
  BY <1>2 DEF packet_sizes
<1>3. ASSUME NEW e \in Endpoints PROVE new[e] \in Nat /\ new[e] <= Largest[e]
  <2>1. CASE \E d \in descriptors : d.ep = e
    BY <1>1, <2>1
  <2>2. CASE ~(\E d \in descriptors : d.ep = e)
    BY <1>2, <2>2
  <2> QED
    BY <2>1, <2>2
<1>4. new \in [Endpoints -> Nat]
  <2>1. DOMAIN new = Endpoints /\ new = [e \in Endpoints |-> new[e]]
    BY DEF packet_sizes
  <2> HIDE DEF new
  <2> QED
    BY <1>3, <2>1
<1> QED
  BY <1>1, <1>2, <1>3, <1>4

\* Which endpoints are enabled after each operation on the registers.
LEMMA Switched ==
  ASSUME NEW eps \in Registers
  PROVE  /\ \A descriptors : \A e \in Endpoints :
              /\ enable_ep(eps, descriptors)[e].enabled <=>
                   eps[e].enabled \/ \E d \in descriptors : d.ep = e
              /\ disable_ep(eps, descriptors)[e].enabled <=>
                   eps[e].enabled /\ ~\E d \in descriptors : d.ep = e
         /\ \A f \in Endpoints : \A e \in Endpoints :
              usb_start_transfer(eps, f)[e].enabled <=> eps[e].enabled
<1>1. ASSUME NEW descriptors, NEW e \in Endpoints
      PROVE  enable_ep(eps, descriptors)[e].enabled <=>
               eps[e].enabled \/ \E d \in descriptors : d.ep = e
  <2>1. CASE \E d \in descriptors : d.ep = e
    BY <2>1 DEF enable_ep
  <2>2. CASE ~\E d \in descriptors : d.ep = e
    BY <2>2 DEF enable_ep
  <2> QED
    BY <2>1, <2>2
<1>2. ASSUME NEW descriptors, NEW e \in Endpoints
      PROVE  disable_ep(eps, descriptors)[e].enabled <=>
               eps[e].enabled /\ ~\E d \in descriptors : d.ep = e
  <2>1. CASE \E d \in descriptors : d.ep = e
    BY <2>1 DEF disable_ep, Registers, EndpointState
  <2>2. CASE ~\E d \in descriptors : d.ep = e
    BY <2>2 DEF disable_ep
  <2> QED
    BY <2>1, <2>2
<1>3. ASSUME NEW f \in Endpoints, NEW e \in Endpoints
      PROVE  usb_start_transfer(eps, f)[e].enabled <=> eps[e].enabled
  <2>1. CASE e = f
    BY <2>1 DEF usb_start_transfer, Registers
  <2>2. CASE e # f
    BY <2>2 DEF usb_start_transfer, Registers
  <2> QED
    BY <2>1, <2>2
<1> QED
  BY <1>1, <1>2, <1>3

LEMMA InitialisedKeepsOn ==
  ASSUME NEW eps \in Registers, NEW e \in Endpoints
  PROVE  usb_hid_set_interface(eps)[e].enabled <=> eps[e].enabled
<1>1. "hid_in" \in Endpoints /\ "hid_out" \in Endpoints
  BY DEF Endpoints
<1>2. PICK mid : mid = usb_start_transfer(eps, "hid_in")
  OBVIOUS
<1>3. mid \in Registers /\ (mid[e].enabled <=> eps[e].enabled)
  BY <1>1, <1>2, Transfer, Switched
<1> QED
  BY <1>1, <1>2, <1>3, Switched DEF usb_hid_set_interface

-------------------------------------------------------------------------------
(* The steps keep the second invariant *)

LEMMA InitDInv == Init => DInv
<1> SUFFICES ASSUME Init PROVE DInv
  OBVIOUS
<1>1. /\ queue = <<>> /\ DOMAIN queue = {} /\ configured = FALSE
      /\ host.config = 0 /\ host.answer = "none" /\ host.requests = 0
  BY DEF Init
<1>2. Settings
  <2>1. alt_settings \in [Interfaces -> Nat] /\ \A itf \in Interfaces : alt_settings[itf] = 0
    BY DEF Init, NoAlternates, Interfaces
  <2>2. \A itf \in Interfaces : 0 \in Alternates(itf)
    BY AltMaxAssumption DEF Alternates
  <2>3. max_size \in [Endpoints -> Nat] /\ \A e \in Endpoints : max_size[e] = 0
    BY DEF Init
  <2>4. \A e \in Endpoints : 0 <= Largest[e]
    BY DEF Largest, Endpoints
  <2>5. 0 <= MaxRequests
    BY RequestsAssumption
  <2> QED
    BY <1>1, <2>1, <2>2, <2>3, <2>4, <2>5 DEF Settings
<1>3. LaidOut
  BY <1>1 DEF Init, LaidOut, Closed
<1> QED
  BY <1>1, <1>2, <1>3 DEF DInv, Active, Told, ToldConfig, InterfaceFirst

LEMMA DeviceKept ==
  ASSUME DInv, \A e \in Endpoints : ep'[e].enabled <=> ep[e].enabled,
         UNCHANGED <<layout, alt_settings, configured>>
  PROVE  Active' /\ LaidOut'
<1>1. UNCHANGED <<max_size, buf, alt_settings, configured>>
  BY DEF layout
<1>2. \A itf \in Interfaces : \A alt : SetUpAs(itf, alt) => SetUpAs(itf, alt)'
  BY <1>1 DEF SetUpAs, Of
<1>3. Active'
  BY <1>1, <1>2 DEF DInv, Active
<1>4. LaidOut'
  BY <1>1 DEF DInv, LaidOut
<1> QED
  BY <1>3, <1>4

LEMMA ToldKept ==
  ASSUME DInv, UNCHANGED <<alt_settings, configured>>,
         host'.config = host.config, host'.alts = host.alts, host'.request = host.request,
         host'.answer = host.answer
  PROVE  Told'
BY DEF DInv, Told, ToldConfig, ToldAlts

LEMMA SettingsKept ==
  ASSUME DInv, UNCHANGED <<layout, alt_settings, configured>>,
         host'.requests <= MaxRequests, \A i \in DOMAIN queue' : queue'[i] \in Events
  PROVE  Settings'
BY DEF DInv, Settings, layout

LEMMA FirstAfterTake ==
  ASSUME IInv, DInv, NEW kind, Take(kind)
  PROVE  /\ Head(queue) \in Events /\ Head(queue).kind = kind
         /\ \A i \in DOMAIN queue' : queue'[i] \in Events
         /\ kind = "interface" => configured
         /\ kind \in {"config", "reset"} => InterfaceFirst'
         /\ configured' = configured => InterfaceFirst'
<1>1. /\ Head(queue) = queue[1] /\ 1 \in DOMAIN queue /\ Head(queue).kind = kind
      /\ \A i \in DOMAIN queue' :
           i + 1 \in DOMAIN queue /\ 1 < i + 1 /\ queue'[i] = queue[i + 1] /\ i \in Nat
  BY Removed DEF IInv, Types, Take
<1>2. /\ Head(queue) \in Events
      /\ \A i \in DOMAIN queue' : queue'[i] \in Events
  BY <1>1 DEF DInv, Settings
<1>3. kind = "interface" => configured
  BY <1>1 DEF DInv, InterfaceFirst
<1>4. ASSUME kind \in {"config", "reset"} PROVE InterfaceFirst'
  <2>1. \A i \in DOMAIN queue' : queue'[i].kind # "interface"
    BY <1>1, <1>4 DEF DInv, InterfaceFirst
  <2> QED
    BY <2>1 DEF InterfaceFirst
<1>5. ASSUME configured' = configured PROVE InterfaceFirst'
  <2> SUFFICES ASSUME NEW i \in DOMAIN queue', queue'[i].kind = "interface"
               PROVE  /\ configured'
                      /\ \A j \in DOMAIN queue' : j < i => queue'[j].kind \notin {"config", "reset"}
    BY DEF InterfaceFirst
  <2>1. i + 1 \in DOMAIN queue /\ queue[i + 1].kind = "interface" /\ i \in Nat
    BY <1>1
  <2>2. configured'
    BY <1>5, <2>1 DEF DInv, InterfaceFirst
  <2>3. ASSUME NEW j \in DOMAIN queue', j < i PROVE queue'[j].kind \notin {"config", "reset"}
    <3>1. j + 1 \in DOMAIN queue /\ queue'[j] = queue[j + 1] /\ j \in Nat
      BY <1>1
    <3>2. j + 1 < i + 1
      BY <2>1, <2>3, <3>1
    <3> QED
      BY <2>1, <3>1, <3>2 DEF DInv, InterfaceFirst
  <2> QED
    BY <2>2, <2>3
<1> QED
  BY <1>1, <1>2, <1>3, <1>4, <1>5

LEMMA FirstAfterAppend ==
  ASSUME IInv, DInv, NEW event \in AnyEvent, queue' = Append(queue, event), event \in Events,
         configured' = configured,
         event.kind = "interface" =>
           configured /\ \A j \in DOMAIN queue : queue[j].kind \notin {"config", "reset"}
  PROVE  InterfaceFirst' /\ \A i \in DOMAIN queue' : queue'[i] \in Events
<1>1. /\ DOMAIN queue' = 1 .. Len(queue) + 1 /\ DOMAIN queue = 1 .. Len(queue)
      /\ Len(queue) \in Nat
      /\ \A i \in 1 .. Len(queue) : queue'[i] = queue[i]
      /\ queue'[Len(queue) + 1] = event
  BY Appended DEF IInv, Types
<1>2. \A i \in DOMAIN queue' : queue'[i] \in Events
  BY <1>1 DEF DInv, Settings
<1>3. ASSUME NEW i \in DOMAIN queue', queue'[i].kind = "interface"
      PROVE  /\ configured'
             /\ \A j \in DOMAIN queue' : j < i => queue'[j].kind \notin {"config", "reset"}
  <2>1. \A j \in DOMAIN queue' : j < i => j \in DOMAIN queue /\ queue'[j] = queue[j]
    BY <1>1
  <2>2. CASE i = Len(queue) + 1
    BY <1>1, <1>3, <2>1, <2>2
  <2>3. CASE i # Len(queue) + 1
    <3>1. i \in DOMAIN queue /\ queue[i].kind = "interface"
      BY <1>1, <1>3, <2>3
    <3> QED
      BY <2>1, <3>1 DEF DInv, InterfaceFirst
  <2> QED
    BY <2>2, <2>3
<1> QED
  BY <1>2, <1>3 DEF InterfaceFirst

LEMMA AnswerKeeps ==
  ASSUME Types, NEW answer, Answer(answer)
  PROVE  host'.alts = host.alts /\ host'.requests = host.requests
BY DEF Types, Hosts, Answer

LEMMA PidOnly ==
  ASSUME Types, NEW e \in HidEndpoints, NEW p, host' = [host EXCEPT !.pid[e] = p]
  PROVE  /\ host'.config = host.config /\ host'.alts = host.alts
         /\ host'.request = host.request /\ host'.answer = host.answer
         /\ host'.requests = host.requests
BY DEF Types, Hosts

\* What a step keeps that only moves packets.
LEMMA TrafficKeeps ==
  ASSUME DInv, \A e \in Endpoints : ep'[e].enabled <=> ep[e].enabled,
         UNCHANGED <<layout, alt_settings, configured>>,
         host'.config = host.config, host'.alts = host.alts, host'.request = host.request,
         host'.answer = host.answer, host'.requests = host.requests,
         InterfaceFirst', \A i \in DOMAIN queue' : queue'[i] \in Events
  PROVE  DInv'
<1>1. host'.requests <= MaxRequests
  BY DEF DInv, Settings
<1>2. UNCHANGED <<alt_settings, configured>>
  OBVIOUS
<1> QED
  BY <1>1, <1>2, DeviceKept, ToldKept, SettingsKept DEF DInv

LEMMA HostRequestsDInv == ASSUME IInv, DInv, HostRequests PROVE DInv'
<1>1. PICK request \in Requests :
        /\ host' = [host EXCEPT !.request = request, !.requests = @ + 1]
        /\ queue' = Append(queue, request)
  BY DEF HostRequests
<1>2. /\ host.request = NoRequest /\ host.requests < MaxRequests /\ NoReset
      /\ UNCHANGED <<ep, layout, alt_settings, configured>>
  BY DEF HostRequests, NoReset
<1>3. host.answer = "none"
  BY <1>2 DEF IInv, Phase, Types, Hosts
<1>4. \A i \in DOMAIN queue : queue[i].kind \notin {"config", "reset"}
  BY <1>2 DEF IInv, Phase, IsRequest, NoRequest, NoReset
<1>5. request \in AnyRequest /\ request \in Events
      /\ (request.kind = "interface" => host.config = 1)
  <2>1. CASE request \in [kind : {"config"}, value : 0 .. 2]
    BY <2>1 DEF AnyRequest, Events
  <2>2. CASE /\ host.config = 1
             /\ request \in [kind : {"interface"}, itf : {"stream"}, alt : 0 .. AltMax + 1]
                               \cup [kind : {"interface"}, itf : {"hid"}, alt : {0, 1}]
    <3>1. 0 .. AltMax + 1 \subseteq Nat /\ {0, 1} \subseteq 0 .. AltMax + 1
      BY AltMaxAssumption
    <3>2. PICK alts : alts = 0 .. AltMax + 1
      OBVIOUS
    <3>3. request \in [kind : {"interface"}, itf : {"stream", "hid"}, alt : alts]
      BY <2>2, <3>1, <3>2
    <3>4. request \in [kind : {"interface"}, itf : {"stream", "hid"}, alt : Nat]
      BY <3>1, <3>2, <3>3
    <3> QED
      BY <2>2, <3>2, <3>3, <3>4 DEF AnyRequest, Events
  <2>3. CASE host.config = 1 /\ request \in [kind : {"clear"}, ep : Endpoints]
    BY <2>3 DEF AnyRequest, Events
  <2> QED
    BY <1>1, <2>1, <2>2, <2>3 DEF Requests
<1>6. host.config = 1 => configured /\ alt_settings = host.alts
  BY <1>3 DEF DInv, Told, ToldConfig, ToldAlts
<1>7. /\ host'.config = host.config /\ host'.alts = host.alts /\ host'.answer = "none"
      /\ host'.requests = host.requests + 1
  <2>1. PICK n : n = host.requests + 1
    OBVIOUS
  <2>2. host' = [host EXCEPT !.request = request, !.requests = n]
    BY <1>1, <2>1
  <2> QED
    BY <1>3, <2>1, <2>2 DEF IInv, Types, Hosts
<1>8. host'.requests <= MaxRequests
  BY <1>2, <1>7, RequestsAssumption DEF IInv, Types, Hosts
<1>9. InterfaceFirst' /\ \A i \in DOMAIN queue' : queue'[i] \in Events
  BY <1>1, <1>2, <1>4, <1>5, <1>6, FirstAfterAppend DEF AnyEvent
<1>10. Told'
  BY <1>2, <1>6, <1>7 DEF Told, ToldConfig, ToldAlts
<1> QED
  BY <1>2, <1>8, <1>9, <1>10, DeviceKept, SettingsKept DEF DInv

LEMMA HostIsAnsweredDInv == ASSUME IInv, DInv, HostIsAnswered PROVE DInv'
<1> DEFINE request == host.request
<1>1. host.answer = "ack" /\ UNCHANGED <<ep, layout, alt_settings, configured, queue, pipe>>
  BY DEF HostIsAnswered
<1>2. PICK pid : pid = [e \in HidEndpoints |-> IF Concerns(request, e) THEN 0 ELSE host.pid[e]]
  OBVIOUS
<1>3. host' = [host EXCEPT !.request = NoRequest, !.answer = "none", !.config = ToldConfig,
                           !.alts = ToldAlts, !.pid = pid]
  BY <1>1, <1>2 DEF HostIsAnswered, ToldConfig, ToldAlts
<1>4. /\ host'.config = ToldConfig /\ host'.alts = ToldAlts /\ host'.answer = "none"
      /\ host'.requests = host.requests
  BY <1>3 DEF IInv, Types, Hosts
<1>5. Told'
  BY <1>1, <1>4 DEF DInv, Told, ToldConfig, ToldAlts
<1>6. /\ \A i \in DOMAIN queue' : queue'[i] \in Events
      /\ host'.requests <= MaxRequests /\ InterfaceFirst'
  BY <1>1, <1>4 DEF DInv, Settings, InterfaceFirst
<1> QED
  BY <1>1, <1>5, <1>6, DeviceKept, SettingsKept DEF DInv

LEMMA HostIsRefusedDInv == ASSUME IInv, DInv, HostIsRefused PROVE DInv'
<1>1. host.answer = "stall" /\ UNCHANGED <<ep, layout, alt_settings, configured, queue, pipe>>
  BY DEF HostIsRefused
<1>2. /\ host'.config = host.config /\ host'.alts = host.alts /\ host'.answer = "none"
      /\ host'.requests = host.requests
  BY DEF HostIsRefused, IInv, Types, Hosts
<1>3. Told'
  BY <1>1, <1>2 DEF DInv, Told, ToldConfig, ToldAlts
<1>4. /\ \A i \in DOMAIN queue' : queue'[i] \in Events
      /\ host'.requests <= MaxRequests /\ InterfaceFirst'
  BY <1>1, <1>2 DEF DInv, Settings, InterfaceFirst
<1> QED
  BY <1>1, <1>3, <1>4, DeviceKept, SettingsKept DEF DInv

LEMMA BusResetDInv == ASSUME IInv, DInv, BusReset PROVE DInv'
<1>1. /\ host.requests < MaxRequests /\ UNCHANGED <<ep, layout, alt_settings, configured>>
      /\ queue' = Append(queue, [kind |-> "reset"])
  BY DEF BusReset
<1>2. host'.config = 0 /\ host'.answer = "none" /\ host'.requests = host.requests + 1
  <2>1. PICK n : n = host.requests + 1
    OBVIOUS
  <2>2. host' = [host EXCEPT !.config = 0, !.alts = NoAlternates, !.request = NoRequest,
                             !.answer = "none", !.requests = n]
    BY <2>1 DEF BusReset
  <2> QED
    BY <2>1, <2>2 DEF IInv, Types, Hosts
<1>3. host'.requests <= MaxRequests
  BY <1>1, <1>2, RequestsAssumption DEF IInv, Types, Hosts
<1>4. InterfaceFirst' /\ \A i \in DOMAIN queue' : queue'[i] \in Events
  <2>1. PICK event : event = [kind |-> "reset"]
    OBVIOUS
  <2>2. event \in AnyEvent /\ event \in Events /\ event.kind = "reset"
    BY <2>1 DEF AnyEvent, Events
  <2> QED
    BY <1>1, <2>1, <2>2, FirstAfterAppend
<1>5. Told'
  BY <1>2 DEF Told, ToldConfig
<1> QED
  BY <1>1, <1>3, <1>4, <1>5, DeviceKept, SettingsKept DEF DInv

\* A packet is exchanged, and its completion may be queued.
LEMMA ExchangedDInv ==
  ASSUME IInv, DInv, NEW e \in HidEndpoints, NEW p, host' = [host EXCEPT !.pid[e] = p],
         Complete(e) \/ UNCHANGED <<ep, queue>>, UNCHANGED <<layout, alt_settings, configured>>
  PROVE  DInv'
<1>1. /\ host'.config = host.config /\ host'.alts = host.alts
      /\ host'.request = host.request /\ host'.answer = host.answer
      /\ host'.requests = host.requests
  BY PidOnly DEF IInv
<1>2. \A f \in Endpoints : ep'[f].enabled <=> ep[f].enabled
  <2>1. CASE Complete(e)
    <3>1. ep' = [ep EXCEPT ![e].avail = FALSE]
      BY <2>1 DEF Complete
    <3>2. ASSUME NEW f \in Endpoints PROVE ep'[f].enabled <=> ep[f].enabled
      <4>1. CASE f = e
        BY <3>1, <4>1 DEF IInv, Types, EndpointState
      <4>2. CASE f # e
        BY <3>1, <4>2 DEF IInv, Types
      <4> QED
        BY <4>1, <4>2
    <3> QED
      BY <3>2
  <2>2. CASE UNCHANGED <<ep, queue>>
    BY <2>2
  <2> QED
    BY <2>1, <2>2
<1>3. InterfaceFirst' /\ \A i \in DOMAIN queue' : queue'[i] \in Events
  <2>1. CASE Complete(e)
    <3>1. queue' = Append(queue, Done(e))
      BY <2>1 DEF Complete, Done
    <3>2. Done(e) \in AnyEvent /\ Done(e) \in Events /\ Done(e).kind # "interface"
      <4>1. Done(e) \in [kind : {"done"}, ep : HidEndpoints]
        BY DEF Done
      <4> QED
        BY <4>1, DoneIs DEF Events
    <3> QED
      BY <3>1, <3>2, FirstAfterAppend
  <2>2. CASE UNCHANGED <<ep, queue>>
    BY <2>2 DEF DInv, Settings, InterfaceFirst
  <2> QED
    BY <2>1, <2>2
<1> QED
  BY <1>1, <1>2, <1>3, TrafficKeeps

LEMMA HostReadsDInv ==
  ASSUME IInv, DInv, NEW acknowledged \in BOOLEAN, HostReads(acknowledged) PROVE DInv'
<1>1. PICK p : p = IF ep["hid_in"].pid = host.pid["hid_in"] THEN 1 - host.pid["hid_in"]
                   ELSE host.pid["hid_in"]
  OBVIOUS
<1>2. host' = [host EXCEPT !.pid["hid_in"] = p]
  BY <1>1 DEF HostReads
<1>3. Complete("hid_in") \/ UNCHANGED <<ep, queue>>
  BY DEF HostReads
<1>4. UNCHANGED <<layout, alt_settings, configured>> /\ "hid_in" \in HidEndpoints
  BY DEF HostReads, HidEndpoints
<1> QED
  BY <1>2, <1>3, <1>4, ExchangedDInv

LEMMA HostWritesDInv ==
  ASSUME IInv, DInv, NEW acknowledged \in BOOLEAN, HostWrites(acknowledged) PROVE DInv'
<1>1. PICK p : p = IF acknowledged THEN 1 - host.pid["hid_out"] ELSE host.pid["hid_out"]
  OBVIOUS
<1>2. host' = [host EXCEPT !.pid["hid_out"] = p]
  BY <1>1 DEF HostWrites
<1>3. Complete("hid_out") \/ UNCHANGED <<ep, queue>>
  BY DEF HostWrites
<1>4. UNCHANGED <<layout, alt_settings, configured>> /\ "hid_out" \in HidEndpoints
  BY DEF HostWrites, HidEndpoints
<1> QED
  BY <1>2, <1>3, <1>4, ExchangedDInv

LEMMA UnchangedDInv ==
  ASSUME DInv, UNCHANGED <<ep, layout, alt_settings, configured, queue, host>> PROVE DInv'
<1>1. InterfaceFirst' /\ \A i \in DOMAIN queue' : queue'[i] \in Events
  BY DEF DInv, Settings, InterfaceFirst
<1> QED
  BY <1>1, TrafficKeeps

LEMMA ep_hid_handlerDInv == ASSUME IInv, DInv, ep_hid_handler PROVE DInv'
<1>1. /\ Take("done") /\ ep' = usb_start_transfer(ep, Head(queue).ep)
      /\ UNCHANGED <<layout, alt_settings, configured, host>>
  BY DEF ep_hid_handler
<1>2. Head(queue) \in AnyEvent /\ Head(queue).kind = "done"
  BY <1>1, AfterTake DEF IInv
<1>3. Head(queue).ep \in Endpoints
  BY <1>2, Kinds DEF HidEndpoints, Endpoints
<1>4. \A e \in Endpoints : ep'[e].enabled <=> ep[e].enabled
  BY <1>1, <1>3, Switched DEF IInv, Types, Registers
<1>5. configured' = configured
  BY <1>1
<1>6. InterfaceFirst' /\ \A i \in DOMAIN queue' : queue'[i] \in Events
  BY <1>1, <1>5, FirstAfterTake
<1> QED
  BY <1>1, <1>4, <1>6, TrafficKeeps

LEMMA NoneSelected ==
  /\ NoAlternates \in [Interfaces -> Nat]
  /\ \A itf \in Interfaces : NoAlternates[itf] = 0 /\ NoAlternates[itf] \in Alternates(itf)
<1>1. \A itf \in Interfaces : 0 \in Alternates(itf)
  BY AltMaxAssumption DEF Alternates
<1> QED
  BY <1>1 DEF NoAlternates, Interfaces

\* A request is refused: the device stays as it is, and the host believes what it did.
LEMMA RefusedDInv ==
  ASSUME IInv, DInv, NEW kind \in {"config", "interface", "clear"}, Take(kind), Answer("stall"),
         \A e \in Endpoints : ep'[e].enabled <=> ep[e].enabled,
         UNCHANGED <<layout, alt_settings, configured>>
  PROVE  DInv'
<1>1. configured' = configured
  OBVIOUS
<1>2. InterfaceFirst' /\ \A i \in DOMAIN queue' : queue'[i] \in Events
  BY <1>1, FirstAfterTake
<1>3. host'.alts = host.alts /\ host'.requests = host.requests
  BY AnswerKeeps DEF IInv
<1>4. host'.config = host.config /\ host.answer = "none" /\ host'.answer \in {"none", "stall"}
  BY Answered DEF IInv
<1>5. Told'
  BY <1>3, <1>4 DEF DInv, Told, ToldConfig, ToldAlts
<1>6. host'.requests <= MaxRequests
  BY <1>3 DEF DInv, Settings
<1> QED
  BY <1>2, <1>5, <1>6, DeviceKept, SettingsKept DEF DInv

LEMMA usb_bus_resetDInv == ASSUME IInv, DInv, usb_bus_reset PROVE DInv'
<1>1. /\ Take("reset") /\ UNCHANGED <<max_size, buf, host>>
      /\ ep' = [e \in Endpoints |-> [ep[e] EXCEPT !.next_pid = 0]]
      /\ alt_settings' = NoAlternates /\ configured' = FALSE
  BY DEF usb_bus_reset, layout
<1>2. host.config = 0 /\ host.answer = "none"
  <2>1. ~NoReset
    BY <1>1, AfterTake DEF IInv
  <2> QED
    BY <2>1 DEF IInv, Phase, Types, Hosts
<1>3. InterfaceFirst' /\ \A i \in DOMAIN queue' : queue'[i] \in Events
  BY <1>1, FirstAfterTake
<1>4. \A e \in Endpoints : ep'[e].enabled <=> ep[e].enabled
  BY <1>1 DEF IInv, Types, EndpointState
<1>5. LaidOut'
  BY <1>1, <1>4 DEF DInv, LaidOut
<1>6. alt_settings' \in [Interfaces -> Nat] /\ \A itf \in Interfaces : alt_settings'[itf] \in Alternates(itf)
  BY <1>1, NoneSelected
<1>7. Settings'
  BY <1>1, <1>3, <1>6 DEF DInv, Settings
<1> QED
  BY <1>1, <1>2, <1>3, <1>5, <1>7 DEF DInv, Active, Told, ToldConfig

\* The first alternate setting of every interface is set up.
LEMMA ConfiguredDInv ==
  ASSUME IInv, DInv, Take("config"), Head(queue).value = 1, NEW first, NEW off \in Registers,
         first = walk_descriptor("stream", 0) \cup walk_descriptor("hid", 0),
         \A e \in Endpoints : ~off[e].enabled,
         buf' = usb_layout_buffers, max_size' = packet_sizes(max_size, first),
         ep' = usb_hid_set_interface(enable_ep(off, first)),
         configured' = TRUE, alt_settings' = NoAlternates, Answer("ack")
  PROVE  DInv'
<1>1. /\ InterfaceFirst' /\ \A i \in DOMAIN queue' : queue'[i] \in Events
      /\ Head(queue).kind = "config"
  BY FirstAfterTake
<1>2. host'.alts = host.alts /\ host'.requests = host.requests
  BY AnswerKeeps DEF IInv
<1>3. \/ host.config = 0 /\ host' = host /\ host.answer = "none"
      \/ host'.request = Head(queue) /\ host'.answer = "ack"
  BY Answered DEF IInv
<1>4. Told'
  BY <1>1, <1>3 DEF Told, ToldConfig, ToldAlts
<1>5. \A itf \in Interfaces : alt_settings'[itf] = 0
  BY DEF NoAlternates, Interfaces
<1>6. \A d \in first :
        /\ d.ep \in Endpoints /\ d.size \in Nat /\ d.size <= Largest[d.ep]
        /\ \A c \in first : c.ep = d.ep => c.size = d.size
  BY Walked DEF Interfaces, Of
<1>7. PICK sizes : sizes = packet_sizes(max_size, first)
  OBVIOUS
<1>8. /\ sizes \in [Endpoints -> Nat] /\ \A e \in Endpoints : sizes[e] <= Largest[e]
      /\ \A d \in first : sizes[d.ep] = d.size
  BY <1>6, <1>7, Sized DEF DInv, Settings
<1>9. PICK on : on = enable_ep(off, first)
  OBVIOUS
<1>10. /\ on \in Registers
       /\ \A e \in Endpoints : on[e].enabled <=> \E d \in first : d.ep = e
  BY <1>9, Enabled, Switched
<1>11. \A e \in Endpoints : ep'[e].enabled <=> \E d \in first : d.ep = e
  BY <1>9, <1>10, InitialisedKeepsOn
<1>12. ASSUME NEW itf \in Interfaces PROVE SetUpAs(itf, 0)'
  <2>1. \A e \in Of(itf) : (\E d \in first : d.ep = e) <=> \E d \in walk_descriptor(itf, 0) : d.ep = e
    BY Walked DEF Interfaces, Of
  <2>2. \A d \in walk_descriptor(itf, 0) : max_size'[d.ep] = d.size
    BY <1>7, <1>8 DEF Interfaces
  <2> QED
    BY <1>11, <2>1, <2>2 DEF SetUpAs, Of
<1>13. Active' /\ LaidOut'
  BY <1>5, <1>12 DEF Active, LaidOut
<1>14. Settings'
  BY <1>1, <1>2, <1>7, <1>8, NoneSelected DEF DInv, Settings
<1> QED
  BY <1>1, <1>4, <1>13, <1>14 DEF DInv

LEMMA usb_set_configurationDInv == ASSUME IInv, DInv, usb_set_configuration PROVE DInv'
<1> DEFINE config == Head(queue).value
           off == [e \in Endpoints |-> [ep[e] EXCEPT !.enabled = FALSE]]
           first == walk_descriptor("stream", 0) \cup walk_descriptor("hid", 0)
<1>1. Take("config")
  BY DEF usb_set_configuration
<1>2. /\ InterfaceFirst' /\ \A i \in DOMAIN queue' : queue'[i] \in Events
      /\ Head(queue).kind = "config"
  BY <1>1, FirstAfterTake
<1>3. off \in Registers /\ \A e \in Endpoints : ~off[e].enabled
  BY DEF IInv, Types, Registers, EndpointState
<1>4. CASE /\ config = 0 /\ ep' = off /\ UNCHANGED layout
           /\ configured' = FALSE /\ alt_settings' = NoAlternates /\ Answer("ack")
  <2>1. \/ host.config = 0 /\ host' = host /\ host.answer = "none"
        \/ host'.request = Head(queue) /\ host'.answer = "ack"
    BY <1>1, <1>4, Answered DEF IInv
  <2>2. host'.requests = host.requests
    BY <1>4, AnswerKeeps DEF IInv
  <2>3. Told'
    BY <1>2, <1>4, <2>1 DEF Told, ToldConfig
  <2>4. Active' /\ LaidOut'
    BY <1>3, <1>4 DEF Active, LaidOut
  <2>5. Settings'
    BY <1>2, <1>4, <2>2, NoneSelected DEF DInv, Settings, layout
  <2> QED
    BY <1>2, <2>3, <2>4, <2>5 DEF DInv
<1>5. CASE /\ config = 1 /\ buf' = usb_layout_buffers /\ max_size' = packet_sizes(max_size, first)
           /\ ep' = usb_hid_set_interface(enable_ep(off, first))
           /\ configured' = TRUE /\ alt_settings' = NoAlternates /\ Answer("ack")
  <2> HIDE DEF off
  <2>1. PICK all : all = first
    OBVIOUS
  <2> QED
    BY <1>1, <1>3, <1>5, <2>1, ConfiguredDInv
<1>6. CASE /\ config > 1 /\ Answer("stall")
           /\ UNCHANGED <<ep, layout, alt_settings, configured>>
  BY <1>1, <1>6, RefusedDInv
<1> QED
  BY <1>4, <1>5, <1>6 DEF usb_set_configuration

\* An interface changes to another alternate setting, the other one stays as it is.
LEMMA usb_set_interfaceDInv == ASSUME IInv, DInv, usb_set_interface PROVE DInv'
<1>. PICK itf, alt : itf = Head(queue).itf /\ alt = Head(queue).alt
  OBVIOUS
<1> DEFINE old == walk_descriptor(itf, alt_settings[itf])
           new == walk_descriptor(itf, alt)
           switched == enable_ep(disable_ep(ep, old), new)
<1>1. Take("interface") /\ UNCHANGED <<buf, configured>>
  BY DEF usb_set_interface
<1>2. /\ Head(queue) \in AnyEvent /\ Head(queue).kind = "interface"
      /\ itf \in Interfaces /\ alt \in Nat
  BY <1>1, AfterTake, Kinds DEF IInv, Interfaces
<1>3. configured' = configured
  BY <1>1
<1>4. /\ configured /\ InterfaceFirst' /\ \A i \in DOMAIN queue' : queue'[i] \in Events
  BY <1>1, <1>3, FirstAfterTake
<1>5. CASE alt \notin Alternates(itf)
  <2>1. Answer("stall") /\ UNCHANGED <<ep, layout, alt_settings, configured>>
    BY <1>1, <1>5 DEF usb_set_interface, layout
  <2> QED
    BY <1>1, <2>1, RefusedDInv
<1>6. CASE alt \in Alternates(itf)
  <2>1. /\ alt_settings' = [alt_settings EXCEPT ![itf] = alt]
        /\ max_size' = packet_sizes(max_size, new)
        /\ ep' = IF itf = "hid" THEN usb_hid_set_interface(switched) ELSE switched
        /\ Answer("ack")
    BY <1>6 DEF usb_set_interface
  <2>2. host'.alts = host.alts /\ host'.requests = host.requests
    BY <2>1, AnswerKeeps DEF IInv
  <2>3. /\ host'.config = host.config
        /\ \/ host.config = 0 /\ host' = host /\ host.answer = "none"
           \/ host'.request = Head(queue) /\ host.answer = "none" /\ host'.answer = "ack"
    BY <1>1, <2>1, Answered DEF IInv
  <2>4. Told'
    <3>1. CASE host.config = 0 /\ host' = host /\ host.answer = "none"
      BY <3>1 DEF Told, ToldConfig
    <3>2. CASE host'.request = Head(queue) /\ host.answer = "none" /\ host'.answer = "ack"
      <4>1. host.config = 1 => alt_settings = host.alts
        BY <3>2 DEF DInv, Told, ToldConfig, ToldAlts
      <4>2. ToldConfig' = host.config /\ ToldAlts' = [host.alts EXCEPT ![itf] = alt]
        BY <1>2, <2>2, <2>3, <3>2 DEF ToldConfig, ToldAlts
      <4> QED
        BY <1>3, <1>4, <2>1, <4>1, <4>2 DEF Told
    <3> QED
      BY <2>3, <3>1, <3>2
  <2>5. /\ alt_settings' \in [Interfaces -> Nat] /\ alt_settings'[itf] = alt
        /\ \A other \in Interfaces : other # itf => alt_settings'[other] = alt_settings[other]
    BY <1>2, <2>1 DEF DInv, Settings
  <2>6. /\ max_size' \in [Endpoints -> Nat] /\ \A e \in Endpoints : max_size'[e] <= Largest[e]
        /\ \A d \in new : max_size'[d.ep] = d.size
        /\ \A e \in Endpoints : ~(\E d \in new : d.ep = e) => max_size'[e] = max_size[e]
    <3>1. \A d \in new :
            /\ d.ep \in Endpoints /\ d.size \in Nat /\ d.size <= Largest[d.ep]
            /\ \A c \in new : c.ep = d.ep => c.size = d.size
      BY <1>2, Walked
    <3>2. PICK sizes, descriptors : sizes = packet_sizes(max_size, descriptors) /\ descriptors = new
      OBVIOUS
    <3> QED
      BY <2>1, <3>1, <3>2, Sized DEF DInv, Settings
  <2>7. \A e \in Endpoints : ep'[e].enabled <=>
          (ep[e].enabled /\ ~\E d \in old : d.ep = e) \/ \E d \in new : d.ep = e
    <3>1. ep \in Registers
      BY DEF IInv, Types, Registers
    <3>2. PICK off : off = disable_ep(ep, old)
      OBVIOUS
    <3>3. /\ off \in Registers
          /\ \A e \in Endpoints : off[e].enabled <=> ep[e].enabled /\ ~\E d \in old : d.ep = e
      BY <3>1, <3>2, Enabled, Switched
    <3>4. PICK on : on = enable_ep(off, new)
      OBVIOUS
    <3>5. /\ on \in Registers
          /\ \A e \in Endpoints : on[e].enabled <=> off[e].enabled \/ \E d \in new : d.ep = e
      BY <3>3, <3>4, Enabled, Switched
    <3>6. ep' = on \/ ep' = usb_hid_set_interface(on)
      BY <2>1, <3>2, <3>4
    <3>7. \A e \in Endpoints : ep'[e].enabled <=> on[e].enabled
      BY <3>5, <3>6, InitialisedKeepsOn
    <3> QED
      BY <3>3, <3>5, <3>7
  <2>8. \A d \in old \cup new : d.ep \in Of(itf)
    BY <1>2, Walked
  <2>9. SetUpAs(itf, alt_settings[itf])
    BY <1>2, <1>4 DEF DInv, Active
  <2>10. SetUpAs(itf, alt)'
    <3>1. \A e \in Of(itf) : ep'[e].enabled <=> \E d \in new : d.ep = e
      BY <2>7, <2>9 DEF SetUpAs, Of
    <3> QED
      BY <2>6, <3>1 DEF SetUpAs
  <2>11. ASSUME NEW other \in Interfaces, other # itf PROVE SetUpAs(other, alt_settings[other])'
    <3>1. SetUpAs(other, alt_settings[other])
      BY <1>4 DEF DInv, Active
    <3>2. \A e \in Of(other) : e \in Endpoints /\ e \notin Of(itf)
      BY <1>2, <2>11 DEF Of, Interfaces
    <3>3. \A e \in Of(other) : ep'[e].enabled <=> ep[e].enabled
      BY <2>7, <2>8, <3>2
    <3>4. \A e \in Of(other) : max_size'[e] = max_size[e]
      BY <2>6, <2>8, <3>2
    <3>5. \A d \in walk_descriptor(other, alt_settings[other]) : d.ep \in Of(other)
      BY Walked
    <3>6. alt_settings'[other] = alt_settings[other]
      BY <2>5, <2>11
    <3> QED
      BY <3>1, <3>3, <3>4, <3>5, <3>6 DEF SetUpAs
  <2>12. Active'
    BY <2>5, <2>10, <2>11 DEF Active
  <2>13. LaidOut'
    BY <1>1, <1>4 DEF DInv, LaidOut
  <2>14. Settings'
    <3>1. \A other \in Interfaces : alt_settings'[other] \in Alternates(other)
      BY <1>6, <2>5 DEF DInv, Settings
    <3> QED
      BY <1>3, <1>4, <2>2, <2>5, <2>6, <3>1 DEF DInv, Settings
  <2> QED
    BY <1>4, <2>4, <2>12, <2>13, <2>14 DEF DInv
<1> QED
  BY <1>5, <1>6

LEMMA usb_clear_endpoint_haltDInv == ASSUME IInv, DInv, usb_clear_endpoint_halt PROVE DInv'
<1>1. Take("clear") /\ UNCHANGED <<layout, alt_settings, configured>>
  BY DEF usb_clear_endpoint_halt
<1>2. /\ InterfaceFirst' /\ \A i \in DOMAIN queue' : queue'[i] \in Events
      /\ Head(queue).kind = "clear"
  <2>1. configured' = configured
    BY <1>1
  <2> QED
    BY <1>1, <2>1, FirstAfterTake
<1>3. CASE Answer("stall") /\ UNCHANGED ep
  BY <1>1, <1>3, RefusedDInv
<1>4. CASE Answer("ack") /\ usb_buffer_control_clear_halt(Head(queue).ep)
  <2>1. \A e \in Endpoints : ep'[e].enabled <=> ep[e].enabled
    <3>1. PICK f, next_pid : /\ f = Head(queue).ep
                             /\ next_pid = IF ep[f].avail THEN 1 ELSE 0
      OBVIOUS
    <3>2. ep' = [ep EXCEPT ![f].pid = 0, ![f].next_pid = next_pid]
      BY <1>4, <3>1 DEF usb_buffer_control_clear_halt
    <3> QED
      BY <3>2 DEF IInv, Types, EndpointState
  <2>2. host'.alts = host.alts /\ host'.requests = host.requests
    BY <1>4, AnswerKeeps DEF IInv
  <2>3. /\ host'.config = host.config
        /\ \/ host.config = 0 /\ host' = host /\ host.answer = "none"
           \/ host'.request = Head(queue) /\ host.answer = "none" /\ host'.answer = "ack"
    BY <1>1, <1>4, Answered DEF IInv
  <2>4. Told'
    BY <1>1, <1>2, <2>2, <2>3 DEF DInv, Told, ToldConfig, ToldAlts
  <2>5. host'.requests <= MaxRequests
    BY <2>2 DEF DInv, Settings
  <2> QED
    BY <1>1, <1>2, <2>1, <2>4, <2>5, DeviceKept, SettingsKept DEF DInv
<1> QED
  BY <1>3, <1>4 DEF usb_clear_endpoint_halt

LEMMA DStep == ASSUME IInv, DInv, [Next]_vars PROVE DInv'
<1>1. CASE HostOffersCommand
  BY <1>1, UnchangedDInv DEF HostOffersCommand
<1>2. CASE UNCHANGED vars
  BY <1>2, UnchangedDInv DEF vars
<1>3. CASE \E acknowledged \in BOOLEAN : HostReads(acknowledged) \/ HostWrites(acknowledged)
  BY <1>3, HostReadsDInv, HostWritesDInv
<1>4. CASE MainLoop
  BY <1>4, ep_hid_handlerDInv, usb_bus_resetDInv, usb_set_configurationDInv,
     usb_set_interfaceDInv, usb_clear_endpoint_haltDInv DEF MainLoop
<1> QED
  BY <1>1, <1>2, <1>3, <1>4, HostRequestsDInv, HostIsAnsweredDInv, HostIsRefusedDInv, BusResetDInv
     DEF Next

LEMMA DeviceInvariance == Spec => [](IInv /\ DInv)
<1>1. IInv /\ DInv /\ [Next]_vars => IInv' /\ DInv'
  BY Steps, DStep
<1> QED
  BY <1>1, InitIInv, InitDInv, PTL DEF Spec

-------------------------------------------------------------------------------
(* What the two invariants give *)

LEMMA TypesHold == IInv /\ DInv => TypeOK
<1> SUFFICES ASSUME IInv, DInv PROVE TypeOK
  OBVIOUS
<1>1. ep \in [Endpoints -> EndpointState] /\ pipe \in [HidEndpoints -> [unread : {0, 1}, unconfirmed : {0, 1}]]
  BY DEF IInv, Types
<1>2. host.config \in {0, 1} /\ host.requests \in Nat
  BY DEF IInv, Types, Hosts
<1>3. host.requests <= MaxRequests
  BY DEF DInv, Settings
<1>4. host.requests \in 0 .. MaxRequests
  BY <1>2, <1>3, RequestsAssumption
<1> QED
  BY <1>1, <1>2, <1>4 DEF DInv, Settings, TypeOK, Interfaces

\* Type correctness, for every set of alternate settings and any number of requests: no
\* report is armed over one not taken, and alt_settings never names an alternate setting
\* the configuration does not describe (usb_start_transfer, usb_set_interface).
THEOREM TypeCorrect == Spec => []TypeOK
BY TypesHold, DeviceInvariance, PTL

LEMMA Agreement == IInv /\ DInv => EndpointsFollowHost
<1> SUFFICES ASSUME IInv, DInv, host.config = 1, host.request = NoRequest
             PROVE  /\ configured /\ alt_settings = host.alts
                    /\ {<<e, max_size[e]>> : e \in {f \in Endpoints : ep[f].enabled}}
                         = UNION {{<<d.ep, d.size>> : d \in walk_descriptor(itf, host.alts[itf])}
                                    : itf \in {"stream", "hid"}}
  BY DEF EndpointsFollowHost
<1> DEFINE Now == {<<e, max_size[e]>> : e \in {f \in Endpoints : ep[f].enabled}}
           Wanted(itf) == {<<d.ep, d.size>> : d \in walk_descriptor(itf, host.alts[itf])}
<1>1. host.answer = "none"
  BY DEF IInv, Phase, Types, Hosts
<1>2. configured /\ alt_settings = host.alts
  BY <1>1 DEF DInv, Told, ToldConfig, ToldAlts
<1>3. \A itf \in Interfaces : SetUpAs(itf, host.alts[itf])
  BY <1>2 DEF DInv, Active
<1>4. ASSUME NEW itf \in Interfaces, NEW d \in walk_descriptor(itf, host.alts[itf])
      PROVE  d.ep \in Endpoints /\ ep[d.ep].enabled /\ d.size = max_size[d.ep]
  BY <1>3, Walked DEF SetUpAs
<1>5. ASSUME NEW e \in Endpoints, ep[e].enabled
      PROVE  \E itf \in Interfaces : \E d \in walk_descriptor(itf, host.alts[itf]) :
               d.ep = e /\ d.size = max_size[e]
  <2>1. \E itf \in Interfaces : e \in Of(itf)
    BY DEF Of, Interfaces
  <2> QED
    BY <1>3, <1>5, <2>1 DEF SetUpAs
<1>6. \A itf \in Interfaces : Wanted(itf) \subseteq Now
  BY <1>4
<1>7. \A x \in Now : \E itf \in Interfaces : x \in Wanted(itf)
  BY <1>5
<1> HIDE DEF Now, Wanted
<1>8. Now = UNION {Wanted(itf) : itf \in Interfaces}
  BY <1>6, <1>7
<1> QED
  BY <1>2, <1>8 DEF Now, Wanted, Interfaces

\* Whenever no request is outstanding, what is enabled and the packet sizes are those of
\* the alternate settings the host believes are selected (usb_set_configuration,
\* usb_set_interface), whatever was refused and however many bus resets came between.
THEOREM EndpointsAgree == Spec => []EndpointsFollowHost
BY Agreement, DeviceInvariance, PTL

LEMMA Apart == IInv /\ DInv => BuffersApart
<1> SUFFICES ASSUME IInv, DInv, NEW e \in Endpoints, ep[e].enabled
             PROVE  /\ buf[e] % 64 = 0 /\ buf[e] + max_size[e] <= 3712
                    /\ \A f \in Endpoints \ {e} : ep[f].enabled /\ buf[e] <= buf[f]
                                                   => buf[e] + max_size[e] <= buf[f]
  BY DEF BuffersApart
<1>1. buf = usb_layout_buffers
  BY DEF DInv, LaidOut
<1>2. /\ buf["feedback_in"] = 0 /\ buf["audio_out"] = 64
      /\ buf["hid_in"] = 896 /\ buf["hid_out"] = 960
  BY <1>1, Layout
<1>3. max_size[e] \in Nat /\ max_size[e] <= Largest[e]
  BY DEF DInv, Settings
<1>4. /\ buf[e] % 64 = 0 /\ buf[e] \in Nat /\ buf[e] + Largest[e] <= 3712 /\ Largest[e] \in Nat
      /\ \A f \in Endpoints \ {e} : buf[f] \in Nat /\ (buf[e] <= buf[f] => buf[e] + Largest[e] <= buf[f])
  BY <1>2 DEF Endpoints, Largest
<1>5. PICK b \in Nat, m \in Nat, l \in Nat : b = buf[e] /\ m = max_size[e] /\ l = Largest[e]
  BY <1>3, <1>4
<1>6. \A x \in Nat : b + l <= x => b + m <= x
  BY <1>3, <1>5
<1> QED
  BY <1>4, <1>5, <1>6

\* The buffers of the enabled endpoints lie in epx_data, aligned, and do not overlap
\* (usb_layout_buffers), whichever alternate setting is selected.
THEOREM NoOverlap == Spec => []BuffersApart
BY Apart, DeviceInvariance, PTL

===============================================================================
