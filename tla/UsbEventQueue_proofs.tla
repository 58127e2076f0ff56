------------------------- MODULE UsbEventQueue_proofs -------------------------
(***************************************************************************)
(* Proofs about UsbEventQueue: how many places of the queue events other   *)
(* than audio can need, that without HID the places audio leaves suffice,  *)
(* and that the endpoints the host polls never fall silent, for any length *)
(* of the queue and any number of bus resets.                              *)
(*                                                                         *)
(* The argument: everything but audio that is queued stands for something  *)
(* there is one of.  A streaming endpoint is armed or queued, not both;    *)
(* a transfer has its SETUP in the queue, or a completion, or a buffer the *)
(* host is about to complete; and the host resets the bus once at a time.  *)
(***************************************************************************)
EXTENDS UsbEventQueue, FiniteSetTheorems, SequenceTheorems, TLAPS

-------------------------------------------------------------------------------
(* The inductive invariant *)

Streaming == Endpoints \ ControlEndpoints

AllRequests == {"read", "write", "command", "configure", "open", "close"}
Stages == {"idle", "data_in", "data_out", "status_in", "status_out"}
Events == [kind : Kinds, what : AllRequests \cup Stages \cup {""}]

Types ==
  /\ queue \in Seq(Events) /\ Len(queue) <= USB_QUEUE_LENGTH
  /\ panicked \in BOOLEAN /\ audio_rx_enabled \in BOOLEAN /\ read \in BOOLEAN
  /\ armed \subseteq Endpoints
  /\ host \in [stage : Stages, request : AllRequests, configured : BOOLEAN,
               open : BOOLEAN, resets : Nat]

\* The completions of endpoint 0 share one place.
Place(kind) == IF kind \in ControlEndpoints THEN "ep0" ELSE kind

\* No two events other than audio have the same place.
OnePlaceEach ==
  \A i, j \in DOMAIN queue :
    queue[i].kind # "audio" /\ Place(queue[i].kind) = Place(queue[j].kind) => i = j

NoCompletion == \A i \in DOMAIN queue : queue[i].kind \notin ControlEndpoints

\* A streaming endpoint is not armed while its completion is queued.
Apart == \A endpoint \in Streaming : endpoint \in armed => ~Queued(endpoint)

\* While a SETUP is queued, nothing of its transfer has happened yet, and the host has
\* stopped what the request is about.
SetupFirst ==
  \A i \in DOMAIN queue : queue[i].kind = "setup" =>
    /\ armed \cap ControlEndpoints = {}
    /\ \A j \in DOMAIN queue : i < j => queue[j].kind \notin ControlEndpoints
    /\ queue[i].what = "configure" =>
         /\ ~host.configured /\ ~host.open
         /\ \A j \in DOMAIN queue : i < j => queue[j].kind \notin HidEndpoints
    /\ queue[i].what \in {"open", "close"} =>
         /\ ~host.open
         /\ \A j \in DOMAIN queue : i < j => queue[j].kind # "feedback"
    /\ IF host.stage = "idle" THEN \E j \in DOMAIN queue : i < j /\ queue[j].kind = "reset"
       ELSE queue[i].what = host.request /\ host.stage = FirstStage(host.request)

\* Afterwards the buffer of a stage is open only when the completion of the stage before
\* has been handled.
OneStage ==
  ~Queued("setup") =>
    /\ host.stage = "data_in" => "ep0_out" \notin armed /\ NoCompletion
    /\ host.stage = "data_out" => "ep0_in" \notin armed /\ NoCompletion
    /\ host.stage = "status_in" /\ "ep0_in" \in armed => NoCompletion
    /\ host.stage = "status_out" /\ "ep0_out" \in armed => NoCompletion

Alive(endpoint) == endpoint \in armed \/ Queued(endpoint)

\* What the host polls, or will poll once its request is answered, is alive.
Unbroken ==
  /\ host.configured => \A endpoint \in HidEndpoints : Alive(endpoint)
  /\ host.open => Alive("feedback")
  /\ host.stage # "idle" /\ ~Queued("setup") =>
       /\ host.request = "configure" => \A endpoint \in HidEndpoints : Alive(endpoint)
       /\ host.request = "open" => Alive("feedback")

Running == Apart /\ SetupFirst /\ OneStage /\ Unbroken

\* A panic stops everything.
IInv == Types /\ OnePlaceEach /\ (~panicked => Running)

-------------------------------------------------------------------------------
(* Endpoints, and what is put into the queue and taken from it *)

LEMMA Names ==
  /\ Endpoints = Streaming \cup ControlEndpoints
  /\ Streaming = {"feedback"} \cup HidEndpoints
  /\ HidEndpoints \subseteq {"hid_in", "hid_out"}
  /\ Streaming \subseteq {"feedback", "hid_in", "hid_out"}
  /\ ControlEndpoints = {"ep0_in", "ep0_out"}
  /\ \A kind \in Kinds : kind \in {"audio", "setup", "reset", "feedback", "hid_in", "hid_out",
                                   "ep0_in", "ep0_out"}
  /\ \A kind \in Kinds \ ControlEndpoints : Place(kind) = kind
  /\ \A kind \in Kinds : Place(kind) = "ep0" <=> kind \in ControlEndpoints
  BY DEF Endpoints, Streaming, HidEndpoints, ControlEndpoints, Kinds, Place

LEMMA EventFields ==
  ASSUME NEW e \in Events
  PROVE  e.kind \in Kinds /\ e.what \in AllRequests \cup Stages \cup {""}
  BY DEF Events

\* What the interrupt does to the queue when there is room.
LEMMA Appended ==
  ASSUME Types, OnePlaceEach, NEW e \in Events, Len(queue) < USB_QUEUE_LENGTH,
         queue' = Append(queue, e),
         \/ e.kind = "audio"
         \/ \A i \in DOMAIN queue : Place(queue[i].kind) # Place(e.kind)
  PROVE  /\ queue' \in Seq(Events) /\ Len(queue') <= USB_QUEUE_LENGTH /\ OnePlaceEach'
         /\ \E last \in DOMAIN queue' :
              /\ queue'[last] = e
              /\ \A i \in DOMAIN queue : i \in DOMAIN queue' /\ queue'[i] = queue[i] /\ i < last
              /\ \A i \in DOMAIN queue' : i \in DOMAIN queue \/ i = last
              /\ \A i \in DOMAIN queue' : ~(last < i)
         /\ \A kind : Queued(kind)' <=> Queued(kind) \/ kind = e.kind
<1>1. queue \in Seq(Events) /\ Len(queue) \in Nat /\ DOMAIN queue = 1 .. Len(queue)
  BY DEF Types
<1>2. PICK last \in Nat : last = Len(queue) + 1
  BY <1>1
<1>3. /\ queue' \in Seq(Events) /\ Len(queue') = last /\ DOMAIN queue' = 1 .. last
      /\ queue'[last] = e
      /\ \A i \in DOMAIN queue : queue'[i] = queue[i]
  BY <1>1, <1>2
<1>4. Len(queue') <= USB_QUEUE_LENGTH
  BY <1>1, <1>2, <1>3, LengthAssumption
<1>5. /\ last \in DOMAIN queue' /\ queue'[last] = e
      /\ \A i \in DOMAIN queue : i \in DOMAIN queue' /\ queue'[i] = queue[i] /\ i < last
      /\ \A i \in DOMAIN queue' : i \in DOMAIN queue \/ i = last
      /\ \A i \in DOMAIN queue' : ~(last < i)
  BY <1>1, <1>2, <1>3
<1>6. OnePlaceEach'
  <2>1. \A i, j \in DOMAIN queue :
          queue[i].kind # "audio" /\ Place(queue[i].kind) = Place(queue[j].kind) => i = j
    BY DEF OnePlaceEach
  <2>2. e \in Events /\ \A i \in DOMAIN queue : queue[i] \in Events
    BY <1>1
  <2>3. \A kind \in Kinds : Place(kind) = "audio" <=> kind = "audio"
    BY DEF Kinds, Place, ControlEndpoints, Endpoints, HidEndpoints
  <2>4. ASSUME NEW i \in DOMAIN queue', NEW j \in DOMAIN queue', queue'[i].kind # "audio",
               Place(queue'[i].kind) = Place(queue'[j].kind)
        PROVE  i = j
    <3>1. queue'[j].kind # "audio"
      <4>1. queue'[i] \in Events /\ queue'[j] \in Events
        BY <1>5, <2>2
      <4> QED
        BY <2>3, <2>4, <4>1, EventFields
    <3> QED
      BY <1>5, <2>1, <2>4, <3>1
  <2> QED
    BY <2>4 DEF OnePlaceEach, Place
<1>7. \A kind : Queued(kind)' <=> Queued(kind) \/ kind = e.kind
  BY <1>5 DEF Queued
<1> QED
  BY <1>3, <1>4, <1>5, <1>6, <1>7

\* What taking the head of a queue leaves.
LEMMA TakeHead ==
  ASSUME NEW S, NEW s \in Seq(S), s # <<>>
  PROVE  /\ Head(s) = s[1] /\ 1 \in DOMAIN s /\ Head(s) \in S
         /\ Tail(s) \in Seq(S) /\ Len(s) \in Nat /\ Len(Tail(s)) = Len(s) - 1
         /\ \A i \in DOMAIN Tail(s) : /\ i \in Nat /\ i + 1 # 1 /\ i + 1 \in DOMAIN s
                                      /\ Tail(s)[i] = s[i + 1]
         /\ \A i \in DOMAIN s : i # 1 => /\ i \in Nat /\ 1 < i /\ i - 1 \in DOMAIN Tail(s)
                                         /\ Tail(s)[i - 1] = s[i]
  OBVIOUS

\* What the main loop does to it: the event it has taken is gone, and so is its place.
LEMMA Taken ==
  ASSUME Types, OnePlaceEach, queue # <<>>, queue' = Tail(queue), NEW e, e = Head(queue)
  PROVE  /\ e \in Events /\ 1 \in DOMAIN queue /\ queue[1] = e
         /\ queue' \in Seq(Events) /\ Len(queue') <= USB_QUEUE_LENGTH /\ OnePlaceEach'
         /\ \A i \in DOMAIN queue' : /\ i \in Nat /\ i + 1 \in DOMAIN queue /\ 1 < i + 1
                                     /\ queue'[i] = queue[i + 1]
         /\ \A i \in DOMAIN queue : i # 1 => /\ i \in Nat /\ 1 < i /\ i - 1 \in DOMAIN queue'
                                             /\ queue'[i - 1] = queue[i]
         /\ \A kind : Queued(kind) <=> Queued(kind)' \/ kind = e.kind
         /\ e.kind # "audio" =>
              \A i \in DOMAIN queue' : Place(queue'[i].kind) # Place(e.kind)
<1>1. queue \in Seq(Events)
  BY DEF Types
<1>2. /\ e = queue[1] /\ 1 \in DOMAIN queue /\ e \in Events
      /\ queue' \in Seq(Events) /\ Len(queue) \in Nat /\ Len(queue') = Len(queue) - 1
      /\ \A i \in DOMAIN queue' : /\ i \in Nat /\ i + 1 # 1 /\ i + 1 \in DOMAIN queue
                                  /\ queue'[i] = queue[i + 1]
      /\ \A i \in DOMAIN queue : i # 1 => /\ i \in Nat /\ 1 < i /\ i - 1 \in DOMAIN queue'
                                          /\ queue'[i - 1] = queue[i]
  BY <1>1, TakeHead
<1>3. \A i \in DOMAIN queue' : 1 < i + 1
  BY <1>2
<1>4. Len(queue') <= USB_QUEUE_LENGTH
  BY <1>2, LengthAssumption DEF Types
<1>5. OnePlaceEach'
  <2>1. ASSUME NEW i \in DOMAIN queue', NEW j \in DOMAIN queue', queue'[i].kind # "audio",
               Place(queue'[i].kind) = Place(queue'[j].kind)
        PROVE  i = j
    <3>1. i + 1 = j + 1
      BY <1>2, <2>1 DEF OnePlaceEach
    <3> QED
      BY <1>2, <3>1
  <2> QED
    BY <2>1 DEF OnePlaceEach, Place
<1>6. ASSUME NEW kind PROVE Queued(kind) <=> Queued(kind)' \/ kind = e.kind
  <2>1. ASSUME NEW i \in DOMAIN queue, queue[i].kind = kind
        PROVE  Queued(kind)' \/ kind = e.kind
    BY <1>2, <2>1 DEF Queued
  <2>2. ASSUME NEW i \in DOMAIN queue', queue'[i].kind = kind
        PROVE  Queued(kind)
    BY <1>2, <2>2 DEF Queued
  <2> QED
    BY <1>2, <2>1, <2>2 DEF Queued
<1>7. ASSUME e.kind # "audio", NEW i \in DOMAIN queue'
      PROVE  Place(queue'[i].kind) # Place(e.kind)
  BY <1>2, <1>7 DEF OnePlaceEach
<1> QED
  BY <1>2, <1>3, <1>4, <1>5, <1>6, <1>7

-------------------------------------------------------------------------------
(* The interrupt *)

\* A completed buffer of endpoint 0 has a place, for no other completion is queued.
LEMMA ControlHasPlace ==
  ASSUME Types, Running, NEW endpoint \in ControlEndpoints, endpoint \in armed, Polls(endpoint)
  PROVE  /\ NoCompletion /\ ~Queued("setup") /\ host.stage # "idle"
         /\ host.stage = "data_in" => "ep0_out" \notin armed
         /\ host.stage = "data_out" => "ep0_in" \notin armed
<1>1. ~Queued("setup")
  BY DEF Running, SetupFirst, Queued
<1>2. CASE endpoint = "ep0_in"
  <2>1. host.stage \in {"data_in", "status_in"}
    BY <1>2 DEF Polls, HidEndpoints
  <2> QED
    BY <1>1, <1>2, <2>1 DEF Running, OneStage
<1>3. CASE endpoint = "ep0_out"
  <2>1. host.stage \in {"data_out", "status_out"}
    BY <1>3 DEF Polls, HidEndpoints
  <2> QED
    BY <1>1, <1>3, <2>1 DEF Running, OneStage
<1> QED
  BY <1>2, <1>3, Names

\* The interrupt finds the place of what it queues free.
LEMMA SetupHasPlace ==
  ASSUME Types, Running, host.stage = "idle", ~Queued("reset")
  PROVE  ~Queued("setup") /\ \A i \in DOMAIN queue : Place(queue[i].kind) # "setup"
<1>1. ~Queued("setup")
  BY DEF Running, SetupFirst, Queued
<1> QED
  BY <1>1 DEF Place, Queued, ControlEndpoints

LEMMA CompletionHasPlace ==
  ASSUME Types, Running, NEW endpoint \in Endpoints, endpoint \in armed, Polls(endpoint)
  PROVE  \A i \in DOMAIN queue : Place(queue[i].kind) # Place(endpoint)
<1>1. CASE endpoint \in ControlEndpoints
  <2>1. NoCompletion
    BY <1>1, ControlHasPlace
  <2>2. \A i \in DOMAIN queue : queue[i].kind \in Kinds
    <3>1. \A i \in DOMAIN queue : queue[i] \in Events
      BY DEF Types
    <3> QED
      BY <3>1, EventFields
  <2>3. Place(endpoint) = "ep0"
    BY <1>1 DEF Place
  <2> QED
    BY <2>1, <2>2, <2>3, Names DEF NoCompletion
<1>2. CASE endpoint \in Streaming
  <2>1. ~Queued(endpoint)
    BY <1>2 DEF Running, Apart
  <2>2. Place(endpoint) = endpoint /\ endpoint # "ep0"
    BY <1>2, Names DEF Place
  <2> QED
    BY <2>1, <2>2 DEF Queued, Place
<1> QED
  BY <1>1, <1>2, Names

\* After a panic only the types and the places matter.
LEMMA AfterPanic ==
  ASSUME IInv, queue' = queue, panicked' = TRUE, armed' \subseteq Endpoints,
         UNCHANGED <<audio_rx_enabled, read>>,
         host' \in [stage : Stages, request : AllRequests, configured : BOOLEAN,
                    open : BOOLEAN, resets : Nat]
  PROVE  IInv'
<1>1. Types'
  BY DEF IInv, Types
<1>2. OnePlaceEach'
  BY DEF IInv, OnePlaceEach, Place
<1> QED
  BY <1>1, <1>2 DEF IInv

LEMMA AudioPacketStep == ASSUME IInv, AudioPacket PROVE IInv'
<1>1. PICK e : e = Event("audio", "")
  OBVIOUS
<1>2. /\ ~panicked /\ queue' = Append(queue, e)
      /\ UNCHANGED <<panicked, armed, audio_rx_enabled, read, host>>
      /\ Len(queue) < USB_QUEUE_LENGTH - 4
  BY <1>1 DEF AudioPacket, AudioFits
<1>3. e \in Events /\ e.kind = "audio"
  BY <1>1 DEF Event, Events, Kinds
<1>4. Types /\ OnePlaceEach /\ Running
  BY <1>2 DEF IInv
<1>5. Len(queue) < USB_QUEUE_LENGTH
  BY <1>2, <1>4, LengthAssumption DEF Types
<1>6. /\ queue' \in Seq(Events) /\ Len(queue') <= USB_QUEUE_LENGTH /\ OnePlaceEach'
      /\ \A i \in DOMAIN queue : i \in DOMAIN queue' /\ queue'[i] = queue[i]
      /\ \A i \in DOMAIN queue' : queue'[i].kind = "audio" \/ i \in DOMAIN queue
      /\ \A kind : Queued(kind)' <=> Queued(kind) \/ kind = "audio"
  BY <1>2, <1>3, <1>4, <1>5, Appended
<1>7. Types'
  BY <1>2, <1>4, <1>6 DEF Types
<1>8. Apart'
  BY <1>2, <1>4, <1>6, Names DEF Running, Apart
<1>9. SetupFirst'
  <2>1. \A i \in DOMAIN queue' :
          queue'[i].kind \in {"setup"} \cup Endpoints => i \in DOMAIN queue
    BY <1>6, Names
  <2>2. "audio" \notin ControlEndpoints \cup HidEndpoints
    BY Names
  <2> QED
    BY <1>2, <1>4, <1>6, <2>1, <2>2 DEF Running, SetupFirst, FirstStage
<1>10. OneStage'
  <2>1. NoCompletion => NoCompletion'
    BY <1>6, Names DEF NoCompletion
  <2> QED
    BY <1>2, <1>4, <1>6, <2>1 DEF Running, OneStage
<1>11. Unbroken'
  BY <1>2, <1>4, <1>6 DEF Running, Unbroken, Alive
<1> QED
  BY <1>2, <1>6, <1>7, <1>8, <1>9, <1>10, <1>11 DEF IInv, Running

LEMMA BusResetStep == ASSUME IInv, BusReset PROVE IInv'
<1>1. PICK e : e = Event("reset", "")
  OBVIOUS
<1>2. PICK n \in Nat : n = host.resets + 1
  BY DEF IInv, Types
<1>3. /\ ~panicked /\ ~Queued("reset")
      /\ host' = [host EXCEPT !.stage = "idle", !.configured = FALSE, !.open = FALSE,
                              !.resets = n]
      /\ Put(e)
      /\ UNCHANGED <<armed, audio_rx_enabled, read>>
  BY <1>1, <1>2 DEF BusReset
<1>4. e \in Events /\ e.kind = "reset"
  BY <1>1 DEF Event, Events, Kinds
<1>5. Types /\ OnePlaceEach /\ Running
  BY <1>3 DEF IInv
<1>6. /\ host' \in [stage : Stages, request : AllRequests, configured : BOOLEAN,
                    open : BOOLEAN, resets : Nat]
      /\ host'.stage = "idle" /\ ~host'.configured /\ ~host'.open
  BY <1>2, <1>3, <1>5 DEF Types, Stages
<1>7. CASE Len(queue) >= USB_QUEUE_LENGTH
  <2>1. panicked' = TRUE /\ queue' = queue
    BY <1>5, <1>3, <1>7, LengthAssumption DEF Put, Types
  <2> QED
    BY <1>3, <1>5, <1>6, <2>1, AfterPanic DEF Types
<1>8. CASE Len(queue) < USB_QUEUE_LENGTH
  <2>1. queue' = Append(queue, e) /\ panicked' = panicked
    BY <1>3, <1>8 DEF Put
  <2>2. \A i \in DOMAIN queue : Place(queue[i].kind) # Place(e.kind)
    BY <1>3, <1>4 DEF Place, Queued, ControlEndpoints
  <2>3. PICK last \in DOMAIN queue' :
          /\ queue'[last] = e
          /\ \A i \in DOMAIN queue : i \in DOMAIN queue' /\ queue'[i] = queue[i] /\ i < last
          /\ \A i \in DOMAIN queue' : i \in DOMAIN queue \/ i = last
    BY <1>4, <1>5, <1>8, <2>1, <2>2, Appended
  <2>4. /\ queue' \in Seq(Events) /\ Len(queue') <= USB_QUEUE_LENGTH /\ OnePlaceEach'
        /\ \A kind : Queued(kind)' <=> Queued(kind) \/ kind = "reset"
    BY <1>4, <1>5, <1>8, <2>1, <2>2, Appended
  <2>5. Types'
    BY <1>3, <1>5, <1>6, <2>1, <2>4 DEF Types
  <2>6. Apart'
    BY <1>3, <1>5, <2>4, Names DEF Running, Apart
  <2>7. SetupFirst'
    <3>1. "reset" \notin {"setup", "feedback"} \cup ControlEndpoints \cup HidEndpoints
      BY Names
    <3>2. \A i \in DOMAIN queue' : queue'[i].kind = "setup" =>
            i \in DOMAIN queue /\ i < last /\ queue'[last].kind = "reset"
      BY <1>4, <2>3
    <3> QED
      BY <1>3, <1>4, <1>5, <1>6, <2>3, <3>1, <3>2 DEF Running, SetupFirst
  <2>8. OneStage' /\ Unbroken'
    BY <1>6 DEF OneStage, Unbroken
  <2> QED
    BY <2>4, <2>5, <2>6, <2>7, <2>8 DEF IInv, Running
<1> QED
  BY <1>5, <1>7, <1>8, LengthAssumption DEF Types

LEMMA SetupStep == ASSUME IInv, Setup PROVE IInv'
<1>1. /\ ~panicked /\ host.stage = "idle" /\ ~Queued("reset")
      /\ armed' = armed \ ControlEndpoints
      /\ UNCHANGED <<audio_rx_enabled, read>>
  BY DEF Setup
<1>2. PICK request \in Requests :
        /\ host' = [host EXCEPT
             !.stage = FirstStage(request), !.request = request,
             !.configured = host.configured /\ request # "configure",
             !.open = host.open /\ request \notin {"configure", "open", "close"}]
        /\ Put(Event("setup", request))
  BY DEF Setup
<1>3. Types /\ OnePlaceEach /\ Running
  BY <1>1 DEF IInv
<1>4. request \in AllRequests
  BY DEF Requests, AllRequests
<1>5. PICK e : e = Event("setup", request)
  OBVIOUS
<1>6. e \in Events /\ e.kind = "setup" /\ e.what = request
  BY <1>4, <1>5 DEF Event, Events, Kinds
<1>7. PICK first \in Stages : first = FirstStage(request) /\ first # "idle" /\ first # "status_out"
  BY DEF FirstStage, Stages
<1>8. PICK configured \in BOOLEAN : configured = (host.configured /\ request # "configure")
  OBVIOUS
<1>9. PICK open \in BOOLEAN :
        open = (host.open /\ request \notin {"configure", "open", "close"})
  OBVIOUS
<1>10. /\ host' = [stage |-> first, request |-> request, configured |-> configured,
                   open |-> open, resets |-> host.resets]
       /\ host' \in [stage : Stages, request : AllRequests, configured : BOOLEAN,
                     open : BOOLEAN, resets : Nat]
  BY <1>2, <1>3, <1>4, <1>7, <1>8, <1>9 DEF Types
<1>11. CASE Len(queue) >= USB_QUEUE_LENGTH
  <2>1. panicked' = TRUE /\ queue' = queue
    BY <1>2, <1>3, <1>11, LengthAssumption DEF Put, Types
  <2> QED
    BY <1>1, <1>3, <1>10, <2>1, AfterPanic DEF Types
<1>12. CASE Len(queue) < USB_QUEUE_LENGTH
  <2>1. queue' = Append(queue, e) /\ panicked' = panicked
    BY <1>2, <1>5, <1>12 DEF Put
  <2>2. ~Queued("setup")
    BY <1>1, <1>3, SetupHasPlace
  <2>3. \A i \in DOMAIN queue : Place(queue[i].kind) # Place(e.kind)
    BY <1>1, <1>3, <1>6, SetupHasPlace DEF Place, ControlEndpoints
  <2>4. PICK last \in DOMAIN queue' :
          /\ queue'[last] = e
          /\ \A i \in DOMAIN queue : i \in DOMAIN queue' /\ queue'[i] = queue[i] /\ i < last
          /\ \A i \in DOMAIN queue' : i \in DOMAIN queue \/ i = last
          /\ \A i \in DOMAIN queue' : ~(last < i)
    BY <1>3, <1>6, <1>12, <2>1, <2>3, Appended
  <2>5. /\ queue' \in Seq(Events) /\ Len(queue') <= USB_QUEUE_LENGTH /\ OnePlaceEach'
        /\ \A kind : Queued(kind)' <=> Queued(kind) \/ kind = "setup"
    BY <1>3, <1>6, <1>12, <2>1, <2>3, Appended
  <2>6. Types'
    BY <1>1, <1>3, <1>10, <2>1, <2>5 DEF Types
  <2>7. Apart'
    BY <1>1, <1>3, <2>5, Names DEF Running, Apart
  <2>8. SetupFirst'
    <3>1. armed' \cap ControlEndpoints = {}
      BY <1>1
    <3>2. /\ host'.stage # "idle" /\ host'.request = request
          /\ host'.stage = FirstStage(host'.request)
          /\ request = "configure" => ~host'.configured /\ ~host'.open
          /\ request \in {"open", "close"} => ~host'.open
      BY <1>7, <1>8, <1>9, <1>10
    <3>3. ASSUME NEW i \in DOMAIN queue', queue'[i].kind = "setup" PROVE i = last
      BY <2>2, <2>4, <3>3 DEF Queued
    <3> QED
      BY <1>6, <2>4, <3>1, <3>2, <3>3 DEF SetupFirst, FirstStage
  <2>9. OneStage'
    BY <2>5 DEF OneStage
  <2>10. Unbroken'
    <3>1. \A endpoint \in Streaming : Alive(endpoint) => Alive(endpoint)'
      BY <1>1, <2>5, Names DEF Alive
    <3>2. host'.configured => host.configured
      BY <1>8, <1>10
    <3>3. host'.open => host.open
      BY <1>9, <1>10
    <3> QED
      BY <1>3, <2>5, <3>1, <3>2, <3>3, Names DEF Running, Unbroken
  <2> QED
    BY <2>5, <2>6, <2>7, <2>8, <2>9, <2>10 DEF IInv, Running
<1> QED
  BY <1>3, <1>11, <1>12, LengthAssumption DEF Types

LEMMA CompletionStep ==
  ASSUME IInv, NEW endpoint \in Endpoints, Completion(endpoint) PROVE IInv'
<1>1. /\ ~panicked /\ endpoint \in armed /\ Polls(endpoint)
      /\ armed' = armed \ {endpoint}
      /\ host' = IF endpoint \in ControlEndpoints THEN Concluded ELSE host
      /\ Put(Event(endpoint, IF endpoint = "ep0_out" THEN host.stage ELSE ""))
      /\ UNCHANGED <<audio_rx_enabled, read>>
  BY DEF Completion
<1>2. Types /\ OnePlaceEach /\ Running
  BY <1>1 DEF IInv
<1>3. PICK e : e = Event(endpoint, IF endpoint = "ep0_out" THEN host.stage ELSE "")
  OBVIOUS
<1>4. e \in Events /\ e.kind = endpoint
  BY <1>2, <1>3 DEF Types, Event, Events, Kinds
<1>5. PICK stage \in Stages : stage = NextStage
  BY DEF NextStage, Stages
<1>6. PICK configured \in BOOLEAN :
        configured = IF stage = "idle" /\ endpoint \in ControlEndpoints
                     THEN host.configured \/ host.request = "configure" ELSE host.configured
  BY <1>2 DEF Types
<1>7. PICK open \in BOOLEAN :
        open = IF stage = "idle" /\ endpoint \in ControlEndpoints
               THEN host.open \/ host.request = "open" ELSE host.open
  BY <1>2 DEF Types
<1>8. PICK new \in Stages :
        new = IF endpoint \in ControlEndpoints THEN stage ELSE host.stage
  BY <1>2 DEF Types
<1>9. /\ host' = [stage |-> new, request |-> host.request, configured |-> configured,
                  open |-> open, resets |-> host.resets]
      /\ host' \in [stage : Stages, request : AllRequests, configured : BOOLEAN,
                    open : BOOLEAN, resets : Nat]
  <2>1. CASE endpoint \notin ControlEndpoints
    BY <1>1, <1>2, <1>6, <1>7, <1>8, <2>1 DEF Types
  <2>2. CASE endpoint \in ControlEndpoints /\ stage # "idle"
    <3>1. host' = [host EXCEPT !.stage = stage]
      BY <1>1, <1>5, <2>2 DEF Concluded
    <3> QED
      BY <1>2, <1>6, <1>7, <1>8, <2>2, <3>1 DEF Types
  <2>3. CASE endpoint \in ControlEndpoints /\ stage = "idle"
    <3>1. host' = [host EXCEPT !.stage = "idle", !.configured = configured, !.open = open]
      BY <1>1, <1>5, <1>6, <1>7, <2>3 DEF Concluded
    <3> QED
      BY <1>2, <1>8, <2>3, <3>1 DEF Types
  <2> QED
    BY <2>1, <2>2, <2>3
<1>10. armed' \subseteq Endpoints
  BY <1>1, <1>2 DEF Types
<1>11. CASE Len(queue) >= USB_QUEUE_LENGTH
  <2>1. panicked' = TRUE /\ queue' = queue
    <3>1. Put(e)
      BY <1>1, <1>3
    <3> QED
      BY <1>2, <1>11, <3>1, LengthAssumption DEF Put, Types
  <2> QED
    BY <1>1, <1>9, <1>10, <2>1, AfterPanic
<1>12. CASE Len(queue) < USB_QUEUE_LENGTH
  <2>1. queue' = Append(queue, e) /\ panicked' = panicked
    BY <1>1, <1>3, <1>12 DEF Put
  <2>2. \A i \in DOMAIN queue : Place(queue[i].kind) # Place(e.kind)
    BY <1>1, <1>2, <1>4, CompletionHasPlace
  <2>3. PICK last \in DOMAIN queue' :
          /\ queue'[last] = e
          /\ \A i \in DOMAIN queue : i \in DOMAIN queue' /\ queue'[i] = queue[i] /\ i < last
          /\ \A i \in DOMAIN queue' : i \in DOMAIN queue \/ i = last
          /\ \A i \in DOMAIN queue' : ~(last < i)
    BY <1>2, <1>4, <1>12, <2>1, <2>2, Appended
  <2>4. /\ queue' \in Seq(Events) /\ Len(queue') <= USB_QUEUE_LENGTH /\ OnePlaceEach'
        /\ \A kind : Queued(kind)' <=> Queued(kind) \/ kind = endpoint
    BY <1>2, <1>4, <1>12, <2>1, <2>2, Appended
  <2>5. Types'
    BY <1>1, <1>2, <1>9, <1>10, <2>1, <2>4 DEF Types
  <2>6. Apart'
    BY <1>1, <1>2, <2>4 DEF Running, Apart
  <2>7. endpoint # "setup" /\ (Queued("setup")' <=> Queued("setup"))
    BY <2>4, Names
  <2>8. \A other \in Streaming : Alive(other) => Alive(other)'
    BY <1>1, <2>4 DEF Alive
  <2>9. SetupFirst' /\ OneStage' /\ Unbroken'
    <3>1. CASE endpoint \in Streaming
      <4>1. endpoint \notin ControlEndpoints /\ host' = host
        BY <1>1, <3>1 DEF Streaming
      <4>2. endpoint = "feedback" => host.open
        BY <1>1, Names DEF Polls
      <4>3. endpoint \in HidEndpoints => host.configured
        BY <1>1, Names DEF Polls
      <4>4. SetupFirst'
        <5>1. ASSUME NEW i \in DOMAIN queue', queue'[i].kind = "setup"
              PROVE  i \in DOMAIN queue /\ queue[i].kind = "setup" /\ queue'[i] = queue[i]
          BY <1>4, <2>3, <2>7, <5>1
        <5>2. armed \cap ControlEndpoints = {} => armed' \cap ControlEndpoints = {}
          BY <1>1
        <5> QED
          BY <1>2, <1>4, <2>3, <4>1, <4>2, <4>3, <5>1, <5>2
             DEF Running, SetupFirst, FirstStage
      <4>5. OneStage'
        <5>1. NoCompletion => NoCompletion'
          BY <1>4, <2>3, <4>1 DEF NoCompletion
        <5> QED
          BY <1>1, <1>2, <2>7, <4>1, <5>1 DEF Running, OneStage
      <4>6. Unbroken'
        BY <1>2, <2>7, <2>8, <4>1, Names DEF Running, Unbroken
      <4> QED
        BY <4>4, <4>5, <4>6
    <3>2. CASE endpoint \in ControlEndpoints
      <4>1. /\ ~Queued("setup") /\ host.stage # "idle"
            /\ host.stage = "data_in" => "ep0_out" \notin armed
            /\ host.stage = "data_out" => "ep0_in" \notin armed
        BY <1>1, <1>2, <3>2, ControlHasPlace
      <4>2. SetupFirst'
        BY <2>7, <4>1 DEF SetupFirst, Queued
      <4>3. OneStage'
        <5>1. /\ host'.stage = "status_out" => host.stage = "data_in"
              /\ host'.stage = "status_in" => host.stage = "data_out"
              /\ host'.stage \notin {"data_in", "data_out"}
          BY <1>5, <1>8, <1>9, <3>2 DEF NextStage
        <5> QED
          BY <1>1, <4>1, <5>1 DEF OneStage
      <4>4. Unbroken'
        <5>1. /\ host'.configured => host.configured \/ host.request = "configure"
              /\ host'.open => host.open \/ host.request = "open"
              /\ host'.request = host.request
          BY <1>6, <1>7, <1>9
        <5> QED
          BY <1>2, <2>8, <4>1, <5>1, Names DEF Running, Unbroken
      <4> QED
        BY <4>2, <4>3, <4>4
    <3> QED
      BY <3>1, <3>2, Names
  <2> QED
    BY <2>4, <2>5, <2>6, <2>9 DEF IInv, Running
<1> QED
  BY <1>2, <1>11, <1>12, LengthAssumption DEF Types

-------------------------------------------------------------------------------
(* The main loop *)

\* An event other than a SETUP is taken.  Its endpoint may be armed again, if it is a
\* streaming one; endpoint 0 only after its own completion, with no SETUP behind it.
LEMMA EventHandled ==
  ASSUME IInv, ~panicked, queue # <<>>, queue' = Tail(queue), UNCHANGED <<panicked, host>>,
         audio_rx_enabled' \in BOOLEAN, read' \in BOOLEAN, armed' \subseteq Endpoints,
         NEW e, e = Head(queue), e.kind # "setup",
         \A x \in Streaming : x \in armed' <=> x \in armed \/ x = e.kind,
         Queued("setup")' => armed' \cap ControlEndpoints = armed \cap ControlEndpoints,
         e.kind \notin ControlEndpoints =>
           armed' \cap ControlEndpoints = armed \cap ControlEndpoints
  PROVE  IInv'
<1>1. Types /\ OnePlaceEach /\ Running
  BY DEF IInv
<1>2. /\ e \in Events /\ 1 \in DOMAIN queue /\ queue[1] = e
      /\ queue' \in Seq(Events) /\ Len(queue') <= USB_QUEUE_LENGTH /\ OnePlaceEach'
      /\ \A i \in DOMAIN queue' : /\ i \in Nat /\ i + 1 \in DOMAIN queue /\ 1 < i + 1
                                  /\ queue'[i] = queue[i + 1]
      /\ \A i \in DOMAIN queue : i # 1 => /\ i \in Nat /\ 1 < i /\ i - 1 \in DOMAIN queue'
                                          /\ queue'[i - 1] = queue[i]
      /\ \A kind : Queued(kind) <=> Queued(kind)' \/ kind = e.kind
      /\ e.kind # "audio" => \A i \in DOMAIN queue' : Place(queue'[i].kind) # Place(e.kind)
  BY <1>1, Taken
<1>3. Types'
  BY <1>1, <1>2 DEF Types
<1>4. Queued("setup")' <=> Queued("setup")
  BY <1>2
<1>5. \A x \in Streaming : x = e.kind => ~Queued(x)'
  <2>1. \A x \in Streaming : x = e.kind => e.kind # "audio"
    BY Names
  <2> QED
    BY <1>2, <2>1 DEF Queued, Place
<1>6. Apart'
  BY <1>1, <1>2, <1>5 DEF Running, Apart
<1>7. SetupFirst'
  <2>1. ASSUME NEW i \in DOMAIN queue', queue'[i].kind = "setup"
        PROVE  /\ armed' \cap ControlEndpoints = {}
               /\ \A j \in DOMAIN queue' : i < j => queue'[j].kind \notin ControlEndpoints
               /\ queue'[i].what = "configure" =>
                    /\ ~host'.configured /\ ~host'.open
                    /\ \A j \in DOMAIN queue' : i < j => queue'[j].kind \notin HidEndpoints
               /\ queue'[i].what \in {"open", "close"} =>
                    /\ ~host'.open
                    /\ \A j \in DOMAIN queue' : i < j => queue'[j].kind # "feedback"
               /\ IF host'.stage = "idle"
                  THEN \E j \in DOMAIN queue' : i < j /\ queue'[j].kind = "reset"
                  ELSE queue'[i].what = host'.request /\ host'.stage = FirstStage(host'.request)
    <3>1. PICK k \in DOMAIN queue : k = i + 1 /\ queue[k] = queue'[i] /\ 1 < k
      BY <1>2
    <3>2. /\ armed \cap ControlEndpoints = {}
          /\ \A j \in DOMAIN queue : k < j => queue[j].kind \notin ControlEndpoints
          /\ queue[k].what = "configure" =>
               /\ ~host.configured /\ ~host.open
               /\ \A j \in DOMAIN queue : k < j => queue[j].kind \notin HidEndpoints
          /\ queue[k].what \in {"open", "close"} =>
               /\ ~host.open
               /\ \A j \in DOMAIN queue : k < j => queue[j].kind # "feedback"
          /\ IF host.stage = "idle"
             THEN \E j \in DOMAIN queue : k < j /\ queue[j].kind = "reset"
             ELSE queue[k].what = host.request /\ host.stage = FirstStage(host.request)
      BY <1>1, <2>1, <3>1 DEF Running, SetupFirst
    <3>3. ASSUME NEW j \in DOMAIN queue', i < j
          PROVE  \E l \in DOMAIN queue : k < l /\ queue[l] = queue'[j]
      BY <1>2, <3>1, <3>3
    <3>4. ASSUME NEW l \in DOMAIN queue, k < l
          PROVE  \E j \in DOMAIN queue' : i < j /\ queue'[j] = queue[l]
      <4>1. l # 1 /\ l \in Nat
        BY <1>2, <3>1, <3>4
      <4>2. l - 1 \in DOMAIN queue' /\ queue'[l - 1] = queue[l] /\ i < l - 1
        BY <1>2, <3>1, <3>4, <4>1
      <4> QED
        BY <4>2
    <3>5. armed' \cap ControlEndpoints = {}
      BY <2>1, <3>2 DEF Queued
    <3> QED
      BY <3>1, <3>2, <3>3, <3>4, <3>5
  <2> QED
    BY <2>1 DEF SetupFirst, FirstStage
<1>8. OneStage'
  <2>1. NoCompletion => NoCompletion' /\ e.kind \notin ControlEndpoints
    BY <1>2 DEF NoCompletion
  <2>2. e.kind \in ControlEndpoints => NoCompletion'
    <3>1. \A i \in DOMAIN queue' : queue'[i] \in Events
      BY <1>2
    <3>2. \A i \in DOMAIN queue' : queue'[i].kind \in Kinds
      BY <3>1, EventFields
    <3> QED
      BY <1>2, <3>2, Names DEF NoCompletion, Place
  <2>3. CASE e.kind \in ControlEndpoints
    BY <1>1, <1>4, <2>1, <2>2, <2>3 DEF Running, OneStage
  <2>4. CASE e.kind \notin ControlEndpoints
    BY <1>1, <1>4, <2>1, <2>4, Names DEF Running, OneStage
  <2> QED
    BY <2>3, <2>4
<1>9. Unbroken'
  <2>1. \A x \in Streaming : Alive(x) => Alive(x)'
    BY <1>2 DEF Alive
  <2> QED
    BY <1>1, <1>4, <2>1, Names DEF Running, Unbroken
<1> QED
  BY <1>2, <1>3, <1>6, <1>7, <1>8, <1>9 DEF IInv, Running

\* A SETUP is taken: only now do the buffers of its transfer come to be armed, and the
\* streaming endpoints change as the request says.
LEMMA SetupHandled ==
  ASSUME IInv, ~panicked, queue # <<>>, queue' = Tail(queue), UNCHANGED <<panicked, host>>,
         audio_rx_enabled' \in BOOLEAN, read' \in BOOLEAN, armed' \subseteq Endpoints,
         NEW e, e = Head(queue), e.kind = "setup",
         e.what = "write" => "ep0_in" \notin armed' \ armed,
         e.what = "read" => "ep0_out" \notin armed' \ armed,
         \A x \in Streaming :
           x \in armed' <=> \/ x \in armed /\ ~(x = "feedback" /\ e.what \in {"configure", "close"})
                            \/ x = "feedback" /\ e.what = "open"
                            \/ x \in HidEndpoints /\ e.what = "configure"
  PROVE  IInv'
<1>1. Types /\ OnePlaceEach /\ Running
  BY DEF IInv
<1>2. /\ e \in Events /\ 1 \in DOMAIN queue /\ queue[1] = e
      /\ queue' \in Seq(Events) /\ Len(queue') <= USB_QUEUE_LENGTH /\ OnePlaceEach'
      /\ \A i \in DOMAIN queue' : /\ i \in Nat /\ i + 1 \in DOMAIN queue /\ 1 < i + 1
                                  /\ queue'[i] = queue[i + 1]
      /\ \A kind : Queued(kind) <=> Queued(kind)' \/ kind = e.kind
      /\ \A i \in DOMAIN queue' : Place(queue'[i].kind) # Place(e.kind)
  BY <1>1, Taken
<1>3. Types'
  BY <1>1, <1>2 DEF Types
<1>4. ~Queued("setup")'
  BY <1>2 DEF Queued
<1>5. /\ armed \cap ControlEndpoints = {}
      /\ \A j \in DOMAIN queue : 1 < j => queue[j].kind \notin ControlEndpoints
      /\ e.what = "configure" =>
           /\ ~host.configured /\ ~host.open
           /\ \A j \in DOMAIN queue : 1 < j => queue[j].kind \notin HidEndpoints
      /\ e.what \in {"open", "close"} =>
           /\ ~host.open
           /\ \A j \in DOMAIN queue : 1 < j => queue[j].kind # "feedback"
      /\ host.stage # "idle" => e.what = host.request /\ host.stage = FirstStage(host.request)
  BY <1>1, <1>2 DEF Running, SetupFirst
<1>6. NoCompletion'
  BY <1>2, <1>5 DEF NoCompletion
<1>7. Apart'
  <2>1. e.what = "configure" => \A x \in HidEndpoints : ~Queued(x)'
    BY <1>2, <1>5 DEF Queued
  <2>2. e.what = "open" => ~Queued("feedback")'
    BY <1>2, <1>5 DEF Queued
  <2> QED
    BY <1>1, <1>2, <2>1, <2>2 DEF Running, Apart
<1>8. SetupFirst'
  BY <1>4 DEF SetupFirst, Queued
<1>9. OneStage'
  <2>1. host.stage = "data_in" => e.what = "read"
    BY <1>5 DEF FirstStage
  <2>2. host.stage = "data_out" => e.what = "write"
    BY <1>5 DEF FirstStage
  <2>3. "ep0_in" \notin armed /\ "ep0_out" \notin armed
    BY <1>5, Names
  <2> QED
    BY <1>6, <2>1, <2>2, <2>3 DEF OneStage
<1>10. Unbroken'
  <2>1. \A x \in Streaming : Queued(x)' <=> Queued(x)
    BY <1>2, Names
  <2>2. \A x \in HidEndpoints : x \in Streaming /\ x # "feedback"
    BY Names
  <2>3. \A x \in HidEndpoints : Alive(x) => Alive(x)'
    BY <2>1, <2>2 DEF Alive
  <2>4. host.open => (Alive("feedback") => Alive("feedback")')
    BY <1>5, <2>1, Names DEF Alive
  <2>5. e.what = "configure" => \A x \in HidEndpoints : Alive(x)'
    BY <2>2 DEF Alive
  <2>6. e.what = "open" => Alive("feedback")'
    BY Names DEF Alive
  <2> QED
    BY <1>1, <1>5, <2>3, <2>4, <2>5, <2>6 DEF Running, Unbroken
<1> QED
  BY <1>2, <1>3, <1>7, <1>8, <1>9, <1>10 DEF IInv, Running

LEMMA AudioStep == ASSUME IInv, HandleAudio PROVE IInv'
<1>1. PICK e : e = Head(queue)
  OBVIOUS
<1>2. /\ ~panicked /\ queue # <<>> /\ e.kind = "audio" /\ queue' = Tail(queue)
      /\ UNCHANGED <<panicked, host, armed, audio_rx_enabled, read>>
  BY <1>1 DEF HandleAudio, Takes
<1>3. audio_rx_enabled' \in BOOLEAN /\ read' \in BOOLEAN /\ armed' \subseteq Endpoints
  BY <1>2 DEF IInv, Types
<1>4. \A x \in Streaming : x \in armed' <=> x \in armed \/ x = e.kind
  BY <1>2, Names
<1> QED
  BY <1>1, <1>2, <1>3, <1>4, EventHandled

LEMMA EndpointStep ==
  ASSUME IInv, NEW endpoint \in Streaming, HandleEndpoint(endpoint) PROVE IInv'
<1>1. PICK e : e = Head(queue)
  OBVIOUS
<1>2. /\ ~panicked /\ queue # <<>> /\ e.kind = endpoint /\ queue' = Tail(queue)
      /\ armed' = armed \cup {endpoint}
      /\ UNCHANGED <<panicked, host, audio_rx_enabled, read>>
  BY <1>1 DEF HandleEndpoint, Takes
<1>3. audio_rx_enabled' \in BOOLEAN /\ read' \in BOOLEAN /\ armed' \subseteq Endpoints
  BY <1>2, Names DEF IInv, Types
<1>4. /\ e.kind # "setup"
      /\ \A x \in Streaming : x \in armed' <=> x \in armed \/ x = e.kind
      /\ armed' \cap ControlEndpoints = armed \cap ControlEndpoints
  BY <1>2, Names
<1> QED
  BY <1>1, <1>2, <1>3, <1>4, EventHandled

\* Endpoint 0, in either direction.
LEMMA ControlHandled ==
  ASSUME IInv, NEW endpoint \in ControlEndpoints, Takes(endpoint),
         UNCHANGED <<audio_rx_enabled, read>>,
         armed \subseteq armed', armed' \subseteq armed \cup ControlEndpoints,
         IsStale => armed' = armed
  PROVE  IInv'
<1>1. PICK e : e = Head(queue)
  OBVIOUS
<1>2. /\ ~panicked /\ queue # <<>> /\ e.kind = endpoint /\ queue' = Tail(queue)
      /\ UNCHANGED <<panicked, host>>
  BY <1>1 DEF Takes
<1>3. audio_rx_enabled' \in BOOLEAN /\ read' \in BOOLEAN /\ armed' \subseteq Endpoints
  BY Names DEF IInv, Types
<1>4. Queued("setup")' <=> IsStale
  BY <1>2 DEF Queued, IsStale
<1>5. /\ e.kind # "setup"
      /\ \A x \in Streaming : x \in armed' <=> x \in armed \/ x = e.kind
  BY <1>2, Names
<1> QED
  BY <1>1, <1>2, <1>3, <1>4, <1>5, EventHandled

LEMMA Ep0InStep == ASSUME IInv, HandleEp0In PROVE IInv'
<1>1. /\ "ep0_in" \in ControlEndpoints /\ Takes("ep0_in")
      /\ UNCHANGED <<audio_rx_enabled, read>>
  BY Names DEF HandleEp0In
<1>2. /\ armed \subseteq armed' /\ armed' \subseteq armed \cup ControlEndpoints
      /\ IsStale => armed' = armed
  BY Names DEF HandleEp0In
<1> QED
  BY <1>1, <1>2, ControlHandled

LEMMA Ep0OutStep == ASSUME IInv, HandleEp0Out PROVE IInv'
<1>1. /\ "ep0_out" \in ControlEndpoints /\ Takes("ep0_out")
      /\ UNCHANGED <<audio_rx_enabled, read>>
  BY Names DEF HandleEp0Out
<1>2. /\ armed \subseteq armed' /\ armed' \subseteq armed \cup ControlEndpoints
      /\ IsStale => armed' = armed
  BY Names DEF HandleEp0Out
<1> QED
  BY <1>1, <1>2, ControlHandled

LEMMA ResetStep == ASSUME IInv, HandleReset PROVE IInv'
<1>1. PICK e : e = Head(queue)
  OBVIOUS
<1>2. /\ ~panicked /\ queue # <<>> /\ e.kind = "reset" /\ queue' = Tail(queue)
      /\ UNCHANGED <<panicked, host, armed, read>> /\ audio_rx_enabled' = FALSE
  BY <1>1 DEF HandleReset, Takes
<1>3. audio_rx_enabled' \in BOOLEAN /\ read' \in BOOLEAN /\ armed' \subseteq Endpoints
  BY <1>2 DEF IInv, Types
<1>4. \A x \in Streaming : x \in armed' <=> x \in armed \/ x = e.kind
  BY <1>2, Names
<1> QED
  BY <1>1, <1>2, <1>3, <1>4, EventHandled

LEMMA HandleSetupStep == ASSUME IInv, HandleSetup PROVE IInv'
<1>1. PICK e : e = Head(queue)
  OBVIOUS
<1>2. /\ ~panicked /\ queue # <<>> /\ e.kind = "setup" /\ queue' = Tail(queue)
      /\ UNCHANGED <<panicked, host>>
  BY <1>1 DEF HandleSetup, HandleTransfer, Configure, Open, Close, Takes
<1>3. armed \subseteq Endpoints /\ audio_rx_enabled \in BOOLEAN
  BY DEF IInv, Types
<1>4. audio_rx_enabled' \in BOOLEAN
  BY <1>3 DEF HandleSetup, HandleTransfer, Configure, Open, Close
<1>5. read' \in BOOLEAN
  BY DEF HandleSetup, HandleTransfer, Configure, Open, Close
<1>6. /\ armed' \subseteq Endpoints
      /\ e.what = "write" => "ep0_in" \notin armed' \ armed
      /\ e.what = "read" => "ep0_out" \notin armed' \ armed
      /\ \A x \in Streaming :
           x \in armed' <=> \/ x \in armed /\ ~(x = "feedback" /\ e.what \in {"configure", "close"})
                            \/ x = "feedback" /\ e.what = "open"
                            \/ x \in HidEndpoints /\ e.what = "configure"
  <2>1. CASE HandleTransfer
    <3>1. /\ e.what \in {"read", "write", "command"}
          /\ armed' = armed \cup {IF e.what = "write" THEN "ep0_out" ELSE "ep0_in"}
      BY <1>1, <2>1 DEF HandleTransfer
    <3> QED
      BY <1>3, <3>1, Names
  <2>2. CASE Configure
    <3>1. /\ e.what = "configure"
          /\ armed' = (armed \ {"feedback"}) \cup HidEndpoints \cup {"ep0_in"}
      BY <1>1, <2>2 DEF Configure
    <3> QED
      BY <1>3, <3>1, Names
  <2>3. CASE Open
    <3>1. e.what = "open" /\ armed' = armed \cup {"feedback", "ep0_in"}
      BY <1>1, <2>3 DEF Open
    <3> QED
      BY <1>3, <3>1, Names
  <2>4. CASE Close
    <3>1. e.what = "close" /\ armed' = (armed \ {"feedback"}) \cup {"ep0_in"}
      BY <1>1, <2>4 DEF Close
    <3> QED
      BY <1>3, <3>1, Names
  <2> QED
    BY <2>1, <2>2, <2>3, <2>4 DEF HandleSetup
<1> QED
  BY <1>1, <1>2, <1>4, <1>5, <1>6, SetupHandled

-------------------------------------------------------------------------------
(* The invariant, and what follows from it *)

LEMMA InitInv == Init => IInv
<1> SUFFICES ASSUME Init PROVE IInv
  OBVIOUS
<1>1. /\ queue = <<>> /\ queue \in Seq(Events) /\ Len(queue) = 0 /\ DOMAIN queue = {}
  BY DEF Init
<1>2. Types
  <2>1. armed \subseteq Endpoints /\ Len(queue) <= USB_QUEUE_LENGTH
    BY <1>1, LengthAssumption, Names DEF Init
  <2>2. /\ panicked \in BOOLEAN /\ audio_rx_enabled \in BOOLEAN /\ read \in BOOLEAN
        /\ host \in [stage : Stages, request : AllRequests, configured : BOOLEAN,
                     open : BOOLEAN, resets : Nat]
    BY DEF Init, Stages, AllRequests
  <2> QED
    BY <1>1, <2>1, <2>2 DEF Types
<1>3. OnePlaceEach /\ Apart /\ SetupFirst /\ NoCompletion
  BY <1>1 DEF OnePlaceEach, Apart, SetupFirst, NoCompletion, Queued
<1>4. OneStage /\ Unbroken
  BY DEF Init, OneStage, Unbroken
<1> QED
  BY <1>2, <1>3, <1>4 DEF IInv, Running

LEMMA NextInv == IInv /\ [Next]_vars => IInv'
<1> SUFFICES ASSUME IInv, [Next]_vars PROVE IInv'
  OBVIOUS
<1>1. CASE AudioPacket
  BY <1>1, AudioPacketStep
<1>2. CASE Setup
  BY <1>2, SetupStep
<1>3. CASE BusReset
  BY <1>3, BusResetStep
<1>4. CASE \E endpoint \in Endpoints : Completion(endpoint)
  BY <1>4, CompletionStep
<1>5. CASE HandleEvent
  <2>1. CASE HandleAudio
    BY <2>1, AudioStep
  <2>2. CASE \E endpoint \in Endpoints \ ControlEndpoints : HandleEndpoint(endpoint)
    BY <2>2, EndpointStep DEF Streaming
  <2>3. CASE HandleEp0In
    BY <2>3, Ep0InStep
  <2>4. CASE HandleEp0Out
    BY <2>4, Ep0OutStep
  <2>5. CASE HandleSetup
    BY <2>5, HandleSetupStep
  <2>6. CASE HandleReset
    BY <2>6, ResetStep
  <2> QED
    BY <1>5, <2>1, <2>2, <2>3, <2>4, <2>5, <2>6 DEF HandleEvent
<1>6. CASE UNCHANGED vars
  BY <1>6 DEF vars, IInv, Types, OnePlaceEach, Place, Running, Apart, SetupFirst, OneStage,
              Unbroken, Alive, NoCompletion, Queued, FirstStage
<1> QED
  BY <1>1, <1>2, <1>3, <1>4, <1>5, <1>6 DEF Next

\* The invariant holds in every reachable state.
LEMMA Invariance == Spec => []IInv
  BY InitInv, NextInv, PTL DEF Spec

\* The variables of the event queue keep their types, for any length of the queue
\* (event_put, event_get).
THEOREM TypeCorrect == Spec => []TypeOK
<1>1. IInv => TypeOK
  <2> SUFFICES ASSUME IInv PROVE TypeOK
    OBVIOUS
  <2>1. Types /\ host.stage \in Stages
    BY DEF IInv, Types
  <2>2. \A i \in DOMAIN queue : queue[i] \in Events
    BY <2>1 DEF Types
  <2>3. \A i \in DOMAIN queue : queue[i].kind \in Kinds
    BY <2>2, EventFields
  <2> QED
    BY <2>1, <2>3 DEF Types, TypeOK, Stages
<1> QED
  BY <1>1, Invariance, PTL

LEMMA HowManyPlaces ==
  /\ IsFiniteSet({"setup", "reset", "ep0"} \cup Streaming)
  /\ Cardinality({"setup", "reset", "ep0"} \cup Streaming) = 3 + Cardinality(Streaming)
<1>1. IsFiniteSet(Streaming) /\ Cardinality(Streaming) \in Nat
  <2>1. IsFiniteSet({"feedback", "hid_in", "hid_out"})
    <3>1. IsFiniteSet({"feedback"})
      BY FS_Singleton
    <3>2. IsFiniteSet({"feedback"} \cup {"hid_in"})
      BY <3>1, FS_AddElement
    <3>3. IsFiniteSet(({"feedback"} \cup {"hid_in"}) \cup {"hid_out"})
      BY <3>2, FS_AddElement
    <3>4. ({"feedback"} \cup {"hid_in"}) \cup {"hid_out"} = {"feedback", "hid_in", "hid_out"}
      OBVIOUS
    <3> QED
      BY <3>3, <3>4
  <2> QED
    BY <2>1, Names, FS_Subset, FS_CardinalityType
<1>2. "ep0" \notin Streaming /\ "reset" \notin Streaming /\ "setup" \notin Streaming
  BY Names
<1>3. PICK T1 : T1 = Streaming \cup {"ep0"}
  OBVIOUS
<1>4. IsFiniteSet(T1) /\ Cardinality(T1) = Cardinality(Streaming) + 1
  BY <1>1, <1>2, <1>3, FS_AddElement
<1>5. PICK T2 : T2 = T1 \cup {"reset"}
  OBVIOUS
<1>6. "reset" \notin T1 /\ "setup" \notin T2
  BY <1>2, <1>3, <1>5
<1>7. IsFiniteSet(T2) /\ Cardinality(T2) = Cardinality(T1) + 1
  BY <1>4, <1>5, <1>6, FS_AddElement
<1>8. PICK T3 : T3 = T2 \cup {"setup"}
  OBVIOUS
<1>9. IsFiniteSet(T3) /\ Cardinality(T3) = Cardinality(T2) + 1
  BY <1>6, <1>7, <1>8, FS_AddElement
<1>10. T3 = {"setup", "reset", "ep0"} \cup Streaming
  BY <1>3, <1>5, <1>8
<1>11. Cardinality(T3) = 3 + Cardinality(Streaming)
  BY <1>1, <1>4, <1>7, <1>9
<1> QED
  BY <1>9, <1>10, <1>11

\* Events other than audio never need more places than three and one for each streaming
\* endpoint, panic or not: a completed endpoint is armed again only by the handler of its
\* event (usb_handle_buff_done_isr, usb_handle_event).
THEOREM FewOthers == Spec => []OthersAreBounded
<1>1. IInv => OthersAreBounded
  <2> SUFFICES ASSUME IInv PROVE OthersAreBounded
    OBVIOUS
  <2> DEFINE Places == {"setup", "reset", "ep0"} \cup Streaming
             place == [i \in Others |-> Place(queue[i].kind)]
  <2>1. \A i \in DOMAIN queue : queue[i] \in Events
    BY DEF IInv, Types
  <2>2. \A i \in Others : queue[i].kind \in Kinds /\ queue[i].kind # "audio"
    BY <2>1, EventFields DEF Others
  <2>3. \A kind \in Kinds : kind # "audio" => Place(kind) \in Places
    BY DEF Kinds, Place, Streaming
  <2>4. \A i, j \in Others : Place(queue[i].kind) = Place(queue[j].kind) => i = j
    BY DEF IInv, OnePlaceEach, Others
  <2>5. place \in Injection(Others, Places)
    BY <2>2, <2>3, <2>4 DEF Injection, IsInjective
  <2>6. Cardinality(Others) <= Cardinality(Places)
    BY <2>5, FS_Injection, HowManyPlaces
  <2> QED
    BY <2>6, HowManyPlaces DEF OthersAreBounded, Streaming
<1> QED
  BY <1>1, Invariance, PTL

\* A streaming endpoint the host polls has its buffer armed or its event queued, through
\* every request and reset (ep_audio_in_handler, ep_hid_in_handler, ep_hid_out_handler).
THEOREM NeverSilent == Spec => []ChainUnbroken
<1>1. IInv => ChainUnbroken
  <2> SUFFICES ASSUME IInv, ~panicked, NEW endpoint \in Streaming, Polls(endpoint)
               PROVE  endpoint \in armed \/ Queued(endpoint)
    BY DEF ChainUnbroken, Streaming
  <2>1. CASE endpoint = "feedback"
    BY <2>1, Names DEF Polls, IInv, Running, Unbroken, Alive
  <2>2. CASE endpoint \in HidEndpoints
    BY <2>2, Names DEF Polls, IInv, Running, Unbroken, Alive
  <2> QED
    BY <2>1, <2>2, Names
<1> QED
  BY <1>1, Invariance, PTL

-------------------------------------------------------------------------------
(* Without HID the places that audio leaves are enough *)

\* Audio never gets into the last four places of the queue.
AudioRoom ==
  \A i \in DOMAIN queue : queue[i].kind = "audio" => i <= USB_QUEUE_LENGTH - 4

\* A full queue has one event for every place in its last four.
LEMMA NotFull ==
  ASSUME ~HID_ENABLE, Types, OnePlaceEach, AudioRoom,
         NEW kind \in Kinds, kind # "audio",
         \A i \in DOMAIN queue : Place(queue[i].kind) # Place(kind)
  PROVE  Len(queue) < USB_QUEUE_LENGTH
<1>1. /\ queue \in Seq(Events) /\ Len(queue) \in Nat /\ DOMAIN queue = 1 .. Len(queue)
      /\ Len(queue) <= USB_QUEUE_LENGTH
  BY DEF Types
<1>2. \A k \in Kinds \ {"audio"} : Place(k) \in {"setup", "reset", "ep0", "feedback"}
  BY DEF Kinds, Place, Endpoints, HidEndpoints, ControlEndpoints
<1> SUFFICES ASSUME ~(Len(queue) < USB_QUEUE_LENGTH) PROVE FALSE
  OBVIOUS
<1>3. Len(queue) = USB_QUEUE_LENGTH
  <2>1. Len(queue) \in Nat /\ Len(queue) <= USB_QUEUE_LENGTH
    BY <1>1
  <2>2. USB_QUEUE_LENGTH \in Nat
    BY LengthAssumption
  <2> QED
    BY <2>1, <2>2
<1>4. PICK a, b, c, d \in DOMAIN queue :
        /\ a > USB_QUEUE_LENGTH - 4 /\ b > USB_QUEUE_LENGTH - 4
        /\ c > USB_QUEUE_LENGTH - 4 /\ d > USB_QUEUE_LENGTH - 4
        /\ a # b /\ a # c /\ a # d /\ b # c /\ b # d /\ c # d
  <2>1. /\ USB_QUEUE_LENGTH - 3 \in DOMAIN queue /\ USB_QUEUE_LENGTH - 2 \in DOMAIN queue
        /\ USB_QUEUE_LENGTH - 1 \in DOMAIN queue /\ USB_QUEUE_LENGTH \in DOMAIN queue
    BY <1>1, <1>3, LengthAssumption
  <2> QED
    BY <2>1, LengthAssumption
<1>5. \A i \in DOMAIN queue : i > USB_QUEUE_LENGTH - 4 =>
        /\ queue[i].kind # "audio"
        /\ Place(queue[i].kind) \in {"setup", "reset", "ep0", "feedback"} \ {Place(kind)}
  <2>1. \A i \in DOMAIN queue : queue[i] \in Events
    BY <1>1
  <2>2. \A i \in DOMAIN queue : queue[i].kind \in Kinds
    BY <2>1, EventFields
  <2>3. \A i \in DOMAIN queue : i > USB_QUEUE_LENGTH - 4 => queue[i].kind # "audio"
    BY <1>1, LengthAssumption DEF AudioRoom
  <2> QED
    BY <1>2, <2>2, <2>3
<1>6. PICK p, q, r, s : /\ p = Place(queue[a].kind) /\ q = Place(queue[b].kind)
                        /\ r = Place(queue[c].kind) /\ s = Place(queue[d].kind)
  OBVIOUS
<1>7. p # q /\ p # r /\ p # s /\ q # r /\ q # s /\ r # s
  BY <1>4, <1>5, <1>6 DEF OnePlaceEach
<1>8. /\ p \in {"setup", "reset", "ep0", "feedback"} \ {Place(kind)}
      /\ q \in {"setup", "reset", "ep0", "feedback"} \ {Place(kind)}
      /\ r \in {"setup", "reset", "ep0", "feedback"} \ {Place(kind)}
      /\ s \in {"setup", "reset", "ep0", "feedback"} \ {Place(kind)}
  BY <1>4, <1>5, <1>6
<1>9. Place(kind) \in {"setup", "reset", "ep0", "feedback"}
  BY <1>2
<1> QED
  BY <1>7, <1>8, <1>9

\* In a queue with room a put is no panic, and leaves audio where it may be.
LEMMA PutKeepsRoom ==
  ASSUME Types, AudioRoom, ~panicked, NEW e, e.kind # "audio",
         Len(queue) < USB_QUEUE_LENGTH, Put(e)
  PROVE  AudioRoom' /\ ~panicked'
<1>1. queue' = Append(queue, e) /\ panicked' = panicked
  BY DEF Put
<1>2. queue \in Seq(Events)
  BY DEF Types
<1>3. \A i \in DOMAIN queue' : queue'[i].kind = "audio" =>
        i \in DOMAIN queue /\ queue[i].kind = "audio"
  BY <1>1, <1>2
<1> QED
  BY <1>1, <1>3 DEF AudioRoom

\* "reserve queue places for control and feedback events" (usb.c:806): without HID, four
\* are all these events can need, however long the main loop does not run.
THEOREM FourSuffice == ASSUME ~HID_ENABLE PROVE Spec => []NeverPanics
<1> DEFINE Inv == IInv /\ AudioRoom /\ ~panicked
<1>1. Init => Inv
  BY InitInv DEF Init, AudioRoom
<1>2. Inv /\ [Next]_vars => Inv'
  <2> SUFFICES ASSUME Inv, [Next]_vars PROVE AudioRoom' /\ ~panicked'
    BY NextInv
  <2>1. /\ Types /\ OnePlaceEach /\ Running
        /\ queue \in Seq(Events) /\ Len(queue) \in Nat
    BY DEF IInv, Types
  <2>2. CASE AudioPacket
    <3>1. PICK e : e = Event("audio", "")
      OBVIOUS
    <3>2. /\ queue' = Append(queue, e) /\ panicked' = panicked
          /\ Len(queue) < USB_QUEUE_LENGTH - 4
      BY <2>2, <3>1 DEF AudioPacket, AudioFits
    <3>3. \A i \in DOMAIN queue' : i <= USB_QUEUE_LENGTH - 4
      BY <2>1, <3>2, LengthAssumption
    <3> QED
      BY <3>2, <3>3 DEF AudioRoom
  <2>3. CASE Setup
    <3>1. PICK request \in Requests : Put(Event("setup", request))
      BY <2>3 DEF Setup
    <3>2. host.stage = "idle" /\ ~Queued("reset")
      BY <2>3 DEF Setup
    <3>3. \A i \in DOMAIN queue : Place(queue[i].kind) # Place("setup")
      BY <2>1, <3>2, SetupHasPlace DEF Place, ControlEndpoints
    <3>4. Len(queue) < USB_QUEUE_LENGTH
      BY <2>1, <3>3, NotFull DEF Kinds
    <3>5. Event("setup", request).kind # "audio"
      BY DEF Event
    <3> QED
      BY <2>1, <3>1, <3>4, <3>5, PutKeepsRoom
  <2>4. CASE BusReset
    <3>1. ~Queued("reset") /\ Put(Event("reset", ""))
      BY <2>4 DEF BusReset
    <3>2. \A i \in DOMAIN queue : Place(queue[i].kind) # Place("reset")
      BY <3>1 DEF Place, Queued, ControlEndpoints
    <3>3. Len(queue) < USB_QUEUE_LENGTH
      BY <2>1, <3>2, NotFull DEF Kinds
    <3>4. Event("reset", "").kind # "audio"
      BY DEF Event
    <3> QED
      BY <2>1, <3>1, <3>3, <3>4, PutKeepsRoom
  <2>5. ASSUME NEW endpoint \in Endpoints, Completion(endpoint)
        PROVE  AudioRoom' /\ ~panicked'
    <3>1. PICK e : e = Event(endpoint, IF endpoint = "ep0_out" THEN host.stage ELSE "")
      OBVIOUS
    <3>2. endpoint \in armed /\ Polls(endpoint) /\ Put(e)
      BY <2>5, <3>1 DEF Completion
    <3>3. endpoint \in Kinds /\ endpoint # "audio" /\ e.kind = endpoint
      BY <3>1, Names DEF Kinds, Event
    <3>4. Len(queue) < USB_QUEUE_LENGTH
      BY <2>1, <3>2, <3>3, CompletionHasPlace, NotFull
    <3> QED
      BY <2>1, <3>2, <3>3, <3>4, PutKeepsRoom
  <2>6. CASE HandleEvent
    <3>1. queue # <<>> /\ queue' = Tail(queue) /\ panicked' = panicked
      BY <2>6 DEF HandleEvent, HandleAudio, HandleEndpoint, HandleEp0In, HandleEp0Out,
                  HandleSetup, HandleTransfer, Configure, Open, Close, HandleReset, Takes
    <3>2. \A i \in DOMAIN queue' : /\ i \in Nat /\ i + 1 \in DOMAIN queue
                                   /\ queue'[i] = queue[i + 1]
      BY <2>1, <3>1, TakeHead
    <3> QED
      BY <3>1, <3>2, LengthAssumption DEF AudioRoom
  <2>7. CASE UNCHANGED vars
    BY <2>7 DEF vars, AudioRoom
  <2> QED
    BY <2>2, <2>3, <2>4, <2>5, <2>6, <2>7 DEF Next
<1>3. Inv => NeverPanics
  BY DEF NeverPanics
<1> QED
  BY <1>1, <1>2, <1>3, PTL DEF Spec
===============================================================================
