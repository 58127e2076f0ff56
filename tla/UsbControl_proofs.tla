---------------------------- MODULE UsbControl_proofs ----------------------------
(***************************************************************************)
(* Proofs about UsbControl, for a host that goes on from a transfer it (or *)
(* a reset of the bus) gave up only while no SETUP is queued and the main  *)
(* loop has no event in hand: answers and data belong to the transfer      *)
(* under way, for any number of transfers, packets and bus resets.  The    *)
(* transfer after one that ended begins at any time.                       *)
(*                                                                         *)
(* The argument: a SETUP takes both buffers back and makes every           *)
(* completion in the queue stale, so the transfer starts with nothing of   *)
(* the ones before.  From then on at most one thing carries it forward:    *)
(* the SETUP, a buffer the host is about to use, or the completion of one. *)
(* The completion that ended a transfer may still be in hand when the next *)
(* begins; what is known of it, that it is of a status, makes it harmless. *)
(***************************************************************************)
EXTENDS UsbControl, SequenceTheorems, TLAPS

-------------------------------------------------------------------------------
(* The inductive invariant *)

current == host.request

ArmedBuffers == [kind : {"armed"}, id : Ids, index : 0 .. MaxPackets]
SomeRequests == [id : Ids, kind : {"read"}, packets : 1 .. MaxPackets]
                  \cup [id : Ids, kind : {"write", "command", "address", "ignored"},
                        packets : {0}]
Resets == {[kind |-> "reset"]}
Setups == [kind : {"setup"}, request : SomeRequests]
Completions == [kind : {"in", "out"}, buf : ArmedBuffers, generation : Ids]
Events == Resets \cup Setups \cup Completions
Again == [kind : {"setup_again"}, request : SomeRequests]
Stages == {"idle", "reset", "data_in", "data_out", "status_in", "status_out"}

Types ==
  /\ queue \in Seq(Events)
  /\ event \in Events \cup Again \cup {NoEvent}
  /\ in_buf \in Buffers /\ out_buf \in Buffers
  /\ transfer \in [id : Ids, total : 0 .. MaxPackets, sent : 0 .. MaxPackets, read : BOOLEAN]
  /\ last_packet \in SomeRequests
  /\ address \in [new : Ids, pending : BOOLEAN, active : Ids]
  /\ host \in [request : SomeRequests, got : 0 .. MaxPackets, address : Ids, resets : Nat,
               stage : Stages]
  /\ control_generation = current.id

IsCompletion(e) == e.kind \in {"in", "out"}

\* A completion of the present transfer, queued or in hand.
Live(e) == IsCompletion(e) /\ e.generation = control_generation

NoToken == /\ ~Live(event)
           /\ \A i \in DOMAIN queue : ~Live(queue[i])

\* There is a completion, and it is of this kind.
Token(kind) == /\ Live(event) \/ \E i \in DOMAIN queue : Live(queue[i])
               /\ Live(event) => event.kind = kind
               /\ \A i \in DOMAIN queue : Live(queue[i]) => queue[i].kind = kind

SetupPending == SetupQueued \/ event.kind = "setup"

\* The SETUP of the present transfer is followed by nothing but resets of the bus, and
\* is the only thing that is left of any transfer.
Start ==
  /\ \A i \in DOMAIN queue : queue[i].kind = "setup" =>
       /\ queue[i].request = current
       /\ host.stage = "reset" <=> i # Len(queue)
       /\ \A j \in DOMAIN queue : i < j => queue[j].kind = "reset"
  /\ event.kind \in {"setup", "setup_again"} => event.request = current
  /\ SetupQueued => event.kind \in {"none", "reset", "in", "out"}
  /\ SetupPending => /\ in_buf = NoBuffer /\ out_buf = NoBuffer /\ NoToken
                     /\ current.id > 0

\* The completion of a status, after which the main loop does nothing more.
Harmless(e) == \/ e.kind = "in" /\ ~transfer.read
               \/ e.kind = "out" /\ e.buf.index = 0

\* Completions are not of later transfers.  One in hand is of the present transfer, and
\* the only one of it, or it ended the former.
Completing ==
  /\ \A i \in DOMAIN queue : IsCompletion(queue[i]) => queue[i].generation <= current.id
  /\ IsCompletion(event) => \/ Live(event) /\ \A i \in DOMAIN queue : ~Live(queue[i])
                            \/ SetupQueued /\ Harmless(event) /\ ~address.pending
  /\ \A i, j \in DOMAIN queue : Live(queue[i]) /\ Live(queue[j]) => i = j

\* Of a transfer that has ended, the completion of its status may be left.
Over == host.stage = "idle" =>
          /\ ~SetupPending /\ event.kind # "setup_again"
          /\ Live(event) => Harmless(event)
          /\ \A i \in DOMAIN queue : Live(queue[i]) => Harmless(queue[i])

\* Data that was or will be accepted belongs to the SETUP that is kept.
DataKept ==
  /\ out_buf.kind = "armed" /\ out_buf.index # 0 => last_packet.id = out_buf.id
  /\ Live(event) /\ event.kind = "out" /\ event.buf.index # 0 =>
       last_packet.id = event.buf.id
  /\ \A i \in DOMAIN queue :
       Live(queue[i]) /\ queue[i].kind = "out" /\ queue[i].buf.index # 0 =>
         last_packet.id = queue[i].buf.id

NotAgain == event.kind # "setup_again"
Sent(n) == transfer = [id |-> current.id, total |-> current.packets, sent |-> n,
                       read |-> TRUE]

Refused == /\ current.kind # "address" /\ ~SetupPending /\ NotAgain
           /\ in_buf = Stalled /\ out_buf = Stalled /\ NoToken

Starting == /\ SetupPending /\ NotAgain
            /\ host.stage = FirstStage(current.kind) /\ host.got = 0

ReadingData ==
  /\ current.kind = "read" /\ host.stage = "data_in" /\ ~SetupPending
  /\ host.got < current.packets
  /\ out_buf = NoBuffer
  /\ ~NotAgain => host.got = 0 /\ current.packets = 1
  /\ \/ in_buf = Armed(current.id, host.got + 1) /\ NoToken /\ Sent(host.got + 1)
     \/ in_buf = NoBuffer /\ Token("in") /\ Sent(host.got) /\ host.got > 0

ReadingStatus ==
  /\ current.kind = "read" /\ host.stage = "status_out" /\ ~SetupPending
  /\ host.got = current.packets
  /\ \/ /\ Token("in") /\ Sent(current.packets) /\ out_buf = NoBuffer
        /\ ~NotAgain => current.packets = 1
     \/ NoToken /\ NotAgain /\ out_buf = Armed(current.id, 0)

\* The completion is of a data packet.
DataToken == /\ Live(event) => event.buf.index # 0
             /\ \A i \in DOMAIN queue : Live(queue[i]) => queue[i].buf.index # 0

Writing ==
  /\ current.kind = "write" /\ ~SetupPending /\ NotAgain /\ ~transfer.read
  /\ last_packet.id = current.id /\ host.got = 0
  /\ \/ /\ host.stage = "data_out"
        /\ in_buf = NoBuffer /\ out_buf = Armed(current.id, 1) /\ NoToken
     \/ /\ host.stage = "status_in"
        /\ \/ in_buf = NoBuffer /\ out_buf = NoBuffer /\ Token("out") /\ DataToken
           \/ in_buf = Armed(current.id, 0) /\ out_buf = NoBuffer /\ NoToken

Commanding ==
  /\ current.kind \in {"command", "address"} /\ ~SetupPending /\ NotAgain /\ ~transfer.read
  /\ host.stage = "status_in" /\ host.got = 0
  /\ in_buf = Armed(current.id, 0) /\ NoToken

Ignoring ==
  /\ current.kind = "ignored" /\ ~SetupPending /\ NotAgain
  /\ host.stage = "status_in"
  /\ in_buf = NoBuffer /\ NoToken

\* Where a transfer that is under way may be.
Phase == host.stage \notin {"idle", "reset"} =>
           \/ Starting \/ Refused \/ ReadingData \/ ReadingStatus
           \/ Writing \/ Commanding \/ Ignoring

ResetPending == ResetQueued \/ event.kind = "reset"

\* A reset is followed by what the host does after it, and never by what it did before.
ResetFirst == /\ ResetPending => host.address = 0
              /\ ResetPending /\ host.stage # "reset" => SetupQueued
              /\ SetupPending /\ host.stage = "reset" => ResetQueued

\* A reset of the bus comes before the SETUP that waits.
ResetComes == \/ event.kind = "reset"
              \/ \E j \in DOMAIN queue :
                   /\ queue[j].kind = "reset"
                   /\ \A i \in DOMAIN queue : queue[i].kind = "setup" => j < i

\* The address a device announced is that of the present transfer, and the host took it
\* or has reset the bus.
Addressing ==
  /\ address.active <= current.id
  /\ SetupPending => address.active < current.id
  /\ address.pending /\ SetupPending => ResetComes /\ event.kind # "setup"
  /\ address.pending /\ ~SetupPending =>
       /\ current.kind = "address" /\ address.new = current.id
       /\ address.active < current.id
       /\ host.stage \notin {"idle", "reset"} \/ host.address = current.id \/ ResetPending
       /\ Live(event) => host.address = current.id \/ ResetQueued
       /\ \A i \in DOMAIN queue : Live(queue[i]) =>
            \/ host.address = current.id
            \/ \E j \in DOMAIN queue : i < j /\ queue[j].kind = "reset"

IInv == /\ Types /\ Start /\ Completing /\ Over /\ DataKept /\ Phase /\ ResetFirst
        /\ Addressing

-------------------------------------------------------------------------------
(* Types of requests, events and buffers *)

LEMMA RequestFields ==
  ASSUME NEW r \in SomeRequests
  PROVE  /\ r.id \in Ids /\ r.packets \in 0 .. MaxPackets
         /\ r.kind \in {"read", "write", "command", "address", "ignored"}
         /\ r.kind = "read" => r.packets > 0
         /\ r.kind # "read" => r.packets = 0
  BY BoundsAssumption DEF SomeRequests

LEMMA EventFields ==
  ASSUME NEW e \in Events
  PROVE  /\ e.kind \in {"reset", "setup", "in", "out"}
         /\ e.kind = "setup" => e.request \in SomeRequests
         /\ e.kind \in {"in", "out"} => e.buf \in ArmedBuffers /\ e.generation \in Ids
  BY DEF Events, Resets, Setups, Completions

LEMMA InHandFields ==
  ASSUME Types
  PROVE  /\ event.kind \in {"none", "reset", "setup", "setup_again", "in", "out"}
         /\ event.kind \in {"setup", "setup_again"} => event.request \in SomeRequests
         /\ event.kind \in {"in", "out"} => event.buf \in ArmedBuffers
  BY EventFields DEF Types, Again, NoEvent

LEMMA ArmedTypes ==
  /\ \A id \in Ids, index \in 0 .. MaxPackets :
       Armed(id, index) \in ArmedBuffers /\ Armed(id, index) \in Buffers
  /\ NoBuffer \in Buffers /\ Stalled \in Buffers
  /\ \A b \in Buffers : b.kind = "armed" => b \in ArmedBuffers
  /\ \A b \in ArmedBuffers : b.id \in Ids /\ b.index \in 0 .. MaxPackets
  BY DEF Armed, ArmedBuffers, Buffers, NoBuffer, Stalled

-------------------------------------------------------------------------------
(* What the main loop has in hand *)

\* A SETUP in hand is all there is of any transfer.
LEMMA SetupInHand ==
  ASSUME IInv, event.kind = "setup"
  PROVE  /\ event.request = current /\ current \in SomeRequests /\ current.id > 0
         /\ ~SetupQueued
         /\ in_buf = NoBuffer /\ out_buf = NoBuffer
         /\ \A i \in DOMAIN queue : ~Live(queue[i])
         /\ ~address.pending /\ address.active < current.id
         /\ host.stage # "idle"
         /\ ResetQueued => host.stage = "reset"
         /\ host.stage = "reset" => ResetQueued
         /\ host.stage # "reset" => host.stage = FirstStage(current.kind) /\ host.got = 0
<1>1. SetupPending
  BY DEF SetupPending
<1>2. /\ event.request = current /\ current \in SomeRequests /\ current.id > 0
      /\ in_buf = NoBuffer /\ out_buf = NoBuffer
      /\ \A i \in DOMAIN queue : ~Live(queue[i])
  BY <1>1, InHandFields DEF IInv, Start, NoToken
<1>3. ~SetupQueued
  BY DEF IInv, Start
<1>4. ~address.pending /\ address.active < current.id
  BY <1>1 DEF IInv, Addressing
<1>5. host.stage # "idle"
  BY <1>1 DEF IInv, Over
<1>6. (ResetQueued => host.stage = "reset") /\ (host.stage = "reset" => ResetQueued)
  BY <1>1, <1>3 DEF IInv, ResetFirst, ResetPending
<1>7. ASSUME host.stage # "reset" PROVE Starting
  BY <1>1, <1>5, <1>7 DEF IInv, Phase, Refused, ReadingData, ReadingStatus, Writing,
                          Commanding, Ignoring
<1> QED
  BY <1>2, <1>3, <1>4, <1>5, <1>6, <1>7 DEF Starting

\* A completion after which more follows is not one left of the former transfer.
LEMMA NotLeftOver ==
  ASSUME IInv, event.kind \in {"in", "out"}, ~Harmless(event) \/ address.pending
  PROVE  ~SetupQueued
<1> SUFFICES ASSUME SetupQueued PROVE FALSE
  OBVIOUS
<1>1. ~Live(event)
  BY DEF IInv, Start, SetupPending, NoToken
<1> QED
  BY <1>1 DEF IInv, Completing, IsCompletion

\* A completion in hand is the only one of the present transfer, unless the next SETUP
\* is queued.
LEMMA CompletionInHand ==
  ASSUME IInv, event.kind \in {"in", "out"}, ~SetupQueued
  PROVE  /\ Live(event) /\ ~NoToken /\ NotAgain
         /\ ~SetupPending
         /\ \A i \in DOMAIN queue : ~Live(queue[i])
         /\ event.buf \in ArmedBuffers
         /\ ResetQueued => host.stage = "reset"
         /\ host.stage \notin {"idle", "reset"} => ReadingData \/ ReadingStatus \/ Writing
<1>1. /\ Live(event) /\ \A i \in DOMAIN queue : ~Live(queue[i])
      /\ event.buf \in ArmedBuffers
  BY InHandFields DEF IInv, Completing, IsCompletion
<1>2. ~NoToken /\ NotAgain
  BY <1>1 DEF NoToken, NotAgain
<1>3. ~SetupPending
  BY DEF SetupPending
<1>4. ResetQueued => host.stage = "reset"
  BY DEF IInv, ResetFirst, ResetPending
<1>5. host.stage \notin {"idle", "reset"} => ReadingData \/ ReadingStatus \/ Writing
  BY <1>2, <1>3 DEF IInv, Phase, Starting, Refused, Commanding, Ignoring
<1> QED
  BY <1>1, <1>2, <1>3, <1>4, <1>5

\* The main loop is done with a completion left of the former transfer.
LEMMA LeftOverDone ==
  ASSUME IInv, event.kind \in {"in", "out"}, SetupQueued, event' = NoEvent,
         UNCHANGED <<queue, control_generation, host, in_buf, out_buf, transfer, last_packet,
                     address>>
  PROVE  IInv'
<1>1. event'.kind = "none" /\ current' = current
  BY DEF NoEvent, current
<1>2. SetupPending /\ NoToken /\ ~address.pending
  <2>1. SetupPending /\ NoToken
    BY DEF SetupPending, IInv, Start
  <2> QED
    BY <2>1 DEF IInv, Completing, IsCompletion, NoToken
<1>3. /\ SetupPending' /\ (ResetPending' <=> ResetPending) /\ SetupQueued'
      /\ ResetQueued' <=> ResetQueued
  BY <1>1 DEF SetupPending, SetupQueued, ResetPending, ResetQueued
<1>4. /\ ~Live(event)' /\ ~IsCompletion(event)'
      /\ \A i \in DOMAIN queue : Live(queue[i])' <=> Live(queue[i])
  BY <1>1 DEF Live, IsCompletion
<1>5. NoToken'
  BY <1>2, <1>4 DEF NoToken
<1>6. Types'
  BY <1>1 DEF IInv, Types
<1>7. Start'
  <2>1. \A i \in DOMAIN queue' : queue'[i].kind = "setup" =>
          /\ queue'[i].request = current'
          /\ host'.stage = "reset" <=> i # Len(queue')
          /\ \A j \in DOMAIN queue' : i < j => queue'[j].kind = "reset"
    BY <1>1 DEF IInv, Start
  <2>2. /\ in_buf' = NoBuffer /\ out_buf' = NoBuffer /\ NoToken' /\ current'.id > 0
    BY <1>1, <1>2, <1>5 DEF IInv, Start
  <2> QED
    BY <1>1, <2>1, <2>2 DEF Start
<1>8. Completing'
  BY <1>1, <1>4 DEF IInv, Completing, IsCompletion
<1>9. host.stage # "idle"
  BY <1>2 DEF IInv, Over
<1>10. Over'
  BY <1>9 DEF Over
<1>11. DataKept'
  BY <1>4 DEF IInv, DataKept
<1>12. Phase'
  <2> SUFFICES ASSUME host.stage \notin {"idle", "reset"} PROVE Starting'
    BY DEF Phase
  <2>1. Starting
    BY <1>2 DEF IInv, Phase, Refused, ReadingData, ReadingStatus, Writing, Commanding,
                Ignoring
  <2> QED
    BY <1>1, <1>3, <2>1 DEF Starting, NotAgain, FirstStage
<1>13. ResetFirst'
  BY <1>2, <1>3 DEF IInv, ResetFirst
<1>14. Addressing'
  BY <1>1, <1>2, <1>3 DEF IInv, Addressing
<1> QED
  BY <1>6, <1>7, <1>8, <1>10, <1>11, <1>12, <1>13, <1>14 DEF IInv

\* After the main loop is done with either, nothing is in hand, and the queue holds nothing
\* of the present transfer.
LEMMA Settled ==
  ASSUME IInv, UNCHANGED <<queue, control_generation, host>>,
         \/ event' = NoEvent
         \/ event' = [kind |-> "setup_again", request |-> current],
         ~SetupQueued, \A i \in DOMAIN queue : ~Live(queue[i])
  PROVE  /\ current' = current
         /\ Start' /\ Completing'
         /\ (host.stage = "reset" \/ ~ResetQueued) => ResetFirst'
         /\ (host.stage # "idle" \/ event' = NoEvent) => Over'
         /\ NoToken' /\ ~SetupPending'
         /\ event' = NoEvent => NotAgain'
         /\ ResetPending' <=> ResetQueued
         /\ event' \in Events \cup Again \cup {NoEvent}
<1>1. event'.kind \in {"none", "setup_again"}
  BY DEF NoEvent
<1>2. current' = current /\ current \in SomeRequests
  BY DEF IInv, Types, current
<1>3. ~SetupPending' /\ ~SetupQueued' /\ (ResetPending' <=> ResetQueued)
      /\ (ResetQueued' <=> ResetQueued)
  BY <1>1 DEF SetupPending, SetupQueued, ResetPending, ResetQueued
<1>4. ~Live(event)' /\ ~IsCompletion(event)' /\ \A i \in DOMAIN queue' : ~Live(queue[i])'
  BY <1>1 DEF Live, IsCompletion
<1>5. NoToken' /\ Completing'
  BY <1>2, <1>4 DEF NoToken, Completing, IInv, IsCompletion
<1>6. Start'
  BY <1>1, <1>2, <1>3 DEF Start, SetupQueued, NoEvent
<1>7. (host.stage = "reset" \/ ~ResetQueued) => ResetFirst'
  BY <1>3 DEF IInv, ResetFirst, ResetPending
<1>8. event' = NoEvent => NotAgain' /\ event'.kind # "setup_again"
  BY DEF NotAgain, NoEvent
<1>9. event' \in Events \cup Again \cup {NoEvent}
  BY <1>2 DEF Again
<1> QED
  <2>1. (host.stage # "idle" \/ event' = NoEvent) => Over'
    BY <1>3, <1>4, <1>8 DEF Over
  <2> QED
    BY <1>2, <1>3, <1>5, <1>6, <1>7, <1>8, <1>9, <2>1

-------------------------------------------------------------------------------
(* The main loop handles a SETUP *)

LEMMA RefuseSetupStep == ASSUME IInv, RefuseSetup PROVE IInv'
<1>1. /\ event.kind = "setup" /\ event' = NoEvent
      /\ UNCHANGED <<queue, control_generation, host, last_packet, address>>
      /\ in_buf' = Stalled /\ out_buf' = Stalled
      /\ transfer' = [transfer EXCEPT !.read = (event.request.kind = "read")]
      /\ event.request.kind \notin {"address", "ignored"}
  BY DEF RefuseSetup, Does, Stall
<1>2. /\ event.request = current /\ current \in SomeRequests
      /\ ~SetupQueued /\ ~address.pending /\ address.active < current.id
      /\ \A i \in DOMAIN queue : ~Live(queue[i])
      /\ host.stage # "idle" /\ (ResetQueued => host.stage = "reset")
  BY <1>1, SetupInHand
<1>3. /\ current' = current /\ Start' /\ Completing' /\ Over' /\ ResetFirst'
      /\ NoToken' /\ ~SetupPending' /\ NotAgain'
      /\ event' \in Events \cup Again \cup {NoEvent}
  BY <1>1, <1>2, Settled
<1>4. Types'
  <2>1. transfer' \in [id : Ids, total : 0 .. MaxPackets, sent : 0 .. MaxPackets,
                       read : BOOLEAN]
    BY <1>1 DEF IInv, Types
  <2> QED
    BY <1>1, <1>3, <2>1, ArmedTypes DEF IInv, Types
<1>5. DataKept'
  BY <1>1, <1>3 DEF DataKept, NoToken, Stalled
<1>6. Phase'
  BY <1>1, <1>2, <1>3 DEF Phase, Refused
<1>7. Addressing'
  BY <1>1, <1>2, <1>3 DEF IInv, Addressing
<1> QED
  BY <1>3, <1>4, <1>5, <1>6, <1>7 DEF IInv

LEMMA IgnoreSetupStep == ASSUME IInv, IgnoreSetup PROVE IInv'
<1>1. /\ event.kind = "setup" /\ event' = NoEvent
      /\ UNCHANGED <<queue, control_generation, host, in_buf, out_buf, last_packet, address>>
      /\ transfer' = [transfer EXCEPT !.read = FALSE]
      /\ event.request.kind = "ignored"
  BY DEF IgnoreSetup, Does, buffers
<1>2. /\ event.request = current /\ current \in SomeRequests
      /\ ~SetupQueued /\ ~address.pending /\ address.active < current.id
      /\ in_buf = NoBuffer /\ out_buf = NoBuffer
      /\ \A i \in DOMAIN queue : ~Live(queue[i])
      /\ host.stage # "idle" /\ (ResetQueued => host.stage = "reset")
      /\ host.stage # "reset" => host.stage = FirstStage(current.kind)
  BY <1>1, SetupInHand
<1>3. /\ current' = current /\ Start' /\ Completing' /\ Over' /\ ResetFirst'
      /\ NoToken' /\ ~SetupPending' /\ NotAgain'
      /\ event' \in Events \cup Again \cup {NoEvent}
  BY <1>1, <1>2, Settled
<1>4. Types'
  <2>1. transfer' \in [id : Ids, total : 0 .. MaxPackets, sent : 0 .. MaxPackets,
                       read : BOOLEAN]
    BY <1>1 DEF IInv, Types
  <2> QED
    BY <1>1, <1>3, <2>1 DEF IInv, Types
<1>5. DataKept'
  BY <1>1, <1>2, <1>3 DEF DataKept, NoToken, NoBuffer
<1>6. Phase'
  <2>1. FirstStage("ignored") = "status_in"
    BY DEF FirstStage
  <2> QED
    BY <1>1, <1>2, <1>3, <2>1 DEF Phase, Ignoring
<1>7. Addressing'
  BY <1>1, <1>2, <1>3 DEF IInv, Addressing
<1> QED
  BY <1>3, <1>4, <1>5, <1>6, <1>7 DEF IInv

LEMMA AnswerSetupStep == ASSUME IInv, AnswerSetup PROVE IInv'
<1>1. /\ event.kind = "setup"
      /\ \/ event' = NoEvent
         \/ /\ event.request.packets = 1
            /\ event' = [kind |-> "setup_again", request |-> event.request]
      /\ UNCHANGED <<queue, control_generation, host, out_buf, last_packet>>
      /\ event.request.kind \notin {"write", "ignored"}
  BY DEF AnswerSetup
<1>2. /\ event.request = current /\ current \in SomeRequests /\ current.id > 0
      /\ ~SetupQueued /\ ~address.pending /\ address.active < current.id
      /\ in_buf = NoBuffer /\ out_buf = NoBuffer
      /\ \A i \in DOMAIN queue : ~Live(queue[i])
      /\ host.stage # "idle" /\ (ResetQueued => host.stage = "reset")
      /\ host.stage # "reset" => host.stage = FirstStage(current.kind) /\ host.got = 0
  BY <1>1, SetupInHand
<1>3. /\ current' = current /\ Start' /\ Completing' /\ Over' /\ ResetFirst'
      /\ NoToken' /\ ~SetupPending' /\ (event' = NoEvent => NotAgain')
      /\ ResetPending' <=> ResetQueued
      /\ event' \in Events \cup Again \cup {NoEvent}
  BY <1>1, <1>2, Settled
<1>4. /\ current.id \in Ids /\ current.packets \in 0 .. MaxPackets
      /\ current.kind \in {"read", "command", "address"}
      /\ current.kind = "read" => current.packets > 0
      /\ current.kind # "read" => current.packets = 0
  BY <1>1, <1>2, RequestFields
<1>5. PICK first \in 0 .. 1 : first = IF current.packets = 0 THEN 0 ELSE 1
  OBVIOUS
<1>6. /\ transfer' = [id |-> current.id, total |-> current.packets, sent |-> first,
                      read |-> (current.kind = "read")]
      /\ in_buf' = Armed(current.id, first)
  BY <1>2, <1>5 DEF AnswerSetup, StartTransfer
<1>7. \/ /\ current.kind = "address"
         /\ address' = [address EXCEPT !.new = current.id, !.pending = TRUE]
      \/ current.kind # "address" /\ address' = address
  BY <1>2 DEF AnswerSetup
<1>8. address \in [new : Ids, pending : BOOLEAN, active : Ids]
  BY DEF IInv, Types
<1>9. Types'
  <2>1. first \in 0 .. MaxPackets
    BY <1>5, BoundsAssumption
  <2>2. transfer' \in [id : Ids, total : 0 .. MaxPackets, sent : 0 .. MaxPackets,
                       read : BOOLEAN]
    BY <1>4, <1>6, <2>1
  <2>3. in_buf' \in Buffers
    BY <1>4, <1>6, <2>1, ArmedTypes
  <2>4. address' \in [new : Ids, pending : BOOLEAN, active : Ids]
    BY <1>4, <1>7, <1>8
  <2> QED
    BY <1>1, <1>3, <2>2, <2>3, <2>4 DEF IInv, Types
<1>10. DataKept'
  BY <1>1, <1>2, <1>3 DEF DataKept, NoToken, NoBuffer
<1>11. Phase'
  <2> SUFFICES ASSUME host.stage # "reset" PROVE ReadingData' \/ Commanding'
    BY <1>1 DEF Phase
  <2>1. CASE current.kind = "read"
    <3>1. host.stage = "data_in" /\ host.got = 0
      BY <1>2, <2>1 DEF FirstStage
    <3>2. first = 1
      BY <1>4, <1>5, <2>1
    <3>3. Sent(1)'
      BY <1>3, <1>6, <2>1, <3>2 DEF Sent
    <3>4. current.packets = 1 \/ NotAgain'
      BY <1>1, <1>2, <1>3
    <3> QED
      BY <1>1, <1>2, <1>3, <1>4, <1>6, <2>1, <3>1, <3>2, <3>3, <3>4 DEF ReadingData
  <2>2. CASE current.kind # "read"
    <3>1. host.stage = "status_in" /\ host.got = 0
      BY <1>2, <1>4, <2>2 DEF FirstStage
    <3>2. first = 0 /\ event' = NoEvent
      BY <1>1, <1>2, <1>4, <1>5, <2>2
    <3> QED
      BY <1>1, <1>3, <1>4, <1>6, <2>2, <3>1, <3>2 DEF Commanding
  <2> QED
    BY <2>1, <2>2
<1>12. Addressing'
  <2>1. address'.active = address.active
    BY <1>7, <1>8
  <2>2. address'.active < current.id /\ address'.active <= current.id
    BY <1>2, <1>4, <1>8, <2>1 DEF Ids
  <2>3. address'.pending => current.kind = "address" /\ address'.new = current.id
    BY <1>2, <1>7, <1>8
  <2>4. host.stage \notin {"idle", "reset"} \/ ResetPending'
    BY <1>1, <1>2, <1>3, SetupInHand
  <2> QED
    BY <1>1, <1>3, <2>2, <2>3, <2>4 DEF Addressing, NoToken
<1> QED
  BY <1>3, <1>9, <1>10, <1>11, <1>12 DEF IInv

LEMMA AwaitDataStep == ASSUME IInv, AwaitData PROVE IInv'
<1>1. /\ event.kind = "setup" /\ event' = NoEvent
      /\ UNCHANGED <<queue, control_generation, host, in_buf, address>>
      /\ event.request.kind = "write" /\ last_packet' = event.request
      /\ transfer' = [transfer EXCEPT !.read = FALSE]
      /\ out_buf' = Armed(event.request.id, 1)
  BY DEF AwaitData, Does
<1>2. /\ event.request = current /\ current \in SomeRequests
      /\ ~SetupQueued /\ ~address.pending /\ address.active < current.id
      /\ in_buf = NoBuffer
      /\ \A i \in DOMAIN queue : ~Live(queue[i])
      /\ host.stage # "idle" /\ (ResetQueued => host.stage = "reset")
      /\ host.stage # "reset" => host.stage = FirstStage(current.kind) /\ host.got = 0
  BY <1>1, SetupInHand
<1>3. /\ current' = current /\ Start' /\ Completing' /\ Over' /\ ResetFirst'
      /\ NoToken' /\ ~SetupPending' /\ NotAgain'
      /\ event' \in Events \cup Again \cup {NoEvent}
  BY <1>1, <1>2, Settled
<1>4. Types'
  <2>1. transfer' \in [id : Ids, total : 0 .. MaxPackets, sent : 0 .. MaxPackets,
                       read : BOOLEAN]
    BY <1>1 DEF IInv, Types
  <2>2. out_buf' \in Buffers
    <3>1. 1 \in 0 .. MaxPackets /\ current.id \in Ids
      BY <1>2, BoundsAssumption, RequestFields
    <3> QED
      BY <1>1, <1>2, <3>1, ArmedTypes
  <2> QED
    BY <1>1, <1>2, <1>3, <2>1, <2>2 DEF IInv, Types
<1>5. DataKept'
  BY <1>1, <1>2, <1>3 DEF DataKept, NoToken, Armed
<1>6. Phase'
  <2>1. FirstStage("write") = "data_out"
    BY DEF FirstStage
  <2>2. ~transfer'.read
    BY <1>1 DEF IInv, Types
  <2> QED
    BY <1>1, <1>2, <1>3, <2>1, <2>2 DEF Phase, Writing
<1>7. Addressing'
  BY <1>1, <1>2, <1>3 DEF IInv, Addressing
<1> QED
  BY <1>3, <1>4, <1>5, <1>6, <1>7 DEF IInv
-------------------------------------------------------------------------------
(* The main loop handles anything else *)

\* After a repeated answer or a reset is done with, the queue and the transfer are
\* as they were.
LEMMA PutAway ==
  ASSUME IInv, UNCHANGED <<queue, control_generation, host>>, event' = NoEvent,
         event.kind \in {"setup_again", "reset"},
         SetupPending => in_buf' = in_buf /\ out_buf' = out_buf
  PROVE  /\ current' = current
         /\ Start' /\ Completing' /\ Over' /\ ResetFirst' /\ host.stage # "idle"
         /\ NoToken => NoToken'
         /\ Token("in") => Token("in")'
         /\ SetupPending' <=> SetupPending
         /\ SetupQueued' <=> SetupQueued
         /\ NotAgain' /\ ~Live(event) /\ ~Live(event)'
         /\ \A i \in DOMAIN queue : Live(queue[i])' <=> Live(queue[i])
         /\ event' \in Events \cup Again \cup {NoEvent}
<1>1. event'.kind = "none"
  BY DEF NoEvent
<1>2. current' = current
  BY DEF current
<1>3. /\ SetupPending' <=> SetupPending
      /\ SetupQueued' <=> SetupQueued
      /\ ResetPending' => ResetPending
      /\ ResetQueued' <=> ResetQueued
  BY <1>1 DEF SetupPending, SetupQueued, ResetPending, ResetQueued
<1>4. /\ ~Live(event) /\ ~IsCompletion(event) /\ ~Live(event)' /\ ~IsCompletion(event)'
      /\ \A i \in DOMAIN queue : Live(queue[i])' <=> Live(queue[i])
  BY <1>1 DEF Live, IsCompletion
<1>5. NoToken => NoToken'
  BY <1>4 DEF NoToken
<1>6. Token("in") => Token("in")'
  BY <1>4 DEF Token
<1>7. Completing'
  BY <1>2, <1>4 DEF IInv, Completing, IsCompletion
<1>8. Start'
  <2>1. \A i \in DOMAIN queue' : queue'[i].kind = "setup" =>
          /\ queue'[i].request = current'
          /\ host'.stage = "reset" <=> i # Len(queue')
          /\ \A j \in DOMAIN queue' : i < j => queue'[j].kind = "reset"
    BY <1>2 DEF IInv, Start
  <2>2. SetupPending' => /\ in_buf = NoBuffer /\ out_buf = NoBuffer /\ NoToken'
                         /\ current'.id > 0
    BY <1>2, <1>3, <1>5 DEF IInv, Start
  <2> QED
    BY <1>1, <1>3, <2>1, <2>2 DEF Start
<1>9. ResetFirst'
  BY <1>3 DEF IInv, ResetFirst
<1>10. NotAgain'
  BY <1>1 DEF NotAgain
<1>11. host.stage # "idle" /\ Over'
  BY DEF IInv, Over, ResetFirst, ResetPending, SetupPending
<1> QED
  BY <1>2, <1>3, <1>4, <1>5, <1>6, <1>7, <1>8, <1>9, <1>10, <1>11

LEMMA AnswerAgainStep == ASSUME IInv, AnswerAgain PROVE IInv'
<1>1. /\ event.kind = "setup_again" /\ event' = NoEvent
      /\ UNCHANGED <<queue, control_generation, host, out_buf, last_packet, address>>
      /\ transfer' = [id |-> event.request.id, total |-> 1, sent |-> 1, read |-> TRUE]
      /\ in_buf' = Armed(event.request.id, 1)
  BY DEF AnswerAgain, Does, StartTransfer
<1>2. /\ event.request = current /\ current \in SomeRequests /\ ~SetupQueued
      /\ ~NotAgain /\ ~SetupPending
  BY <1>1, InHandFields DEF IInv, Start, NotAgain, SetupPending
<1>3. /\ current' = current /\ Start' /\ Completing' /\ Over' /\ ResetFirst'
      /\ NoToken => NoToken'
      /\ Token("in") => Token("in")'
      /\ ~SetupPending' /\ NotAgain' /\ ~Live(event) /\ ~Live(event)'
      /\ \A i \in DOMAIN queue : Live(queue[i])' <=> Live(queue[i])
      /\ event' \in Events \cup Again \cup {NoEvent}
  BY <1>1, <1>2, PutAway
<1>4. 1 \in 0 .. MaxPackets /\ current.id \in Ids
  BY <1>2, BoundsAssumption, RequestFields
<1>5. Types'
  <2>1. in_buf' \in Buffers
    BY <1>1, <1>2, <1>4, ArmedTypes
  <2>2. transfer' \in [id : Ids, total : 0 .. MaxPackets, sent : 0 .. MaxPackets,
                       read : BOOLEAN]
    BY <1>1, <1>2, <1>4
  <2> QED
    BY <1>1, <1>3, <2>1, <2>2 DEF IInv, Types
<1>6. DataKept'
  BY <1>1, <1>3 DEF IInv, DataKept
<1>7. Phase'
  <2> SUFFICES ASSUME host.stage \notin {"idle", "reset"} PROVE ReadingData' \/ ReadingStatus'
    BY <1>1 DEF Phase
  <2>1. ReadingData \/ ReadingStatus
    BY <1>2 DEF IInv, Phase, Starting, Refused, Writing, Commanding, Ignoring
  <2>2. CASE ReadingData
    <3>1. /\ host.got = 0 /\ current.packets = 1 /\ current.kind = "read"
          /\ host.stage = "data_in" /\ out_buf = NoBuffer /\ NoToken
      BY <1>2, <2>2 DEF ReadingData
    <3>2. Sent(1)'
      BY <1>1, <1>2, <1>3, <3>1 DEF Sent
    <3> QED
      BY <1>1, <1>2, <1>3, <3>1, <3>2 DEF ReadingData
  <2>3. CASE ReadingStatus
    <3>1. /\ current.packets = 1 /\ current.kind = "read" /\ host.got = current.packets
          /\ host.stage = "status_out" /\ out_buf = NoBuffer /\ Token("in")
      BY <1>2, <2>3 DEF ReadingStatus
    <3>2. Sent(1)'
      BY <1>1, <1>2, <1>3, <3>1 DEF Sent
    <3> QED
      BY <1>1, <1>2, <1>3, <3>1, <3>2 DEF ReadingStatus
  <2> QED
    BY <2>1, <2>2, <2>3
<1>8. Addressing'
  <2>1. ~ResetPending => host.stage \notin {"idle", "reset"} \/ host.address = current.id
                           \/ ~address.pending
    BY <1>2 DEF IInv, Addressing
  <2>2. ResetPending' <=> ResetPending
    BY <1>1 DEF ResetPending, ResetQueued, NoEvent
  <2> QED
    BY <1>1, <1>2, <1>3, <2>1, <2>2 DEF IInv, Addressing
<1> QED
  BY <1>3, <1>5, <1>6, <1>7, <1>8 DEF IInv

LEMMA HandleResetStep == ASSUME IInv, HandleReset PROVE IInv'
<1>1. /\ event.kind = "reset" /\ event' = NoEvent
      /\ UNCHANGED <<queue, control_generation, host, in_buf, out_buf, transfer, last_packet>>
      /\ address' = [new |-> 0, pending |-> FALSE, active |-> 0]
  BY DEF HandleReset, Does, buffers
<1>2. /\ current' = current /\ Start' /\ Completing' /\ Over' /\ ResetFirst'
      /\ SetupPending' <=> SetupPending
      /\ NotAgain' /\ ~Live(event) /\ ~Live(event)'
      /\ \A i \in DOMAIN queue : Live(queue[i])' <=> Live(queue[i])
      /\ event' \in Events \cup Again \cup {NoEvent}
  BY <1>1, PutAway
<1>3. current.id \in 0 .. MaxTransfers /\ 0 \in Ids
  BY RequestFields, BoundsAssumption DEF IInv, Types, current, Ids
<1>4. Types'
  BY <1>1, <1>2, <1>3 DEF IInv, Types
<1>5. DataKept'
  BY <1>1, <1>2 DEF IInv, DataKept
<1>6. Phase'
  <2> SUFFICES ASSUME host.stage \notin {"idle", "reset"} PROVE Starting'
    BY <1>1 DEF Phase
  <2>1. SetupPending
    BY <1>1 DEF IInv, ResetFirst, ResetPending, SetupPending
  <2>2. Starting
    BY <2>1 DEF IInv, Phase, Refused, ReadingData, ReadingStatus, Writing, Commanding,
                Ignoring
  <2> QED
    BY <1>1, <1>2, <2>1, <2>2 DEF Starting
<1>7. Addressing'
  <2>1. SetupPending => 0 < current.id
    BY <1>3 DEF IInv, Start
  <2> QED
    BY <1>1, <1>2, <1>3, <2>1 DEF Addressing
<1> QED
  BY <1>2, <1>4, <1>5, <1>6, <1>7 DEF IInv

LEMMA SetAddressStep == ASSUME IInv, SetAddress PROVE IInv'
<1>1. /\ event.kind = "in" /\ event' = NoEvent /\ address.pending
      /\ UNCHANGED <<queue, control_generation, host, in_buf, out_buf, transfer, last_packet>>
      /\ address' = [address EXCEPT !.active = address.new, !.pending = FALSE]
  BY DEF SetAddress, Does, buffers
<1>2. /\ ~SetupQueued /\ ~SetupPending
      /\ \A i \in DOMAIN queue : ~Live(queue[i])
      /\ ResetQueued => host.stage = "reset"
      /\ host.stage \notin {"idle", "reset"} => ReadingData \/ ReadingStatus \/ Writing
  BY <1>1, NotLeftOver, CompletionInHand
<1>3. current.kind = "address" /\ address.new = current.id
  BY <1>1, <1>2 DEF IInv, Addressing
<1>4. host.stage \in {"idle", "reset"}
  BY <1>2, <1>3 DEF ReadingData, ReadingStatus, Writing
<1>5. /\ current' = current /\ Start' /\ Completing' /\ Over' /\ ResetFirst'
      /\ NoToken' /\ ~SetupPending'
      /\ event' \in Events \cup Again \cup {NoEvent}
  BY <1>1, <1>2, <1>4, Settled
<1>6. /\ address' \in [new : Ids, pending : BOOLEAN, active : Ids]
      /\ address'.active = current.id /\ ~address'.pending
  BY <1>1, <1>3 DEF IInv, Types
<1>7. Types'
  BY <1>1, <1>5, <1>6 DEF IInv, Types
<1>8. DataKept'
  BY <1>1, <1>5 DEF IInv, DataKept, NoToken
<1>9. Phase'
  BY <1>1, <1>4 DEF Phase
<1>10. Addressing'
  <2>1. current.id \in 0 .. MaxTransfers
    BY RequestFields DEF IInv, Types, current, Ids
  <2> QED
    BY <1>5, <1>6, <2>1 DEF Addressing
<1> QED
  BY <1>5, <1>7, <1>8, <1>9, <1>10 DEF IInv

\* Once a completion is done with and the address is left alone, what is known of it
\* stays true.
LEMMA AddressLeft ==
  ASSUME IInv, event.kind \in {"in", "out"}, ~SetupQueued, event' = NoEvent,
         UNCHANGED <<queue, control_generation, host, address>>
  PROVE  Addressing'
<1>1. /\ ~SetupQueued /\ ~SetupPending
      /\ \A i \in DOMAIN queue : ~Live(queue[i])
  BY CompletionInHand
<1>2. /\ current' = current /\ NoToken' /\ ~SetupPending' /\ (ResetPending' <=> ResetQueued)
  BY <1>1, Settled
<1>3. ResetPending <=> ResetQueued
  BY DEF ResetPending
<1> QED
  BY <1>1, <1>2, <1>3 DEF IInv, Addressing, NoToken

LEMMA StatusSentStep == ASSUME IInv, StatusSent PROVE IInv'
<1>1. /\ event.kind = "in" /\ event' = NoEvent /\ ~transfer.read
      /\ UNCHANGED <<queue, control_generation, host, in_buf, out_buf, transfer, last_packet,
                     address>>
  BY DEF StatusSent, Does, buffers, device
<1> SUFFICES ASSUME ~SetupQueued PROVE IInv'
  BY <1>1, LeftOverDone
<1>2. /\ Live(event) /\ ~NoToken
      /\ ~SetupQueued /\ \A i \in DOMAIN queue : ~Live(queue[i])
      /\ ResetQueued => host.stage = "reset"
      /\ host.stage \notin {"idle", "reset"} => ReadingData \/ ReadingStatus \/ Writing
  BY <1>1, CompletionInHand
<1>3. host.stage \in {"idle", "reset"}
  <2>1. ~ReadingData /\ ~ReadingStatus
    BY <1>1, <1>2 DEF ReadingData, ReadingStatus, Sent
  <2>2. ~Writing
    BY <1>1, <1>2 DEF Writing, Token
  <2> QED
    BY <1>2, <2>1, <2>2
<1>4. /\ Start' /\ Completing' /\ Over' /\ ResetFirst' /\ NoToken' /\ current' = current
      /\ event' \in Events \cup Again \cup {NoEvent}
  BY <1>1, <1>2, <1>3, Settled
<1>5. Types'
  BY <1>1, <1>4 DEF IInv, Types
<1>6. DataKept'
  BY <1>1, <1>4 DEF IInv, DataKept, NoToken
<1>7. Phase'
  BY <1>1, <1>3 DEF Phase
<1>8. Addressing'
  BY <1>1, AddressLeft
<1> QED
  BY <1>4, <1>5, <1>6, <1>7, <1>8 DEF IInv

LEMMA SendNextStep == ASSUME IInv, SendNext PROVE IInv'
<1>1. /\ event.kind = "in" /\ event' = NoEvent
      /\ transfer.read /\ transfer.sent < transfer.total
      /\ UNCHANGED <<queue, control_generation, host, out_buf, last_packet, address>>
      /\ transfer' = [transfer EXCEPT !.sent = @ + 1]
      /\ in_buf' = Armed(transfer.id, transfer.sent + 1)
  BY DEF SendNext, Does
<1>2. /\ Live(event) /\ ~NoToken /\ NotAgain
      /\ ~SetupQueued /\ \A i \in DOMAIN queue : ~Live(queue[i])
      /\ ResetQueued => host.stage = "reset"
      /\ host.stage \notin {"idle", "reset"} => ReadingData \/ ReadingStatus \/ Writing
  BY <1>1, NotLeftOver, CompletionInHand DEF Harmless
<1>3. /\ Start' /\ Completing' /\ Over' /\ ResetFirst' /\ NoToken' /\ current' = current
      /\ ~SetupPending' /\ NotAgain'
      /\ event' \in Events \cup Again \cup {NoEvent}
  BY <1>1, <1>2, Settled
<1>4. transfer \in [id : Ids, total : 0 .. MaxPackets, sent : 0 .. MaxPackets, read : BOOLEAN]
  BY DEF IInv, Types
<1>5. PICK next \in 0 .. MaxPackets : next = transfer.sent + 1
  BY <1>1, <1>4, BoundsAssumption
<1>6. /\ transfer' = [id |-> transfer.id, total |-> transfer.total, sent |-> next,
                      read |-> transfer.read]
      /\ in_buf' = Armed(transfer.id, next)
  BY <1>1, <1>4, <1>5
<1>7. Types'
  <2>1. in_buf' \in Buffers
    BY <1>4, <1>6, ArmedTypes
  <2>2. transfer' \in [id : Ids, total : 0 .. MaxPackets, sent : 0 .. MaxPackets,
                       read : BOOLEAN]
    BY <1>4, <1>6
  <2> QED
    BY <1>1, <1>3, <2>1, <2>2 DEF IInv, Types
<1>8. DataKept'
  BY <1>1, <1>3 DEF IInv, DataKept, NoToken
<1>9. Phase'
  <2> SUFFICES ASSUME host.stage \notin {"idle", "reset"} PROVE ReadingData'
    BY <1>1 DEF Phase
  <2>1. ~Writing
    BY <1>1, <1>2 DEF Writing, Token
  <2>2. ~ReadingStatus
    BY <1>1, <1>2, <1>4 DEF ReadingStatus, Sent
  <2>3. ReadingData /\ Sent(host.got)
    BY <1>2, <2>1, <2>2 DEF ReadingData
  <2>4. /\ current.kind = "read" /\ host.stage = "data_in" /\ out_buf = NoBuffer
        /\ host.got < current.packets
    BY <2>3 DEF ReadingData
  <2>5. next = host.got + 1 /\ transfer.id = current.id
    BY <1>5, <2>3 DEF Sent
  <2>6. /\ transfer' = [id |-> current.id, total |-> current.packets, sent |-> next,
                        read |-> TRUE]
        /\ in_buf' = Armed(current.id, next)
    BY <1>6, <2>3, <2>5 DEF Sent
  <2>7. Sent(host.got + 1)' /\ in_buf' = Armed(current.id, host.got + 1)'
    BY <1>1, <1>3, <2>5, <2>6 DEF Sent, Armed
  <2> QED
    BY <1>1, <1>3, <2>4, <2>7 DEF ReadingData
<1>10. Addressing'
  BY <1>1, <1>2, AddressLeft
<1> QED
  BY <1>3, <1>7, <1>8, <1>9, <1>10 DEF IInv

LEMMA AwaitStatusStep == ASSUME IInv, AwaitStatus PROVE IInv'
<1>1. /\ event.kind = "in" /\ event' = NoEvent
      /\ transfer.read /\ transfer.sent = transfer.total
      /\ UNCHANGED <<queue, control_generation, host, in_buf, transfer, last_packet, address>>
      /\ out_buf' = Armed(transfer.id, 0)
  BY DEF AwaitStatus, Does, device
<1>2. /\ Live(event) /\ ~NoToken /\ NotAgain
      /\ ~SetupQueued /\ \A i \in DOMAIN queue : ~Live(queue[i])
      /\ ResetQueued => host.stage = "reset"
      /\ host.stage \notin {"idle", "reset"} => ReadingData \/ ReadingStatus \/ Writing
  BY <1>1, NotLeftOver, CompletionInHand DEF Harmless
<1>3. /\ Start' /\ Completing' /\ Over' /\ ResetFirst' /\ NoToken' /\ current' = current
      /\ ~SetupPending' /\ NotAgain'
      /\ event' \in Events \cup Again \cup {NoEvent}
  BY <1>1, <1>2, Settled
<1>4. Types'
  <2>1. transfer.id \in Ids /\ 0 \in 0 .. MaxPackets
    BY BoundsAssumption DEF IInv, Types
  <2>2. out_buf' \in Buffers
    BY <1>1, <2>1, ArmedTypes
  <2> QED
    BY <1>1, <1>3, <2>2 DEF IInv, Types
<1>5. DataKept'
  BY <1>1, <1>3 DEF DataKept, NoToken, Armed
<1>6. Phase'
  <2> SUFFICES ASSUME host.stage \notin {"idle", "reset"} PROVE ReadingStatus'
    BY <1>1 DEF Phase
  <2>1. ~Writing
    BY <1>1, <1>2 DEF Writing, Token
  <2>2. host \in [request : SomeRequests, got : 0 .. MaxPackets, address : Ids, resets : Nat,
                  stage : Stages]
    BY DEF IInv, Types
  <2>3. current.packets \in 0 .. MaxPackets /\ host.got \in 0 .. MaxPackets
    BY <2>2, RequestFields DEF current
  <2>4. ~ReadingData
    <3> SUFFICES ASSUME ReadingData PROVE FALSE
      OBVIOUS
    <3>1. Sent(host.got) /\ host.got < current.packets
      BY <1>2 DEF ReadingData
    <3>2. transfer.sent = host.got /\ transfer.total = current.packets
      BY <3>1 DEF Sent
    <3>3. host.got = current.packets
      BY <1>1, <3>2
    <3> QED
      BY <2>3, <3>1, <3>3
  <2>5. ReadingStatus /\ Sent(current.packets)
    BY <1>2, <2>1, <2>4 DEF ReadingStatus
  <2>6. transfer.id = current.id
    BY <2>5 DEF Sent
  <2> QED
    BY <1>1, <1>3, <2>5, <2>6 DEF ReadingStatus, Armed
<1>7. Addressing'
  BY <1>1, <1>2, AddressLeft
<1> QED
  BY <1>3, <1>4, <1>5, <1>6, <1>7 DEF IInv

LEMMA DataArrivedStep == ASSUME IInv, DataArrived PROVE IInv'
<1>1. /\ event.kind = "out" /\ event' = NoEvent /\ event.buf.index # 0
      /\ UNCHANGED <<queue, control_generation, host, last_packet, address>>
      /\ \/ /\ transfer' = [id |-> last_packet.id, total |-> 0, sent |-> 0,
                            read |-> transfer.read]
            /\ in_buf' = Armed(last_packet.id, 0) /\ out_buf' = out_buf
         \/ /\ in_buf' = Stalled /\ out_buf' = Stalled
            /\ transfer' = [transfer EXCEPT !.read = transfer.read]
  BY DEF DataArrived, Does, StartTransfer, Stall
<1>2. /\ Live(event) /\ ~NoToken /\ NotAgain
      /\ ~SetupQueued /\ \A i \in DOMAIN queue : ~Live(queue[i])
      /\ ResetQueued => host.stage = "reset"
      /\ host.stage \notin {"idle", "reset"} => ReadingData \/ ReadingStatus \/ Writing
  BY <1>1, NotLeftOver, CompletionInHand DEF Harmless
<1>3. /\ Start' /\ Completing' /\ Over' /\ ResetFirst' /\ NoToken' /\ current' = current
      /\ ~SetupPending' /\ NotAgain'
      /\ event' \in Events \cup Again \cup {NoEvent}
  BY <1>1, <1>2, Settled
<1>4. last_packet.id \in Ids /\ 0 \in 0 .. MaxPackets
  BY RequestFields, BoundsAssumption DEF IInv, Types
<1>5. Types'
  <2>1. in_buf' \in Buffers /\ out_buf' \in Buffers
    BY <1>1, <1>4, ArmedTypes DEF IInv, Types
  <2>2. transfer' \in [id : Ids, total : 0 .. MaxPackets, sent : 0 .. MaxPackets,
                       read : BOOLEAN]
    BY <1>1, <1>4 DEF IInv, Types
  <2> QED
    BY <1>1, <1>3, <2>1, <2>2 DEF IInv, Types
<1>6. DataKept'
  BY <1>1, <1>3 DEF IInv, DataKept, NoToken, Stalled
<1>7. Phase'
  <2> SUFFICES ASSUME host.stage \notin {"idle", "reset"} PROVE Writing' \/ Refused'
    BY <1>1 DEF Phase
  <2>1. ~ReadingData /\ ~ReadingStatus
    BY <1>1, <1>2 DEF ReadingData, ReadingStatus, Token
  <2>2. /\ current.kind = "write" /\ host.stage = "status_in" /\ host.got = 0
        /\ last_packet.id = current.id /\ out_buf = NoBuffer /\ ~transfer.read
    BY <1>2, <2>1 DEF Writing
  <2>3. CASE in_buf' = Stalled /\ out_buf' = Stalled
    BY <1>3, <2>2, <2>3 DEF Refused
  <2>4. CASE in_buf' = Armed(last_packet.id, 0) /\ out_buf' = out_buf
    <3>1. ~transfer'.read /\ last_packet' = last_packet
      BY <1>1, <2>2 DEF IInv, Types
    <3>2. in_buf' = Armed(current.id, 0)' /\ out_buf' = NoBuffer
      BY <1>3, <2>2, <2>4 DEF Armed
    <3> QED
      BY <1>1, <1>3, <2>2, <3>1, <3>2 DEF Writing
  <2> QED
    BY <1>1, <2>3, <2>4
<1>8. Addressing'
  BY <1>1, <1>2, AddressLeft
<1> QED
  BY <1>3, <1>5, <1>6, <1>7, <1>8 DEF IInv

LEMMA StatusArrivedStep == ASSUME IInv, StatusArrived PROVE IInv'
<1>1. /\ event.kind = "out" /\ event' = NoEvent /\ event.buf.index = 0
      /\ UNCHANGED <<queue, control_generation, host, in_buf, out_buf, transfer, last_packet,
                     address>>
  BY DEF StatusArrived, Does, buffers, device
<1> SUFFICES ASSUME ~SetupQueued PROVE IInv'
  BY <1>1, LeftOverDone
<1>2. /\ Live(event) /\ ~NoToken
      /\ ~SetupQueued /\ \A i \in DOMAIN queue : ~Live(queue[i])
      /\ ResetQueued => host.stage = "reset"
      /\ host.stage \notin {"idle", "reset"} => ReadingData \/ ReadingStatus \/ Writing
  BY <1>1, CompletionInHand
<1>3. host.stage \in {"idle", "reset"}
  <2>1. ~ReadingData /\ ~ReadingStatus
    BY <1>1, <1>2 DEF ReadingData, ReadingStatus, Token
  <2>2. ~Writing
    BY <1>1, <1>2 DEF Writing, DataToken
  <2> QED
    BY <1>2, <2>1, <2>2
<1>4. /\ Start' /\ Completing' /\ Over' /\ ResetFirst' /\ NoToken' /\ current' = current
      /\ event' \in Events \cup Again \cup {NoEvent}
  BY <1>1, <1>2, <1>3, Settled
<1>5. Types'
  BY <1>1, <1>4 DEF IInv, Types
<1>6. DataKept'
  BY <1>1, <1>4 DEF IInv, DataKept, NoToken
<1>7. Phase'
  BY <1>1, <1>3 DEF Phase
<1>8. Addressing'
  BY <1>1, AddressLeft
<1> QED
  BY <1>4, <1>5, <1>6, <1>7, <1>8 DEF IInv

-------------------------------------------------------------------------------
(* The main loop takes an event *)

\* What taking the head of a queue leaves.
LEMMA TakeHead ==
  ASSUME NEW S, NEW s \in Seq(S), s # <<>>
  PROVE  /\ Head(s) = s[1] /\ 1 \in DOMAIN s /\ Head(s) \in S
         /\ Tail(s) \in Seq(S) /\ Len(s) \in Nat /\ Len(Tail(s)) = Len(s) - 1
         /\ \A i \in DOMAIN Tail(s) : /\ i \in Nat /\ i + 1 # 1 /\ i + 1 \in DOMAIN s
                                      /\ Tail(s)[i] = s[i + 1]
         /\ \A i \in DOMAIN s : i # 1 => i - 1 \in DOMAIN Tail(s) /\ Tail(s)[i - 1] = s[i]
  OBVIOUS

\* An event of some kind is the head or remains.
LEMMA HeadOrTail ==
  ASSUME NEW S, NEW s \in Seq(S), s # <<>>, NEW kind
  PROVE  (\E i \in DOMAIN s : s[i].kind = kind)
           <=> Head(s).kind = kind \/ \E i \in DOMAIN Tail(s) : Tail(s)[i].kind = kind
<1>1. ASSUME NEW i \in DOMAIN s, s[i].kind = kind
      PROVE  Head(s).kind = kind \/ \E j \in DOMAIN Tail(s) : Tail(s)[j].kind = kind
  <2>1. CASE i = 1
    BY <1>1, <2>1, TakeHead
  <2>2. CASE i # 1
    <3>1. i - 1 \in DOMAIN Tail(s) /\ Tail(s)[i - 1] = s[i]
      BY <2>2, TakeHead
    <3> QED
      BY <1>1, <3>1
  <2> QED
    BY <2>1, <2>2
<1>2. ASSUME NEW i \in DOMAIN Tail(s), Tail(s)[i].kind = kind
      PROVE  \E j \in DOMAIN s : s[j].kind = kind
  <2>1. i + 1 \in DOMAIN s /\ s[i + 1] = Tail(s)[i]
    BY TakeHead
  <2> QED
    BY <1>2, <2>1
<1>3. Head(s).kind = kind => \E j \in DOMAIN s : s[j].kind = kind
  BY TakeHead
<1> QED
  BY <1>1, <1>2, <1>3

LEMMA TakeStep == ASSUME IInv, Take PROVE IInv'
<1> DEFINE head == Head(queue)
<1>1. /\ event = NoEvent /\ queue # <<>> /\ queue' = Tail(queue)
      /\ \/ IsStale(head) /\ event' = NoEvent
         \/ ~IsStale(head) /\ event' = head
      /\ UNCHANGED <<control_generation, host, in_buf, out_buf, transfer, last_packet, address>>
  BY DEF Take, buffers, device
<1>2. current' = current /\ queue \in Seq(Events)
  BY <1>1 DEF current, IInv, Types
<1>3. /\ head = queue[1] /\ 1 \in DOMAIN queue /\ head \in Events
      /\ queue' \in Seq(Events) /\ Len(queue) \in Nat /\ Len(queue') = Len(queue) - 1
      /\ \A i \in DOMAIN queue' : /\ i \in Nat /\ i + 1 # 1 /\ i + 1 \in DOMAIN queue
                                  /\ queue'[i] = queue[i + 1]
      /\ \A i \in DOMAIN queue :
           i # 1 => i - 1 \in DOMAIN queue' /\ queue'[i - 1] = queue[i]
  <2> HIDE DEF head
  <2>1. head = Head(queue)
    BY DEF head
  <2> QED
    BY <1>1, <1>2, <2>1, TakeHead
<1> HIDE DEF head
<1>4. head.kind \in {"reset", "setup", "in", "out"}
  BY <1>3, EventFields
<1>5. /\ ~Live(event) /\ event.kind = "none" /\ ~IsCompletion(event)
      /\ IsStale(head) <=> IsCompletion(head) /\ ~Live(head)
  BY <1>1 DEF Live, IsCompletion, NoEvent, IsStale
<1>6. /\ event'.kind # "setup_again"
      /\ event'.kind = "setup" <=> head.kind = "setup"
      /\ event'.kind = "reset" <=> head.kind = "reset"
      /\ Live(event)' <=> Live(head)
      /\ IsCompletion(event)' => Live(head) /\ event' = head
      /\ event'.kind \in {"setup", "reset"} => event' = head
  <2>1. CASE IsStale(head) /\ event' = NoEvent
    BY <1>5, <2>1 DEF Live, IsCompletion, NoEvent
  <2>2. CASE ~IsStale(head) /\ event' = head
    BY <1>1, <1>4, <1>5, <2>2 DEF Live, IsCompletion
  <2> QED
    BY <1>1, <2>1, <2>2
<1>7. \A i \in DOMAIN queue' : Live(queue[i])' <=> Live(queue[i + 1])
  BY <1>1, <1>3 DEF Live, IsCompletion
<1>8. \A kind : (\E i \in DOMAIN queue : queue[i].kind = kind)
                  <=> Head(queue).kind = kind
                        \/ \E i \in DOMAIN Tail(queue) : Tail(queue)[i].kind = kind
  <2>1. queue # <<>> /\ queue \in Seq(Events)
    BY <1>1, <1>2
  <2> QED
    BY <2>1, HeadOrTail
<1>9. /\ SetupQueued <=> head.kind = "setup" \/ SetupQueued'
      /\ ResetQueued <=> head.kind = "reset" \/ ResetQueued'
  BY <1>1, <1>8 DEF SetupQueued, ResetQueued, head
<1>10. /\ SetupPending' <=> SetupPending
       /\ ResetPending' <=> ResetPending
  BY <1>5, <1>6, <1>9 DEF SetupPending, ResetPending
<1>11. NoToken => NoToken' /\ ~Live(head)
  BY <1>3, <1>6, <1>7 DEF NoToken
<1>12. Token("in") => Token("in")'
  <2> SUFFICES ASSUME Token("in") PROVE Token("in")'
    OBVIOUS
  <2>1. Live(event)' => event'.kind = "in"
    BY <1>3, <1>6 DEF Token, Live, IsCompletion
  <2>2. \A i \in DOMAIN queue' : Live(queue[i])' => queue'[i].kind = "in"
    BY <1>3, <1>7 DEF Token
  <2>3. PICK i \in DOMAIN queue : Live(queue[i])
    BY <1>5 DEF Token
  <2>4. Live(event)' \/ \E j \in DOMAIN queue' : Live(queue[j])'
    BY <1>1, <1>3, <1>6, <1>7, <2>3 DEF Live, IsCompletion
  <2> QED
    BY <2>1, <2>2, <2>4 DEF Token
<1>13. Token("out") => Token("out")'
  <2> SUFFICES ASSUME Token("out") PROVE Token("out")'
    OBVIOUS
  <2>1. Live(event)' => event'.kind = "out"
    BY <1>3, <1>6 DEF Token, Live, IsCompletion
  <2>2. \A i \in DOMAIN queue' : Live(queue[i])' => queue'[i].kind = "out"
    BY <1>3, <1>7 DEF Token
  <2>3. PICK i \in DOMAIN queue : Live(queue[i])
    BY <1>5 DEF Token
  <2>4. Live(event)' \/ \E j \in DOMAIN queue' : Live(queue[j])'
    BY <1>1, <1>3, <1>6, <1>7, <2>3 DEF Live, IsCompletion
  <2> QED
    BY <2>1, <2>2, <2>4 DEF Token
<1>14. DataToken => DataToken'
  <2> SUFFICES ASSUME DataToken PROVE DataToken'
    OBVIOUS
  <2>1. Live(event)' => event'.buf.index # 0
    BY <1>3, <1>6 DEF DataToken, Live
  <2>2. \A i \in DOMAIN queue' : Live(queue[i])' => queue'[i].buf.index # 0
    BY <1>3, <1>7 DEF DataToken
  <2> QED
    BY <2>1, <2>2 DEF DataToken
<1>15. head.kind = "setup" => /\ ~SetupQueued' /\ head.request = current
                              /\ ResetQueued' <=> host.stage = "reset"
  <2> SUFFICES ASSUME head.kind = "setup"
               PROVE  /\ ~SetupQueued' /\ head.request = current
                      /\ ResetQueued' <=> host.stage = "reset"
    OBVIOUS
  <2>1. /\ head.request = current
        /\ host.stage = "reset" <=> 1 # Len(queue)
        /\ \A j \in DOMAIN queue : 1 < j => queue[j].kind = "reset"
    BY <1>3 DEF IInv, Start
  <2>2. \A j \in DOMAIN queue' : queue'[j].kind = "reset"
    <3> SUFFICES ASSUME NEW j \in DOMAIN queue' PROVE queue'[j].kind = "reset"
      OBVIOUS
    <3>1. j + 1 \in DOMAIN queue /\ queue'[j] = queue[j + 1] /\ 1 < j + 1
      BY <1>3, LenProperties
    <3> QED
      BY <2>1, <3>1
  <2>3. (\E j \in DOMAIN queue' : TRUE) <=> 1 # Len(queue)
    <3>1. DOMAIN queue' = 1 .. Len(queue) - 1 /\ Len(queue) > 0
      BY <1>1, <1>2, <1>3, LenProperties
    <3> QED
      BY <1>3, <3>1
  <2> QED
    BY <2>1, <2>2, <2>3 DEF SetupQueued, ResetQueued
<1>16. Types'
  BY <1>1, <1>2, <1>3 DEF IInv, Types
<1>17. Start'
  <2>1. ASSUME NEW i \in DOMAIN queue', queue'[i].kind = "setup"
        PROVE  /\ queue'[i].request = current'
               /\ host'.stage = "reset" <=> i # Len(queue')
               /\ \A j \in DOMAIN queue' : i < j => queue'[j].kind = "reset"
    <3>1. i + 1 \in DOMAIN queue /\ queue[i + 1].kind = "setup" /\ i \in Nat
      BY <1>3, <2>1
    <3>2. /\ queue[i + 1].request = current
          /\ host.stage = "reset" <=> i + 1 # Len(queue)
          /\ \A j \in DOMAIN queue : i + 1 < j => queue[j].kind = "reset"
      BY <3>1 DEF IInv, Start
    <3>3. ASSUME NEW j \in DOMAIN queue', i < j PROVE queue'[j].kind = "reset"
      <4>1. j + 1 \in DOMAIN queue /\ queue'[j] = queue[j + 1] /\ j \in Nat
        BY <1>3
      <4>2. i + 1 < j + 1
        BY <3>1, <3>3, <4>1
      <4> QED
        BY <3>2, <4>1, <4>2
    <3>4. host'.stage = "reset" <=> i # Len(queue')
      BY <1>1, <1>3, <3>1, <3>2
    <3> QED
      BY <1>2, <1>3, <3>2, <3>3, <3>4
  <2>2. event'.kind \in {"setup", "setup_again"} => event'.request = current'
    BY <1>2, <1>6, <1>15
  <2>3. SetupPending' => /\ in_buf' = NoBuffer /\ out_buf' = NoBuffer /\ NoToken'
                         /\ current'.id > 0
    BY <1>1, <1>2, <1>10, <1>11 DEF IInv, Start
  <2>4. SetupQueued' => event'.kind \in {"none", "reset", "in", "out"}
    BY <1>1, <1>4, <1>15 DEF NoEvent
  <2> QED
    BY <2>1, <2>2, <2>3, <2>4 DEF Start
<1>18. Completing'
  <2>1. \A i \in DOMAIN queue' :
          IsCompletion(queue[i])' => queue'[i].generation <= current'.id
    BY <1>2, <1>3 DEF IInv, Completing, IsCompletion
  <2>2. ASSUME IsCompletion(event)'
        PROVE  Live(event)' /\ \A i \in DOMAIN queue' : ~Live(queue[i])'
    <3>1. Live(queue[1])
      BY <1>3, <1>6, <2>2
    <3> QED
      BY <1>3, <1>6, <1>7, <2>2, <3>1 DEF IInv, Completing
  <2>3. ASSUME NEW i \in DOMAIN queue', NEW j \in DOMAIN queue',
               Live(queue[i])', Live(queue[j])'
        PROVE  i = j
    <3>1. i + 1 = j + 1
      BY <1>3, <1>7, <2>3 DEF IInv, Completing
    <3> QED
      BY <1>3, <3>1
  <2> QED
    BY <2>1, <2>2, <2>3 DEF Completing
<1>19. DataKept'
  <2>1. out_buf'.kind = "armed" /\ out_buf'.index # 0 => last_packet'.id = out_buf'.id
    BY <1>1 DEF IInv, DataKept
  <2>2. Live(event)' /\ event'.kind = "out" /\ event'.buf.index # 0 =>
          last_packet'.id = event'.buf.id
    BY <1>1, <1>3, <1>6 DEF IInv, DataKept, Live
  <2>3. \A i \in DOMAIN queue' :
          Live(queue[i])' /\ queue'[i].kind = "out" /\ queue'[i].buf.index # 0 =>
            last_packet'.id = queue'[i].buf.id
    BY <1>1, <1>3, <1>7 DEF IInv, DataKept
  <2> QED
    BY <2>1, <2>2, <2>3 DEF DataKept
<1>20. Phase'
  <2> SUFFICES ASSUME host.stage \notin {"idle", "reset"}
               PROVE  \/ Starting' \/ Refused' \/ ReadingData' \/ ReadingStatus'
                      \/ Writing' \/ Commanding' \/ Ignoring'
    BY <1>1 DEF Phase
  <2>1. NotAgain /\ NotAgain'
    BY <1>5, <1>6 DEF NotAgain
  <2>2. Sent(host.got)' = Sent(host.got) /\ Sent(host.got + 1)' = Sent(host.got + 1)
        /\ Sent(current.packets)' = Sent(current.packets)
    BY <1>1, <1>2 DEF Sent
  <2>3. CASE Starting
    BY <1>1, <1>2, <1>10, <2>1, <2>3 DEF Starting, FirstStage
  <2>4. CASE Refused
    BY <1>1, <1>2, <1>10, <1>11, <2>1, <2>4 DEF Refused
  <2>5. CASE ReadingData
    <3>1. /\ current.kind = "read" /\ host.stage = "data_in" /\ ~SetupPending
          /\ host.got < current.packets /\ out_buf = NoBuffer
      BY <2>5 DEF ReadingData
    <3>2. \/ in_buf = Armed(current.id, host.got + 1) /\ NoToken /\ Sent(host.got + 1)
          \/ in_buf = NoBuffer /\ Token("in") /\ Sent(host.got) /\ host.got > 0
      BY <2>5 DEF ReadingData
    <3>3. \/ (in_buf = Armed(current.id, host.got + 1))' /\ NoToken' /\ Sent(host.got + 1)'
          \/ (in_buf = NoBuffer)' /\ Token("in")' /\ Sent(host.got)' /\ (host.got > 0)'
      BY <1>1, <1>2, <1>11, <1>12, <2>2, <3>2 DEF Armed
    <3> QED
      BY <1>1, <1>2, <1>10, <2>1, <3>1, <3>3 DEF ReadingData
  <2>6. CASE ReadingStatus
    BY <1>1, <1>2, <1>10, <1>11, <1>12, <2>1, <2>2, <2>6 DEF ReadingStatus, Armed
  <2>7. CASE Writing
    BY <1>1, <1>2, <1>10, <1>11, <1>13, <1>14, <2>1, <2>7 DEF Writing, Armed
  <2>8. CASE Commanding
    BY <1>1, <1>2, <1>10, <1>11, <2>1, <2>8 DEF Commanding, Armed
  <2>9. CASE Ignoring
    BY <1>1, <1>2, <1>10, <1>11, <2>1, <2>9 DEF Ignoring
  <2> QED
    BY <2>3, <2>4, <2>5, <2>6, <2>7, <2>8, <2>9 DEF IInv, Phase
<1>21. ResetFirst'
  <2>1. ResetPending' => host'.address = 0
    BY <1>1, <1>10 DEF IInv, ResetFirst
  <2>2. ResetPending' /\ host'.stage # "reset" => SetupQueued'
    BY <1>1, <1>6, <1>9, <1>10, <1>15 DEF IInv, ResetFirst, ResetPending
  <2>3. ASSUME SetupPending', host'.stage = "reset" PROVE ResetQueued'
    <3>1. CASE head.kind = "setup"
      BY <1>1, <1>15, <2>3, <3>1
    <3>2. CASE head.kind # "setup"
      <4>1. PICK i \in DOMAIN queue' : queue'[i].kind = "setup"
        BY <1>6, <2>3, <3>2 DEF SetupPending, SetupQueued
      <4>2. /\ i # Len(queue')
            /\ \A j \in DOMAIN queue' : i < j => queue'[j].kind = "reset"
        BY <1>17, <2>3, <4>1 DEF Start
      <4>3. Len(queue') \in DOMAIN queue' /\ i < Len(queue')
        <5>1. DOMAIN queue' = 1 .. Len(queue') /\ Len(queue') \in Nat
          BY <1>3, LenProperties
        <5> QED
          BY <4>1, <4>2, <5>1
      <4> QED
        BY <4>2, <4>3 DEF ResetQueued
    <3> QED
      BY <3>1, <3>2
  <2> QED
    BY <2>1, <2>2, <2>3 DEF ResetFirst
<1>22. Addressing'
  <2>1. ASSUME address.pending, SetupPending PROVE ResetComes' /\ event'.kind # "setup"
    <3>1. PICK j \in DOMAIN queue :
            /\ queue[j].kind = "reset"
            /\ \A i \in DOMAIN queue : queue[i].kind = "setup" => j < i
      BY <1>5, <2>1 DEF IInv, Addressing, ResetComes
    <3>2. DOMAIN queue = 1 .. Len(queue)
      BY <1>2, LenProperties
    <3>3. head.kind # "setup"
      <4> SUFFICES ASSUME queue[1].kind = "setup" PROVE FALSE
        BY <1>3
      <4>1. j < 1
        BY <1>3, <3>1
      <4> QED
        BY <3>2, <4>1
    <3>4. CASE j = 1
      <4>1. head.kind = "reset"
        BY <1>3, <3>1, <3>4
      <4>2. event'.kind = "reset"
        BY <1>6, <4>1
      <4> QED
        BY <4>2 DEF ResetComes
    <3>5. CASE j # 1
      <4>1. j - 1 \in DOMAIN queue' /\ queue'[j - 1].kind = "reset"
        BY <1>3, <3>1, <3>5
      <4>2. ASSUME NEW i \in DOMAIN queue', queue'[i].kind = "setup" PROVE j - 1 < i
        <5>1. i + 1 \in DOMAIN queue /\ queue[i + 1].kind = "setup" /\ i \in Nat
          BY <1>3, <4>2
        <5>2. j < i + 1
          BY <3>1, <5>1
        <5> QED
          BY <1>3, <3>2, <5>1, <5>2
      <4> QED
        BY <1>6, <3>3, <4>1, <4>2 DEF ResetComes
    <3> QED
      BY <3>4, <3>5
  <2>2. ASSUME address.pending, ~SetupPending
        PROVE  /\ current.kind = "address" /\ address.new = current.id
               /\ address.active < current.id
               /\ host.stage \notin {"idle", "reset"} \/ host.address = current.id
                 \/ ResetPending'
               /\ Live(event)' => host.address = current.id \/ ResetQueued'
               /\ \A i \in DOMAIN queue' : Live(queue[i])' =>
                    \/ host.address = current.id
                    \/ \E j \in DOMAIN queue' : i < j /\ queue'[j].kind = "reset"
    <3>1. /\ current.kind = "address" /\ address.new = current.id
          /\ address.active < current.id
          /\ host.stage \notin {"idle", "reset"} \/ host.address = current.id
                 \/ ResetPending'
      BY <1>10, <2>2 DEF IInv, Addressing
    <3>2. \A i \in DOMAIN queue : Live(queue[i]) =>
            \/ host.address = current.id
            \/ \E j \in DOMAIN queue : i < j /\ queue[j].kind = "reset"
      BY <2>2 DEF IInv, Addressing
    <3>3. ASSUME NEW i \in DOMAIN queue, Live(queue[i]), host.address # current.id
          PROVE  \E j \in DOMAIN queue' : i - 1 < j /\ queue'[j].kind = "reset"
      <4>1. PICK j \in DOMAIN queue : i < j /\ queue[j].kind = "reset"
        BY <3>2, <3>3
      <4>2. i \in 1 .. Len(queue) /\ j \in 1 .. Len(queue)
        BY <1>2, LenProperties
      <4>3. j # 1 /\ i - 1 < j - 1
        BY <4>1, <4>2
      <4> QED
        BY <1>3, <4>1, <4>3
    <3>4. Live(event)' => host.address = current.id \/ ResetQueued'
      <4> SUFFICES ASSUME Live(event)', host.address # current.id PROVE ResetQueued'
        OBVIOUS
      <4> QED
        BY <1>3, <1>6, <3>3 DEF ResetQueued
    <3>5. ASSUME NEW i \in DOMAIN queue', Live(queue[i])', host.address # current.id
          PROVE  \E j \in DOMAIN queue' : i < j /\ queue'[j].kind = "reset"
      <4>1. Live(queue[i + 1]) /\ i + 1 \in DOMAIN queue /\ i \in Nat
        BY <1>3, <1>7, <3>5
      <4>2. (i + 1) - 1 = i
        BY <4>1
      <4> QED
        BY <3>3, <3>5, <4>1, <4>2
    <3> QED
      BY <3>1, <3>4, <3>5
  <2> QED
    BY <1>1, <1>2, <1>10, <2>1, <2>2 DEF IInv, Addressing
<1>23. Over'
  <2> SUFFICES ASSUME host.stage = "idle"
               PROVE  /\ ~SetupPending' /\ event'.kind # "setup_again"
                      /\ Live(event)' => Harmless(event)'
                      /\ \A i \in DOMAIN queue' : Live(queue[i])' => Harmless(queue[i])'
    BY <1>1 DEF Over
  <2>1. ~SetupPending /\ \A i \in DOMAIN queue : Live(queue[i]) => Harmless(queue[i])
    BY DEF IInv, Over
  <2>2. Live(event)' => Harmless(event)'
    BY <1>1, <1>3, <1>6, <2>1 DEF Harmless, Live
  <2>3. \A i \in DOMAIN queue' : Live(queue[i])' => Harmless(queue[i])'
    BY <1>1, <1>3, <1>7, <2>1 DEF Harmless
  <2> QED
    BY <1>6, <1>10, <2>1, <2>2, <2>3
<1> QED
  BY <1>16, <1>17, <1>18, <1>19, <1>20, <1>21, <1>22, <1>23 DEF IInv

-------------------------------------------------------------------------------
(* The host's steps *)

\* What putting an element at the end adds.
LEMMA PutLast ==
  ASSUME NEW S, NEW s \in Seq(S), NEW e \in S
  PROVE  /\ Append(s, e) \in Seq(S) /\ Len(Append(s, e)) = Len(s) + 1 /\ Len(s) \in Nat
         /\ Len(s) + 1 \in DOMAIN Append(s, e) /\ Append(s, e)[Len(s) + 1] = e
         /\ \A i \in DOMAIN s : i \in DOMAIN Append(s, e) /\ Append(s, e)[i] = s[i]
                                /\ i \in Nat /\ i < Len(s) + 1
         /\ \A i \in DOMAIN Append(s, e) : i \in DOMAIN s \/ i = Len(s) + 1
  OBVIOUS

\* The host's state, field by field.
LEMMA HostFields ==
  ASSUME IInv
  PROVE  /\ host.request = current /\ current \in SomeRequests
         /\ current.id \in 0 .. MaxTransfers /\ current.packets \in 0 .. MaxPackets
         /\ host.got \in 0 .. MaxPackets /\ host.address \in Ids /\ host.resets \in Nat
         /\ host.stage \in Stages
         /\ host = [request |-> host.request, got |-> host.got, address |-> host.address,
                    resets |-> host.resets, stage |-> host.stage]
         /\ current.id \in Ids /\ control_generation = current.id
<1>1. /\ host \in [request : SomeRequests, got : 0 .. MaxPackets, address : Ids, resets : Nat,
                   stage : Stages]
      /\ control_generation = current.id
  BY DEF IInv, Types
<1>2. current \in SomeRequests
  BY <1>1 DEF current
<1> QED
  BY <1>1, <1>2, RequestFields DEF current, Ids

LEMMA SetupStep == ASSUME IInv, Setup, ~AbandonsAnyTime PROVE IInv'
<1>1. /\ host.request.id < MaxTransfers /\ address.active = host.address
      /\ \/ host.stage = "idle"
         \/ /\ host.stage = "reset" \/ host.request.kind # "address"
            /\ event = NoEvent /\ ~SetupQueued
      /\ event' = event
      /\ control_generation' = control_generation + 1
      /\ in_buf' = NoBuffer /\ out_buf' = NoBuffer
      /\ UNCHANGED <<transfer, last_packet, address>>
  BY DEF Setup, device
<1>2. PICK request \in Requests(host.request.id + 1) :
        /\ host' = [host EXCEPT !.request = request, !.got = 0,
                                !.stage = FirstStage(request.kind)]
        /\ queue' = Append(queue, [kind |-> "setup", request |-> request])
  BY DEF Setup
<1>3. /\ host.request = current
      /\ current.id \in 0 .. MaxTransfers /\ host.address \in Ids /\ host.resets \in Nat
      /\ host = [request |-> host.request, got |-> host.got, address |-> host.address,
                 resets |-> host.resets, stage |-> host.stage]
      /\ control_generation = current.id
  BY HostFields
<1>4. PICK next \in Nat : next = current.id + 1
  BY <1>3
<1>5. request.id = next /\ next \in Ids /\ current.id < next /\ 0 < next
  <2>1. request.id = host.request.id + 1
    BY DEF Requests
  <2>2. current.id < MaxTransfers /\ current.id \in 0 .. MaxTransfers
    BY <1>1, <1>3
  <2>3. next \in Ids /\ current.id < next /\ 0 < next
    BY <1>4, <2>2, BoundsAssumption DEF Ids
  <2> QED
    BY <1>3, <1>4, <2>1, <2>3
<1>6. request \in SomeRequests
  <2>1. CASE request \in [id : {next}, kind : {"read"}, packets : 1 .. MaxPackets]
    BY <1>5, <2>1 DEF SomeRequests
  <2>2. CASE request \in [id : {next}, kind : {"write", "command", "address", "ignored"},
                          packets : {0}]
    BY <1>5, <2>2 DEF SomeRequests
  <2> QED
    BY <1>2, <1>3, <1>4, <2>1, <2>2 DEF Requests
<1>7. FirstStage(request.kind) \in {"data_in", "data_out", "status_in"}
  BY <1>6, RequestFields DEF FirstStage
<1>8. PICK first \in {"data_in", "data_out", "status_in"} : first = FirstStage(request.kind)
  BY <1>7
<1>9. /\ host' = [request |-> request, got |-> 0, address |-> host.address,
                  resets |-> host.resets, stage |-> first]
      /\ current' = request
  BY <1>2, <1>3, <1>8 DEF current
<1> DEFINE new == [kind |-> "setup", request |-> request]
<1>10. /\ new \in Events /\ queue \in Seq(Events) /\ queue' = Append(queue, new)
       /\ new.kind = "setup" /\ new.request = request
  BY <1>2, <1>6 DEF Events, Setups, IInv, Types
<1> HIDE DEF new
<1>11. /\ queue' \in Seq(Events) /\ Len(queue') = Len(queue) + 1
       /\ Len(queue) + 1 \in DOMAIN queue' /\ queue'[Len(queue) + 1] = new
       /\ \A i \in DOMAIN queue : i \in DOMAIN queue' /\ queue'[i] = queue[i]
       /\ \A i \in DOMAIN queue' : i \in DOMAIN queue \/ i = Len(queue) + 1
  <2>1. new \in Events /\ queue \in Seq(Events)
    BY <1>10
  <2> QED
    BY <1>10, <2>1, PutLast
<1>12. \A i \in DOMAIN queue' : ~Live(queue[i])'
  <2> SUFFICES ASSUME NEW i \in DOMAIN queue', IsCompletion(queue[i])'
               PROVE  queue'[i].generation # control_generation'
    BY DEF Live
  <2>1. i \in DOMAIN queue /\ queue'[i] = queue[i]
    BY <1>10, <1>11 DEF IsCompletion
  <2>2. IsCompletion(queue[i])
    BY <2>1 DEF IsCompletion
  <2>3. queue[i].generation <= current.id /\ queue[i].generation \in Ids
    BY <1>10, <2>1, <2>2, ElementOfSeq, EventFields DEF IInv, Completing, IsCompletion
  <2> QED
    BY <1>1, <1>3, <2>1, <2>3 DEF Ids
<1>13. /\ ~SetupQueued /\ ~SetupPending
       /\ event.kind \in {"none", "in", "out"}
       /\ IsCompletion(event) => Harmless(event) /\ Live(event)
       /\ address.pending => ResetQueued /\ event.kind = "none"
  <2>1. CASE host.stage = "idle"
    <3>1. ~SetupPending /\ ~SetupQueued /\ event.kind # "setup_again"
          /\ (Live(event) => Harmless(event))
      BY <2>1 DEF IInv, Over, SetupPending
    <3>2. ~ResetPending
      BY <2>1, <3>1 DEF IInv, ResetFirst
    <3>3. event.kind \in {"none", "in", "out"}
      BY <3>1, <3>2, InHandFields DEF IInv, SetupPending, ResetPending
    <3>4. IsCompletion(event) => Live(event)
      BY <3>1 DEF IInv, Completing
    <3>5. ~address.pending
      BY <1>1, <1>3, <2>1, <3>1, <3>2 DEF IInv, Addressing
    <3> QED
      BY <3>1, <3>3, <3>4, <3>5
  <2>2. CASE /\ host.stage # "idle" /\ event = NoEvent /\ ~SetupQueued
             /\ host.stage = "reset" \/ host.request.kind # "address"
    <3>1. event.kind = "none" /\ ~IsCompletion(event) /\ ~SetupPending
      BY <2>2 DEF NoEvent, IsCompletion, SetupPending
    <3>2. ASSUME address.pending PROVE ResetQueued
      <4>1. /\ current.kind = "address" /\ address.active < current.id
            /\ host.stage \notin {"idle", "reset"} \/ host.address = current.id \/ ResetPending
        BY <3>1, <3>2 DEF IInv, Addressing
      <4>2. host.address # current.id
        BY <1>1, <1>3, <4>1
      <4>3. ResetPending
        BY <1>3, <2>2, <4>1, <4>2
      <4> QED
        BY <3>1, <4>3 DEF ResetPending
    <3> QED
      BY <2>2, <3>1, <3>2
  <2> QED
    BY <1>1, <2>1, <2>2
<1>14. NoToken'
  <2>1. ~Live(event)'
    BY <1>1, <1>3, <1>4, <1>13 DEF Live, IsCompletion
  <2> QED
    BY <1>12, <2>1 DEF NoToken
<1>15. SetupQueued' /\ SetupPending'
  BY <1>10, <1>11 DEF SetupQueued, SetupPending
<1>16. ResetPending' <=> ResetPending
  BY <1>1, <1>10, <1>11 DEF ResetPending, ResetQueued
<1>17. Types'
  <2>1. /\ host' \in [request : SomeRequests, got : 0 .. MaxPackets, address : Ids,
                      resets : Nat,
                      stage : Stages]
        /\ control_generation' = current'.id
    BY <1>1, <1>3, <1>4, <1>5, <1>6, <1>9, BoundsAssumption DEF Stages
  <2> QED
    BY <1>1, <1>11, <2>1, ArmedTypes DEF IInv, Types
<1>18. Start'
  <2>1. ASSUME NEW i \in DOMAIN queue', queue'[i].kind = "setup"
        PROVE  i = Len(queue') /\ queue'[i].request = current'
    BY <1>9, <1>10, <1>11, <1>13, <2>1 DEF SetupQueued
  <2>2. current'.id > 0
    BY <1>5, <1>9
  <2>3. \A j \in DOMAIN queue' : ~(Len(queue') < j)
    BY <1>11, LenProperties
  <2>4. host'.stage # "reset"
    BY <1>8, <1>9
  <2> QED
    BY <1>1, <1>13, <1>14, <2>1, <2>2, <2>3, <2>4 DEF Start
<1>19. Completing'
  <2>1. ASSUME NEW i \in DOMAIN queue', IsCompletion(queue[i])'
        PROVE  queue'[i].generation <= current'.id
    <3>1. i \in DOMAIN queue /\ queue'[i] = queue[i]
      BY <1>10, <1>11, <2>1 DEF IsCompletion
    <3>2. queue[i].generation <= current.id /\ queue[i].generation \in Ids
      BY <1>10, <2>1, <3>1, ElementOfSeq, EventFields DEF IInv, Completing, IsCompletion
    <3>3. queue[i].generation <= next
      BY <1>3, <1>4, <3>2 DEF Ids
    <3> QED
      BY <1>5, <1>9, <3>1, <3>3
  <2>2. IsCompletion(event)' => SetupQueued' /\ Harmless(event)' /\ ~address'.pending
    BY <1>1, <1>13, <1>15 DEF IsCompletion, Harmless
  <2> QED
    BY <1>12, <2>1, <2>2 DEF Completing
<1>20. DataKept'
  BY <1>1, <1>14 DEF DataKept, NoToken, NoBuffer
<1>21. Phase'
  <2>1. host'.stage = FirstStage(current'.kind) /\ host'.got = 0
    BY <1>8, <1>9
  <2>2. Starting'
    BY <1>1, <1>13, <1>15, <2>1 DEF Starting, NotAgain, FirstStage
  <2> QED
    BY <2>2 DEF Phase
<1>22. ResetFirst'
  BY <1>8, <1>9, <1>15, <1>16 DEF IInv, ResetFirst
<1>23. Addressing'
  <2>1. address.active \in Ids /\ address.active <= current.id
    BY DEF IInv, Addressing, Types
  <2>2. address.active < current'.id /\ address.active <= current'.id
    BY <1>3, <1>4, <1>5, <1>9, <2>1 DEF Ids
  <2>3. ASSUME address.pending PROVE ResetComes'
    <3>1. PICK j \in DOMAIN queue : queue[j].kind = "reset"
      BY <1>13, <2>3 DEF ResetQueued
    <3>2. j \in DOMAIN queue' /\ queue'[j].kind = "reset" /\ j < Len(queue) + 1
      BY <1>10, <1>11, <3>1, LenProperties
    <3>3. \A i \in DOMAIN queue' : queue'[i].kind = "setup" => i = Len(queue) + 1
      BY <1>11, <1>13 DEF SetupQueued
    <3> QED
      BY <3>2, <3>3 DEF ResetComes
  <2>4. event'.kind # "setup"
    BY <1>1, <1>13
  <2> QED
    BY <1>1, <1>15, <2>2, <2>3, <2>4 DEF Addressing
<1>24. Over'
  BY <1>8, <1>9 DEF Over
<1> QED
  BY <1>17, <1>18, <1>19, <1>20, <1>21, <1>22, <1>23, <1>24 DEF IInv

LEMMA HostIsRefusedStep == ASSUME IInv, HostIsRefused PROVE IInv'
<1>1. /\ host' = [host EXCEPT !.stage = "idle"]
      /\ UNCHANGED <<queue, control_generation, in_buf, out_buf, event, transfer, last_packet,
                     address>>
      /\ host.stage \notin {"idle", "reset"}
      /\ \/ host.stage \in {"data_in", "status_in"} /\ in_buf = Stalled
         \/ host.stage \in {"data_out", "status_out"} /\ out_buf = Stalled
  <2>1. /\ in_buf.kind = "stall" => in_buf = Stalled
        /\ out_buf.kind = "stall" => out_buf = Stalled
    BY DEF IInv, Types, Buffers, NoBuffer, Stalled
  <2> QED
    BY <2>1 DEF HostIsRefused, buffers, device
<1>2. /\ host' = [request |-> host.request, got |-> host.got, address |-> host.address,
                  resets |-> host.resets, stage |-> "idle"]
      /\ current' = current
  BY <1>1, HostFields DEF current
<1>3. ~SetupPending
  BY <1>1 DEF IInv, Start, NoBuffer, Stalled
<1>4. current.kind # "address" /\ NoToken /\ NotAgain
  <2>1. Stalled # NoBuffer /\ \A id, index : Stalled # Armed(id, index)
    BY DEF Stalled, NoBuffer, Armed
  <2>2. ~ReadingData /\ ~ReadingStatus /\ ~Writing
    BY <1>1, <2>1 DEF ReadingData, ReadingStatus, Writing
  <2>3. ~Commanding /\ ~Ignoring /\ ~Starting
    BY <1>1, <1>3, <2>1 DEF Commanding, Ignoring, Starting
  <2> QED
    BY <1>1, <2>2, <2>3 DEF IInv, Phase, Refused
<1>5. Types'
  <2>1. host' \in [request : SomeRequests, got : 0 .. MaxPackets, address : Ids,
                   resets : Nat, stage : Stages]
    BY <1>2, HostFields DEF Stages
  <2> QED
    BY <1>1, <1>2, <2>1 DEF IInv, Types
<1>6. ~SetupPending' /\ ~SetupQueued' /\ (ResetPending' <=> ResetPending)
  BY <1>1, <1>3 DEF SetupPending, SetupQueued, ResetPending, ResetQueued
<1>7. /\ Live(event)' <=> Live(event)
      /\ IsCompletion(event)' <=> IsCompletion(event)
      /\ \A i \in DOMAIN queue : /\ Live(queue[i])' <=> Live(queue[i])
                                 /\ IsCompletion(queue[i])' <=> IsCompletion(queue[i])
  BY <1>1 DEF Live, IsCompletion
<1>8. Start'
  <2>1. \A i \in DOMAIN queue : queue[i].kind # "setup"
    BY <1>3 DEF SetupPending, SetupQueued
  <2> QED
    BY <1>1, <1>2, <1>6, <2>1 DEF IInv, Start
<1>9. Completing'
  <2>1. ~SetupQueued
    BY <1>3 DEF SetupPending
  <2> QED
    BY <1>1, <1>2, <1>7, <2>1 DEF IInv, Completing
<1>10. DataKept'
  BY <1>1, <1>7 DEF IInv, DataKept
<1>11. Phase'
  BY <1>2 DEF Phase
<1>12. ResetFirst'
  BY <1>1, <1>2, <1>3, <1>6 DEF IInv, ResetFirst, SetupPending
<1>13. Addressing'
  <2>1. ~address.pending
    BY <1>3, <1>4 DEF IInv, Addressing
  <2> QED
    BY <1>1, <1>2, <1>6, <2>1 DEF IInv, Addressing
<1>14. Over'
  BY <1>1, <1>4, <1>6, <1>7 DEF Over, NoToken, NotAgain
<1> QED
  BY <1>5, <1>8, <1>9, <1>10, <1>11, <1>12, <1>13, <1>14 DEF IInv

LEMMA BusResetStep == ASSUME IInv, BusReset PROVE IInv'
<1> DEFINE new == [kind |-> "reset"]
<1>1. /\ host' = [host EXCEPT !.stage = "reset", !.address = 0, !.resets = @ + 1]
      /\ queue' = Append(queue, new)
      /\ UNCHANGED <<control_generation, in_buf, out_buf, event, transfer, last_packet,
                     address>>
  BY DEF BusReset, buffers, device
<1>2. new.kind = "reset" /\ new \in Events /\ queue \in Seq(Events)
  BY DEF Events, Resets, IInv, Types
<1> HIDE DEF new
<1>3. PICK resets \in Nat : resets = host.resets + 1
  BY HostFields
<1>4. /\ host' = [request |-> host.request, got |-> host.got, address |-> 0,
                  resets |-> resets, stage |-> "reset"]
      /\ current' = current
  BY <1>1, <1>3, HostFields DEF current
<1>5. /\ queue' \in Seq(Events) /\ Len(queue') = Len(queue) + 1
      /\ Len(queue) + 1 \in DOMAIN queue' /\ queue'[Len(queue) + 1] = new
      /\ \A i \in DOMAIN queue : i \in DOMAIN queue' /\ queue'[i] = queue[i]
                                 /\ i < Len(queue) + 1
      /\ \A i \in DOMAIN queue' : i \in DOMAIN queue \/ i = Len(queue) + 1
  <2>1. new \in Events /\ queue \in Seq(Events)
    BY <1>2
  <2> QED
    BY <1>1, <2>1, PutLast
<1>6. /\ Live(event)' <=> Live(event)
      /\ IsCompletion(event)' <=> IsCompletion(event)
      /\ \A i \in DOMAIN queue : /\ Live(queue[i])' <=> Live(queue[i])
                                 /\ IsCompletion(queue[i])' <=> IsCompletion(queue[i])
      /\ \A i \in DOMAIN queue' :
           IsCompletion(queue[i])' \/ Live(queue[i])' => i \in DOMAIN queue
  BY <1>1, <1>2, <1>5 DEF Live, IsCompletion
<1>7. /\ SetupQueued' <=> SetupQueued
      /\ SetupPending' <=> SetupPending
      /\ ResetQueued' /\ ResetPending'
  BY <1>1, <1>2, <1>5 DEF SetupPending, SetupQueued, ResetPending, ResetQueued
<1>9. Types'
  <2>1. 0 \in Ids
    BY BoundsAssumption DEF Ids
  <2>2. host' \in [request : SomeRequests, got : 0 .. MaxPackets, address : Ids,
                   resets : Nat, stage : Stages]
    BY <1>4, <2>1, HostFields DEF Stages
  <2> QED
    BY <1>1, <1>4, <1>5, <2>1, <2>2 DEF IInv, Types
<1>10. Start'
  <2>1. ASSUME NEW i \in DOMAIN queue', queue'[i].kind = "setup"
        PROVE  /\ queue'[i].request = current'
               /\ host'.stage = "reset" /\ i # Len(queue')
               /\ \A j \in DOMAIN queue' : i < j => queue'[j].kind = "reset"
    <3>1. i \in DOMAIN queue /\ queue[i].kind = "setup" /\ i # Len(queue')
      BY <1>2, <1>5, <2>1
    <3>2. /\ queue[i].request = current
          /\ \A j \in DOMAIN queue : i < j => queue[j].kind = "reset"
      BY <3>1 DEF IInv, Start
    <3> QED
      BY <1>2, <1>4, <1>5, <3>1, <3>2
  <2>2. NoToken => NoToken'
    BY <1>5, <1>6 DEF NoToken
  <2> QED
    BY <1>1, <1>4, <1>7, <2>1, <2>2 DEF IInv, Start
<1>11. Completing'
  <2>1. Harmless(event)' <=> Harmless(event)
    BY <1>1 DEF Harmless
  <2> QED
    BY <1>1, <1>4, <1>5, <1>6, <1>7, <2>1 DEF IInv, Completing
<1>12. DataKept'
  BY <1>1, <1>5, <1>6 DEF IInv, DataKept
<1>13. Phase'
  BY <1>4 DEF Phase
<1>14. ResetFirst'
  BY <1>4, <1>7 DEF ResetFirst
<1>15. Addressing'
  <2>1. ASSUME address.pending, SetupPending PROVE ResetComes' /\ event'.kind # "setup"
    <3>1. ResetComes /\ event.kind # "setup"
      BY <2>1 DEF IInv, Addressing
    <3>2. CASE event.kind = "reset"
      BY <1>1, <3>2 DEF ResetComes
    <3>3. ASSUME NEW j \in DOMAIN queue, queue[j].kind = "reset",
                 \A i \in DOMAIN queue : queue[i].kind = "setup" => j < i
          PROVE  ResetComes'
      <4>1. j \in DOMAIN queue' /\ queue'[j].kind = "reset"
        BY <1>5, <3>3
      <4>2. \A i \in DOMAIN queue' : queue'[i].kind = "setup" => j < i
        BY <1>2, <1>5, <3>3
      <4> QED
        BY <4>1, <4>2 DEF ResetComes
    <3> QED
      BY <1>1, <3>1, <3>2, <3>3 DEF ResetComes
  <2>2. \A i \in DOMAIN queue' : Live(queue[i])' =>
          \E j \in DOMAIN queue' : i < j /\ queue'[j].kind = "reset"
    BY <1>2, <1>5, <1>6
  <2> QED
    BY <1>1, <1>4, <1>7, <2>1, <2>2 DEF IInv, Addressing
<1>16. Over'
  BY <1>4 DEF Over
<1> QED
  BY <1>9, <1>10, <1>11, <1>12, <1>13, <1>14, <1>15, <1>16 DEF IInv

\* A completed buffer becomes the only completion of the present transfer.
LEMMA OneCompletion ==
  ASSUME IInv, NEW direction \in {"in", "out"}, NEW buf \in ArmedBuffers,
         Completed(direction, buf), NoToken, ~SetupPending,
         UNCHANGED <<control_generation, event>>, current' = current
  PROVE  /\ queue' \in Seq(Events) /\ Start' /\ Completing'
         /\ Token(direction)' /\ (buf.index # 0 => DataToken')
         /\ ~SetupPending' /\ ~SetupQueued' /\ (ResetPending' <=> ResetPending)
         /\ ~Live(event)'
         /\ \A i \in DOMAIN queue' : Live(queue[i])' =>
              queue'[i].kind = direction /\ queue'[i].buf = buf
<1> DEFINE new == [kind |-> direction, buf |-> buf, generation |-> control_generation]
<1>1. PICK e : e = new
  OBVIOUS
<1>2. /\ e \in Events /\ e.kind = direction /\ e.buf = buf /\ e.generation = control_generation
      /\ queue \in Seq(Events) /\ queue' = Append(queue, e)
  BY <1>1, HostFields DEF Events, Completions, IInv, Types, Completed
<1> HIDE DEF new
<1>3. PICK last : last = Len(queue) + 1
  OBVIOUS
<1>4. /\ queue' \in Seq(Events) /\ Len(queue') = last
      /\ last \in DOMAIN queue' /\ queue'[last] = e
      /\ \A i \in DOMAIN queue : i \in DOMAIN queue' /\ queue'[i] = queue[i]
      /\ \A i \in DOMAIN queue' : i \in DOMAIN queue \/ i = last
  <2>1. e \in Events /\ queue \in Seq(Events)
    BY <1>2
  <2> QED
    BY <1>2, <1>3, <2>1, PutLast
<1>5. ~Live(event)' /\ ~IsCompletion(event)'
  BY DEF NoToken, IInv, Completing, IsCompletion, Live, SetupPending
<1>6. \A i \in DOMAIN queue' : Live(queue[i])' <=> i = last
  <2>1. ASSUME NEW i \in DOMAIN queue PROVE ~Live(queue[i])'
    BY <1>4 DEF NoToken, Live, IsCompletion
  <2>2. Live(queue[last])'
    BY <1>2, <1>4 DEF Live, IsCompletion
  <2> QED
    BY <1>4, <2>1, <2>2
<1>7. Completing'
  <2>1. ASSUME NEW i \in DOMAIN queue', IsCompletion(queue[i])'
        PROVE  queue'[i].generation <= current'.id
    <3>1. CASE i \in DOMAIN queue
      BY <1>4, <2>1, <3>1 DEF IInv, Completing, IsCompletion
    <3>2. CASE i = last
      BY <1>2, <1>4, <3>2, HostFields
    <3> QED
      BY <1>4, <3>1, <3>2
  <2> QED
    BY <1>5, <1>6, <2>1 DEF Completing
<1>8. ~SetupPending' /\ ~SetupQueued' /\ (ResetPending' <=> ResetPending)
  <2>1. e.kind \notin {"setup", "reset"}
    BY <1>2
  <2> QED
    BY <1>4, <2>1 DEF SetupPending, SetupQueued, ResetPending, ResetQueued
<1>9. Start'
  <2>1. \A i \in DOMAIN queue' : queue'[i].kind # "setup"
    BY <1>8 DEF SetupQueued
  <2> QED
    BY <1>8, <2>1 DEF IInv, Start
<1>10. \A i \in DOMAIN queue' : Live(queue[i])' =>
         queue'[i].kind = direction /\ queue'[i].buf = buf
  BY <1>2, <1>4, <1>6
<1>11. Token(direction)'
  BY <1>4, <1>5, <1>6, <1>10 DEF Token
<1>12. buf.index # 0 => DataToken'
  BY <1>5, <1>10 DEF DataToken
<1> QED
  BY <1>4, <1>5, <1>7, <1>8, <1>9, <1>10, <1>11, <1>12

LEMMA HostInStep == ASSUME IInv, HostIn PROVE IInv'
<1>1. /\ host.stage \in {"data_in", "status_in"} /\ in_buf.kind = "armed" /\ in_buf' = NoBuffer
      /\ Completed("in", in_buf)
      /\ UNCHANGED <<control_generation, out_buf, event, transfer, last_packet, address>>
  BY DEF HostIn, device
<1>2. ~SetupPending
  BY <1>1 DEF IInv, Start, NoBuffer
<1>3. \/ ReadingData /\ in_buf = Armed(current.id, host.got + 1) /\ NoToken
                     /\ Sent(host.got + 1)
      \/ /\ Writing \/ Commanding
         /\ host.stage = "status_in" /\ host.got = 0 /\ NoToken /\ NotAgain
         /\ ~transfer.read
  <2>1. NoBuffer.kind # "armed" /\ Stalled.kind # "armed"
    BY DEF NoBuffer, Stalled
  <2>2. ~Starting /\ ~Refused /\ ~ReadingStatus /\ ~Ignoring
    BY <1>1, <1>2, <2>1 DEF Starting, Refused, ReadingStatus, Ignoring
  <2>3. CASE ReadingData
    BY <1>1, <2>1, <2>3 DEF ReadingData
  <2>4. CASE Writing
    BY <1>1, <2>1, <2>4 DEF Writing
  <2>5. CASE Commanding
    BY <1>1, <2>5 DEF Commanding
  <2> QED
    BY <1>1, <2>2, <2>3, <2>4, <2>5 DEF IInv, Phase
<1>4. NoToken
  BY <1>3
<1>5. PICK buf \in ArmedBuffers : buf = in_buf
  BY <1>1, ArmedTypes DEF IInv, Types
<1>6. PICK got \in 0 .. MaxPackets : got = host.got + 1
  <2>1. CASE ReadingData
    <3>1. host.got < current.packets
      BY <2>1 DEF ReadingData
    <3>2. host.got \in 0 .. MaxPackets /\ current.packets \in 0 .. MaxPackets
      BY HostFields
    <3>3. host.got + 1 \in 0 .. MaxPackets
      BY <3>1, <3>2, BoundsAssumption
    <3> QED
      BY <3>3
  <2>2. CASE host.got = 0
    BY <2>2, BoundsAssumption
  <2> QED
    BY <1>3, <2>1, <2>2
<1>7. PICK stage \in {"idle", "data_in", "status_out"} :
        stage = IF host.stage = "status_in" THEN "idle"
                ELSE IF got = current.packets THEN "status_out" ELSE "data_in"
  OBVIOUS
<1>8. PICK addressed \in Ids :
        addressed = IF host.stage = "status_in" /\ current.kind = "address"
                    THEN current.id ELSE host.address
  BY HostFields
<1>9. host' = [host EXCEPT !.got = got, !.stage = stage, !.address = addressed]
  <2>1. host.request = current /\ host.got + 1 = got
    BY <1>6 DEF current
  <2> QED
    BY <1>1, <1>7, <1>8, <2>1 DEF HostIn
<1>10. /\ host' = [request |-> current, got |-> got, address |-> addressed,
                   resets |-> host.resets, stage |-> stage]
       /\ current' = current
  BY <1>9, HostFields DEF current
<1>11. /\ queue' \in Seq(Events) /\ Start' /\ Completing'
       /\ Token("in")'
       /\ ~SetupPending' /\ ~SetupQueued' /\ (ResetPending' <=> ResetPending)
       /\ ~Live(event)'
       /\ \A i \in DOMAIN queue' : Live(queue[i])' => queue'[i].kind = "in"
  BY <1>1, <1>2, <1>4, <1>5, <1>10, OneCompletion
<1>12. Types'
  <2>1. host' \in [request : SomeRequests, got : 0 .. MaxPackets, address : Ids,
                   resets : Nat,
                   stage : Stages]
    BY <1>10, HostFields DEF Stages
  <2> QED
    BY <1>1, <1>10, <1>11, <2>1, ArmedTypes DEF IInv, Types
<1>13. DataKept'
  BY <1>1, <1>11 DEF IInv, DataKept
<1>14. Phase'
  <2>1. CASE host.stage = "status_in"
    BY <1>7, <1>10, <2>1 DEF Phase
  <2>2. CASE ReadingData /\ Sent(host.got + 1) /\ host.stage = "data_in"
    <3>1. /\ current.kind = "read" /\ out_buf = NoBuffer /\ host.got < current.packets
          /\ ~NotAgain => host.got = 0 /\ current.packets = 1
      BY <2>2 DEF ReadingData
    <3>2. Sent(got)'
      BY <1>1, <1>6, <1>10, <2>2 DEF Sent
    <3>3. NotAgain' <=> NotAgain
      BY <1>1 DEF NotAgain
    <3>4. CASE got = current.packets
      <4>1. host'.stage = "status_out" /\ host'.got = current.packets
        BY <1>7, <1>10, <2>2, <3>4
      <4>2. Sent(current.packets)'
        BY <1>10, <3>2, <3>4 DEF Sent
      <4>3. ReadingStatus'
        BY <1>1, <1>10, <1>11, <3>1, <3>3, <4>1, <4>2 DEF ReadingStatus
      <4> QED
        BY <4>3 DEF Phase
    <3>5. CASE got # current.packets
      <4>1. host'.stage = "data_in" /\ host'.got = got
        BY <1>7, <1>10, <2>2, <3>5
      <4>2. Sent(host.got)'
        BY <3>2, <4>1 DEF Sent
      <4>3. got < current.packets /\ got > 0 /\ NotAgain
        BY <1>6, <3>1, <3>5, HostFields
      <4>4. ReadingData'
        BY <1>1, <1>10, <1>11, <3>1, <3>3, <4>1, <4>2, <4>3 DEF ReadingData
      <4> QED
        BY <4>4 DEF Phase
    <3> QED
      BY <3>4, <3>5
  <2> QED
    BY <1>1, <1>3, <2>1, <2>2
<1>15. ~ResetPending /\ host.stage # "idle"
  BY <1>1, <1>2 DEF IInv, ResetFirst, SetupPending
<1>16. ResetFirst'
  BY <1>11, <1>15 DEF ResetFirst
<1>17. Addressing'
  <2>1. current.kind = "address" => host'.address = current.id
    <3>1. current.kind = "address" => host.stage = "status_in"
      BY <1>3 DEF ReadingData
    <3> QED
      BY <1>8, <1>10, <3>1
  <2> QED
    BY <1>1, <1>2, <1>10, <1>11, <2>1 DEF IInv, Addressing
<1>18. Over'
  <2> SUFFICES ASSUME stage = "idle"
               PROVE  NotAgain /\ \A i \in DOMAIN queue' : Live(queue[i])' => Harmless(queue[i])'
    BY <1>1, <1>10, <1>11 DEF Over, NotAgain
  <2>1. host.stage = "status_in"
    BY <1>7
  <2>2. NotAgain /\ ~transfer.read
    BY <1>3, <2>1 DEF ReadingData
  <2> QED
    BY <1>1, <1>11, <2>2 DEF Harmless
<1> QED
  BY <1>11, <1>12, <1>13, <1>14, <1>16, <1>17, <1>18 DEF IInv

LEMMA HostOutStep == ASSUME IInv, HostOut PROVE IInv'
<1>1. /\ host.stage \in {"data_out", "status_out"} /\ out_buf.kind = "armed"
      /\ out_buf' = NoBuffer /\ Completed("out", out_buf)
      /\ UNCHANGED <<control_generation, in_buf, event, transfer, last_packet, address>>
  BY DEF HostOut, device
<1>2. ~SetupPending
  BY <1>1 DEF IInv, Start, NoBuffer
<1>3. /\ NoToken
      /\ \/ ReadingStatus
         \/ Writing /\ host.stage = "data_out" /\ in_buf = NoBuffer /\ host.got = 0
                    /\ out_buf = Armed(current.id, 1)
  <2>1. NoBuffer.kind # "armed" /\ Stalled.kind # "armed"
    BY DEF NoBuffer, Stalled
  <2>2. ~Starting /\ ~Refused /\ ~ReadingData /\ ~Ignoring /\ ~Commanding
    BY <1>1, <1>2, <2>1 DEF Starting, Refused, ReadingData, Ignoring, Commanding
  <2>3. CASE ReadingStatus
    BY <1>1, <2>1, <2>3 DEF ReadingStatus
  <2>4. CASE Writing
    BY <1>1, <2>1, <2>4 DEF Writing
  <2> QED
    BY <1>1, <2>2, <2>3, <2>4 DEF IInv, Phase
<1>4. current.kind # "address"
  BY <1>3 DEF ReadingStatus, Writing
<1>5. PICK buf \in ArmedBuffers : buf = out_buf
  BY <1>1, ArmedTypes DEF IInv, Types
<1>6. PICK stage \in {"idle", "status_in"} :
        stage = IF host.stage = "data_out" THEN "status_in" ELSE "idle"
  OBVIOUS
<1>7. host' = [host EXCEPT !.stage = stage]
  BY <1>6 DEF HostOut
<1>8. /\ host' = [request |-> current, got |-> host.got, address |-> host.address,
                  resets |-> host.resets, stage |-> stage]
      /\ current' = current
  BY <1>7, HostFields DEF current
<1>9. /\ queue' \in Seq(Events) /\ Start' /\ Completing'
      /\ Token("out")' /\ (buf.index # 0 => DataToken')
      /\ ~SetupPending' /\ ~SetupQueued' /\ (ResetPending' <=> ResetPending)
      /\ ~Live(event)'
      /\ \A i \in DOMAIN queue' : Live(queue[i])' =>
           queue'[i].kind = "out" /\ queue'[i].buf = buf
  BY <1>1, <1>2, <1>3, <1>5, <1>8, OneCompletion
<1>10. Types'
  <2>1. host' \in [request : SomeRequests, got : 0 .. MaxPackets, address : Ids,
                   resets : Nat,
                   stage : Stages]
    BY <1>8, HostFields DEF Stages
  <2> QED
    BY <1>1, <1>8, <1>9, <2>1, ArmedTypes DEF IInv, Types
<1>11. DataKept'
  <2>1. buf.index # 0 => last_packet.id = buf.id
    BY <1>1, <1>5 DEF IInv, DataKept
  <2>2. out_buf'.kind # "armed"
    BY <1>1 DEF NoBuffer
  <2> QED
    BY <1>1, <1>9, <2>1, <2>2 DEF DataKept
<1>12. Phase'
  <2>1. CASE host.stage = "status_out"
    BY <1>6, <1>8, <2>1 DEF Phase
  <2>2. CASE Writing /\ host.stage = "data_out" /\ in_buf = NoBuffer /\ host.got = 0
             /\ out_buf = Armed(current.id, 1)
    <3>1. current.kind = "write" /\ last_packet.id = current.id /\ NotAgain'
      BY <1>1, <2>2 DEF Writing, NotAgain
    <3>2. buf.index # 0
      BY <1>5, <2>2 DEF Armed
    <3>3. host'.stage = "status_in" /\ host'.got = 0
      BY <1>6, <1>8, <2>2
    <3>4. Writing'
      BY <1>1, <1>8, <1>9, <2>2, <3>1, <3>2, <3>3 DEF Writing
    <3> QED
      BY <3>4 DEF Phase
  <2> QED
    BY <1>1, <1>3, <2>1, <2>2 DEF ReadingStatus
<1>13. ~ResetPending /\ host.stage # "idle"
  BY <1>1, <1>2 DEF IInv, ResetFirst, SetupPending
<1>14. ResetFirst'
  BY <1>9, <1>13 DEF ResetFirst
<1>15. Addressing'
  <2>1. ~address.pending
    BY <1>2, <1>4 DEF IInv, Addressing
  <2> QED
    BY <1>1, <1>8, <1>9, <2>1 DEF IInv, Addressing
<1>16. Over'
  <2> SUFFICES ASSUME stage = "idle"
               PROVE  NotAgain /\ \A i \in DOMAIN queue' : Live(queue[i])' => Harmless(queue[i])'
    BY <1>1, <1>8, <1>9 DEF Over, NotAgain
  <2>1. ReadingStatus /\ ~Token("in")
    BY <1>3, <1>6 DEF Token, NoToken
  <2>2. NotAgain /\ out_buf = Armed(current.id, 0)
    BY <2>1 DEF ReadingStatus
  <2>3. buf.index = 0
    BY <1>5, <2>2 DEF Armed
  <2> QED
    BY <1>9, <2>2, <2>3 DEF Harmless
<1> QED
  BY <1>9, <1>10, <1>11, <1>12, <1>14, <1>15, <1>16 DEF IInv

-------------------------------------------------------------------------------
(* The invariant *)

LEMMA InitInv == Init => IInv
<1> SUFFICES ASSUME Init PROVE IInv
  OBVIOUS
<1>1. /\ queue = <<>> /\ control_generation = 0 /\ in_buf = NoBuffer
      /\ out_buf = Armed(0, 1) /\ event = NoEvent
      /\ transfer = [id |-> 0, total |-> 0, sent |-> 0, read |-> FALSE]
      /\ last_packet = NoRequest
      /\ address = [new |-> 0, pending |-> FALSE, active |-> 0]
      /\ host = [request |-> NoRequest, stage |-> "idle", got |-> 0,
                 address |-> 0, resets |-> 0]
  BY DEF Init
<1>2. 0 \in Ids /\ 0 \in 0 .. MaxPackets /\ 1 \in 0 .. MaxPackets
  BY BoundsAssumption DEF Ids
<1>3. DOMAIN queue = {} /\ queue \in Seq(Events)
  BY <1>1
<1>4. current = NoRequest /\ current.id = 0 /\ NoRequest \in SomeRequests
  BY <1>1, <1>2 DEF current, NoRequest, SomeRequests
<1>5. event.kind = "none"
  BY <1>1 DEF NoEvent
<1>6. /\ ~SetupQueued /\ ~SetupPending /\ ~ResetPending
      /\ ~IsCompletion(event) /\ ~Live(event)
  BY <1>3, <1>5 DEF SetupQueued, SetupPending, ResetPending, ResetQueued, IsCompletion, Live
<1>7. Types
  BY <1>1, <1>2, <1>3, <1>4, ArmedTypes DEF Types, Stages
<1>8. Start
  BY <1>3, <1>5, <1>6 DEF Start
<1>9. Completing
  BY <1>3, <1>6 DEF Completing
<1>10. DataKept
  <2>1. out_buf.id = 0 /\ last_packet.id = 0
    BY <1>1 DEF Armed, NoRequest
  <2> QED
    BY <1>3, <1>6, <2>1 DEF DataKept
<1>11. Phase /\ ResetFirst
  BY <1>1, <1>6 DEF Phase, ResetFirst
<1>12. Addressing
  BY <1>1, <1>4, <1>6 DEF Addressing
<1>13. Over
  BY <1>3, <1>5, <1>6 DEF Over
<1> QED
  BY <1>7, <1>8, <1>9, <1>10, <1>11, <1>12, <1>13 DEF IInv

LEMMA StutterInv == ASSUME IInv, UNCHANGED vars PROVE IInv'
<1>1. UNCHANGED <<queue, control_generation, in_buf, out_buf, event, transfer, last_packet,
                  address, host>>
  BY DEF vars, buffers, device
<1> QED
  BY <1>1 DEF IInv, Types, Start, Completing, Over, DataKept, Phase, ResetFirst,
              Addressing, ResetComes, Harmless, current, SetupQueued, SetupPending,
              ResetQueued, ResetPending, Live, IsCompletion, NoToken, Token, DataToken,
              NotAgain, Sent, Starting, Refused, ReadingData, ReadingStatus, Writing,
              Commanding, Ignoring

LEMMA NextInv == ASSUME ~AbandonsAnyTime PROVE IInv /\ [Next]_vars => IInv'
<1> SUFFICES ASSUME IInv, [Next]_vars PROVE IInv'
  OBVIOUS
<1>1. CASE Setup
  BY <1>1, SetupStep
<1>2. CASE HostGoesOn
  BY <1>2, HostInStep, HostOutStep, HostIsRefusedStep DEF HostGoesOn
<1>3. CASE BusReset
  BY <1>3, BusResetStep
<1>4. CASE MainLoop
  BY <1>4, TakeStep, RefuseSetupStep, IgnoreSetupStep, AnswerSetupStep, AnswerAgainStep,
     AwaitDataStep, SetAddressStep, StatusSentStep, SendNextStep, AwaitStatusStep,
     DataArrivedStep, StatusArrivedStep, HandleResetStep DEF MainLoop
<1>5. CASE UNCHANGED vars
  BY <1>5, StutterInv
<1> QED
  BY <1>1, <1>2, <1>3, <1>4, <1>5 DEF Next

\* The invariant holds in every behaviour in which the host goes on from a transfer given
\* up only while the main loop has no SETUP and no event of it left.
THEOREM Invariance == ASSUME ~AbandonsAnyTime PROVE Spec => []IInv
<1>1. Init => IInv
  BY InitInv
<1>2. IInv /\ [Next]_vars => IInv'
  BY NextInv
<1> QED
  BY <1>1, <1>2, PTL DEF Spec

-------------------------------------------------------------------------------
(* Properties *)

\* Every variable has its type, for every number of transfers, packets and resets.
THEOREM TypeCorrect == ASSUME ~AbandonsAnyTime PROVE Spec => []TypeOK
<1>1. IInv => TypeOK
  <2> SUFFICES ASSUME IInv PROVE TypeOK
    OBVIOUS
  <2>1. event.kind \in {"none", "setup", "setup_again", "in", "out", "reset"}
    BY InHandFields DEF IInv
  <2>2. /\ last_packet.id \in Ids
        /\ host.stage \in {"idle", "reset", "data_in", "data_out", "status_in", "status_out"}
    BY RequestFields, HostFields DEF IInv, Types, Stages
  <2> QED
    BY <2>1, <2>2, HostFields DEF IInv, Types, TypeOK
<1> QED
  BY <1>1, Invariance, PTL

\* Whatever the host can read is the next packet, or the status, of the transfer it has
\* under way: nothing of an abandoned one is left in the buffer (the SETUP branch of
\* isr_usbctrl_handler, the generation of handle_ep0's completions).
THEOREM AnswersAreOwn == ASSUME ~AbandonsAnyTime PROVE Spec => []OwnAnswer
<1>1. IInv => OwnAnswer
  <2> SUFFICES ASSUME IInv, host.stage \in {"data_in", "status_in"}, in_buf.kind = "armed"
               PROVE  /\ host.stage = "data_in" => in_buf = Armed(current.id, host.got + 1)
                      /\ host.stage = "status_in" => in_buf = Armed(current.id, 0)
    BY DEF OwnAnswer, current
  <2>1. NoBuffer.kind # "armed" /\ Stalled.kind # "armed"
    BY DEF NoBuffer, Stalled
  <2>2. ~Starting /\ ~Refused /\ ~Ignoring /\ ~ReadingStatus
    BY <2>1 DEF IInv, Start, Starting, Refused, Ignoring, ReadingStatus
  <2>3. ReadingData => host.stage = "data_in" /\ in_buf = Armed(current.id, host.got + 1)
    BY <2>1 DEF ReadingData
  <2>4. Writing => host.stage = "status_in" /\ in_buf = Armed(current.id, 0)
    BY <2>1 DEF Writing
  <2>5. Commanding => host.stage = "status_in" /\ in_buf = Armed(current.id, 0)
    BY DEF Commanding
  <2> QED
    BY <2>2, <2>3, <2>4, <2>5 DEF IInv, Phase
<1> QED
  BY <1>1, Invariance, PTL

\* Whatever the host writes is the data or the status of the transfer it has under way,
\* and data reaches the interface with the SETUP it belongs to (last_packet, which the
\* next SETUP overwrites).
THEOREM DataIsOwn == ASSUME ~AbandonsAnyTime PROVE Spec => []OwnData
<1>1. IInv => OwnData
  <2> SUFFICES ASSUME IInv PROVE OwnData
    OBVIOUS
  <2>1. ASSUME event.kind = "out", event.generation = control_generation,
               event.buf.index # 0
        PROVE  last_packet.id = event.buf.id
    BY <2>1 DEF IInv, DataKept, Live, IsCompletion
  <2>2. ASSUME host.stage \in {"data_out", "status_out"}, out_buf.kind = "armed"
        PROVE  /\ host.stage = "data_out" =>
                    out_buf = Armed(current.id, 1) /\ last_packet.id = current.id
               /\ host.stage = "status_out" => out_buf = Armed(current.id, 0)
    <3>1. NoBuffer.kind # "armed" /\ Stalled.kind # "armed"
      BY DEF NoBuffer, Stalled
    <3>2. ~Starting /\ ~Refused /\ ~Ignoring /\ ~Commanding /\ ~ReadingData
      BY <2>2, <3>1 DEF IInv, Start, Starting, Refused, Ignoring, Commanding, ReadingData
    <3>3. ReadingStatus => host.stage = "status_out" /\ out_buf = Armed(current.id, 0)
      BY <2>2, <3>1 DEF ReadingStatus
    <3>4. Writing => /\ host.stage = "data_out" /\ out_buf = Armed(current.id, 1)
                     /\ last_packet.id = current.id
      BY <2>2, <3>1 DEF Writing
    <3> QED
      BY <2>2, <3>2, <3>3, <3>4 DEF IInv, Phase
  <2> QED
    BY <2>1, <2>2 DEF OwnData, current
<1> QED
  BY <1>1, Invariance, PTL

\* The device moves to an address once the host has moved there, or a reset of the bus
\* is about to take it back to none (handle_ep0, usb_bus_reset).
THEOREM AddressIsAgreed == ASSUME ~AbandonsAnyTime PROVE Spec => AddressAfterStatus
<1> DEFINE Agreed == address'.active # address.active =>
                       address'.active = host.address \/ ResetQueued
<1>1. IInv /\ [Next]_vars => [Agreed]_vars
  <2> SUFFICES ASSUME IInv, Next, address'.active # address.active
               PROVE  address'.active = host.address \/ ResetQueued
    OBVIOUS
  <2>1. address' # address
    OBVIOUS
  <2>2. CASE SetAddress
    <3>1. event.kind = "in" /\ address.pending /\ address'.active = address.new
      BY <2>2 DEF SetAddress, Does, IInv, Types
    <3>2. Live(event) /\ ~SetupPending
      BY <3>1, NotLeftOver, CompletionInHand
    <3> QED
      BY <3>1, <3>2 DEF IInv, Addressing
  <2>3. CASE HandleReset
    <3>1. event.kind = "reset" /\ address'.active = 0
      BY <2>3 DEF HandleReset, Does
    <3> QED
      BY <3>1 DEF IInv, ResetFirst, ResetPending
  <2>4. CASE AnswerSetup
    <3>1. address'.active = address.active
      BY <2>4 DEF AnswerSetup, IInv, Types
    <3> QED
      BY <3>1
  <2>5. CASE ~(SetAddress \/ HandleReset \/ AnswerSetup)
    BY <2>1, <2>5 DEF Next, HostGoesOn, MainLoop, Setup, HostIn, HostOut, HostIsRefused,
                      BusReset, Take, RefuseSetup, IgnoreSetup, AnswerAgain, AwaitData,
                      StatusSent, SendNext, AwaitStatus, DataArrived, StatusArrived, device
  <2> QED
    BY <2>2, <2>3, <2>4, <2>5
<1>2. Spec => []IInv
  BY Invariance
<1> QED
  BY <1>1, <1>2, PTL DEF Spec, AddressAfterStatus
===============================================================================
