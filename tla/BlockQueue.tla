------------------------------ MODULE BlockQueue ------------------------------
(***************************************************************************)
(* The block queue of audio_block_queue.h: two payload slots shared by one *)
(* producer (the main loop) and one or two DMA consumers (the interrupt).  *)
(* A queue is a record with the fields of audio_block_queue_t; the bit     *)
(* masks `completed` and `consumers` are sets of outputs.  Each operation  *)
(* runs under interrupt exclusion in the code, so it is one operator here. *)
(***************************************************************************)
EXTENDS Integers

Outputs == {"spdif", "i2s"}     \* consumer bits 1u and 2u
Slots == {0, 1}
None == -1                      \* no slot

Queues == [playing : Slots \cup {None}, next : Slots \cup {None},
           queued : Slots \cup {None}, writing : Slots \cup {None},
           completed : SUBSET Outputs, consumers : SUBSET Outputs]

\* audio_block_queue_reset
Reset(consumers) ==
  [playing |-> None, next |-> None, queued |-> None, writing |-> None,
   completed |-> {}, consumers |-> consumers]

\* Mutant: a slot is free once it is not `playing`, also while a consumer streams it as `next`.
IsFreeIgnoringNext(q, slot) == slot # q.playing

\* The slot test of the search in audio_block_queue_acquire.
IsFree(q, slot) == /\ slot # q.playing
                   /\ q.completed = {} \/ slot # q.next

\* audio_block_queue_acquire: whether it returns true, ...
CanAcquire(q) == /\ q.queued = None
                 /\ q.writing = None
                 /\ \E slot \in Slots : IsFree(q, slot)

\* Mutant: ping-pong: take the slot that does not play, without a search.
AcquireOther(q) == [q EXCEPT !.writing = 1 - q.playing]

\* ... and then the queue after it.
Acquire(q) == [q EXCEPT !.writing = IF IsFree(q, 0) THEN 0 ELSE 1]

\* Mutant: the writer does not let go of the slot.
PublishAndKeep(q) == [q EXCEPT !.queued = q.writing]

\* audio_block_queue_publish
Publish(q) == [q EXCEPT !.queued = q.writing, !.writing = None]

\* Mutant: each consumer takes what is queued when it finishes.
NextBlockForOne(q) == q.queued

\* audio_block_queue_complete: the block it returns, chosen for every consumer
\* by the first one to finish, and the queue after it.
NextBlock(q) == IF q.completed = {} THEN q.queued ELSE q.next

\* Mutant: the block is over when both outputs have finished, active or not.
CompleteForBoth(q, output) ==
  LET done   == q.completed \cup {output}
      queued == IF q.completed = {} THEN None ELSE q.queued
  IN  IF done = Outputs
      THEN [q EXCEPT !.playing = NextBlock(q), !.next = None,
                     !.queued = queued, !.completed = {}]
      ELSE [q EXCEPT !.next = NextBlock(q),
                     !.queued = queued, !.completed = done]

Complete(q, output) ==
  LET done   == q.completed \cup {output}
      queued == IF q.completed = {} THEN None ELSE q.queued
  IN  IF done = q.consumers
      THEN [q EXCEPT !.playing = NextBlock(q), !.next = None,
                     !.queued = queued, !.completed = {}]
      ELSE [q EXCEPT !.next = NextBlock(q),
                     !.queued = queued, !.completed = done]
===============================================================================
