------------------------------ MODULE SpdifOutput ------------------------------
(***************************************************************************)
(* The output back end of spdif.c: the main loop encodes blocks into the   *)
(* two slots of the queue, the DMA channels stream them to the S/PDIF and  *)
(* (PICODAC_OUTPUT_BOTH) I2S-mirror serializers, and the shared DMA        *)
(* interrupt handler chooses what each channel streams next.               *)
(*                                                                         *)
(* Interleavings: the interrupt may preempt the main loop between any two  *)
(* of its steps; a DMA channel may finish at any time, also while the      *)
(* handler runs.  The main loop never runs while the handler does.         *)
(***************************************************************************)
EXTENDS BlockQueue

CONSTANTS
  BothOutputs,   \* PICODAC_OUTPUT_BOTH: the I2S mirror is built in
  MaxBlocks      \* bound on the blocks a behaviour publishes (unbounded in the code)

ASSUME BothOutputsAssumption == BothOutputs \in BOOLEAN
ASSUME MaxBlocksAssumption == MaxBlocks \in Nat

VARIABLES
  blocks,         \* the queue
  initialized, running,
  mirror_active,  \* i2s_mirror_enabled(non_pcm) of the current stream
  pc,             \* what the main loop is doing
  isr,            \* "none", or the channel spdif_dma_handler looks at next
  irq_enabled,    \* channels whose completion raises the interrupt
  dma,            \* per channel: "idle", "busy", or "done" (flag not acknowledged)
  source,         \* per channel: the slot it streams, None for the silent block
  encoded,        \* encoded[o][slot]: the block slot holds for o (`encoded`, `mirror`)
  published       \* number of blocks published so far

vars == <<blocks, initialized, running, mirror_active, pc, isr, irq_enabled,
          dma, source, encoded, published>>

driver == <<initialized, running, mirror_active>>
hardware == <<irq_enabled, dma, source>>

Partial == -1           \* a slot that holds no complete block

Consumers == IF mirror_active THEN Outputs ELSE {"spdif"}

Init == /\ mirror_active = BothOutputs   \* spdif_init for PCM, by audio_device_init
        /\ blocks = Reset(Consumers)
        /\ initialized = TRUE
        /\ running = FALSE
        /\ pc = "idle"
        /\ isr = "none"
        /\ irq_enabled = {}
        /\ dma = [o \in Outputs |-> "idle"]
        /\ source = [o \in Outputs |-> None]
        /\ encoded = [o \in Outputs |-> [s \in Slots |-> Partial]]
        /\ published = 0

-------------------------------------------------------------------------------
(* The main loop.  It runs when no interrupt does. *)

Main(from, to) == isr = "none" /\ pc = from /\ pc' = to /\ isr' = isr

\* spdif_init, for a PCM stream or a Non-PCM one.
SpdifInit == /\ Main("idle", "idle")
             /\ ~initialized
             /\ initialized' = TRUE
             /\ \E non_pcm \in BOOLEAN : mirror_active' = (BothOutputs /\ ~non_pcm)
             /\ blocks' = Reset(Consumers')
             /\ UNCHANGED <<running, hardware, encoded, published>>

\* spdif_start: both channels begin with the silent block, then the serializers
\* are enabled together.  No block can end before that.
SpdifStart == /\ Main("idle", "idle")
              /\ initialized /\ ~running
              /\ running' = TRUE
              /\ irq_enabled' = irq_enabled \cup Consumers
              /\ dma' = [o \in Outputs |-> IF o \in Consumers THEN "busy" ELSE dma[o]]
              /\ source' = [o \in Outputs |-> IF o \in Consumers THEN None ELSE source[o]]
              /\ UNCHANGED <<blocks, initialized, mirror_active, encoded, published>>

\* spdif_buffer_ready returns true.
BufferReady == /\ Main("idle", "fill")
               /\ running
               /\ published < MaxBlocks
               /\ CanAcquire(blocks)
               /\ blocks' = Acquire(blocks)
               /\ UNCHANGED <<driver, hardware, encoded, published>>

\* spdif_submit_buffer: encode for S/PDIF, encode for the mirror, publish.
StartEncode == /\ Main("fill", "encode")
               /\ encoded' = [encoded EXCEPT !["spdif"][blocks.writing] = Partial]
               /\ UNCHANGED <<blocks, driver, hardware, published>>

StartMirror ==
  /\ Main("encode", "mirror")
  /\ encoded' = [o \in Outputs |->
       [encoded[o] EXCEPT ![blocks.writing] =
          IF o = "spdif" THEN published + 1
          ELSE IF mirror_active THEN Partial ELSE @]]
  /\ UNCHANGED <<blocks, driver, hardware, published>>

PublishBlock ==
  /\ Main("mirror", "idle")
  /\ encoded' = IF mirror_active
                THEN [encoded EXCEPT !["i2s"][blocks.writing] = published + 1]
                ELSE encoded
  /\ published' = published + 1
  /\ blocks' = Publish(blocks)
  /\ UNCHANGED <<driver, hardware>>

\* spdif_stop, called directly ("stop") or by spdif_deinit ("deinit"): the S/PDIF
\* interrupt is masked first, and the mirror's may still be served before ...
MaskSpdif(for) == /\ Main("idle", for)
                  /\ initialized
                  /\ irq_enabled' = irq_enabled \ {"spdif"}
                  /\ UNCHANGED <<blocks, driver, dma, source, encoded, published>>

\* ... it is masked too, the serializers stop, both transfers are aborted and
\* acknowledged and the queue is reset.
Halt(for) == /\ Main(for, "idle")
             /\ irq_enabled' = {}
             /\ dma' = [o \in Outputs |-> "idle"]
             /\ blocks' = Reset(Consumers)
             /\ running' = FALSE
             /\ initialized' = (for = "stop")
             /\ UNCHANGED <<mirror_active, source, encoded, published>>

-------------------------------------------------------------------------------
(* The DMA channels and the interrupt handler. *)

\* Channel o has streamed its last word.  Both serializers tick on one clock, so
\* a channel is never a whole block ahead of the other.
DmaFinish(o) == /\ dma[o] = "busy"
                /\ o \notin blocks.completed
                /\ dma' = [dma EXCEPT ![o] = "done"]
                /\ UNCHANGED <<blocks, driver, pc, isr, irq_enabled, source,
                               encoded, published>>

Pending(o) == dma[o] = "done" /\ o \in irq_enabled

\* One half of spdif_dma_handler: acknowledge, choose the next block, restart.
Serve(o) == IF Pending(o)
            THEN /\ source' = [source EXCEPT ![o] = NextBlock(blocks)]
                 /\ dma' = [dma EXCEPT ![o] = "busy"]
                 /\ blocks' = Complete(blocks, o)
            ELSE UNCHANGED <<source, dma, blocks>>

IsrSpdif == /\ isr = "none"
            /\ \E o \in Outputs : Pending(o)
            /\ Serve("spdif")
            /\ isr' = IF BothOutputs THEN "i2s" ELSE "none"
            /\ UNCHANGED <<driver, pc, irq_enabled, encoded, published>>

IsrI2s == /\ isr = "i2s"
          /\ Serve("i2s")
          /\ isr' = "none"
          /\ UNCHANGED <<driver, pc, irq_enabled, encoded, published>>

-------------------------------------------------------------------------------

Submit == StartEncode \/ StartMirror \/ PublishBlock
Halting == \E for \in {"stop", "deinit"} : Halt(for)

Next == \/ SpdifInit \/ SpdifStart \/ BufferReady \/ Submit
        \/ \E for \in {"stop", "deinit"} : MaskSpdif(for)
        \/ Halting
        \/ IsrSpdif \/ IsrI2s
        \/ \E o \in Outputs : DmaFinish(o)

Spec == Init /\ [][Next]_vars

\* The serializers run off the system clock, an enabled interrupt of the highest
\* priority is taken, and the main loop does not leave a call halfway.  Nothing
\* forces the main loop to ask for a buffer, or the host to start a stream.
Fairness == /\ \A o \in Outputs : WF_vars(DmaFinish(o))
            /\ WF_vars(IsrSpdif) /\ WF_vars(IsrI2s)
            /\ WF_vars(Submit) /\ WF_vars(Halting)

FairSpec == Spec /\ Fairness

-------------------------------------------------------------------------------
(* Properties *)

Contents == (1 .. MaxBlocks) \cup {Partial}

\* Every variable has its type.
TypeOK == /\ blocks \in Queues
          /\ initialized \in BOOLEAN /\ running \in BOOLEAN
          /\ mirror_active \in BOOLEAN
          /\ pc \in {"idle", "fill", "encode", "mirror", "stop", "deinit"}
          /\ isr \in {"none", "i2s"}
          /\ irq_enabled \in SUBSET Outputs
          /\ dma \in [Outputs -> {"idle", "busy", "done"}]
          /\ source \in [Outputs -> Slots \cup {None}]
          /\ encoded \in [Outputs -> [Slots -> Contents]]
          /\ published \in 0 .. MaxBlocks

\* What slot holds for output o; None stands for the silent block.
Item(o, slot) == IF slot = None THEN 0 ELSE encoded[o][slot]

Emitted(o) == IF dma[o] = "idle" THEN 0 ELSE Item(o, source[o])

\* No DMA channel ever streams a slot the main loop is encoding into, or one that
\* was never filled: what an output emits is silence or a whole block ("Never
\* encode into a DMA-owned buffer").
NoTornBlock == \A o \in Outputs : Emitted(o) # Partial

\* The abstract state of BlockProgram that a state of this module stands for.
Listening == {o \in Outputs : dma[o] # "idle"}
Upcoming == IF blocks.queued = None THEN <<>> ELSE <<Item("spdif", blocks.queued)>>
Newest == Item("spdif", IF blocks.completed = {} THEN blocks.playing ELSE blocks.next)
Behind == IF blocks.completed = {} THEN {} ELSE Consumers \ blocks.completed
Playing == [o \in Outputs |-> Emitted(o)]

Program == INSTANCE BlockProgram WITH
             Listeners <- Outputs, listening <- Listening, upcoming <- Upcoming,
             last <- published, item <- Newest, behind <- Behind, playing <- Playing

\* Both outputs emit one program of blocks (see BlockProgram): same blocks, same
\* silences, in publication order, none lost, repeated or left from a stopped
\* stream ("the first DMA to finish decides the next block for BOTH outputs").
OneProgram == Program!Spec

\* Why it is so: each slot has one owner.  A slot being written or waiting in the
\* queue is neither `playing` nor `next`; a streaming channel reads `next` once it
\* has completed and `playing` before; and every slot that is playing, next or
\* queued holds one whole published block, the same for both outputs.
QueueOwns ==
  /\ blocks.consumers = Consumers
  /\ blocks.completed \subseteq Consumers /\ blocks.completed # Consumers
  /\ blocks.completed = {} => blocks.next = None
  /\ blocks.queued = None \/ blocks.writing = None
  /\ blocks.next = None \/ blocks.next # blocks.playing
  /\ \A s \in {blocks.queued, blocks.writing} :
       s = None \/ (s # blocks.playing /\ s # blocks.next)

WriterOwns ==
  /\ running => initialized
  /\ ~running => blocks = Reset(Consumers)
  /\ mirror_active => BothOutputs
  /\ pc \in {"stop", "deinit"} => initialized
  /\ (pc \in {"fill", "encode", "mirror"}) <=> (blocks.writing # None)
  /\ blocks.writing # None => running /\ published < MaxBlocks
  /\ pc = "mirror" => encoded["spdif"][blocks.writing] = published + 1

ChannelOwns ==
  \A o \in Outputs :
    /\ (dma[o] # "idle") <=> (running /\ o \in Consumers)
    /\ o \in blocks.completed => dma[o] = "busy"
    /\ dma[o] # "idle" => source[o] = IF o \in blocks.completed THEN blocks.next
                                      ELSE blocks.playing

SlotsHoldBlocks ==
  /\ \A s \in {blocks.playing, blocks.next, blocks.queued} \ {None} :
       \A o \in Consumers : /\ encoded[o][s] \in 1 .. published
                            /\ encoded[o][s] = encoded["spdif"][s]
  /\ blocks.queued # None => encoded["spdif"][blocks.queued] = published

SlotOwnership == QueueOwns /\ WriterOwns /\ ChannelOwns /\ SlotsHoldBlocks

\* A published block is emitted by every active output unless the stream stops
\* first: the queue of two slots does not lose it or wait for ever.
BlockIsPlayed ==
  \A o \in Outputs, b \in 1 .. MaxBlocks :
    (running /\ o \in Consumers /\ Item("spdif", blocks.queued) = b)
      ~> (Emitted(o) = b \/ ~running)

\* The main loop is never refused a buffer for ever: each active output, and a
\* mirror that is off, gives its slot back.
WriterIsServed == (running /\ pc = "idle") ~> (CanAcquire(blocks) \/ ~running)
===============================================================================
