------------------------------ MODULE I2sOutput ------------------------------
(***************************************************************************)
(* The output back end of i2s.c (builds without PICODAC_OUTPUT_SPDIF): two *)
(* buffers that the DMA interrupt swaps at the end of every block, whether *)
(* or not the main loop has filled the one it writes.  The main loop asks  *)
(* through a flag, takes the pointer, and writes the block; the interrupt  *)
(* may come between any two of these steps.                                *)
(*                                                                         *)
(* Nothing is assumed of the speed of the main loop: it may be late by any *)
(* number of blocks.  Blocks are numbered modulo Blocks, silence fed while *)
(* the stream is stalled being a block like any other.                     *)
(***************************************************************************)
EXTENDS Integers

CONSTANT Blocks       \* the block numbers are 0 .. Blocks - 1, and then 0 again

ASSUME BlocksAssumption == Blocks \in Nat /\ Blocks > 2

VARIABLES
  state,        \* "stopped", "buffering" (set up), or "running"
  write_buffer, read_buffer,   \* which of the two buffers each pointer names
  buffer_ready,
  dma,          \* "idle", "busy", or "done" (completion not acknowledged)
  pc,           \* what the main loop is doing
  filling,      \* the pointer the main loop took
  next,         \* the number of the block it writes next
  content,      \* content[b]: the block buffer b holds
  wire,         \* what is being emitted, and ...
  previous,     \* ... what was emitted before it
  fresh,        \* history: buffers written since the output was initialised
  timely        \* history: swaps, up to 2, since one that found the main loop behind

vars == <<state, write_buffer, read_buffer, buffer_ready, dma, pc,
          filling, next, content, wire, previous, fresh, timely>>

pointers == <<write_buffer, read_buffer>>
signal == <<wire, previous, timely>>

Buffers == {0, 1}          \* dma_buffer[2]
Blank == -1                \* the zeros a buffer holds when the program starts
Torn == -2                 \* parts of two blocks
Contents == 0 .. Blocks - 1 \cup {Blank, Torn}

Following(block) == (block + 1) % Blocks

Init == /\ state = "stopped"
        /\ write_buffer = 0 /\ read_buffer = 1
        /\ buffer_ready = TRUE
        /\ dma = "idle"
        /\ pc = "idle"
        /\ filling = 0
        /\ next = 0
        /\ content = [b \in Buffers |-> Blank]
        /\ wire = Blank /\ previous = Blank
        /\ fresh = {}
        /\ timely = 0

-------------------------------------------------------------------------------
(* The DMA channel and its interrupt *)

\* The channel has moved a whole block into the serializer.
DmaFinish == /\ state = "running"
             /\ dma = "busy"
             /\ dma' = "done"
             /\ UNCHANGED <<state, pointers, buffer_ready, pc, filling,
                            next, content, signal, fresh>>

\* The main loop is done with the buffer it had to fill during this block.
CaughtUp == ~buffer_ready /\ pc = "idle"

\* Mutant: the channel is started before the pointers are swapped.
StartThenSwap == /\ write_buffer' = read_buffer
                 /\ read_buffer' = write_buffer
                 /\ wire' = content[read_buffer]
                 /\ previous' = wire

\* Mutant: buffers are counted, and the count does not wrap.
SwapByCounting == /\ write_buffer' = write_buffer + 1
                  /\ read_buffer' = write_buffer
                  /\ wire' = content[write_buffer]
                  /\ previous' = wire

\* The swap of dma_irq_handler and dma_start, after which the channel is started on
\* the buffer written last.
Swap == /\ write_buffer' = read_buffer
        /\ read_buffer' = write_buffer
        /\ wire' = content[write_buffer]
        /\ previous' = wire

\* Mutant: the flag is left to dma_start.
HandlerWithoutFlag ==
  /\ dma = "done"
  /\ Swap
  /\ dma' = "busy"
  /\ timely' = IF ~CaughtUp THEN 0 ELSE IF timely < 2 THEN timely + 1 ELSE 2
  /\ UNCHANGED <<state, buffer_ready, pc, filling, next, content, fresh>>

dma_irq_handler ==
  /\ dma = "done"
  /\ Swap
  /\ dma' = "busy"
  /\ buffer_ready' = TRUE
  /\ timely' = IF ~CaughtUp THEN 0 ELSE IF timely < 2 THEN timely + 1 ELSE 2
  /\ UNCHANGED <<state, pc, filling, next, content, fresh>>

-------------------------------------------------------------------------------
(* The main loop serving a buffer: audio_device_task while PLAYING or STALLED *)

Main(from, to) == pc = from /\ pc' = to

\* i2s_is_buffer_ready finds the flag set ...
FindReady == /\ Main("idle", "ready")
             /\ state = "running"
             /\ buffer_ready
             /\ UNCHANGED <<state, pointers, buffer_ready, dma, filling,
                            next, content, signal, fresh>>

\* ... and clears it, in a step of its own.
ClearReady == /\ Main("ready", "take")
              /\ buffer_ready' = FALSE
              /\ UNCHANGED <<state, pointers, dma, filling, next, content,
                             signal, fresh>>

i2s_get_write_buffer == /\ Main("take", "fill")
                        /\ filling' = write_buffer
                        /\ UNCHANGED <<state, pointers, buffer_ready, dma,
                                       next, content, signal, fresh>>

\* A buffer that is written while the channel reads it is emitted torn.
Heard == IF filling = read_buffer THEN wire' = Torn ELSE wire' = wire

\* The first and the last word of a block.
FillFirst == /\ Main("fill", "filling")
             /\ content' = [content EXCEPT ![filling] = Torn]
             /\ Heard
             /\ fresh' = fresh \cup {filling}
             /\ UNCHANGED <<state, pointers, buffer_ready, dma, filling,
                            next, previous, timely>>

FillLast == /\ Main("filling", "idle")
            /\ content' = [content EXCEPT ![filling] = next]
            /\ Heard
            /\ next' = Following(next)
            /\ UNCHANGED <<state, pointers, buffer_ready, dma, filling,
                           previous, fresh, timely>>

-------------------------------------------------------------------------------
(* The main loop controlling the stream *)

\* Mutant: the channel starts on the buffer the main loop is about to fill.
StartOnWriteBuffer == /\ Main("idle", "idle")
                      /\ state = "buffering"
                      /\ state' = "running"
                      /\ write_buffer' = write_buffer
                      /\ read_buffer' = write_buffer
                      /\ wire' = content[write_buffer]
                      /\ previous' = wire
                      /\ dma' = "busy"
                      /\ buffer_ready' = TRUE
                      /\ timely' = 0
                      /\ UNCHANGED <<filling, next, content, fresh>>

\* i2s_start: dma_start, then pio_start.
i2s_start == /\ Main("idle", "idle")
             /\ state = "buffering"
             /\ state' = "running"
             /\ Swap
             /\ dma' = "busy"
             /\ buffer_ready' = TRUE
             /\ timely' = 0
             /\ UNCHANGED <<filling, next, content, fresh>>

\* i2s_stop, from audio_device_stream_stop, which calls it whether or not the output
\* runs.  The abort discards a completion that waits for its interrupt.
i2s_stop == /\ Main("idle", "idle")
            /\ state' = "stopped"
            /\ dma' = "idle"
            /\ buffer_ready' = TRUE
            /\ UNCHANGED <<pointers, filling, next, content, signal, fresh>>

dma_init == write_buffer' = 0 /\ read_buffer' = 1

\* i2s_deinit and i2s_init, from audio_device_stream_start.  The buffers keep what
\* they hold.
i2s_init == /\ Main("idle", "idle")
            /\ state = "stopped"
            /\ state' = "buffering"
            /\ dma_init
            /\ buffer_ready' = TRUE
            /\ fresh' = {}
            /\ UNCHANGED <<dma, filling, next, content, signal>>

Serve == FindReady \/ ClearReady \/ i2s_get_write_buffer \/ FillFirst \/ FillLast
Next == Serve \/ DmaFinish \/ dma_irq_handler \/ i2s_start \/ i2s_stop \/ i2s_init

Spec == Init /\ [][Next]_vars

(* The serializer runs off the system clock, the interrupt has the highest *)
(* priority, and the main loop runs for ever.                              *)
Fairness == WF_vars(DmaFinish) /\ WF_vars(dma_irq_handler) /\ WF_vars(Serve)

FairSpec == Spec /\ Fairness

-------------------------------------------------------------------------------
(* Properties *)

\* Every variable has its type.
TypeOK == /\ state \in {"stopped", "buffering", "running"}
          /\ buffer_ready \in BOOLEAN
          /\ write_buffer \in Buffers /\ read_buffer \in Buffers /\ filling \in Buffers
          /\ dma \in {"idle", "busy", "done"}
          /\ pc \in {"idle", "ready", "take", "fill", "filling"}
          /\ next \in 0 .. Blocks - 1
          /\ content \in [Buffers -> Contents]
          /\ wire \in Contents /\ previous \in Contents
          /\ fresh \subseteq Buffers
          /\ timely \in 0 .. 2

\* A main loop that is late once costs two blocks and no more.  However far behind it
\* was, and wherever between flag, pointer and samples the interrupt caught it, the
\* second block it then fills in time is emitted whole, right after the one before it,
\* and the first is whole at least.
LateCostsTwoBlocks ==
  state = "running" => /\ timely >= 1 => wire \notin {Torn, Blank}
                       /\ timely >= 2 => wire = Following(previous)

\* The writer and the channel share a buffer only while the main loop is behind: with
\* one block filled in time, it writes the buffer the channel does not read.
WriterKeepsOff ==
  state = "running" /\ timely >= 1 /\ pc \in {"fill", "filling"}
    => filling # read_buffer

\* A flag that is cleared at the very moment the interrupt sets it is not missed for
\* ever: while the output runs, the main loop is given one buffer after another.
WriterIsServed == []<>(pc = "fill" \/ state # "running")

\* What is heard of a stream was written for it: "discard samples from the old stream
\* even when only the bit depth changes or playback restarts" (audio_device.c:292).
FreshStart == state = "running" => read_buffer \in fresh \/ wire = Blank
===============================================================================
