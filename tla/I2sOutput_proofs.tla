---------------------------- MODULE I2sOutput_proofs ----------------------------
(***************************************************************************)
(* Proofs about I2sOutput: whatever the main loop is doing when the        *)
(* interrupt swaps the buffers, it is back in step two blocks later.       *)
(*                                                                         *)
(* The argument: the flag is down only from the moment the main loop saw   *)
(* it up in this block until the next swap.  So a swap that finds the flag *)
(* down and the main loop idle finds the buffer of this block filled with  *)
(* the block before `next`, and while such swaps follow each other exactly *)
(* one block is filled between two of them, into the buffer the channel    *)
(* does not read.                                                          *)
(***************************************************************************)
EXTENDS I2sOutput, TLAPS

\* The output runs while the main loop serves it or the channel is in use, and the
\* two pointers name different buffers.
Running == /\ dma # "idle" => state = "running"
           /\ pc # "idle" => state = "running"
           /\ ~buffer_ready => state = "running"
           /\ pc = "ready" => buffer_ready
           /\ write_buffer # read_buffer

Whole == 0 .. Blocks - 1

\* While the flag is down the main loop fills the buffer of this block.
Serving == ~buffer_ready => /\ pc \in {"fill", "filling"} => filling = write_buffer
                            /\ pc = "idle" => /\ content[write_buffer] \in Whole
                                              /\ Following(content[write_buffer]) = next

\* After a swap in time, what is emitted is whole and was the last block written, and
\* the main loop is not where it was before the swap.
InTime ==
  timely >= 1 /\ state = "running" =>
    /\ wire \in Whole
    /\ buffer_ready => pc \in {"idle", "ready"}
    /\ IF CaughtUp THEN Following(wire) = content[write_buffer] ELSE Following(wire) = next
    /\ timely >= 2 => wire = Following(previous)

IInv == TypeOK /\ Running /\ Serving /\ InTime

-------------------------------------------------------------------------------
\* The block after a block is a block.
LEMMA FollowingType == \A b \in Whole : Following(b) \in Whole
  BY BlocksAssumption DEF Following, Whole

LEMMA InitInv == ASSUME Init PROVE IInv
<1>1. 0 \in 0 .. Blocks - 1
  BY BlocksAssumption
<1> QED
  BY <1>1 DEF Init, IInv, TypeOK, Running, Serving, InTime, Buffers, Contents, Blank

\* The swap of the interrupt.
LEMMA HandlerStep == ASSUME IInv, dma_irq_handler PROVE IInv'
<1>1. /\ state = "running" /\ dma' = "busy" /\ buffer_ready' = TRUE
      /\ write_buffer' = read_buffer /\ read_buffer' = write_buffer
      /\ wire' = content[write_buffer] /\ previous' = wire
      /\ UNCHANGED <<state, pc, filling, next, content, fresh>>
  BY DEF dma_irq_handler, Swap, IInv, Running
<1>2. CASE ~CaughtUp
  <2>1. timely' = 0
    BY <1>2 DEF dma_irq_handler
  <2>2. TypeOK'
    BY <1>1, <2>1 DEF IInv, TypeOK
  <2> QED
    BY <1>1, <2>1, <2>2 DEF IInv, Running, Serving, InTime
<1>3. CASE CaughtUp
  <2>1. /\ timely \in 0 .. 2
        /\ timely' = IF timely < 2 THEN timely + 1 ELSE 2
    BY <1>3 DEF dma_irq_handler, IInv, TypeOK
  <2>2. timely' \in 0 .. 2 /\ (timely' >= 2 => timely >= 1)
    BY <2>1
  <2>3. TypeOK'
    BY <1>1, <2>2 DEF IInv, TypeOK
  <2>4. /\ pc = "idle" /\ content[write_buffer] \in Whole
        /\ Following(content[write_buffer]) = next
    BY <1>3 DEF CaughtUp, IInv, Serving
  <2>5. timely >= 1 => Following(wire) = content[write_buffer]
    BY <1>1, <1>3 DEF IInv, InTime
  <2>6. InTime'
    BY <1>1, <2>2, <2>4, <2>5 DEF InTime, CaughtUp, Following
  <2> QED
    BY <1>1, <2>3, <2>6 DEF IInv, Running, Serving
<1> QED
  BY <1>2, <1>3

\* The channel ends a block, and the main loop takes up the flag and the pointer.
LEMMA QuietStep ==
  ASSUME IInv, DmaFinish \/ FindReady \/ ClearReady \/ i2s_get_write_buffer
  PROVE  IInv'
<1>1. UNCHANGED <<state, pointers, next, content, signal, fresh>>
  BY DEF DmaFinish, FindReady, ClearReady, i2s_get_write_buffer
<1>2. /\ UNCHANGED <<state, write_buffer, read_buffer, next, content, wire, previous,
                     timely, fresh>>
      /\ \A b : Following(b)' = Following(b)
  BY <1>1 DEF pointers, signal, Following
<1>3. CASE DmaFinish
  BY <1>2, <1>3 DEF DmaFinish, IInv, TypeOK, Running, Serving, InTime, CaughtUp, Following
<1>4. CASE FindReady
  BY <1>2, <1>4
    DEF FindReady, Main, IInv, TypeOK, Running, Serving, InTime, CaughtUp, Following
<1>5. CASE ClearReady
  BY <1>2, <1>5
    DEF ClearReady, Main, IInv, TypeOK, Running, Serving, InTime, CaughtUp, Following
<1>6. CASE i2s_get_write_buffer
  BY <1>2, <1>6
    DEF i2s_get_write_buffer, Main, IInv, TypeOK, Running, Serving, InTime, CaughtUp,
        Following
<1> QED
  BY <1>3, <1>4, <1>5, <1>6

\* In time, the writer and the channel have a buffer each.
LEMMA KeepsOff == ASSUME IInv PROVE WriterKeepsOff
  BY DEF IInv, Running, Serving, InTime, WriterKeepsOff

\* A block is written, from its first word ...
LEMMA FillFirstStep == ASSUME IInv, FillFirst PROVE IInv'
<1>1. /\ pc = "fill" /\ pc' = "filling" /\ filling \in Buffers /\ state = "running"
      /\ content' = [content EXCEPT ![filling] = Torn]
      /\ wire' = IF filling = read_buffer THEN Torn ELSE wire
      /\ fresh' = fresh \cup {filling}
      /\ UNCHANGED <<state, write_buffer, read_buffer, buffer_ready, dma, filling, next,
                     previous, timely>>
  BY DEF FillFirst, Main, Heard, pointers, IInv, TypeOK, Running
<1>2. Torn \in Contents
  BY DEF Contents
<1>3. TypeOK'
  BY <1>1, <1>2 DEF IInv, TypeOK
<1>4. timely >= 1 => wire' = wire
  BY <1>1, KeepsOff DEF WriterKeepsOff
<1>5. InTime'
  BY <1>1, <1>4 DEF IInv, InTime, CaughtUp, Following
<1> QED
  BY <1>1, <1>3, <1>5 DEF IInv, Running, Serving

\* ... to its last.
LEMMA FillLastStep == ASSUME IInv, FillLast PROVE IInv'
<1>1. /\ pc = "filling" /\ pc' = "idle" /\ filling \in Buffers /\ state = "running"
      /\ content' = [content EXCEPT ![filling] = next]
      /\ wire' = IF filling = read_buffer THEN Torn ELSE wire
      /\ next' = Following(next) /\ next \in Whole /\ Following(next) \in Whole
      /\ UNCHANGED <<state, write_buffer, read_buffer, buffer_ready, dma, filling,
                     previous, fresh, timely>>
  BY FollowingType DEF FillLast, Main, Heard, pointers, IInv, TypeOK, Running, Whole
<1>2. Torn \in Contents /\ next \in Contents
  BY <1>1 DEF Contents, Whole
<1>3. TypeOK'
  BY <1>1, <1>2 DEF IInv, TypeOK, Whole
<1>4. timely >= 1 => wire' = wire
  BY <1>1, KeepsOff DEF WriterKeepsOff
<1>5. ~buffer_ready => content'[write_buffer] = next
  BY <1>1 DEF IInv, TypeOK, Serving
<1>6. Serving'
  BY <1>1, <1>5 DEF Serving, Following
<1>7. InTime'
  BY <1>1, <1>4, <1>5 DEF IInv, InTime, CaughtUp, Following
<1> QED
  BY <1>1, <1>3, <1>6, <1>7 DEF IInv, Running

\* Starting, stopping and setting up.
LEMMA ControlStep == ASSUME IInv, i2s_start \/ i2s_stop \/ i2s_init PROVE IInv'
<1>1. CASE i2s_start
  BY <1>1 DEF i2s_start, Main, Swap, IInv, TypeOK, Running, Serving, InTime
<1>2. CASE i2s_stop
  BY <1>2 DEF i2s_stop, Main, pointers, signal, IInv, TypeOK, Running, Serving, InTime
<1>3. CASE i2s_init
  BY <1>3 DEF i2s_init, dma_init, Main, signal, Buffers, IInv, TypeOK, Running, Serving, InTime
<1> QED
  BY <1>1, <1>2, <1>3

LEMMA Invariance == Spec => []IInv
<1>1. Init => IInv
  BY InitInv
<1>2. IInv /\ [Next]_vars => IInv'
  <2> SUFFICES ASSUME IInv, [Next]_vars PROVE IInv'
    OBVIOUS
  <2>1. CASE UNCHANGED vars
    BY <2>1 DEF vars, pointers, signal, IInv, TypeOK, Running, Serving, InTime, CaughtUp,
                Following
  <2>2. CASE Next
    BY <2>2, HandlerStep, QuietStep, FillFirstStep, FillLastStep, ControlStep
      DEF Next, Serve
  <2> QED
    BY <2>1, <2>2
<1> QED
  BY <1>1, <1>2, PTL DEF Spec

-------------------------------------------------------------------------------
\* The variables of the I2S back end keep their types, for any cycle of block numbers.
THEOREM TypeCorrect == Spec => []TypeOK
<1>1. IInv => TypeOK
  BY DEF IInv
<1> QED
  BY <1>1, Invariance, PTL

\* Once the main loop filled one block in time it writes the buffer the channel does not
\* read, wherever the interrupts caught it before.
THEOREM WriterApart == Spec => []WriterKeepsOff
<1>1. IInv => WriterKeepsOff
  BY KeepsOff
<1> QED
  BY <1>1, Invariance, PTL

\* A late main loop costs two blocks: the next one filled in time is whole, and the one
\* after it follows without a gap.
THEOREM LateCosts == Spec => []LateCostsTwoBlocks
<1>1. IInv => LateCostsTwoBlocks
  <2> SUFFICES ASSUME IInv, state = "running", timely >= 1
               PROVE  /\ wire \notin {Torn, Blank}
                      /\ timely >= 2 => wire = Following(previous)
    BY DEF LateCostsTwoBlocks, IInv, TypeOK
  <2>1. wire \in 0 .. Blocks - 1 /\ (timely >= 2 => wire = Following(previous))
    BY DEF IInv, InTime, Whole
  <2> QED
    BY <2>1 DEF Torn, Blank
<1> QED
  BY <1>1, Invariance, PTL
===============================================================================
