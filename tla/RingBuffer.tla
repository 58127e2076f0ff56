------------------------------ MODULE RingBuffer ------------------------------
(***************************************************************************)
(* The ring buffer of ringbuffer.c, with its storage and its indexes.  It  *)
(* is used by the main loop only, so each function is one action.          *)
(* ringbuffer_free is never called by the program and is left out.         *)
(***************************************************************************)
EXTENDS Integers, Sequences

CONSTANTS
  Data,         \* the values a byte may have
  MaxRequest,   \* bound on the bytes of one write or read
  Sizes,        \* the sizes the buffer is given (calc_buffer_size of the rates)
  Reserved      \* the capacity it is allocated with

ASSUME SizesAssumption == Sizes \subseteq Nat \ {0}
ASSUME ReservedAssumption == Reserved \in Sizes
ASSUME RequestAssumption == MaxRequest \in Nat

VARIABLES
  buffer,       \* the storage, a function on 0 .. capacity - 1
  size, capacity,
  head, tail,   \* next byte to read, next byte to write
  full,         \* head = tail and the buffer is full, not empty
  taken,        \* what the last read copied out
  op, result    \* the last call and the number it returned

vars == <<buffer, size, capacity, head, tail, full, taken, op, result>>

Smaller(m, n) == IF m < n THEN m ELSE n

Requests == UNION {[1 .. n -> Data] : n \in 0 .. MaxRequest}

Init == /\ size \in {n \in Sizes : n <= Reserved}
        /\ capacity = Reserved
        /\ buffer \in [0 .. Reserved - 1 -> Data]    \* malloc: any content
        /\ head = 0 /\ tail = 0
        /\ full = FALSE
        /\ taken = <<>>
        /\ op = "init" /\ result = 0

Returns(name, n) == op' = name /\ result' = n

\* Mutant: a full buffer counts as empty.
CountIgnoringFull ==
  IF head <= tail THEN tail - head ELSE size - head + tail

\* ringbuffer_count
Count == IF full THEN size
         ELSE IF head <= tail THEN tail - head
         ELSE size - head + tail

\* Mutant: the index is left at the end instead of wrapping to 0.
AdvanceToEnd(index, n) ==
  IF n <= size - index THEN index + n ELSE n - (size - index)

\* Mutant: after a wrap the part before the end is subtracted wrongly.
AdvanceBySize(index, n) ==
  IF n <= size - index
  THEN IF index + n = size THEN 0 ELSE index + n
  ELSE n - size

\* Where an index is after n bytes, with n at most size.
Advance(index, n) ==
  IF n <= size - index
  THEN IF index + n = size THEN 0 ELSE index + n
  ELSE n - (size - index)

\* ringbuffer_write copies in one piece, or in two when it wraps.
Write(data) ==
  LET bytes == IF full THEN 0 ELSE Smaller(Len(data), size - Count)
      right == size - tail
  IN  /\ buffer' = [i \in DOMAIN buffer |->
            IF tail <= i /\ i < tail + Smaller(bytes, right) THEN data[i - tail + 1]
            ELSE IF i < bytes - right THEN data[right + i + 1]
            ELSE buffer[i]]
      /\ tail' = Advance(tail, bytes)
      /\ full' = (full \/ (bytes > 0 /\ tail' = head))
      /\ Returns("write", bytes)
      /\ UNCHANGED <<size, capacity, head, taken>>

\* ringbuffer_read
Read(n) ==
  LET bytes == Smaller(n, Count)
      right == size - head
  IN  /\ taken' = [i \in 1 .. bytes |->
            IF i <= right THEN buffer[head + i - 1] ELSE buffer[i - right - 1]]
      /\ head' = Advance(head, bytes)
      /\ full' = (full /\ bytes = 0)
      /\ Returns("read", bytes)
      /\ UNCHANGED <<buffer, size, capacity, tail>>

Empty == head' = 0 /\ tail' = 0 /\ full' = FALSE

\* ringbuffer_clear
Clear == Empty /\ Returns("clear", 0) /\ UNCHANGED <<buffer, size, capacity, taken>>

\* ringbuffer_resize returns at once for the size it has.  To grow beyond the
\* capacity it reallocates, which may fail and then changes nothing.
SameSize(n) == n = size /\ Returns("resize", 0)
               /\ UNCHANGED <<buffer, size, capacity, head, tail, full, taken>>

NewSize(n) ==
  /\ n # size
  /\ size' = n
  /\ capacity' = IF n > capacity THEN n ELSE capacity
  /\ \E fresh \in Data :      \* whatever the new part of the storage holds
       buffer' = [i \in 0 .. capacity' - 1 |-> IF i < capacity THEN buffer[i] ELSE fresh]
  /\ Empty
  /\ Returns("resize", 0)
  /\ UNCHANGED taken

ReallocFails(n) == n > capacity /\ Returns("resize", -1)
                   /\ UNCHANGED <<buffer, size, capacity, head, tail, full, taken>>

Resize(n) == SameSize(n) \/ NewSize(n) \/ ReallocFails(n)

Next == \/ \E data \in Requests : Write(data)
        \/ \E n \in 0 .. MaxRequest : Read(n)
        \/ Clear
        \/ \E n \in Sizes : Resize(n)

Spec == Init /\ [][Next]_vars

-------------------------------------------------------------------------------
(* Properties *)

\* Every variable has its type.
TypeOK == /\ size \in Sizes /\ capacity \in Sizes
          /\ buffer \in [0 .. capacity - 1 -> Data]
          /\ head \in Nat /\ tail \in Nat
          /\ full \in BOOLEAN
          /\ taken \in Seq(Data)
          /\ op \in {"init", "write", "read", "clear", "resize"}
          /\ result \in Nat \cup {-1}

\* The indexes stay inside the part of the storage in use, which is inside the
\* storage, and `full` is set only when they meet.
IndexesOK == /\ head < size /\ tail < size /\ size <= capacity
             /\ full => head = tail

\* The byte i places after the head.
At(i) == IF head + i < size THEN buffer[head + i] ELSE buffer[head + i - size]

Contents == [i \in 1 .. Count |-> At(i - 1)]

Queue == INSTANCE Fifo WITH Limits <- Sizes, items <- Contents, limit <- size

\* The indexes, the wrap-around copies and the `full` flag implement a bounded
\* queue: bytes come out in the order they went in, none lost below the limit.
IsFifo == Queue!Spec
===============================================================================
