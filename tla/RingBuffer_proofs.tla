-------------------------- MODULE RingBuffer_proofs --------------------------
(***************************************************************************)
(* Proofs about RingBuffer, for every set of sizes, capacity, byte values  *)
(* and request length: the indexes are sound, and the buffer implements a  *)
(* bounded queue.                                                          *)
(***************************************************************************)
EXTENDS RingBuffer, SequenceTheorems, TLAPS

IInv == TypeOK /\ IndexesOK

USE SizesAssumption, ReservedAssumption, RequestAssumption

\* The number of bytes held is what the indexes say, between 0 and the size.
LEMMA CountBounds ==
  ASSUME IInv
  PROVE  /\ Count \in 0 .. size
         /\ Count = size <=> full
         /\ Count = IF full THEN size ELSE IF head <= tail THEN tail - head
                    ELSE size - head + tail
BY DEF IInv, TypeOK, IndexesOK, Count

LEMMA AdvanceBounds ==
  ASSUME NEW n \in Nat, NEW index \in Nat, n <= size, index < size, size \in Nat
  PROVE  /\ Advance(index, n) \in Nat
         /\ Advance(index, n) < size
         /\ Advance(index, n) = IF index + n < size THEN index + n ELSE index + n - size
BY DEF Advance

LEMMA Initially == Init => IInv
BY DEF Init, IInv, TypeOK, IndexesOK

LEMMA WriteStep ==
  ASSUME IInv, NEW data \in Requests, Write(data) PROVE IInv'
<1> DEFINE bytes == IF full THEN 0 ELSE Smaller(Len(data), size - Count)
           right == size - tail
<1>1. Len(data) \in Nat /\ data \in Seq(Data)
  BY DEF Requests
<1>2. bytes \in Nat /\ bytes <= size /\ bytes <= size - Count /\ bytes <= Len(data)
  BY <1>1, CountBounds DEF Smaller, IInv, TypeOK
<1>3. /\ tail' = Advance(tail, bytes)
      /\ full' = (full \/ (bytes > 0 /\ tail' = head))
      /\ result' = bytes /\ op' = "write"
      /\ UNCHANGED <<size, capacity, head, taken>>
      /\ buffer' = [i \in DOMAIN buffer |->
            IF tail <= i /\ i < tail + Smaller(bytes, right) THEN data[i - tail + 1]
            ELSE IF i < bytes - right THEN data[right + i + 1]
            ELSE buffer[i]]
  BY DEF Write, Returns
<1>4. buffer' \in [0 .. capacity - 1 -> Data]
  <2>1. ASSUME NEW i \in 0 .. capacity - 1 PROVE buffer'[i] \in Data
    <3>1. CASE tail <= i /\ i < tail + Smaller(bytes, right)
      <4>1. i - tail + 1 \in 1 .. Len(data)
        BY <1>1, <1>2, <3>1 DEF Smaller, IInv, TypeOK, IndexesOK
      <4> QED
        BY <1>1, <1>3, <3>1, <4>1 DEF IInv, TypeOK
    <3>2. CASE ~(tail <= i /\ i < tail + Smaller(bytes, right)) /\ i < bytes - right
      <4>1. right + i + 1 \in 1 .. Len(data)
        BY <1>1, <1>2, <3>2 DEF IInv, TypeOK, IndexesOK
      <4> QED
        BY <1>1, <1>3, <3>2, <4>1 DEF IInv, TypeOK
    <3>3. CASE ~(tail <= i /\ i < tail + Smaller(bytes, right)) /\ ~(i < bytes - right)
      BY <1>3, <3>3 DEF IInv, TypeOK
    <3> QED
      BY <3>1, <3>2, <3>3
  <2> QED
    BY <1>3, <2>1 DEF IInv, TypeOK
<1> HIDE DEF bytes, right
<1>5. tail' \in Nat /\ tail' < size
  BY <1>2, <1>3, AdvanceBounds DEF IInv, TypeOK, IndexesOK
<1>6. full => bytes = 0
  BY DEF bytes
<1>7. full => tail' = tail
  BY <1>3, <1>6 DEF Advance, IInv, TypeOK, IndexesOK
<1> QED
  BY <1>2, <1>3, <1>4, <1>5, <1>7 DEF IInv, TypeOK, IndexesOK

LEMMA ReadStep ==
  ASSUME IInv, NEW n \in 0 .. MaxRequest, Read(n) PROVE IInv'
<1> DEFINE bytes == Smaller(n, Count)
           right == size - head
<1>1. bytes \in Nat /\ bytes <= Count /\ bytes <= size
  BY CountBounds DEF Smaller, IInv, TypeOK
<1>2. taken' \in Seq(Data)
  <2>1. \A i \in 1 .. bytes :
          (IF i <= right THEN buffer[head + i - 1] ELSE buffer[i - right - 1]) \in Data
    BY <1>1 DEF IInv, TypeOK, IndexesOK
  <2>2. taken' = [i \in 1 .. bytes |->
            IF i <= right THEN buffer[head + i - 1] ELSE buffer[i - right - 1]]
    BY DEF Read
  <2> HIDE DEF bytes, right
  <2> QED
    BY <1>1, <2>1, <2>2
<1>3. /\ head' = Advance(head, bytes)
      /\ full' = (full /\ bytes = 0)
      /\ result' = bytes /\ op' = "read"
      /\ UNCHANGED <<buffer, size, capacity, tail>>
  BY DEF Read, Returns
<1>4. head' \in Nat /\ head' < size
  BY <1>1, <1>3, AdvanceBounds DEF IInv, TypeOK, IndexesOK
<1>5. bytes = 0 => head' = head
  BY <1>3 DEF Advance, IInv, TypeOK, IndexesOK
<1> HIDE DEF bytes, right
<1> QED
  BY <1>1, <1>2, <1>3, <1>4, <1>5 DEF IInv, TypeOK, IndexesOK

LEMMA ResizeStep ==
  ASSUME IInv, NEW n \in Sizes, Resize(n) PROVE IInv'
<1>1. CASE SameSize(n) \/ ReallocFails(n)
  BY <1>1 DEF SameSize, ReallocFails, Returns, IInv, TypeOK, IndexesOK
<1>2. CASE NewSize(n)
  <2>1. capacity' \in Sizes /\ n <= capacity' /\ capacity <= capacity'
    BY <1>2 DEF NewSize, IInv, TypeOK
  <2>2. buffer' \in [0 .. capacity' - 1 -> Data]
    <3>1. PICK fresh \in Data :
            buffer' = [i \in 0 .. capacity' - 1 |-> IF i < capacity THEN buffer[i] ELSE fresh]
      BY <1>2 DEF NewSize
    <3>2. \A i \in 0 .. capacity' - 1 :
            (IF i < capacity THEN buffer[i] ELSE fresh) \in Data
      BY <2>1 DEF IInv, TypeOK
    <3>3. \A i \in 0 .. capacity' - 1 : buffer'[i] \in Data
      BY <3>1, <3>2
    <3>4. DOMAIN buffer' = 0 .. capacity' - 1
      BY <3>1
    <3>5. buffer' = [i \in 0 .. capacity' - 1 |-> buffer'[i]]
      BY <3>1
    <3> QED
      BY <3>3, <3>5
  <2>3. /\ size' = n /\ head' = 0 /\ tail' = 0 /\ full' = FALSE
        /\ taken' = taken /\ op' = "resize" /\ result' = 0
    BY <1>2 DEF NewSize, Empty, Returns
  <2>4. n \in Nat /\ 0 < n
    BY SizesAssumption
  <2> QED
    BY <2>1, <2>2, <2>3, <2>4 DEF IInv, TypeOK, IndexesOK
<1> QED
  BY <1>1, <1>2 DEF Resize

LEMMA NextStep == IInv /\ [Next]_vars => IInv'
<1> SUFFICES ASSUME IInv, [Next]_vars PROVE IInv'
  OBVIOUS
<1>1. CASE Clear
  BY <1>1 DEF Clear, Empty, Returns, IInv, TypeOK, IndexesOK
<1>2. CASE UNCHANGED vars
  BY <1>2 DEF vars, IInv, TypeOK, IndexesOK
<1> QED
  BY <1>1, <1>2, WriteStep, ReadStep, ResizeStep DEF Next

\* The indexes and the `full` flag stay sound under any sequence of calls.
THEOREM Indexes == Spec => []IndexesOK
<1>1. IInv => IndexesOK
  BY DEF IInv
<1> QED
  BY <1>1, Initially, NextStep, PTL DEF Spec

-------------------------------------------------------------------------------
(* The refinement.  Index arithmetic first: what a position holds.           *)

\* The storage position of the byte i places after the head.
Position(i) == IF head + i < size THEN head + i ELSE head + i - size

ContentsFacts ==
  /\ Contents \in Seq(Data)
  /\ Len(Contents) = Count
  /\ Count \in Nat /\ Count <= size
  /\ \A i \in 1 .. Count : Contents[i] = buffer[Position(i - 1)]

LEMMA ContentsProperties == IInv => ContentsFacts
<1> SUFFICES ASSUME IInv PROVE ContentsFacts
  OBVIOUS
<1>1. Count \in Nat /\ Count <= size
  BY CountBounds DEF IInv, TypeOK
<1>2. \A i \in 1 .. Count : At(i - 1) \in Data /\ At(i - 1) = buffer[Position(i - 1)]
  BY <1>1 DEF IInv, TypeOK, IndexesOK, At, Position
<1> QED
  BY <1>1, <1>2 DEF Contents, ContentsFacts

\* The tail is where the queue ends.
LEMMA TailPosition ==
  ASSUME IInv
  PROVE  /\ Count \in Nat /\ head \in Nat /\ tail \in Nat /\ size \in Nat
         /\ Count <= size /\ size <= capacity /\ head < size /\ tail < size
         /\ capacity \in Nat
         /\ tail = IF head + Count < size THEN head + Count ELSE head + Count - size
         /\ \/ full = TRUE /\ Count = size
            \/ full = FALSE /\ Count < size
<1>1. /\ head \in Nat /\ tail \in Nat /\ size \in Nat /\ capacity \in Nat
      /\ head < size /\ tail < size /\ size <= capacity
  BY DEF IInv, TypeOK, IndexesOK
<1>2. Count \in Nat /\ Count <= size
  BY <1>1, CountBounds
<1>3. CASE full = TRUE
  BY <1>1, <1>3 DEF Count, IInv, IndexesOK
<1>4. CASE full = FALSE
  BY <1>1, <1>4 DEF Count
<1>5. full = TRUE \/ full = FALSE
  BY DEF IInv, TypeOK
<1> QED
  BY <1>1, <1>2, <1>3, <1>4, <1>5

\* A write of n bytes in free space fills the n positions from the tail, in order,
\* and leaves every position of the queue alone.
LEMMA WriteStores ==
  ASSUME IInv, NEW data \in Seq(Data), NEW n \in Nat,
         n <= Len(data), n <= size - Count,
         buffer' = [i \in DOMAIN buffer |->
            IF tail <= i /\ i < tail + Smaller(n, size - tail) THEN data[i - tail + 1]
            ELSE IF i < n - (size - tail) THEN data[size - tail + i + 1]
            ELSE buffer[i]]
  PROVE  /\ \A i \in 0 .. Count - 1 : buffer'[Position(i)] = buffer[Position(i)]
         /\ \A i \in Count .. Count + n - 1 :
              buffer'[Position(i)] = data[i - Count + 1]
<1>1. /\ Count \in Nat /\ head \in Nat /\ tail \in Nat /\ size \in Nat
      /\ Count <= size /\ size <= capacity /\ head < size /\ tail < size
      /\ capacity \in Nat
      /\ tail = IF head + Count < size THEN head + Count ELSE head + Count - size
  BY TailPosition
<1>2. DOMAIN buffer = 0 .. capacity - 1
  BY DEF IInv, TypeOK
<1>3. Smaller(n, size - tail) = IF n < size - tail THEN n ELSE size - tail
  BY DEF Smaller
<1>4. ASSUME NEW i \in 0 .. Count - 1
      PROVE  buffer'[Position(i)] = buffer[Position(i)]
  <2>1. Position(i) = IF head + i < size THEN head + i ELSE head + i - size
    BY DEF Position
  <2>2. Position(i) \in 0 .. capacity - 1
    BY <1>1, <2>1
  <2>3. /\ ~(tail <= Position(i) /\ Position(i) < tail + Smaller(n, size - tail))
        /\ ~(Position(i) < n - (size - tail))
    BY <1>1, <1>3, <2>1
  <2> QED
    BY <1>2, <2>2, <2>3
<1>5. ASSUME NEW i \in Count .. Count + n - 1
      PROVE  buffer'[Position(i)] = data[i - Count + 1]
  <2>1. Position(i) = IF head + i < size THEN head + i ELSE head + i - size
    BY DEF Position
  <2>2. Position(i) \in 0 .. capacity - 1
    BY <1>1, <2>1
  <2>3. CASE tail + (i - Count) < size
    <3>1. /\ tail <= Position(i) /\ Position(i) < tail + Smaller(n, size - tail)
          /\ Position(i) - tail + 1 = i - Count + 1
      BY <1>1, <1>3, <2>1, <2>3
    <3> QED
      BY <1>2, <2>2, <3>1
  <2>4. CASE ~(tail + (i - Count) < size)
    <3>1. /\ ~(tail <= Position(i)) /\ Position(i) < n - (size - tail)
          /\ size - tail + Position(i) + 1 = i - Count + 1
      BY <1>1, <2>1, <2>4
    <3> QED
      BY <1>2, <2>2, <3>1
  <2> QED
    BY <2>3, <2>4
<1> QED
  BY <1>4, <1>5

\* How a write and a read move the count.
LEMMA WriteCounts ==
  ASSUME IInv, NEW n \in Nat, n <= size - Count, size' = size, head' = head,
         tail' = Advance(tail, n), full' = (full \/ (n > 0 /\ tail' = head))
  PROVE  Count' = Count + n
<1>1. /\ Count \in Nat /\ head \in Nat /\ tail \in Nat /\ size \in Nat
      /\ Count <= size /\ head < size /\ tail < size
      /\ tail = IF head + Count < size THEN head + Count ELSE head + Count - size
  BY TailPosition
<1>2. tail' = IF tail + n < size THEN tail + n ELSE tail + n - size
  BY <1>1 DEF Advance
<1>3. CASE full = TRUE /\ Count = size
  <2>1. full'
    BY <1>3
  <2>2. Count' = size
    BY <2>1 DEF Count
  <2> QED
    BY <1>1, <1>3, <2>2
<1>4. CASE full = FALSE /\ Count < size
  <2>1. (n > 0 /\ tail' = head) <=> Count + n = size
    BY <1>1, <1>2, <1>4
  <2>2. full' <=> (n > 0 /\ tail' = head)
    BY <1>4
  <2> QED
    BY <1>1, <1>2, <1>4, <2>1, <2>2 DEF Count
<1> QED
  BY <1>3, <1>4, TailPosition

LEMMA ReadCounts ==
  ASSUME IInv, NEW n \in Nat, n <= Count, size' = size, tail' = tail,
         head' = Advance(head, n), full' = (full /\ n = 0)
  PROVE  /\ Count' = Count - n
         /\ \A i \in 0 .. Count - n - 1 : Position(i)' = Position(i + n)
<1>1. /\ Count \in Nat /\ head \in Nat /\ tail \in Nat /\ size \in Nat
      /\ Count <= size /\ head < size /\ tail < size
      /\ tail = IF head + Count < size THEN head + Count ELSE head + Count - size
  BY TailPosition
<1>2. head' = IF head + n < size THEN head + n ELSE head + n - size
  BY <1>1 DEF Advance
<1>3. CASE n = 0
  <2>1. head' = head
    BY <1>1, <1>2, <1>3
  <2>2. full' <=> full
    BY <1>3
  <2>3. Count' = Count
    BY <2>1, <2>2 DEF Count
  <2> QED
    BY <1>1, <1>3, <2>1, <2>3 DEF Position
<1>4. CASE n # 0
  <2>1. full' = FALSE
    BY <1>4
  <2>2. Count' = IF head' <= tail THEN tail - head' ELSE size - head' + tail
    BY <2>1 DEF Count
  <2>3. Count' = Count - n
    BY <1>1, <1>2, <1>4, <2>2
  <2>4. \A i \in 0 .. Count - n - 1 : Position(i)' = Position(i + n)
    BY <1>1, <1>2 DEF Position
  <2> QED
    BY <2>3, <2>4
<1> QED
  BY <1>3, <1>4

LEMMA InitRefines == Init => Queue!Init
<1> SUFFICES ASSUME Init PROVE Queue!Init
  OBVIOUS
<1>1. Count = 0
  BY DEF Init, Count
<1>2. Contents = <<>>
  BY <1>1 DEF Contents
<1> QED
  BY <1>2 DEF Init, Queue!Init

LEMMA WriteRefines ==
  ASSUME IInv, IInv', NEW data \in Requests, Write(data) PROVE Queue!Write(data)
<1> DEFINE put == Smaller(Len(data), size - Count)
<1>1. data \in Seq(Data) /\ Len(data) \in Nat
  BY DEF Requests
<1>2. /\ Count \in Nat /\ size \in Nat /\ Count <= size
      /\ full = TRUE => Count = size
      /\ head \in Nat /\ head < size
  BY TailPosition
<1>3. /\ put \in Nat /\ put <= Len(data) /\ put <= size - Count
      /\ (IF full THEN 0 ELSE put) = put
  BY <1>1, <1>2 DEF Smaller
<1>4. /\ tail' = Advance(tail, put)
      /\ full' = (full \/ (put > 0 /\ tail' = head))
      /\ result' = put /\ op' = "write"
      /\ UNCHANGED <<size, capacity, head, taken>>
      /\ buffer' = [i \in DOMAIN buffer |->
            IF tail <= i /\ i < tail + Smaller(put, size - tail) THEN data[i - tail + 1]
            ELSE IF i < put - (size - tail) THEN data[size - tail + i + 1]
            ELSE buffer[i]]
  BY <1>3 DEF Write, Returns
<1> HIDE DEF put
<1>5. Count' = Count + put
  BY <1>3, <1>4, WriteCounts
<1>6. /\ \A i \in 0 .. Count - 1 : buffer'[Position(i)] = buffer[Position(i)]
      /\ \A i \in Count .. Count + put - 1 :
           buffer'[Position(i)] = data[i - Count + 1]
  BY <1>1, <1>3, <1>4, WriteStores
<1> DEFINE added == SubSeq(data, 1, put)
<1>7. /\ added \in Seq(Data) /\ Len(added) = put
      /\ \A i \in 1 .. put : added[i] = data[i]
  <2>1. \A i \in 1 .. put : data[i] \in Data
    BY <1>1, <1>3
  <2> QED
    BY <1>3, <2>1, SubSeqProperties
<1>8. /\ Contents \in Seq(Data) /\ Len(Contents) = Count
      /\ \A i \in 1 .. Count : Contents[i] = buffer[Position(i - 1)]
  BY ContentsProperties DEF ContentsFacts
<1>9. /\ Contents' \in Seq(Data) /\ Len(Contents') = Count'
      /\ \A i \in 1 .. Count' : Contents'[i] = buffer'[Position(i - 1)']
  <2>1. ContentsFacts'
    BY ContentsProperties, PTL
  <2> QED
    BY <2>1 DEF ContentsFacts
<1>10. \A i \in Nat : Position(i)' = Position(i)
  BY <1>4 DEF Position
<1> HIDE DEF added
<1>11. /\ Contents \o added \in Seq(Data)
       /\ Len(Contents \o added) = Count + put
       /\ \A i \in 1 .. Count + put :
            (Contents \o added)[i] = IF i <= Count THEN Contents[i] ELSE added[i - Count]
  <2>1. /\ added \in Seq(Data) /\ Len(added) = put
        /\ Contents \in Seq(Data) /\ Len(Contents) = Count
    BY <1>7, <1>8
  <2>2. /\ Contents \o added \in Seq(Data)
        /\ Len(Contents \o added) = Len(Contents) + Len(added)
        /\ \A i \in 1 .. Len(Contents) + Len(added) :
             (Contents \o added)[i] =
               IF i <= Len(Contents) THEN Contents[i] ELSE added[i - Len(Contents)]
    BY <2>1, ConcatProperties, Zenon
  <2> QED
    BY <2>1, <2>2, Zenon
<1>12. ASSUME NEW i \in 1 .. Count + put
       PROVE  Contents'[i] = (Contents \o added)[i]
  <2>1. Contents'[i] = buffer'[Position(i - 1)]
    BY <1>2, <1>3, <1>5, <1>9, <1>10
  <2>2. CASE i <= Count
    BY <1>2, <1>3, <1>6, <1>8, <1>11, <2>1, <2>2
  <2>3. CASE ~(i <= Count)
    <3>1. buffer'[Position(i - 1)] = data[i - Count]
      <4>1. i - 1 \in Count .. Count + put - 1 /\ (i - 1) - Count + 1 = i - Count
        BY <1>2, <1>3, <2>3
      <4> QED
        BY <1>6, <4>1
    <3>2. added[i - Count] = data[i - Count]
      BY <1>2, <1>3, <1>7, <2>3
    <3> QED
      BY <1>11, <2>1, <2>3, <3>1, <3>2
  <2> QED
    BY <2>2, <2>3
<1>13. Contents' = Contents \o added
  BY <1>5, <1>9, <1>11, <1>12, SeqEqual
<1>14. put = Queue!Smaller(Len(data), size - Len(Contents))
  BY <1>8 DEF put, Smaller, Queue!Smaller
<1> QED
  BY <1>4, <1>13, <1>14 DEF Queue!Write, Queue!Returns, added

LEMMA ReadRefines ==
  ASSUME IInv, IInv', NEW n \in 0 .. MaxRequest, Read(n) PROVE Queue!Read(n)
<1> DEFINE got == Smaller(n, Count)
<1>1. /\ Count \in Nat /\ size \in Nat /\ Count <= size
      /\ head \in Nat /\ head < size
  BY TailPosition
<1>2. got \in Nat /\ got <= Count
  BY <1>1 DEF Smaller
<1>3. /\ head' = Advance(head, got)
      /\ full' = (full /\ got = 0)
      /\ result' = got /\ op' = "read"
      /\ UNCHANGED <<buffer, size, capacity, tail>>
      /\ taken' = [i \in 1 .. got |-> IF i <= size - head THEN buffer[head + i - 1]
                                      ELSE buffer[i - (size - head) - 1]]
  BY DEF Read, Returns
<1>4. got = Queue!Smaller(n, Len(Contents))
  BY ContentsProperties DEF ContentsFacts, Smaller, Queue!Smaller
<1> HIDE DEF got
<1>5. /\ Count' = Count - got
      /\ \A i \in 0 .. Count - got - 1 : Position(i)' = Position(i + got)
  BY <1>2, <1>3, ReadCounts
<1>6. /\ Contents \in Seq(Data) /\ Len(Contents) = Count
      /\ \A i \in 1 .. Count : Contents[i] = buffer[Position(i - 1)]
  BY ContentsProperties DEF ContentsFacts
<1>7. /\ Contents' \in Seq(Data) /\ Len(Contents') = Count'
      /\ \A i \in 1 .. Count' : Contents'[i] = buffer'[Position(i - 1)']
  <2>1. ContentsFacts'
    BY ContentsProperties, PTL
  <2> QED
    BY <2>1 DEF ContentsFacts
<1> DEFINE rest == SubSeq(Contents, got + 1, Count)
           front == SubSeq(Contents, 1, got)
<1>8. /\ rest \in Seq(Data) /\ Len(rest) = Count - got
      /\ \A i \in 1 .. Count - got : rest[i] = Contents[got + i]
  <2>1. \A i \in got + 1 .. Count : Contents[i] \in Data
    BY <1>1, <1>2, <1>6
  <2>2. /\ rest \in Seq(Data)
        /\ Len(rest) = IF got + 1 <= Count THEN Count - (got + 1) + 1 ELSE 0
        /\ \A i \in 1 .. Count - (got + 1) + 1 : rest[i] = Contents[(got + 1) + i - 1]
    BY <1>1, <1>2, <2>1, SubSeqProperties
  <2> HIDE DEF rest
  <2> QED
    BY <1>1, <1>2, <2>2
<1>9. /\ front \in Seq(Data) /\ Len(front) = got
      /\ \A i \in 1 .. got : front[i] = Contents[i]
  <2>1. \A i \in 1 .. got : Contents[i] \in Data
    BY <1>1, <1>2, <1>6
  <2> QED
    BY <1>2, <2>1, SubSeqProperties
<1> HIDE DEF rest, front
<1>10. Contents' = rest
  <2>1. ASSUME NEW i \in 1 .. Count - got PROVE Contents'[i] = rest[i]
    <3>1. Contents'[i] = buffer[Position(i - 1)']
      BY <1>1, <1>2, <1>3, <1>5, <1>7
    <3>2. Position(i - 1)' = Position(got + i - 1)
      <4>1. i - 1 \in 0 .. Count - got - 1 /\ (i - 1) + got = got + i - 1
        BY <1>1, <1>2
      <4> QED
        BY <1>5, <4>1
    <3>3. got + i \in 1 .. Count
      BY <1>1, <1>2
    <3>4. Contents[got + i] = buffer[Position(got + i - 1)]
      BY <1>1, <1>2, <1>6, <3>3
    <3>5. rest[i] = Contents[got + i]
      BY <1>8
    <3> QED
      BY <3>1, <3>2, <3>4, <3>5
  <2> QED
    BY <1>5, <1>7, <1>8, <2>1, SeqEqual
<1>11. taken' = front
  <2>1. taken' \in Seq(Data) /\ Len(taken') = got
    BY <1>2, <1>3 DEF IInv, TypeOK
  <2>2. ASSUME NEW i \in 1 .. got PROVE taken'[i] = front[i]
    <3>1. front[i] = buffer[Position(i - 1)]
      BY <1>1, <1>2, <1>6, <1>9
    <3>2. Position(i - 1) = IF i <= size - head THEN head + i - 1
                            ELSE i - (size - head) - 1
      BY <1>1, <1>2 DEF Position
    <3>3. taken'[i] = IF i <= size - head THEN buffer[head + i - 1]
                      ELSE buffer[i - (size - head) - 1]
      BY <1>3
    <3> QED
      BY <3>1, <3>2, <3>3
  <2> QED
    BY <1>9, <2>1, <2>2, SeqEqual
<1> QED
  BY <1>3, <1>4, <1>6, <1>10, <1>11 DEF Queue!Read, Queue!Returns, rest, front

LEMMA EmptyContents == Empty => Contents' = <<>>
BY DEF Empty, Contents, Count

LEMMA ResizeRefines ==
  ASSUME IInv, NEW n \in Sizes, Resize(n) PROVE Queue!Resize(n)
<1>1. CASE SameSize(n) \/ ReallocFails(n)
  <2>1. Contents' = Contents
    BY <1>1 DEF SameSize, ReallocFails, Contents, Count, At
  <2> QED
    BY <1>1, <2>1 DEF SameSize, ReallocFails, Returns, Queue!Resize, Queue!Returns
<1>2. CASE NewSize(n)
  BY <1>2, EmptyContents DEF NewSize, Returns, Queue!Resize, Queue!Returns
<1> QED
  BY <1>1, <1>2 DEF Resize

\* Whatever the sizes and the requests, the ring buffer is a bounded queue: bytes
\* come out in the order they went in, none lost, repeated or invented.
THEOREM Implements == Spec => IsFifo
<1>1. IInv /\ IInv' /\ [Next]_vars => [Queue!Next]_(Queue!vars)
  <2> SUFFICES ASSUME IInv, IInv', [Next]_vars
               PROVE  Queue!Next \/ UNCHANGED Queue!vars
    OBVIOUS
  <2>1. ASSUME NEW data \in Requests, Write(data) PROVE Queue!Next
    BY <2>1, WriteRefines DEF Requests, Queue!Requests, Queue!Next
  <2>2. ASSUME NEW n \in 0 .. MaxRequest, Read(n) PROVE Queue!Next
    BY <2>2, ReadRefines DEF Queue!Next
  <2>3. CASE Clear
    BY <2>3, EmptyContents DEF Clear, Returns, Queue!Next, Queue!Clear, Queue!Returns
  <2>4. ASSUME NEW n \in Sizes, Resize(n) PROVE Queue!Next
    BY <2>4, ResizeRefines DEF Queue!Next
  <2>5. CASE UNCHANGED vars
    BY <2>5 DEF vars, Queue!vars, Contents, Count, At
  <2> QED
    BY <2>1, <2>2, <2>3, <2>4, <2>5 DEF Next
<1> QED
  BY <1>1, Initially, NextStep, InitRefines, PTL DEF Spec, IsFifo, Queue!Spec

===============================================================================
