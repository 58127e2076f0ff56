--------------------------------- MODULE Fifo ---------------------------------
(***************************************************************************)
(* What ringbuffer.c promises: a bounded first-in first-out queue.  A      *)
(* write takes the longest prefix that fits, a read the longest prefix of  *)
(* the queue it asks for.  A change of the limit empties the queue.        *)
(***************************************************************************)
EXTENDS Integers, Sequences

CONSTANTS Data, MaxRequest, Limits

VARIABLES
  items,    \* the queue, oldest first
  limit,    \* how many items it may hold
  taken,    \* what the last read copied out
  op,       \* the last call,
  result    \* and the number it returned

vars == <<items, limit, taken, op, result>>

Smaller(m, n) == IF m < n THEN m ELSE n

Requests == UNION {[1 .. n -> Data] : n \in 0 .. MaxRequest}

Returns(name, n) == op' = name /\ result' = n

Init == /\ items = <<>> /\ limit \in Limits /\ taken = <<>>
        /\ op = "init" /\ result = 0

Write(data) ==
  LET put == Smaller(Len(data), limit - Len(items))
  IN  /\ items' = items \o SubSeq(data, 1, put)
      /\ Returns("write", put)
      /\ UNCHANGED <<limit, taken>>

Read(n) ==
  LET got == Smaller(n, Len(items))
  IN  /\ taken' = SubSeq(items, 1, got)
      /\ items' = SubSeq(items, got + 1, Len(items))
      /\ Returns("read", got)
      /\ UNCHANGED limit

Clear == items' = <<>> /\ Returns("clear", 0) /\ UNCHANGED <<limit, taken>>

\* A resize that fails (-1) changes nothing.
Resize(n) == /\ UNCHANGED taken
             /\ \/ /\ limit' = n
                   /\ items' = IF n = limit THEN items ELSE <<>>
                   /\ Returns("resize", 0)
                \/ UNCHANGED <<items, limit>> /\ Returns("resize", -1)

Next == \/ \E data \in Requests : Write(data)
        \/ \E n \in 0 .. MaxRequest : Read(n)
        \/ Clear
        \/ \E n \in Limits : Resize(n)

Spec == Init /\ [][Next]_vars
===============================================================================
