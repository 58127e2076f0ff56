----------------------------- MODULE BlockProgram -----------------------------
(***************************************************************************)
(* What the outputs of the converter promise, without slots, interrupts or *)
(* DMA channels: there is ONE program of blocks.  The first listener to    *)
(* finish a block decides what comes next - the oldest published block, or *)
(* silence when and only when nothing is published - and every other       *)
(* listener then plays that same item.  So all listeners play the same     *)
(* sequence, in publication order, and no block is skipped or repeated.    *)
(***************************************************************************)
EXTENDS Integers, Sequences

CONSTANT Listeners        \* the outputs that may listen

Silence == 0

VARIABLES
  listening,  \* the outputs that are playing
  upcoming,   \* blocks published and not yet chosen, oldest first
  last,       \* the number of the last published block
  item,       \* the item chosen last
  behind,     \* the listeners that have not reached `item`
  playing     \* the item each output plays

vars == <<listening, upcoming, last, item, behind, playing>>

Quiet == /\ listening = {}
         /\ upcoming = <<>>
         /\ item = Silence
         /\ behind = {}
         /\ playing = [o \in Listeners |-> Silence]

Init == Quiet /\ last = 0

Start == /\ listening = {}
         /\ \E set \in SUBSET Listeners : set # {} /\ listening' = set
         /\ UNCHANGED <<upcoming, last, item, behind, playing>>

Publish == /\ listening # {}
           /\ last' = last + 1
           /\ upcoming' = Append(upcoming, last')
           /\ UNCHANGED <<listening, item, behind, playing>>

\* o is the first to finish: it decides for everyone.
Decide(o) == /\ o \in listening
             /\ behind = {}
             /\ IF upcoming = <<>>
                THEN item' = Silence /\ upcoming' = upcoming
                ELSE item' = Head(upcoming) /\ upcoming' = Tail(upcoming)
             /\ playing' = [playing EXCEPT ![o] = item']
             /\ behind' = listening \ {o}
             /\ UNCHANGED <<listening, last>>

\* The others play what was decided.
Follow(o) == /\ o \in behind
             /\ playing' = [playing EXCEPT ![o] = item]
             /\ behind' = behind \ {o}
             /\ UNCHANGED <<listening, upcoming, last, item>>

\* Stopping discards what was published and not played.
Stop == Quiet' /\ last' = last

Next == \/ Start \/ Publish \/ Stop
        \/ \E o \in Listeners : Decide(o) \/ Follow(o)

Spec == Init /\ [][Next]_vars
===============================================================================
