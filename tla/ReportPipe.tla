------------------------------ MODULE ReportPipe ------------------------------
(***************************************************************************)
(* What an interrupt pipe of the device promises, in either direction: one *)
(* report is under way at a time, its reader takes it exactly once, and    *)
(* the sender learns that it was taken only after it was.  A restart of    *)
(* the pipe, and nothing else, may lose a report or repeat one that was    *)
(* taken but not confirmed, and happens only while the pipe is closed.     *)
(***************************************************************************)
EXTENDS Integers

VARIABLES
  unread,        \* reports offered and not yet taken
  unconfirmed,   \* reports offered whose sender does not know they were taken
  open           \* the host uses the pipe

pipeVars == <<unread, unconfirmed, open>>

Init == unread = 0 /\ unconfirmed = 0 /\ open = FALSE

Offer == /\ unread = 0 /\ unconfirmed = 0
         /\ unread' = 1 /\ unconfirmed' = 1
         /\ UNCHANGED open

\* The report is taken; the confirmation may be lost, or come at once.
Take == /\ open /\ unread = 1
        /\ unread' = 0
        /\ unconfirmed' \in {0, unconfirmed}
        /\ UNCHANGED open

Confirm == /\ open /\ unread = 0 /\ unconfirmed = 1
           /\ unconfirmed' = 0
           /\ UNCHANGED <<unread, open>>

\* The host opens the pipe or stops using it.
OpenOrClose == open' = ~open /\ UNCHANGED <<unread, unconfirmed>>

\* Empty, or with a new report of the sender, or with the unconfirmed one again.
Restart == /\ ~open
           /\ unread' \in {0, 1} /\ unconfirmed' = unread'
           /\ UNCHANGED open

Next == Offer \/ Take \/ Confirm \/ OpenOrClose \/ Restart

Spec == Init /\ [][Next]_pipeVars
===============================================================================
