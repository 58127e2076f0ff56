------------------------------ MODULE HidReports ------------------------------
(***************************************************************************)
(* The keys of usb_hid.c: sampled and debounced whenever a report was      *)
(* taken, reported when they change and when the idle period of SET_IDLE   *)
(* has passed, with diagnostics in every other report; and the resets of   *)
(* the interface by the host.  Time is read from a counter that wraps, in  *)
(* units of 4 ms, the unit of SET_IDLE: keys are debounced for 5 (20 ms).  *)
(*                                                                         *)
(* The report pipe is the one of ReportPipe: what is armed is taken once.  *)
(* Requests are handled in one step: a completion queued before one is     *)
(* handled before it, and the host does not poll meanwhile.                *)
(***************************************************************************)
EXTENDS Integers

CONSTANTS
  Buttons,      \* the keys
  Modulus,      \* where the microsecond counter wraps (2^32 microseconds)
  FastestPoll, SlowestPoll,   \* bounds of the time between two polls, about 10 ms
  Pauses,       \* the times, modulo Modulus, for which the host does not poll at all
  IdleRates,    \* the durations the host sets with SET_IDLE; 0 is "indefinite"
  MaxChanges,   \* bound on the changes of the contacts of the keys
  MaxRequests   \* bound on the requests, bus resets and pauses of a behaviour

Debounce == 5
Polls == FastestPoll .. SlowestPoll

ASSUME TimeAssumption ==
  /\ Modulus \in Nat \ {0} /\ FastestPoll \in Nat \ {0} /\ SlowestPoll \in Nat
  /\ Pauses \in SUBSET (0 .. Modulus - 1) /\ IdleRates \in SUBSET Nat
  /\ Debounce + SlowestPoll < Modulus
  /\ \A rate \in IdleRates : rate + SlowestPoll < Modulus
ASSUME BoundsAssumption == MaxChanges \in Nat /\ MaxRequests \in Nat

VARIABLES
  clock,                      \* time_us_32
  pins,                       \* the keys whose contact is closed
  raw_buttons, stable_buttons, sent_buttons, changed_at,
  media_sent_at, idle_rate,   \* of HID_REPORT_MEDIA
  report,                     \* the report in the endpoint's buffer
  completed,                  \* a completion is queued for the main loop
  host,
  steady,                     \* for each key how long the samples agreed (history)
  bounds                      \* how often the environment acted

keys == <<raw_buttons, stable_buttons, sent_buttons, changed_at, media_sent_at>>
vars == <<clock, pins, keys, idle_rate, report, completed, host, steady, bounds>>

NoReport == [kind |-> "none"]
Diagnostics == [kind |-> "diagnostics"]
Media(buttons) == [kind |-> "media", buttons |-> buttons]

\* The difference of two readings of the clock, as an unsigned integer.
Since(now, then) == (now - then + Modulus) % Modulus

\* Mutant: the clock is compared with the end of the period.
IsPast(then, period) == clock >= (then + period) % Modulus

Elapsed(then, period) == Since(clock, then) >= period

Init == /\ clock = 0
        /\ pins = {}
        /\ raw_buttons = {} /\ stable_buttons = {} /\ sent_buttons = {}
        /\ changed_at = [b \in Buttons |-> 0]
        /\ media_sent_at = 0 /\ idle_rate = 0
        /\ report = NoReport /\ completed = FALSE
        /\ host = [configured |-> FALSE, buttons |-> {}, waited |-> 0]
        /\ steady = [b \in Buttons |-> 0]
        /\ bounds = [changes |-> 0, requests |-> 0]

-------------------------------------------------------------------------------
(* The environment *)

\* A contact closes, opens or bounces.
Contact == /\ bounds.changes < MaxChanges
           /\ \E b \in Buttons : pins' = IF b \in pins THEN pins \ {b} ELSE pins \cup {b}
           /\ bounds' = [bounds EXCEPT !.changes = @ + 1]
           /\ UNCHANGED <<clock, keys, idle_rate, report, completed, host, steady>>

Longer(time) == [b \in Buttons |-> IF steady[b] + time > Debounce THEN Debounce ELSE steady[b] + time]

\* The host's poll takes the report and tells the time it waited for the keys.
HostReads ==
  /\ host.configured /\ ~completed /\ report # NoReport
  /\ \E time \in Polls :
       /\ clock' = (clock + time) % Modulus
       /\ steady' = Longer(time)
       /\ host' = IF report.kind = "media"
                  THEN [host EXCEPT !.buttons = report.buttons, !.waited = 0]
                  ELSE [host EXCEPT !.waited = IF idle_rate = 0 THEN 0 ELSE @ + time]
  /\ report' = NoReport
  /\ completed' = TRUE
  /\ UNCHANGED <<pins, keys, idle_rate, bounds>>

\* The host does not poll for a time of its choice (suspend, a busy bus).
Pause == /\ bounds.requests < MaxRequests
         /\ \E time \in Pauses : /\ clock' = (clock + time) % Modulus
                                /\ steady' = Longer(time)
         /\ bounds' = [bounds EXCEPT !.requests = @ + 1]
         /\ host' = [host EXCEPT !.waited = 0]
         /\ UNCHANGED <<pins, keys, idle_rate, report, completed>>

-------------------------------------------------------------------------------
(* The program; the time does not pass while it handles an event *)

sample_buttons ==
  LET flipped == (pins \cup raw_buttons) \ (pins \cap raw_buttons) IN
  /\ raw_buttons' = pins
  /\ changed_at' = [b \in Buttons |-> IF b \in flipped THEN clock ELSE changed_at[b]]
  /\ stable_buttons' = {b \in Buttons :
       b \in IF Elapsed(changed_at'[b], Debounce) THEN pins ELSE stable_buttons}
  /\ steady' = [b \in Buttons |-> IF b \in flipped THEN 0 ELSE steady[b]]

\* Mutant: only presses are reported.
MediaIsDueForPress == \/ stable_buttons' \ sent_buttons # {}
                      \/ idle_rate # 0 /\ Elapsed(media_sent_at, idle_rate)

\* Mutant: the idle rate 0, "indefinite", is a period.
MediaIsDueAtZero == \/ stable_buttons' # sent_buttons
                    \/ Elapsed(media_sent_at, idle_rate)

MediaIsDue == \/ stable_buttons' # sent_buttons
              \/ idle_rate # 0 /\ Elapsed(media_sent_at, idle_rate)

\* send_next_report, called when the report before was taken.
ep_hid_in_handler ==
  /\ completed
  /\ sample_buttons
  /\ \/ /\ MediaIsDue
        /\ report' = Media(stable_buttons')
        /\ sent_buttons' = stable_buttons'
        /\ media_sent_at' = clock
     \/ /\ ~MediaIsDue
        /\ report' = Diagnostics
        /\ UNCHANGED <<sent_buttons, media_sent_at>>
  /\ completed' = FALSE
  /\ UNCHANGED <<clock, pins, idle_rate, host, bounds>>

\* Mutant: what was reported is remembered.
ResetKeepingSent ==
  /\ raw_buttons' = {} /\ stable_buttons' = {}
  /\ media_sent_at' = clock
  /\ changed_at' = [b \in Buttons |-> clock]
  /\ idle_rate' = 0
  /\ steady' = [b \in Buttons |-> 0]
  /\ UNCHANGED sent_buttons

usb_hid_reset ==
  /\ raw_buttons' = {} /\ stable_buttons' = {} /\ sent_buttons' = {}
  /\ media_sent_at' = clock
  /\ changed_at' = [b \in Buttons |-> clock]
  /\ idle_rate' = 0
  /\ steady' = [b \in Buttons |-> 0]

Requested == /\ bounds.requests < MaxRequests
             /\ ~completed
             /\ bounds' = [bounds EXCEPT !.requests = @ + 1]
             /\ UNCHANGED <<clock, pins, completed>>

\* The interface is set up by SET_CONFIGURATION, when the host takes the keys to
\* be released, and by SET_INTERFACE, when it learns that from the report.
usb_hid_set_interface ==
  /\ Requested
  /\ usb_hid_reset
  /\ report' = Media({})
  /\ \/ host' = [configured |-> TRUE, buttons |-> {}, waited |-> 0]
     \/ host.configured /\ host' = [host EXCEPT !.waited = 0]

\* A bus reset or SET_CONFIGURATION 0: nothing is armed, nothing is polled.
Unconfigure ==
  /\ Requested
  /\ usb_hid_reset
  /\ host' = [configured |-> FALSE, buttons |-> {}, waited |-> 0]
  /\ UNCHANGED report

SetIdle ==
  /\ Requested
  /\ host.configured
  /\ idle_rate' \in IdleRates
  /\ host' = [host EXCEPT !.waited = 0]
  /\ UNCHANGED <<keys, report, steady>>

-------------------------------------------------------------------------------
Next == \/ Contact \/ HostReads \/ Pause
        \/ ep_hid_in_handler
        \/ usb_hid_set_interface \/ Unconfigure \/ SetIdle

Spec == Init /\ [][Next]_vars

\* A configured host polls, and the main loop does not stop.
FairSpec == Spec /\ WF_vars(HostReads) /\ WF_vars(ep_hid_in_handler)

-------------------------------------------------------------------------------
(* Properties *)

Reports == {NoReport, Diagnostics} \cup {Media(B) : B \in SUBSET Buttons}

\* Type correctness; and the keys the program believes it reported are those the
\* host knows or is about to read, also across the resets of the interface.
TypeOK ==
  /\ clock \in 0 .. Modulus - 1 /\ media_sent_at \in 0 .. Modulus - 1
  /\ changed_at \in [Buttons -> 0 .. Modulus - 1]
  /\ pins \in SUBSET Buttons /\ raw_buttons \in SUBSET Buttons
  /\ stable_buttons \in SUBSET Buttons
  /\ idle_rate \in IdleRates \cup {0}
  /\ report \in Reports /\ completed \in BOOLEAN
  /\ host.configured => sent_buttons = IF report.kind = "media" THEN report.buttons
                                       ELSE host.buttons

\* A key changes in a report only after its contact was seen in the new state
\* for 20 ms without a contrary sample, wherever the microsecond counter wraps
\* and however long the host paused (sample_buttons).
NoGlitchReported ==
  [][ep_hid_in_handler =>
       \A b \in Buttons : (b \in sent_buttons) # (b \in sent_buttons') => steady'[b] >= Debounce]_vars

\* Keys held or released for good become known to the host, whatever resets and
\* pauses came before: "press and release are both reported" (MEDIA_CONTROLS.md).
HostLearnsKeys ==
  \A held \in SUBSET Buttons :
    <>[](pins = held /\ host.configured) => <>[](host.buttons = held)

\* A host that set an idle rate reads the keys at least once in that period, give
\* or take two polls, across the wrap of the counter (send_next_report).
IdleHonoured == idle_rate # 0 => host.waited <= idle_rate + 2 * SlowestPoll

\* Neither the keys nor an idle rate slower than the polls keeps the diagnostics
\* from the host.
DiagnosticsKeepComing ==
  <>[](host.configured /\ (idle_rate = 0 \/ idle_rate > SlowestPoll))
    => []<>(report = Diagnostics)
===============================================================================
