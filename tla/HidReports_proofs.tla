--------------------------- MODULE HidReports_proofs ---------------------------
(***************************************************************************)
(* Proofs about HidReports for any keys, modulus of the clock, poll        *)
(* intervals, pauses and idle rates: type correctness with the agreement   *)
(* of program and host, the debouncing, and the idle period.               *)
(***************************************************************************)
EXTENDS HidReports, TLAPS

-------------------------------------------------------------------------------
(* The clock *)

\* A remainder is in range, and equal to the number or smaller by the modulus.
LEMMA Remainder ==
  ASSUME NEW M \in Nat \ {0}, NEW n \in Nat
  PROVE  /\ n % M \in 0 .. M - 1
         /\ n % M = n \/ (n % M) + M <= n
<1>1. n = M * (n \div M) + (n % M)
  OBVIOUS
<1>2. n % M \in 0 .. M - 1
  OBVIOUS
<1>3. n \div M \in Nat
  OBVIOUS
<1>4. CASE n \div M = 0
  BY <1>1, <1>2, <1>4
<1>5. CASE n \div M >= 1
  <2>1. M * (n \div M) >= M
    BY <1>3, <1>5
  <2> QED
    BY <1>1, <1>2, <2>1
<1> QED
  BY <1>3, <1>4, <1>5

Times == 0 .. Modulus - 1

\* The difference of two readings, without the remainder.
LEMMA SinceIs ==
  ASSUME NEW now \in Times, NEW then \in Times
  PROVE  Since(now, then) = IF now >= then THEN now - then ELSE (now - then) + Modulus
<1> DEFINE n == (now - then) + Modulus
<1>1. Modulus \in Nat \ {0}
  BY TimeAssumption
<1>2. n \in Nat /\ n < 2 * Modulus /\ n > 0
  BY <1>1 DEF Times
<1>3. n % Modulus \in 0 .. Modulus - 1 /\ (n % Modulus = n \/ (n % Modulus) + Modulus <= n)
  BY <1>1, <1>2, Remainder
<1>4. n = Modulus * (n \div Modulus) + (n % Modulus) /\ n \div Modulus \in Nat
  BY <1>1, <1>2
<1>5. CASE n < Modulus
  BY <1>1, <1>2, <1>3, <1>5 DEF Since, Times
<1>6. CASE n >= Modulus
  <2>1. n \div Modulus = 1
    <3>1. CASE n \div Modulus = 0
      BY <1>1, <1>3, <1>4, <1>6, <3>1
    <3>2. CASE n \div Modulus >= 2
      <4>1. Modulus * (n \div Modulus) >= 2 * Modulus
        BY <1>1, <1>4, <3>2
      <4> QED
        BY <1>1, <1>2, <1>3, <1>4, <4>1
    <3> QED
      BY <1>4, <3>1, <3>2
  <2>2. n % Modulus = n - Modulus
    BY <1>1, <1>2, <1>3, <1>4, <2>1
  <2> QED
    BY <1>1, <1>6, <2>2 DEF Since, Times
<1> QED
  BY <1>1, <1>2, <1>5, <1>6

LEMMA SinceInRange ==
  ASSUME NEW now \in Times, NEW then \in Times
  PROVE  Since(now, then) \in Times /\ Since(now, then) \in Nat /\ Since(now, now) = 0
BY SinceIs, TimeAssumption DEF Times

\* While the clock advances, the difference grows by no more than the time that
\* passed, and by exactly that time unless it would reach the modulus.
LEMMA SinceGrows ==
  ASSUME NEW now \in Times, NEW then \in Times, NEW time \in Nat,
         NEW later, later = (now + time) % Modulus
  PROVE  /\ later \in Times
         /\ Since(now, then) \in Times
         /\ Since(later, then) \in Times
         /\ Since(later, then) <= Since(now, then) + time
         /\ Since(now, then) + time < Modulus => Since(later, then) = Since(now, then) + time
<1>1. Modulus \in Nat \ {0}
  BY TimeAssumption
<1>2. now + time \in Nat
  BY <1>1 DEF Times
<1>3. /\ later \in 0 .. Modulus - 1
      /\ later = now + time \/ later + Modulus <= now + time
  BY <1>1, <1>2, Remainder
<1>4. later \in Times
  BY <1>3 DEF Times
<1>5. Since(now, then) = IF now >= then THEN now - then ELSE (now - then) + Modulus
  BY SinceIs
<1>6. Since(later, then) = IF later >= then THEN later - then ELSE (later - then) + Modulus
  BY <1>4, SinceIs
<1>7. Since(now, then) \in Times /\ Since(later, then) \in Times
  BY <1>1, <1>4, <1>5, <1>6 DEF Times
<1>8. Since(later, then) <= Since(now, then) + time
  BY <1>1, <1>3, <1>4, <1>5, <1>6 DEF Times
<1>9. ASSUME Since(now, then) + time < Modulus
      PROVE  Since(later, then) = Since(now, then) + time
  <2>1. now + time = Modulus * ((now + time) \div Modulus) + later /\ (now + time) \div Modulus \in Nat
    BY <1>1, <1>2
  <2>2. now + time < 2 * Modulus
    BY <1>1, <1>5, <1>9 DEF Times
  <2>3. (now + time) \div Modulus \in {0, 1}
    <3>1. CASE (now + time) \div Modulus >= 2
      <4>1. Modulus * ((now + time) \div Modulus) >= 2 * Modulus
        BY <1>1, <2>1, <3>1
      <4> QED
        BY <1>1, <1>3, <2>1, <2>2, <4>1
    <3> QED
      BY <2>1, <3>1
  <2>4. later = now + time \/ later = (now + time) - Modulus
    <3> DEFINE q == (now + time) \div Modulus
    <3>1. CASE q = 0
      <4>1. Modulus * q = 0
        BY <1>1, <3>1
      <4> QED
        BY <1>2, <1>3, <2>1, <4>1
    <3>2. CASE q = 1
      <4>1. Modulus * q = Modulus
        BY <1>1, <3>2
      <4> QED
        BY <1>1, <1>2, <1>3, <2>1, <4>1
    <3> QED
      BY <2>3, <3>1, <3>2
  <2> QED
    BY <1>1, <1>3, <1>4, <1>5, <1>6, <1>9, <2>4 DEF Times
<1> QED
  BY <1>4, <1>7, <1>8, <1>9

-------------------------------------------------------------------------------
(* The inductive invariant *)

Types ==
  /\ clock \in Times /\ media_sent_at \in Times
  /\ changed_at \in [Buttons -> Times]
  /\ pins \in SUBSET Buttons /\ raw_buttons \in SUBSET Buttons
  /\ stable_buttons \in SUBSET Buttons /\ sent_buttons \in SUBSET Buttons
  /\ idle_rate \in IdleRates \cup {0}
  /\ report \in Reports /\ completed \in BOOLEAN
  /\ host \in [configured : BOOLEAN, buttons : SUBSET Buttons, waited : Nat]
  /\ steady \in [Buttons -> 0 .. Debounce]

\* What was sent is what the host knows or the buffer holds, and it is the state the
\* keys were debounced to; the buffer is empty while a completion is queued.
Agreement ==
  /\ sent_buttons = stable_buttons
  /\ completed => report = NoReport
  /\ host.configured => sent_buttons = IF report.kind = "media" THEN report.buttons
                                       ELSE host.buttons

\* The difference of two readings never exceeds the time a contact was steady.
Debounced ==
  \A b \in Buttons : steady[b] >= Debounce \/ steady[b] >= Since(clock, changed_at[b])

\* The host's wait is bounded by the program's own, which the handler keeps below the
\* idle period when it sends diagnostics.
Waiting ==
  IF idle_rate = 0 THEN host.waited = 0
  ELSE /\ host.waited <= idle_rate + 2 * SlowestPoll
       /\ report.kind # "media" => host.waited <= Since(clock, media_sent_at) + SlowestPoll
       /\ report.kind = "diagnostics" =>
            host.waited = 0 \/ Since(clock, media_sent_at) < idle_rate

IInv == Types /\ Agreement /\ Debounced /\ Waiting

-------------------------------------------------------------------------------
(* The invariant holds initially and is preserved *)

LEMMA InitIInv == Init => IInv
<1> SUFFICES ASSUME Init PROVE IInv
  OBVIOUS
<1>1. Modulus \in Nat \ {0} /\ 0 \in Times
  BY TimeAssumption DEF Times
<1>2. Types
  <2>1. report \in Reports
    BY DEF Init, Reports
  <2>2. host \in [configured : BOOLEAN, buttons : SUBSET Buttons, waited : Nat]
    BY DEF Init
  <2>3. steady \in [Buttons -> 0 .. Debounce]
    BY DEF Init, Debounce
  <2>4. changed_at \in [Buttons -> Times]
    BY <1>1 DEF Init
  <2> QED
    BY <1>1, <2>1, <2>2, <2>3, <2>4 DEF Init, Types
<1>3. Agreement
  BY DEF Init, Agreement, NoReport
<1>4. Debounced
  <2> SUFFICES ASSUME NEW b \in Buttons PROVE steady[b] >= Since(clock, changed_at[b])
    BY DEF Debounced
  <2>1. Since(0, 0) = 0
    BY <1>1, SinceIs
  <2> QED
    BY <2>1 DEF Init
<1>5. Waiting
  BY DEF Init, Waiting
<1> QED
  BY <1>2, <1>3, <1>4, <1>5 DEF IInv

\* The history of the contacts keeps up with the clock.
LEMMA TimePasses ==
  ASSUME IInv, NEW time \in Nat, clock' = (clock + time) % Modulus,
         steady' = Longer(time), UNCHANGED changed_at
  PROVE  clock' \in Times /\ steady' \in [Buttons -> 0 .. Debounce] /\ Debounced'
<1>1. clock' \in Times
  BY SinceGrows DEF IInv, Types
<1>2. steady' \in [Buttons -> 0 .. Debounce]
  BY DEF IInv, Types, Longer, Debounce
<1>3. Debounced'
  <2> SUFFICES ASSUME NEW b \in Buttons
               PROVE  steady'[b] >= Debounce \/ steady'[b] >= Since(clock', changed_at[b])
    BY DEF Debounced
  <2>1. /\ Since(clock', changed_at[b]) <= Since(clock, changed_at[b]) + time
        /\ Since(clock, changed_at[b]) \in Int /\ Since(clock', changed_at[b]) \in Int
    <3>1. clock \in Times /\ changed_at[b] \in Times
      BY DEF IInv, Types
    <3>2. /\ Since(clock', changed_at[b]) <= Since(clock, changed_at[b]) + time
          /\ Since(clock, changed_at[b]) \in Times /\ Since(clock', changed_at[b]) \in Times
      BY <3>1, SinceGrows
    <3> QED
      BY <3>2, TimeAssumption DEF Times
  <2>2. steady[b] >= Debounce \/ steady[b] >= Since(clock, changed_at[b])
    BY DEF IInv, Debounced
  <2>3. steady[b] \in 0 .. 5
    BY DEF IInv, Types, Debounce
  <2>4. steady'[b] = IF steady[b] + time > 5 THEN 5 ELSE steady[b] + time
    BY DEF Longer, Debounce
  <2> QED
    BY <2>1, <2>2, <2>3, <2>4 DEF Debounce
<1> QED
  BY <1>1, <1>2, <1>3

LEMMA ContactStep == IInv /\ Contact => IInv'
<1> SUFFICES ASSUME IInv, Contact PROVE IInv'
  OBVIOUS
<1>1. pins' \in SUBSET Buttons
  BY DEF IInv, Types, Contact
<1> QED
  BY <1>1 DEF IInv, Types, Agreement, Debounced, Waiting, Contact, keys

LEMMA HostReadsStep == IInv /\ HostReads => IInv'
<1> SUFFICES ASSUME IInv, HostReads PROVE IInv'
  OBVIOUS
<1>1. PICK time \in Polls :
        /\ clock' = (clock + time) % Modulus
        /\ steady' = Longer(time)
        /\ host' = IF report.kind = "media"
                   THEN [host EXCEPT !.buttons = report.buttons, !.waited = 0]
                   ELSE [host EXCEPT !.waited = IF idle_rate = 0 THEN 0 ELSE @ + time]
  BY DEF HostReads
<1>2. /\ time \in Nat /\ time <= SlowestPoll /\ SlowestPoll \in Nat
      /\ Modulus \in Nat \ {0}
      /\ idle_rate \in Nat /\ (idle_rate # 0 => idle_rate + SlowestPoll < Modulus)
  BY TimeAssumption DEF Polls, IInv, Types
<1>3. /\ host.configured /\ ~completed /\ report # NoReport
      /\ report' = NoReport /\ completed' = TRUE
      /\ UNCHANGED <<pins, raw_buttons, stable_buttons, sent_buttons, changed_at,
                     media_sent_at, idle_rate>>
  BY DEF HostReads, keys
<1>4. clock' \in Times /\ steady' \in [Buttons -> 0 .. Debounce] /\ Debounced'
  BY <1>1, <1>2, <1>3, TimePasses
<1>5. report = Diagnostics \/ \E B \in SUBSET Buttons : report = Media(B)
  BY <1>3 DEF IInv, Types, Reports
<1>6. Types'
  <2>1. host \in [configured : BOOLEAN, buttons : SUBSET Buttons, waited : Nat]
    BY DEF IInv, Types
  <2>2. report.kind = "media" => report.buttons \in SUBSET Buttons
    BY <1>5 DEF Media, Diagnostics
  <2>3. host' \in [configured : BOOLEAN, buttons : SUBSET Buttons, waited : Nat]
    <3>1. CASE report.kind = "media"
      BY <1>1, <2>1, <2>2, <3>1
    <3>2. CASE report.kind # "media"
      BY <1>1, <1>2, <2>1, <3>2
    <3> QED
      BY <3>1, <3>2
  <2> QED
    BY <1>3, <1>4, <2>3 DEF IInv, Types, Reports
<1>7. Agreement'
  BY <1>1, <1>3, <1>5 DEF IInv, Types, Agreement, NoReport, Media, Diagnostics
<1>8. Waiting'
  <2> DEFINE waits == Since(clock, media_sent_at)
  <2>1. /\ waits \in Nat /\ Since(clock', media_sent_at) \in Nat
        /\ waits + time < Modulus => Since(clock', media_sent_at) = waits + time
    BY <1>1, <1>2, SinceGrows DEF IInv, Types, Times
  <2>2. CASE idle_rate = 0 \/ report.kind = "media"
    BY <1>1, <1>2, <1>3, <2>1, <2>2 DEF IInv, Types, Waiting, NoReport
  <2>3. CASE idle_rate # 0 /\ report = Diagnostics
    <3>1. host'.waited = host.waited + time /\ host.waited \in Nat
      BY <1>1, <2>3 DEF Diagnostics, IInv, Types
    <3>2. host.waited = 0 \/ (waits < idle_rate /\ host.waited <= waits + SlowestPoll)
      BY <2>3 DEF IInv, Waiting, Diagnostics
    <3>3. /\ host'.waited <= idle_rate + 2 * SlowestPoll
          /\ host'.waited <= Since(clock', media_sent_at) + SlowestPoll
      BY <1>2, <2>1, <2>3, <3>1, <3>2
    <3> QED
      BY <1>3, <2>3, <3>3 DEF Waiting, NoReport
  <2> QED
    BY <1>5, <2>2, <2>3 DEF Media
<1> QED
  BY <1>4, <1>6, <1>7, <1>8 DEF IInv

LEMMA PauseStep == IInv /\ Pause => IInv'
<1> SUFFICES ASSUME IInv, Pause PROVE IInv'
  OBVIOUS
<1>1. PICK time \in Pauses : clock' = (clock + time) % Modulus /\ steady' = Longer(time)
  BY DEF Pause
<1>2. time \in Nat /\ Modulus \in Nat \ {0} /\ SlowestPoll \in Nat
      /\ idle_rate \in Nat
  BY TimeAssumption DEF IInv, Types
<1>3. /\ host' = [host EXCEPT !.waited = 0]
      /\ UNCHANGED <<pins, raw_buttons, stable_buttons, sent_buttons, changed_at,
                     media_sent_at, idle_rate, report, completed>>
  BY DEF Pause, keys
<1>4. clock' \in Times /\ steady' \in [Buttons -> 0 .. Debounce] /\ Debounced'
  BY <1>1, <1>2, <1>3, TimePasses
<1>5. Types'
  BY <1>3, <1>4 DEF IInv, Types
<1>6. Agreement'
  BY <1>3 DEF IInv, Types, Agreement
<1>7. Since(clock', media_sent_at) \in Nat
  BY <1>4, SinceInRange DEF IInv, Types
<1>8. Waiting'
  BY <1>2, <1>3, <1>7 DEF IInv, Types, Waiting
<1> QED
  BY <1>4, <1>5, <1>6, <1>8 DEF IInv

\* The sampling of the handler: a key whose debounced state changes was steady.
LEMMA Sampled ==
  ASSUME IInv, sample_buttons, UNCHANGED clock
  PROVE  /\ raw_buttons' \in SUBSET Buttons /\ stable_buttons' \in SUBSET Buttons
         /\ changed_at' \in [Buttons -> Times] /\ steady' \in [Buttons -> 0 .. Debounce]
         /\ Debounced'
         /\ \A b \in Buttons : (b \in stable_buttons) # (b \in stable_buttons')
                                => steady'[b] >= Debounce
<1> DEFINE flipped == (pins \cup raw_buttons) \ (pins \cap raw_buttons)
<1>1. changed_at' = [b \in Buttons |-> IF b \in flipped THEN clock ELSE changed_at[b]]
  BY DEF sample_buttons
<1>2. steady' = [b \in Buttons |-> IF b \in flipped THEN 0 ELSE steady[b]]
  BY DEF sample_buttons
<1>3. /\ raw_buttons' \in SUBSET Buttons /\ stable_buttons' \in SUBSET Buttons
      /\ changed_at' \in [Buttons -> Times] /\ steady' \in [Buttons -> 0 .. Debounce]
  <2>1. raw_buttons' \in SUBSET Buttons /\ stable_buttons' \in SUBSET Buttons
    BY DEF sample_buttons, IInv, Types
  <2>2. changed_at' \in [Buttons -> Times]
    BY <1>1 DEF IInv, Types
  <2>3. steady' \in [Buttons -> 0 .. Debounce]
    BY <1>2 DEF IInv, Types, Debounce
  <2> QED
    BY <2>1, <2>2, <2>3
<1>4. ASSUME NEW b \in Buttons
      PROVE  steady'[b] >= Debounce \/ steady'[b] >= Since(clock, changed_at'[b])
  <2>1. CASE b \in flipped
    <3>1. steady'[b] = 0 /\ changed_at'[b] = clock
      BY <1>1, <1>2, <2>1
    <3>2. Since(clock, clock) = 0
      BY SinceInRange, TimeAssumption DEF IInv, Types
    <3> QED
      BY <3>1, <3>2
  <2>2. CASE b \notin flipped
    <3>1. steady'[b] = steady[b] /\ changed_at'[b] = changed_at[b]
      BY <1>1, <1>2, <2>2
    <3> QED
      BY <3>1 DEF IInv, Debounced
  <2> QED
    BY <2>1, <2>2
<1>5. Debounced'
  BY <1>4 DEF Debounced
<1>6. ASSUME NEW b \in Buttons, (b \in stable_buttons) # (b \in stable_buttons')
      PROVE  steady'[b] >= Debounce
  <2>1. Since(clock, changed_at'[b]) >= Debounce
    <3> SUFFICES ASSUME ~Elapsed(changed_at'[b], Debounce) PROVE FALSE
      BY DEF Elapsed
    <3>1. b \in stable_buttons' <=>
            b \in IF Elapsed(changed_at'[b], Debounce) THEN pins ELSE stable_buttons
      BY DEF sample_buttons
    <3>2. b \in stable_buttons' <=> b \in stable_buttons
      BY <3>1
    <3> QED
      BY <1>6, <3>2
  <2>2. Since(clock, changed_at'[b]) \in Int /\ steady'[b] \in Int
    <3>1. Since(clock, changed_at'[b]) \in Nat
      BY <1>3, SinceInRange DEF IInv, Types
    <3> QED
      BY <1>3, <3>1 DEF Debounce
  <2> QED
    BY <1>4, <2>1, <2>2 DEF Debounce
<1> QED
  BY <1>3, <1>5, <1>6

LEMMA HandlerStep == IInv /\ ep_hid_in_handler => IInv'
<1> SUFFICES ASSUME IInv, ep_hid_in_handler PROVE IInv'
  OBVIOUS
<1>1. /\ completed /\ sample_buttons /\ completed' = FALSE
      /\ UNCHANGED <<clock, pins, idle_rate, host>>
  BY DEF ep_hid_in_handler
<1>2. /\ raw_buttons' \in SUBSET Buttons /\ stable_buttons' \in SUBSET Buttons
      /\ changed_at' \in [Buttons -> Times] /\ steady' \in [Buttons -> 0 .. Debounce]
      /\ Debounced'
  BY <1>1, Sampled
<1>3. report = NoReport
  BY <1>1 DEF IInv, Agreement
<1>4. /\ SlowestPoll \in Nat /\ idle_rate \in Nat /\ host.waited \in Nat
      /\ Since(clock, media_sent_at) \in Int
  BY SinceInRange, TimeAssumption DEF IInv, Types
<1>5. CASE /\ MediaIsDue
           /\ report' = Media(stable_buttons')
           /\ sent_buttons' = stable_buttons'
           /\ media_sent_at' = clock
  <2>1. Types'
    BY <1>1, <1>2, <1>5 DEF IInv, Types, Reports
  <2>2. Agreement'
    BY <1>1, <1>5 DEF Agreement, Media
  <2>3. Waiting'
    BY <1>1, <1>5 DEF IInv, Waiting, Media
  <2> QED
    BY <1>2, <2>1, <2>2, <2>3 DEF IInv
<1>6. CASE /\ ~MediaIsDue
           /\ report' = Diagnostics
           /\ UNCHANGED <<sent_buttons, media_sent_at>>
  <2>1. stable_buttons' = sent_buttons
    BY <1>6 DEF MediaIsDue
  <2>2. idle_rate # 0 => Since(clock, media_sent_at) < idle_rate
    BY <1>4, <1>6 DEF MediaIsDue, Elapsed
  <2>3. Types'
    BY <1>1, <1>2, <1>6 DEF IInv, Types, Reports
  <2>4. Agreement'
    BY <1>1, <1>3, <1>6, <2>1 DEF IInv, Agreement, NoReport, Diagnostics
  <2>5. Waiting'
    BY <1>1, <1>3, <1>6, <2>2 DEF IInv, Waiting, NoReport, Diagnostics
  <2> QED
    BY <1>2, <2>3, <2>4, <2>5 DEF IInv
<1> QED
  BY <1>5, <1>6 DEF ep_hid_in_handler

\* After a reset the time since the keys changed and since the report is none.
LEMMA ResetKeys ==
  ASSUME IInv, usb_hid_reset, UNCHANGED clock
  PROVE  Debounced' /\ Since(clock', media_sent_at') = 0
<1>1. Since(clock, clock) = 0
  BY SinceInRange, TimeAssumption DEF IInv, Types
<1> QED
  BY <1>1 DEF usb_hid_reset, Debounced

LEMMA SetInterfaceStep == IInv /\ usb_hid_set_interface => IInv'
<1> SUFFICES ASSUME IInv, usb_hid_set_interface PROVE IInv'
  OBVIOUS
<1>1. /\ usb_hid_reset /\ report' = Media({}) /\ ~completed
      /\ UNCHANGED <<clock, pins, completed>>
      /\ host' \in [configured : BOOLEAN, buttons : SUBSET Buttons, waited : {0}]
  <2>1. host \in [configured : BOOLEAN, buttons : SUBSET Buttons, waited : Nat]
    BY DEF IInv, Types
  <2>2. host' \in [configured : BOOLEAN, buttons : SUBSET Buttons, waited : {0}]
    <3>1. CASE host' = [configured |-> TRUE, buttons |-> {}, waited |-> 0]
      BY <3>1
    <3>2. CASE host' = [host EXCEPT !.waited = 0]
      BY <2>1, <3>2
    <3> QED
      BY <3>1, <3>2 DEF usb_hid_set_interface
  <2> QED
    BY <2>2 DEF usb_hid_set_interface, Requested
<1>2. Types'
  BY <1>1 DEF IInv, Types, usb_hid_reset, Reports, Debounce
<1>3. Agreement'
  BY <1>1 DEF Agreement, usb_hid_reset, Media
<1>4. Waiting'
  BY <1>1 DEF Waiting, usb_hid_reset
<1> QED
  BY <1>1, <1>2, <1>3, <1>4, ResetKeys DEF IInv

LEMMA UnconfigureStep == IInv /\ Unconfigure => IInv'
<1> SUFFICES ASSUME IInv, Unconfigure PROVE IInv'
  OBVIOUS
<1>1. /\ usb_hid_reset /\ UNCHANGED report /\ ~completed
      /\ UNCHANGED <<clock, pins, completed>>
      /\ host' = [configured |-> FALSE, buttons |-> {}, waited |-> 0]
  BY DEF Unconfigure, Requested
<1>2. Types'
  BY <1>1 DEF IInv, Types, usb_hid_reset, Debounce
<1>3. Agreement'
  BY <1>1 DEF Agreement, usb_hid_reset
<1>4. Waiting'
  BY <1>1 DEF Waiting, usb_hid_reset
<1> QED
  BY <1>1, <1>2, <1>3, <1>4, ResetKeys DEF IInv

LEMMA SetIdleStep == IInv /\ SetIdle => IInv'
<1> SUFFICES ASSUME IInv, SetIdle PROVE IInv'
  OBVIOUS
<1>1. /\ idle_rate' \in IdleRates /\ host' = [host EXCEPT !.waited = 0]
      /\ UNCHANGED <<clock, pins, raw_buttons, stable_buttons, sent_buttons, changed_at,
                     media_sent_at, report, steady, completed>>
  BY DEF SetIdle, Requested, keys
<1>2. Since(clock, media_sent_at) \in Nat /\ SlowestPoll \in Nat /\ idle_rate' \in Nat
  BY <1>1, SinceInRange, TimeAssumption DEF IInv, Types
<1>3. Types'
  BY <1>1 DEF IInv, Types
<1>4. Agreement'
  BY <1>1 DEF IInv, Types, Agreement
<1>5. Debounced'
  BY <1>1 DEF IInv, Debounced
<1>6. Waiting'
  BY <1>1, <1>2 DEF IInv, Types, Waiting
<1> QED
  BY <1>3, <1>4, <1>5, <1>6 DEF IInv

LEMMA StutterStep == IInv /\ UNCHANGED vars => IInv'
BY DEF IInv, Types, Agreement, Debounced, Waiting, vars, keys

LEMMA NextIInv == IInv /\ [Next]_vars => IInv'
BY ContactStep, HostReadsStep, PauseStep, HandlerStep, SetInterfaceStep,
   UnconfigureStep, SetIdleStep, StutterStep DEF Next

LEMMA AlwaysIInv == Spec => []IInv
BY InitIInv, NextIInv, PTL DEF Spec

-------------------------------------------------------------------------------
(* Theorems *)

\* The variables have their types, and the keys the program believes it reported
\* are those the host knows or is about to read (sent_buttons, usb_hid_reset).
THEOREM Agrees == Spec => []TypeOK
<1>1. IInv => TypeOK
  BY DEF IInv, Types, Agreement, TypeOK, Times
<1> QED
  BY <1>1, AlwaysIInv, PTL

\* A host that set an idle rate waits for the keys no longer than that period and two
\* polls, for every clock that is longer than the period and a poll.
THEOREM Idle == Spec => []IdleHonoured
<1>1. IInv => IdleHonoured
  BY DEF IInv, Waiting, IdleHonoured
<1> QED
  BY <1>1, AlwaysIInv, PTL

\* No key changes in a report unless its contact was seen unchanged for 20 ms,
\* wherever the clock wraps (sample_buttons, send_next_report).
THEOREM NoGlitch == Spec => NoGlitchReported
<1> DEFINE Step == ep_hid_in_handler =>
      \A b \in Buttons : (b \in sent_buttons) # (b \in sent_buttons') => steady'[b] >= Debounce
<1>1. ASSUME IInv, IInv', [Next]_vars
      PROVE  [Step]_vars
  <2> SUFFICES ASSUME ep_hid_in_handler, NEW b \in Buttons,
                      (b \in sent_buttons) # (b \in sent_buttons')
               PROVE  steady'[b] >= Debounce
    OBVIOUS
  <2>1. sent_buttons = stable_buttons /\ sent_buttons' = stable_buttons'
    BY <1>1 DEF IInv, Agreement
  <2>2. sample_buttons /\ UNCHANGED clock
    BY DEF ep_hid_in_handler
  <2> QED
    BY <1>1, <2>1, <2>2, Sampled
<1> QED
  BY <1>1, AlwaysIInv, PTL DEF Spec, NoGlitchReported
===============================================================================
