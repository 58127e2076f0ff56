# Verification of pico-dac2

TLA+ models of the firmware of a USB audio DAC on the RP2040: USB Audio Class 2
in, S/PDIF and/or I2S out. The modules are translated from the C sources, checked
by TLC on small instances and, where stated, proved by TLAPS for all values of
their constants. Source lines behind every definition are in `PROJECT.json`
("map"). Paths below are relative to the repository.

## 1. The system

One core runs an endless main loop (`main.c`): `usb_device_task`, then
`audio_device_task`. Two interrupts preempt it: the USB interrupt, and the DMA
interrupt of the output with the highest priority. Everything crosses between
them in two places, the USB event queue and the block queue of the output.

```
 host --> USB controller --ISR--> event queue --main loop--> ring buffer
                ^                     |                          |
                +--- arm endpoints ---+                    audio_device_task
                                                                 |
      S/PDIF, I2S <--DMA + ISR-- block queue (2 slots) <-- encode, publish
```

| Component | State | Operations | What is hard | What makes it correct |
|---|---|---|---|---|
| Block queue, S/PDIF output, I2S mirror (`audio_block_queue.h`, `spdif.c`, `i2s_mirror.h`) | slots `playing/next/queued/writing`, bit masks, DMA sources, running flags | init, start, stop, deinit, buffer_ready, submit, DMA interrupt | two DMA channels finish in either order, the interrupt comes between any two steps of the writer, stop masks the channels one by one | no slot is written while it is emitted; both outputs emit one program of blocks; nobody starves |
| Ring buffer (`ringbuffer.c`) | storage, size, capacity, head, tail, full | write, read, clear, resize, count | wrap-around, full against empty, growth that fails | bounded FIFO |
| Audio stream (`audio_device.c`) | state, rate, format, water levels | task, start, stop, set rate, receive | hysteresis, starvation, restart in mid-stream | all parts configured alike, stalls end |
| USB audio handlers (`usb_audio.c`) | alternate setting, unpacking format, feedback filter | SET_INTERFACE, clock/volume/mute requests, endpoint handlers | requests change several things one after the other | nothing from an old stream is played in a new one |
| USB core, audio receiver and event queue (`usb.c`, `usb_audio_packet.h`) | event queue, `audio_rx_enabled`, `audio_rx_generation` | interrupt, task, SET_INTERFACE, SET_CONFIGURATION, reset | packets in flight across every change; queue at its limit | generations drop old packets; the queue never overflows; endpoints stay armed |
| USB core, control transfers (`usb.c`, `usb_control_state.h`) | EP0 buffers, transfer state, `control_generation`, address | SETUP, completions, stages, reset | a SETUP may come at any step of the transfer before | answers belong to their request, every transfer ends |
| USB core, numbered endpoints (`usb.c`, `usb_buffer_control.h`) | `ep_ctrl`, `buf_ctrl`, `next_pid`, packet sizes, buffers, alternate settings | SET_CONFIGURATION, SET_INTERFACE, CLEAR_FEATURE, reset, start of transfers | a request restarts toggles while a packet is armed; handshakes get lost; refused requests | endpoints are those of the host's settings, a report is taken exactly once |
| HID (`usb_hid.c`) | key samples, debounced and reported keys, idle rate | report completions, SET_IDLE, resets | sampling only when a report completes, on a clock that wraps; keys and diagnostics share a pipe | no glitch is reported, the host learns the keys, diagnostics keep coming |
| I2S output (`i2s.c`) | two buffers, two pointers, ready flag | init, start, stop, deinit, buffer_ready, submit, DMA interrupt | the interrupt swaps whether or not a buffer was filled | writer and channel use different buffers; a late main loop costs two blocks |
| S/PDIF encoder (`spdif_encode.c`) | status bytes, tables | set up, encode a block | look-ups, truncating shifts, parity, channel status | a receiver gets the samples and the format back |
| Descriptors, blinker, log, PIO programs, host tools | | | | (not modelled) |

`PROJECT.json` lists the components with what is left out of each, and the
hazards with the lines where they bite and the properties that watch them.

## 2. Modules

### Output: `BlockQueue`, `SpdifOutput`, `BlockProgram`

`BlockQueue` gives the operations of `audio_block_queue.h` on a record with its
fields; sets of outputs stand for the bit masks. `SpdifOutput` has one action per
function of `spdif.c`, split where an interrupt may come in between:

| Action | Code |
|---|---|
| `SpdifInit`, `SpdifStart`, `BufferReady` | the functions of those names |
| `StartEncode`, `StartMirror`, `PublishBlock` | `spdif_submit_buffer`: S/PDIF encoding, mirror encoding, publication |
| `MaskSpdif`, `Halt` | `spdif_stop` (alone or from `spdif_deinit`), before and after the first channel is masked |
| `IsrSpdif`, `IsrI2s` | the two halves of `spdif_dma_handler` |
| `DmaFinish` | a DMA channel reaches the end of its block (hardware) |

A slot holds the number of the block encoded into it, or `Partial` from the first
word written to the last. `BlockProgram` is the abstract promise: one program of
blocks, decided by the first listener to finish and followed by the other. It
knows no slots and no interrupts. `SpdifOutput` implements it under the mapping
at the end of the module (`OneProgram`). The I2S mirror of `i2s_mirror.h` is the
second output.

Assumption on the hardware: the serializers are enabled together and divide the
same clock by the same number, so a channel does not finish two blocks while the
other finishes none (guard of `DmaFinish`). The code asserts the same
(`audio_block_queue.h:41`).

### Encoder: `SpdifEncode`, `SpdifSignal`

`SpdifEncode` has the operations of `spdif_encode.c` on words that are functions from
bit numbers to bits: the alignment and truncation of samples, the table that doubles
bits, parity, preambles, channel status, and the subframes one after the other in a
block. Next to them stands a receiver written from IEC 60958, which decodes the line by
its transitions. `SpdifSignal` extends `SpdifOutput` with them: whenever the S/PDIF
channel streams a block, what a receiver makes of it is what the stream is. PCM and
Non-PCM streams are told apart as the output tells them apart, by whether the mirror
plays along.

### I2S: `I2sOutput`

The back end of the builds without S/PDIF. The main loop tests the flag, clears it,
takes the pointer and writes the block, each a step of its own (`pc`); the
interrupt swaps the pointers at the end of each block and raises the flag. Two
buffers hold block numbers, which go round modulo `Blocks`. `timely` counts the
swaps in a row that found a block filled; `fresh` the buffers written since the
output was initialised.

### Ring buffer: `RingBuffer`, `Fifo`

`RingBuffer` has the storage, both indexes and the full flag, with each copy in
one or two pieces as in the code; a failing `realloc` is an outcome. `Fifo` is
the abstract bounded queue. The main loop alone uses the ring buffer, so each
function is one action.

### Stream: `AudioStream`, `AudioPath`

`AudioStream` is the state machine of `audio_device.c` with the handlers of
`usb_audio.c`. The ring is a sequence of packets of one millisecond and holds
sixteen (`calc_buffer_size`); a packet is known by the stream and the rate it was
sent for. An output block takes 192 frames, that is 4, 2 or 1 packets at 48, 96 or
192 kHz. `AudioPath` composes it with the USB side: the event queue, the receiver
with its generation, and SET_INTERFACE in its three steps, so that packets
arrive between them. The output here is one emitting block and one queued;
`SpdifOutput` shows what it takes to provide that.

The host asks for one thing at a time. While it changes the interface it may still
deliver packets it had scheduled, but none between the enabling of the new
endpoint and the answer. `PausesForRate` says whether it stops sending while it
sets the rate.

### Control transfers: `UsbControl`

Endpoint 0 with its two buffers, the completions and SETUPs in the event queue,
and the main loop in two steps per event (take it, then arm a buffer), because
the interrupt can come in between. Transfers are of five kinds (read, write,
command, SET_ADDRESS, and the standard interface commands the program ignores).
A buffer remembers which transfer it was armed for, which is what the
properties need and the hardware does not know. The transfer after one that ended
begins at any time, also while the main loop has the completion of the former's
status in hand, which is what the comment at `usb.c:703` is about. A bus reset
comes at any time. `AbandonsAnyTime` is about transfers that did not end, given up
by the host or cut off by a bus reset: whether the host begins the next one even
while a SETUP is queued or the main loop has an event in hand. The host reads the
status of SET_ADDRESS and gives the device its recovery time before the next SETUP.

### Numbered endpoints: `UsbEndpoints`, `ReportPipe`

Registers, buffers and data toggles of the feedback, audio and HID endpoints.
SET_CONFIGURATION and SET_INTERFACE walk the descriptors, disable the endpoints of
the setting that is left and enable those of the new one; CLEAR_FEATURE and the bus
reset restart toggles. The host has toggles of its own, and an acknowledgement may
be lost in either direction, so that a packet comes twice. `BuffersApart` looks at
the layout of the buffer memory; the descriptors are a set of records.

`ReportPipe` is the abstract pipe: one report at a time, taken exactly once, and
restarted only while the host does not use it. `UsbEndpoints` implements it twice, for
the IN and for the OUT pipe (`InIsPipe`, `OutIsPipe`). `MEDIA_CONTROLS.md:42` reports
that only the first LED command of the original interrupt OUT took effect, cause not
located. The code has two fixes since: each interface is initialised once, after its
endpoints are enabled (`usb.c:1069-1071`), and CLEAR_FEATURE restarts the toggle.
`OutIsPipe` is about that hazard, in the code as it is now.

### HID reports: `HidReports`

What the completion handler of `usb_hid.c` does with the keys: it samples, debounces
for 20 ms, decides whether the keys or a page of the diagnostics are reported next,
and honours the idle rate. Time is a counter that wraps, in units of 4 ms. The
requests that set up the interface again are single steps. `steady` (history) is
how long the samples of each key have agreed.

### Event queue: `UsbEventQueue`

The occupancy of the queue by all endpoints. Audio is dropped when four places or
fewer are left; every other event must find a place, or `event_put` panics. The
main loop may be arbitrarily slow. The host makes one control request at a time
and stops polling the streaming endpoints before it asks for a change of them.

## 3. Runs

| Run | Bounds | Shows |
|---|---|---|
| `spdif` | both outputs, 5 blocks, any number of stops and format changes; a few words of each depth as samples | torn blocks, slot ownership, one program, both liveness properties; a receiver gets samples, format and framing |
| `ring` | 2 byte values, requests up to 4 bytes, sizes 2 to 4, capacity 3 at first | the ring is a FIFO, also when it grows or fails to grow |
| `audio_path` | alternate settings 0, 1 (PCM) and 8 (E-AC-3), 48 and 96 kHz, 4 requests or resets, a queue of 6 | no stale audio, no old rate, parts consistent, no flapping; a fed stream starts and a stalled one recovers |
| `rate_while_sending` | host sends during a rate change | finding: old packets are played at the new rate |
| `usb_control` | 4 transfers of up to 2 packets, 2 resets | own answers, own data, address, every transfer ends |
| `usb_control_abandon` | 3 transfers of 1 packet, given up at any time | finding: a stale response answers the next request |
| `usb_endpoints` | 8 alternate settings, 4 requests or resets, any handshake lost | endpoints follow the host, buffers apart, both pipes exact, reports keep coming |
| `hid_reports` | 2 keys, clock modulo 9, polls 2 or 3 apart, idle rates 0, 1 and 5, a pause of 8, 2 changes of contacts, 3 requests | debouncing, idle rate, the host learns the keys, diagnostics keep coming |
| `i2s` | 4 block numbers, a main loop of any speed | writer apart from channel, lateness costs two blocks, the writer is served |
| `i2s_stale` | the same | finding: a restart emits a block of the stream before |
| `event_queue` | HID, length 8, 1 reset | what events other than audio need; feedback and HID endpoints never fall silent |
| `event_queue_full` | HID, length 6 | finding: five events need a place, and the queue panics |

Why the bounds suffice. Two slots and at most two published blocks exist at once, so
five blocks use every slot more than twice, across a stop. The ring's arithmetic depends
only on how indexes meet the end and each other; sizes 2 to 4 with requests up to the
size and one beyond reach every case. A stale packet needs one change of stream while it
is queued; four requests allow a change, a rate, a reset and another change around it.
In `UsbControl` a stale event comes from the transfer before; four transfers let three
follow each other in any mixture, and two resets let one cut off what followed the
other. In `UsbEndpoints` a toggle is wrong after one request that restarts it; four let
a configuration, two changes and a reset follow each other. The clock of `HidReports`
wraps within every debouncing and idle period (9 units against 5), and the pause is one
short of a whole turn. Four block numbers tell a block from the three around it. In
`UsbEventQueue` only the places audio leaves matter, which are four at any length.

Deadlock is checked in `spdif`, `ring`, `i2s` and `i2s_stale`. It is off where a bounded
host may fall silent (`audio_path`, `rate_while_sending`, `usb_control`,
`usb_control_abandon`, `usb_endpoints`, `hid_reports`) and where a panic stops the
program (`event_queue`, `event_queue_full`).

### Fairness

- `SpdifOutput!Fairness`: channels advance by the system clock; the interrupt is
  enabled with the highest priority; the main loop finishes a call it began. It
  is not assumed that the main loop ever asks for a buffer.
- `AudioPath!FairSpec`: `main` calls both tasks for ever; the output advances by
  the clock; and a host with an open stream goes on sending, without which
  playback is not promised.
- `UsbControl!FairSpec`: the main loop runs for ever, and the host polls until
  the transfer it began is over.
- `UsbEndpoints!FairSpec`: the main loop runs for ever, the host takes answers and
  polls the HID pipes, and not every handshake is lost; it has commands to send.
- `HidReports!FairSpec`: the host goes on polling, and the main loop handles the
  completions.
- `I2sOutput!Fairness`: the channel advances by the clock, the interrupt is enabled,
  and the main loop finishes a call it began, however late.

### Assumptions on the host

The models take a host that makes one request at a time, does not poll an endpoint an
outstanding request is about, gives the device its recovery time after a bus reset
and after SET_ADDRESS, and gets every handshake on endpoint 0. A host that leaves a
control transfer unfinished begins the next one when the main loop has no SETUP queued
and no event in hand; after a transfer that ended it need not wait. The host of
`audio_path` pauses its stream while it sets the rate. The last two are dropped, each in
a run of its own: `usb_control_abandon` and `rate_while_sending`.

## 4. Findings

1. `audio_device.c:349` (`rate_while_sending`): a change of the rate clears the ring but
   not the packets of the event queue, which keep a valid generation; `SPDIF.md:76`
   promises both buffers are reset. Needs a host that sends between request and
   answer.
2. `usb.c:649` (`usb_control_abandon`): a SETUP superseded while still queued or in hand
   is answered all the same, and the answer is read by the next transfer; the comment
   at `usb.c:150` says a new SETUP aborts the previous transfer.
3. `usb.c:807` (`event_queue_full`): the four places kept free for "control and feedback
   events" do not suffice with HID built in; the next event panics. Needs a main loop
   that is twelve milliseconds behind. Without HID four are enough (`FourSuffice`).
4. `i2s.c:83` (`i2s_stale`): after a stop and a start the channel first plays the buffer
   as the stream before left it, one millisecond; `audio_device.c:292` and
   `usb.c:1038` say samples of the old stream are discarded.

Observed while modelling, and not counted as findings:

- `ringbuffer_resize` to the current size leaves the data, its comment
  (`ringbuffer.c:89`) says all data is cleared. Its caller clears explicitly.
- With the default `EAC3_EXPERIMENTAL` the clock accepts 192 kHz for PCM
  (`usb_audio.c:304`); `EAC3.md:112` and `SPDIF.md:76` say it does not, a test
  (`usb_audio_passthrough_test.c:127`) that it does.
- An idle rate no longer than the time between two polls gives every report to the keys,
  and the diagnostics never come (`DiagnosticsKeepComing` leaves it out).
- SET_CONFIGURATION with a value above 1 is refused, but has turned the audio receiver
  off by then (`usb.c:1035`).
- `SPDIF.md:4` and `SPDIF.md:126` say that during AC-3 and DTS the I2S output keeps its
  clocks and sends zero samples. That was so in v0.2.0 (`CHANGELOG.md:18`); since v0.2.1
  (`CHANGELOG.md:10`) it is stopped with its lines low. The code starts the mirror only
  for PCM (`spdif.c:174-187`), and so does the model.

## 5. Proofs

Proved for every value of the constants, with no assumptions beyond the `ASSUME`s
of the modules and those named in the table:

| Theorem | Statement |
|---|---|
| `SpdifOutput_proofs!Ownership`, `TypeCorrect` | `Spec => [](TypeOK /\ SlotOwnership)`, `Spec => []TypeOK` |
| `SpdifOutput_proofs!NeverTorn` | `Spec => []NoTornBlock` |
| `SpdifOutput_proofs!Implements` | `Spec => OneProgram` |
| `SpdifOutput_proofs!EverySampleArrives`, `EveryFormatArrives`, `EverySubframeIsFound` | the coding, for every 32-bit word, frame, channel and stream |
| `SpdifOutput_proofs!EveryBlockIsReceived`, `PreamblesAreUnique` | the same on the line of a whole block of any 384 words; a preamble is seen where a subframe begins, and nowhere else |
| `SpdifOutput_proofs!SamplesReceived`, `FormatReceived`, `SubframesReceived` | `Spec => []ReceiverGetsSamples`, `Spec => []ReceiverKnowsFormat`, `Spec => []ReceiverFindsSubframes` |
| `RingBuffer_proofs!Indexes` | `Spec => []IndexesOK` |
| `RingBuffer_proofs!Implements` | `Spec => IsFifo` |
| `AudioPath_proofs!TypeCorrect`, `PartsAgree` | `Spec => []TypeOK`, `Spec => []Consistent` |
| `AudioPath_proofs!OldPacketsDropped` | `Spec => []NoStaleAudio` |
| `AudioPath_proofs!OldRatesDropped` | `Spec => []NoOldRate`, if `PausesForRate` |
| `AudioPath_proofs!AudioBeforeStall` | `Spec => NoFlapping` |
| `UsbControl_proofs!TypeCorrect` | `Spec => []TypeOK`, if `~AbandonsAnyTime`, like the next three |
| `UsbControl_proofs!AnswersAreOwn`, `DataIsOwn` | `Spec => []OwnAnswer`, `Spec => []OwnData` |
| `UsbControl_proofs!AddressIsAgreed` | `Spec => AddressAfterStatus` |
| `UsbEndpoints_proofs!InImplements`, `OutImplements` | `Spec => InIsPipe`, `Spec => OutIsPipe` |
| `UsbEndpoints_proofs!TypeCorrect`, `EndpointsAgree`, `NoOverlap` | `Spec => []TypeOK`, `Spec => []EndpointsFollowHost`, `Spec => []BuffersApart` |
| `HidReports_proofs!Agrees`, `Idle`, `NoGlitch` | `Spec => []TypeOK`, `Spec => []IdleHonoured`, `Spec => NoGlitchReported` |
| `UsbEventQueue_proofs!TypeCorrect`, `FewOthers`, `NeverSilent` | `Spec => []TypeOK`, `Spec => []OthersAreBounded`, `Spec => []ChainUnbroken` |
| `UsbEventQueue_proofs!FourSuffice` | `Spec => []NeverPanics`, if `~HID_ENABLE` |
| `I2sOutput_proofs!TypeCorrect`, `WriterApart`, `LateCosts` | `Spec => []TypeOK`, `Spec => []WriterKeepsOff`, `Spec => []LateCostsTwoBlocks` |

*Output.* `NoTornBlock` is not inductive: whether a channel is about to stream a
slot depends on what the queue says of it. `SlotOwnership` is the strengthening:
`QueueOwns` (the fields name disjoint slots), `WriterOwns` (the slot being
written belongs to the main loop's position), `ChannelOwns` (a channel streams
`next` if it has completed the block, else `playing`) and `SlotsHoldBlocks` (every
slot that is playing, next or queued holds a whole block, the same for both
outputs). With `TypeOK` it is inductive (`IInv`), one lemma per group of actions.
`NoTornBlock` follows from it. For the refinement, starting, publishing and
stopping map to the actions of those names, a served interrupt to `Decide` when
it is the first of its block and to `Follow` when not, everything else to a
stutter.

*Encoder.* The run tries a few words and frames; the theorems take all 2^32 words, all
192 frames and every stream. The code folds a word five times to get its parity:
`Fold1` follows the bits through one folding, `ParityIsSum` through all, and `SumIsOnes`
rearranges the sum, which pairs bits by powers of two, into the number of ones counted
from bit 0 on. So the payload has even parity (`Payloads`). `Cells` shows where the two
machine words put each bit, the seam in the middle of a table entry included, and
`DecodedCell` that a receiver who sees levels only reads that bit back. `Balanced` is an
invariant along the subframe: after each cell the level of the line, the ones carried so
far and the number of the cell add up to an odd number; with even parity the line ends
low, as it began. The three invariants of the run are instances. They do not depend on
the state of the driver, except that it decides which streams can be on the line.

`Block` puts the 384 subframes of a block on the line. The ones on it up to a cell of
subframe `k` are those before the subframe and those in it (`OnesInPart`), and the first
are even in number because every subframe before it was balanced: so a receiver, who
decodes levels and began at a low line, sees in the block what it sees in the subframe
alone (`EveryBlockIsReceived`). `PreamblesAreUnique` looks at the changes of level only:
every preamble has two half-cells in a row without a change (`SightedChanges`), while in
the data every other half-cell has one, so a preamble seen elsewhere would have to overlap
a true one, and none fits. `Balanced`, `OnesInPart` and the composition of the block go
along the line by `SetInduction`, which takes the least member of the set of
counterexamples where the library's induction would take an operator.

*Ring buffer.* The inductive invariant is the type invariant with `IndexesOK`. Each
write is shown to append to `Contents` exactly the prefix that fits, each read to
remove the prefix it returns, by cases on whether the copy wraps.

*Audio path.* `NoStaleAudio` speaks of what is held; what is queued may be stale. The
invariant ties the two: `Fresh` says a queued packet that would be accepted was sent
for the stream the host believes in, while the receiver is on. That needs `Receiver`
(the receiver follows the alternate setting, step by step through SET_INTERFACE) and
`Asked` (what the host waits for is all that is queued, or a reset follows it).
`StreamInv` adds the types, `Consistent`, and that a stream that has fed nothing yet
is filled to the recovery level, from which `NoFlapping` follows. `RateInv` is the
same argument for the rate, and needs the pause: without it a packet of the old rate
follows the request into the queue.

*Control transfers.* `Phase` says where a transfer can be: its SETUP waits, it was
refused, it reads data, awaits a status, and so on. In each phase exactly one thing
carries the transfer on, an armed buffer or one completion of the present
generation. `Start` says a queued SETUP is followed by nothing but resets of the bus and
finds both buffers taken back; a host that goes on from an unfinished transfer at any time
breaks this. `Over` says that when a transfer has ended only the completion of its status
can be left of it, and `Completing` that a completion in hand is the only one of the
present generation or such a remainder of the transfer before. A remainder is `Harmless`:
the main loop arms nothing for it, whatever transfer it meets. `DataKept` ties
data to the SETUP that is kept, and `ResetComes` and `Addressing` follow the address
through resets.

*Event queue.* Every queued event but audio stands for something there is one of
(`OnePlaceEach`). It holds because a streaming endpoint is armed or queued, not both
(`Apart`), no buffer of a transfer is armed before its SETUP is handled (`SetupFirst`),
and the buffer of a stage is open only when the completion of the stage before has been
handled (`OneStage`). `FewOthers` then counts the events by an injection into the
places. Audio never gets into the last four places, so without HID a full queue would
have five events for four places: `FourSuffice` states for the build without HID what
finding 3 refutes with it.

*Endpoints.* `Order` and `Phase` say what the queue can hold at each stage of a request;
`InStep` says that the toggles of the two sides fit, with one packet in doubt at most,
unless a request about the endpoint was carried out and not yet answered. In that time
the host does not use the pipe, and a change of the toggles is a `Restart` of
`ReportPipe`; outside of it every step is one of the other actions or a stutter.

`EndpointsFollowHost` needs an invariant of its own, `DInv`, on top of that one.
A request is handled in one step, but the host changes its own view of the settings only
when it reads the answer, and resets and refusals may come in between. `Told` says for
each stage of a request what the device has of the settings the host will believe in;
`Active` that, while configured, each interface has exactly the endpoints its present
setting describes (`SetUpAs`); `InterfaceFirst` that a SET_INTERFACE is carried out in the
configuration it was sent for. `LaidOut` says that the buffers lie where
`usb_layout_buffers` put them as soon as any endpoint is enabled; `BuffersApart` follows
because each place has the size of the endpoint's largest setting. All of it holds for the
alternate settings of each build (`AltMax`) and any number of requests.

*HID.* Differences of wrapping times are correct as long as less than a turn of the clock
lies between, which is what `TimeAssumption` says of polls, debouncing and idle rates.
`Debounced` ties `changed_at` to how long the samples agreed, `Waiting` the time of the
last report to the idle period.

*I2S.* `InTime` says that after a swap in time the block emitted is the last one written
and the main loop is not where it was before; `Serving` that while the flag is down it
fills the buffer the pointer names.

Every invariant and every action property the runs check is stated by a theorem above, and
so are the refinements. Only model-checked are the liveness properties (`BlockIsPlayed`,
`WriterIsServed`, `Recovers`, `TransferEnds`, `ReportsKeepComing`, `HostLearnsKeys`,
`DiagnosticsKeepComing`): fairness speaks of ENABLED, which the prover does not treat.

## 6. Not modelled

- Unpacking of samples, gain and mute (64-bit multiplications without state), the steady
  fill ratio, and the 44.1 and 88.2 kHz rates in `AudioPath`, whose packets are no whole
  milliseconds. The encoder does have them.
- The feedback controller: floating point, a filter and a proportional term.
- The refusal of a rate that is not supported, or of a request for one with a wrong length
  (`usb_audio.c:301-308`): it leaves the stream as it is, and `UsbControl` has the
  refusal of a write as a stage of the transfer.
- A failing `malloc` at start (`ringbuffer.c:13`), after which there is no program to speak
  of; a failing `realloc` is modelled.
- The arming of the feedback endpoint by SET_INTERFACE (`usb_audio.c:150-153`) in
  `UsbEndpoints`, whose properties are about the settings of that endpoint and not about
  its packets. `UsbEventQueue` has the arming and the chain of completions after it.
- Data toggles of endpoint 0, and of the isochronous endpoints, where nobody checks them.
  The terminating zero-length packet of control reads, which no
  response of the program is long enough, and of the right length, to need.
- The LED commands, the rotation of the diagnostics pages and GET_REPORT, which read or
  write data without influence on the control. The contents of descriptors other than
  endpoints.
- `ringbuffer_free`, never called. Register set-up and clocks, the cycle-level PIO
  programs, the blinker, logging and the host tools.

## 7. Plan

Done: the output with its encoder, the I2S back end, the ring buffer, the stream and its
path from USB, control transfers, the numbered endpoints, HID reports, the event queue.
In order of importance, what is left:

1. Lost handshakes on endpoint 0, with its data toggles.
2. Composition of `SpdifOutput` with `AudioStream`, in place of its abstract output.
