# A TLA+ model of gstnada

gstnada is a GStreamer plugin that adapts the bitrate of a video sender to the
network with the NADA congestion controller. This directory holds TLA+ modules
translated from its code, the TLC configurations that check them on small
instances, and proofs checked by TLAPS. `PROJECT.json` lists the components, the
runs, the hazards the properties are for, the source lines of every definition,
and for every property of a passing run a slip of the code it would detect.

To check a run: `tlc -config sender_contract.cfg MCSenderController`. To check
the proofs of a module: `tlapm SenderController_proofs.tla`.

## The system

| Part | State | Operations | Talks to |
|---|---|---|---|
| `SenderBasedController` (C++) | last number sent, in-transit list, packet log, byte sum, base delay, loss intervals | `processSendPacket`, `processFeedback`, `reset` | base class of the next |
| `NadaController` (C++) | time of the last update, loss count, estimate, bounds | the same calls, extended by the rate update; `getBandwidth` | called through the C glue |
| `nada_glue.cpp` | none | `NewController`, `OnPacket`, `OnFeedback`, `getBitrate` | called by nadatx |
| `nadatx` (Rust element) | offset of the transport-wide numbers, last feedback base, settings, buffer queue under a mutex, the controller | `sink_chain`, `rtcp_sink_chain`, `sink_event`, `set_property`, timer threads | two streaming threads, the timer threads, the application |
| `sender_util.rs` | rate and time of the last statistics, under a mutex | the handler of `notify::current-max-bitrate` | runs in the thread that set the rate; reads nadatx, sets the encoder |
| `sender.rs`, `receiver.rs` | the main loop, the bus watch, the sender's polling thread | `start` | the pipeline, the handler above |
| `screamtxbw` (Rust element) | settings under a mutex, flags of its source pad | `set_property`, `callback`, events | stands in for the encoder; the SCReAM library (external) |
| `NadaRx` and `Stream` (Rust) | per stream: highest number, history ring, packets since the last report; per session: feedback interval | `ScreamReceiver`, `periodic_flush` | called by nadarx |
| `nadarx` (Rust element) | the above under a mutex, a periodic clock id | `sink_chain`, clock callback | a streaming thread and the clock thread |
| `lib.rs`, `build.rs` | none | registration | not modelled |

What makes them correct, in short: the two lists of the controller, its sums and
intervals agree with each other and with what was sent, and no assert ends the
process; the estimate stays in its bounds and moves for the reasons the
algorithm gives; the element forwards every buffer once, in order, or loses it
for a stated reason; a feedback message is read to its end and means what it
says; the encoder follows the estimate; a program ends when its stream does;
and the receiver's reports are true and complete.

What makes it hard: two streaming threads share a C++ object without a lock;
timer threads share a queue whose mutex a panic poisons and keep pointers to an
element nothing stops them from outliving; notifications run in whatever thread
set the property; panics under C code end the process, panics in pad functions
only close the element; numbers wrap at 16 bits
in several places that treat the wrap differently; feedback is lost, late,
repeated and partly about packets that never came; asserts are live in the
release build of the C++ code; overflow checks exist in one Rust build and not in
the other; the clock is a wall clock.

## Modules

```
SeqArith <- SenderController <- NadaController <- MCNadaController
                 |    |               |
                 |    |               +-- NadaController_proofs
                 |    +-- MCSenderController, SenderController_proofs
                 +-- TxFeedback <- MCTxFeedback, TxFeedback_proofs (with
                     the lemmas of SenderController_proofs)
TwccParser <- MCTwccParser, TwccParser_proofs
Relay <- (INSTANCE) TxElement <- TxElement_proofs (which takes the order of
  |                                buffers from Relay_proofs by INSTANCE)
  +-- Relay_proofs
ScreamTxBw <- Sender <- Sender_proofs
NadaRx <- MCNadaRx, NadaRx_proofs
```

**SeqArith**: wrapping subtraction and `lessThan`, for any number space.

**SenderController**: `SenderBasedController`. One action per way out of a call:
`SendAccepted`, `SendRejected`; `FeedbackFromFuture`, `FeedbackNothingInTransit`,
`FeedbackOutOfOrder`, `FeedbackDecreasing`, `FeedbackRecorded`; one for each
assert (`AbortBackNotLast`, `AbortHalfSpace`, `AbortInterLoss`), which sets
`aborted` and ends the behaviour, because the build does not define `NDEBUG`; and
`Reset`. `Spec` is a caller that passes anything; `ContractSpec` is one that
numbers packets consecutively, gives feedback about packets, and has less than
half of the number space in use (`RoomToSend`: at 65 536 numbers and windows of
5 s and 0.5 s this is more than 6 500 packets a second). Time is in ticks; delays are
signed differences, which is what the wrapping 64-bit subtraction amounts to far
from 2^64 microseconds. The round-trip time is left out: it only scales a rate.

**NadaController**: the subclass on top. The congestion signal is real-valued,
so a gradual update may yield any rate of `Rates` and a ramp-up may see any
received rate; when an update happens, which mode it takes, the clipping, the
two asserts and the order of assignments in `reset` are kept.

**TxFeedback**: `sink_chain` and `rtcp_sink_chain` on one controller. `OnPacket`
is two steps, as far apart as `processSendPacket` moves `m_lastSequence` and
appends to the list, and a feedback call may fall between them. A C++ data race
is undefined; this is its mildest outcome, so what fails here fails in the
program and what holds is a lower bound. The first transport-wide number may be 0,
which `sink_chain` takes for "not known yet": it then takes the offset of the
second packet, the controller refuses that and every later one
(`StartMistaken`), and the next feedback finds `m_lastSequence` ahead of the list. `overflowChecks` is the debug build
(which `build.sh` makes) or the release build. Messages arrive decoded.

**TwccParser**: `parse_twcc`, one action per read: the header, a chunk with its
symbols, a delta, and each way to return, fail or panic. The content of a message
is drawn as it is read, so that a behaviour stands for all messages it agrees
with, and only lengths and positions are real. The parser looks for the symbols
of a status vector behind the chunk instead of in it: that is what the model
does too, so `ReportIsContiguous` says what the entries are, given the symbols
the parser finds. `arrivals` is what the message tells of the receive times with
deltas taken as they were sent, against which `TimesAreCongruent` holds the
parser: cutting a 2-byte delta to 8 bits moves times by multiples of 64 ms only.
A run of length 0 does not advance the loop; `ParseEnds` holds because the
reader runs out of message.

**TxElement**: the buffer queue, the data mutex and its poisoning, the timer
threads (each setting of `params` starts another), the pad flags, and
`PadPanics`: a packet without header extension, or an overflow in either chain
function of the debug build, closes the pad functions of the element
(`catch_panic_pad_function`) but not its timer threads. **Relay** is its
specification: a FIFO that accepts, forwards, discards. `ImplementsRelay`
instantiates it with the buffer in the timer thread's hand followed by the queue
as the pipe.

**ScreamTxBw**: the element that replaces the encoder in `scripts/sender_bw.sh`.
`lib.rs` has it commented out, as it has nadarx, and that script pairs it with
`screamtx`, not with nadatx: the pairing in `Sender` is the one the sender's code
would run, with nadatx as its source of rates, and no script of the repository
launches it. Setting its bitrate is two steps under its settings mutex (`StoreRate`, `TellLibrary`).
Its callback runs in a thread of the library: `CallbackTest` reads the flags,
`CallbackPush` pushes, `CallbackAborts` is the push that fails, because a flag was
set in between or because an element downstream refuses the packet
(`DownstreamRefuses`, for good, as nadatx does after a panic in a pad function);
its panic ends the process. A queue in between may still take packets then.

**Sender** composes it with the rest of the sending program. The main thread goes
through `main`: `Launch`, `Play`, `Connect`, `Run`, `Dispatch`, `StopPads`,
`StopDone`, `Exit`. `StreamStore` and `ApplicationStore` set the bitrate of
nadatx (no program here has an application thread that does; the property is
declared writable, so one may); a setter's thread then runs the handler: `HandlerReads`,
`HandlerStores`, `HandlerTells`, `HandlerCounts`, or ends the process in
`HandlerOverflows` or `HandlerUnderflows` (debug build). `named` says whether the
pipeline has an element called `nadatx`, which `sender.rs` looks for, while
`scripts/sender.sh` calls it `screamtx`: then the handler is not connected and
the polling thread panics. With `program = "receiver"` the same main loop is
that of `receiver.rs`, which also quits on an error; the sender does not, so an
error alone never ends it. An error may come with `DownstreamRefuses`: the end of
stream then need not reach the bus, and the sender may play for ever, which
`EndOfStreamEndsProgram` states as one of its outcomes. `heard`, `crossed` and
`setBack` remember, for the properties, that the handler ran, that its last call
began within another and that the clock was set back.

**NadaRx**: the receiver's library, with the clock callback. Both threads hold
`lib_data` for a whole call, so a call is a step. Times are ages that stop at
`AgeCap`, as the field of the report does. `net` records absolute numbers for
the properties only. The feedback interval may change after any packet. Ages are
cut off, so each stream also remembers which others were reported later than it
was (`later`): `LongestAgo` needs the order of the last reports, whatever their
age. Reports of the same tick may have the same time, and the loop then takes the
streams in the order of a hash map. `NetworkAssumption` keeps losses in a row
and lateness below a quarter of the number space, beyond which the code cannot
tell a late packet from a new one, and lateness below the history's length;
`LastNumber` bounds the absolute numbers. `lib.rs` has the module commented out; the
model is of the code as it stands in the repository.

An operator placed directly before the one it resembles (`ForgetToPop` before
`Rest`) is a wrong variant no specification uses; putting it in the place of the
right one must violate the property `PROJECT.json` names.

## Runs

| Run | Shows |
|---|---|
| `sender_contract` | under the contract: types, the tail and order of the lists, no assert, the log window, the byte sum, the base delay, the loss intervals, and that the log grows only in order |
| `nada_rate` | the bounds of the estimate, the pace of updates, the ramp-up condition, with clock set-backs and resets |
| `tx_feedback` | the numbering follows the packets through the wrap in both builds; feedback trips over the list only during `OnPacket` or after a first number of 0; the 16-bit panics need the debug build and the wrap |
| `twcc_parser` | entries are contiguous and as many as announced; times are right modulo 64 ms; panics need the debug build and a message across the wrap; every call ends |
| `tx_element` | the relay refinement, explained losses, nothing forwarded after a failure, draining, `sink_chain` returns |
| `sender` | the library runs at the encoder's rate and the encoder at nadatx's, at rest and unless the last notification began within another; why the process can panic on its clock, why the element can be freed too early; an end of stream ends the program unless an element refuses it |
| `nada_rx` | blocks are true; a packet falls out of reach unreported only after a forced report was refused, or across a wrap; waiting packets are reported, although only one of two streams fits in a message |
| `nada_rampup_loss` | **violated**: ramp-up on a log with a gap, because a short log leaves the loss count stale |
| `nada_rx_order` | **violated**: receive times out of order end the process |
| `tx_eos` | **violated**: end of stream makes the element drop accepted buffers |
| `tx_race` | **violated**: overlapping calls fail the assert on the list's end |
| `tx_misaligned` | **violated**: feedback is credited to another packet |

Each violated run checks one sentence of a comment, header or declaration
against the code; `PROJECT.json` quotes it under `findings`. More deviations are
known and in the modules, as cases a property names rather than runs of their own:

- `parse_twcc` also returns packets the receiver does not have, which
  `RtcpFeedback` passes on with time 0 as if they had come.
- A first transport-wide number of 0 makes the controller refuse all packets but
  the first and the next feedback abort (`NumbersFollowTwcc`, `AbortIsExplained`).
- nadarx.rs:293 wants acknowledgements to "cover also large holes".
  `checkIfFlushAck` asks for a report once 16 numbers have passed, but
  `createStandardizedFeedback` sends one only for a stream with 8 packets pending or
  10 ms since its last: with fewer packets and large holes the window of 64 may
  move on before packets are reported; likewise where the numbers wrap, as the
  check then compares a small number with a large one (`HoleLossIsExplained`).
- After a panic in a pad function nadatx refuses the end of stream, and the sender
  does not quit on errors (`EndOfStreamEndsProgram`).

### Bounds

The number space has 8 numbers (16 in `nada_rx`) and behaviours start next to
the wrap, so every run crosses it; 4 numbers in use reach the half-space limit.

- `sender_contract`: a tick is a quarter of a second. Log and obsolescence limit
  are two ticks as they are equal in the code, so that trimming, clearing and
  both on one packet occur; the in-transit limit is three ticks instead of
  twenty, which leaves entries that outlive the log. Three receive times give
  falling, equal and rising delays; three loss intervals instead of nine reach
  the limit.
- `nada_rate`: the default bandwidth lies strictly between the glue's bounds and
  rates lie below, inside and above. A log is judged from 3 packets on, so short
  and long logs both occur. `MCNadaController` bounds the log's length because its
  contract allows many packets in one tick.
- `tx_feedback`: five packets and messages of two allow repeated, overlapping and
  reordered messages. The first number is 0, 1 or two before the wrap: mistaken,
  ordinary, and wrapping after the second packet.
- `twcc_parser`: messages of 1 to 18 bytes with the header's real widths, which
  hold up to five chunks and end in every part of one; deltas of 2 bits instead
  of 8 (`DeltaModulus` 4), vectors of 3 bits instead of 14, runs of 0, 1, 2 and
  more than the count; a base next to the wrap of 8 numbers.
- `tx_element`: two timer threads, a few buffers and flushes cover one thread
  working for another, and a flush between the test of the flags and the push.
- `sender`: two threads that set the bitrate, twice altogether, of two rates, of
  which one overflows when multiplied (32 bits are 5 values here); three values of
  the clock, which may go back; one error, after which an element may refuse all that
  follows. Two changes are what it takes for one notification to overtake
  another; that a third, which begins alone, repairs the rate is beyond the bound
  and left to *FollowTheorem*.
- `nada_rx`: 8 numbers per report and in the ring (64 and 128 in the code), a
  forced report asked for from 3 packets on and granted from 3 pending on (16 and
  8), one block per message, up to three packets lost in a row, lateness of one.
  Four packets of the first stream, which begins in the middle of the 16 numbers,
  reuse a slot of the ring, cross the wrap and lose a packet from reach in each
  of the ways `HoleLossIsExplained` names: a refused report for want of packets,
  one for want of room (the other stream's packet takes the block), and a wrap;
  taken out of the property, each of the three makes the run fail. The constants are at the edge of
  `HolesInReach` (3 + 3 + 1 < 8), so a check for holes that comes one packet
  later fails it too.

`CHECK_DEADLOCK FALSE` is set where behaviours end by design: at the bounds on
time, packets or buffers, after an abort, or after a panic.

### Fairness

- `TxElement`: each timer thread is weakly fair: operating-system threads that
  can run do. `sink_chain`, which must acquire the data mutex, is strongly fair: timer threads sleep 5 ms after each release, so
  the mutex is free for long stretches. A push is assumed to return. Nothing is
  assumed of the application, of flushes or of the end of stream.
- `TwccParser`: `Next` is weakly fair: the loop runs in one call that waits for
  nothing.
- `Sender`: the main thread is weakly fair, and so is the end of stream's way
  from the encoder to the bus as long as no element refuses what it is given:
  nadatx answers false to it after a panic in a pad function. The
  steps of a setter's thread are strongly fair, as the encoder's mutex is held
  for a library call only. Nothing is assumed of the application, of errors, or
  of the clock.
- `NadaRx`: the clock calls back every 500 µs, and time goes on; packets need
  never come.

## Proofs

All hold for every value of the constants that meets the named assumptions.

- `SenderController_proofs`. *TypeCorrect*, *ContractTypeCorrect*: types.
  *LogWindow*: an invariant of any caller, by lemmas on what trimming keeps of a
  sequence ordered by time. *BaseDelayTheorem*: likewise of any caller: a log
  that grows keeps its end and appends one packet, whose delay is the new base
  if it is below the old one. *LogGrowsTheorem*: an action
  property, for the same reason. *TailTheorem*, *OrderTheorem*, *AbortFreedom*: from
  one inductive invariant, `NumberingInv`. None of the three is inductive by
  itself: that the assert on `back()` holds needs the list to be a contiguous
  run of less than half the number space; that a taken packet extends the log
  in order needs the log's numbers to lie within half the space behind the last
  one sent, for as long as the log can still be compared with it; and that needs
  the loss state's expected number to follow the log. The lemmas on wrapped
  distances (`lessThan` is transitive within half the space, adding one keeps
  distances) are stated once and used by every action. *SizeSumTheorem*, of any
  caller: the byte sum is a fold over the log, and lemmas say what appending to
  a log and cutting its front make of the fold. *IntervalsTheorem*, of any caller: the invariant
  (`IntervalsInv`) is a relation of the intervals to the set of positions where
  the log has a gap (`GapsOf`): trimming moves and drops gaps, appending adds
  one at most, and clearing the log with the loss state drops all.
- `NadaController_proofs`. *BandwidthTheorem*: the estimate is always within the
  bounds in force; the invariant adds that both pairs of bounds enclose the
  initial bandwidth to which a reset returns. *NadaTypeCorrect*: its hard
  conjunct is that the loss count is a natural number, that is, that a log never
  spans fewer numbers than it has packets: distances to the oldest packet grow
  along the log (`NumberingInv`, which setting the clock back also keeps), so they
  are as many numbers as there are packets (`Spread`), and a count of 0 leaves no
  gap. *RampUpTheorem* follows for a log long enough to be counted. *PacedTheorem*: the
  estimate moves only by an update at least `Delta` after the last, or by a reset,
  and the log never grows while an update is overdue. *NoAssertFails*: neither class
  meets an assert while the clock is not set back (`lastTimeCalc` is then never
  ahead of `now`) and the log's receive times are in order, so these are the only
  causes of the two asserts of this class.
- `TxFeedback_proofs`. *TxTypeCorrect*. *NumbersTheorem*: the controller's newest
  number and the transport-wide number of the newest packet stay the offset
  apart, through the wrap of both, whatever is fed back, and nothing is stored once
  a first number of 0 was mistaken. *AbortTheorem* and
  *TailBetweenTheorem*: the list is a contiguous run that ends at the last
  number, minus the entry under way (`TailInv`), so feedback trips over its end
  only during `OnPacket` or after that mistake; distances in `TailInv` are modulo
  the number space, because nothing here keeps the list shorter than the space.
  *PanicTheorem*: before the transport-wide numbers wrap, none is below the offset
  and no message spans more than the space. None assumes anything of the first
  number.
- `TwccParser_proofs`. *ParserTypeCorrect*; *ReportTheorem*: entries are for the
  numbers from the base on; *PanicTheorem*: only a debug build, and only on a
  message across the wrap; *TimesTheorem*: times are right modulo the width to
  which deltas are cut, and right altogether before the first large delta. The
  invariant (`TimesInv`) relates the running sum to the last time told and needs
  the entries already stamped to be no later than it.
- `TxElement_proofs`. *ElementTypeCorrect*: types with `HoldsInside`, which says
  that a thread is inside `thread_timer` exactly when it holds the mutex.
  *ElementRelays*: every step is an `Accept`, `Forward`, `Discard` or stutter of
  the relay under the mapping; `HoldsInside` is what makes the buffer in hand
  unique. *FailureTheorem*: after a push has failed nothing is forwarded, since the
  mutex, once poisoned, has no holder (`PoisonInv`). *LossTheorem*: a buffer leaves
  the pipe only forwarded, or for one of the stated reasons. *ElementInOrder*: by
  *ElementRelays*, the relay's order (*Ordered*) is the element's.
- `Sender_proofs`. *SenderTypeCorrect*. *TargetTheorem*: the library's rate is the
  property's whenever the settings mutex is free, whoever sets it.
  *FollowTheorem*: `FollowInv` says that while no notification waits for the
  handler, the encoder has the product of the bitrate, or the one thread inside
  is about to set it, from the first call on that begins with no other inside.
  *ClockTheorem*: as long as the clock is not set back and calls do not begin
  within others, the time read is not before the time stored.
  *FreedTheorem*: who refers to the element.
- `Relay_proofs`. *Ordered*: a relay forwards in order and without repetition.

- `NadaRx_proofs`. One inductive invariant, `RxInv`, links what a stream keeps
  with the packets that came (`TrueTo`): the highest number is that of the newest
  packet, and each slot of the history has the latest packet of those that share
  it (`SlotsTrue`). It rests on two lemmas about numbers: the comparison with
  wrap-around puts numbers in the order of the packets they stand for as long as
  these are at most a quarter of the number space apart (`NotBehindMeans`), and
  a packet that is late by less than a history never meets a newer one in its
  slot (`SlotsTake`). *RxTypeCorrect* follows, and *BlocksTheorem*, under the proviso
  `SlotsReused`: a slot that every packet of a whole number space missed still
  holds one whose number is in use again, and a block then reports that one.
  The proviso cannot be dropped: with 8 numbers, a history of 4 and every second
  packet lost the sixth packet makes a false block. In the code it takes the
  loss of 512 packets that are 128 apart, and no other packet. *HoleLossTheorem*, for streams that compete
  and holes of any width within `HolesInReach` (16 + hole + lateness < 64 in the
  code): the invariant (`ReachInv`) says that what waits came after the last
  report, or was late, or is out of reach already (`Kept`), and that a stream with
  a forced report outstanding has too few packets or too little room (`Served`);
  while the check for holes is silent and the numbers have not wrapped, their
  difference is that of the packets (`AckSilent`), so the next packet cannot move
  the window past one that waits. *HolesTheorem*: if a message has room for
  all streams (`RoomForAll`; seven in the code) and what may be lost or late until a report
  is due is less than a report covers (`DueInTime`), no packet falls out of reach
  (`HolesAreCovered`).
  The invariant adds how far a stream has come since its last report
  (`Progress`: the difference of the numbers while they have not wrapped, and at
  most the widest hole for each packet pending) and that between calls it is not due
  (`NotDue`). The run `nada_rx` is outside *HolesTheorem*, and `HolesAreCovered` fails
  in it, as intended: its holes are too wide and its streams compete.

Induction over data is out of the prover's reach in the form of the library's
theorems, which take a predicate as a parameter. Where a proof needs it
(`SizeSumTheorem`, and the newest packet of a stream in `NadaRx_proofs`) it
uses that "less than" is well founded on the natural numbers: the set of the
lengths at which a claim fails has no least element and so is empty
(`LeastNatural`, `InductiveSet`). That takes one claim at a time and a set that
can be written down.

Only model-checked: every liveness property (`QueueDrains`, `SinkReturns`, `ParseEnds`,
`EndOfStreamEndsProgram`, `PendingIsReported`), which the prover cannot reach, as
it cannot treat `ENABLED`. The five violated runs need no proof; for two of them
a theorem says what holds instead (*NoAssertFails* for `nada_rx_order`,
*LossTheorem* for `tx_eos`).

## Not modelled

- In the controller: round-trip time, delay filter, loss-interval average and
  congestion signal (floating point); `processFeedbackBatch` and the setters that
  have no caller.
- In nadatx: the statistics properties, queries, events other than end of
  stream and flush, the key-frame request; packets the receiver does not have,
  logged with time 0, are in the module but no run shows them by itself.
- In the programs: arguments and environment variables, a state change that
  fails, the panic at the start when the pipeline has no element `video`, a
  negative `ratemultiply`; the descriptions of the pipelines.
- In screamtxbw: the SCReAM library behind its calls, queries and metadata.
- In the receiver: ECN bits and the byte layout of its message, the arithmetic
  behind the feedback interval, the wrap of the 32-bit NTP time; stopping and
  starting `nadarx` again, which unschedules the clock and keeps the streams.
- Registration and build: no state.

## Plan

Done, in this order: SenderController, NadaController, TxElement with Relay,
TxFeedback, NadaRx, TwccParser, ScreamTxBw and Sender, and the proofs above.
Left:

1. `NadaRx`: a bound on how often a stream that competes is passed over; what is
   still reported across a wrap; stop and restart of the element; an absolute clock that
   wraps or is set back.
2. A composition of `TxElement` and `TxFeedback`, in which the panic of one pad
   function stops the other while feedback is under way.
