------------------------------- MODULE Sender -------------------------------
(***************************************************************************)
(* The programs of the repository around their pipelines.  The sender: the *)
(* main thread of sender.rs from parse_launch to its return, the bus and   *)
(* its watch, the polling thread, the path of the bitrate from sink_chain  *)
(* of nadatx (or an application's set_property) through the property, the  *)
(* notification and the handler of sender_util.rs to the encoder of        *)
(* ScreamTxBw.  The receiver: the same main loop, left on an error too.    *)
(*                                                                         *)
(* A notification calls its handlers in the thread that emits it.  A panic *)
(* in a handler meets the C code that called it and ends the process.      *)
(* Time is the wall clock in seconds.                                      *)
(*                                                                         *)
(* An operator that stands just before the one it resembles and differs    *)
(* from it by a slip is never used by the specification.                   *)
(***************************************************************************)
EXTENDS ScreamTxBw

CONSTANTS
  Stream,        \* the setter that runs sink_chain of nadatx
  Rates,         \* bitrates of the controller or the application
  Multiply,      \* ratemultiply
  RateModulus,   \* size of u32
  MaxChanges,    \* bound on the changes of the bitrate, for TLC only
  MaxClock,      \* bound on the clock
  MaxErrors      \* bound on the error messages

ASSUME StreamAssumption == Stream \in Setters
ASSUME RatesAssumption ==
  /\ RateModulus \in Nat \ {0} /\ Multiply \in Nat
  /\ Rates \subseteq 0 .. RateModulus - 1

VARIABLES
  program,       \* sender or receiver
  named,         \* an element of the pipeline is called "nadatx"
  overflowChecks,  \* the debug build, or the release build
  main,          \* where the main thread is
  bus,           \* messages not yet dispatched
  posted,        \* the pipeline's end of stream was posted
  errors,        \* errors posted so far
  poll,          \* the polling thread
  connected,     \* the handler of notify::current-max-bitrate is connected
  bitrate,       \* settings.current_max_bitrate of nadatx
  setter,        \* the threads that set bitrates: [pc, rate, at]
  heard,         \* has the handler run
  crossed,       \* did the last call of the handler begin within another
  info,          \* RATE_INFO_PREV: [rate, st]
  clock, setBack,  \* SystemTime; has it been set back
  changes

settled == <<program, named, overflowChecks>>
mainVars == <<main, bus, posted, errors, poll, connected>>
notifyVars == <<bitrate, setter, heard, crossed, info, changes>>
clockVars == <<clock, setBack>>
vars == <<encoderVars, settled, mainVars, notifyVars, clockVars>>

Init ==
  /\ EncoderInit
  /\ program \in {"sender", "receiver"} /\ named \in BOOLEAN
  /\ overflowChecks \in BOOLEAN
  /\ main = "launch" /\ bus = <<>> /\ posted = FALSE /\ errors = 0
  /\ poll = "none" /\ connected = FALSE
  /\ bitrate = 0 /\ heard = FALSE /\ crossed = FALSE
  /\ setter = [s \in Setters |-> [pc |-> "idle", rate |-> 0, at |-> 0]]
  /\ info = [rate |-> 0, st |-> 0]
  /\ clock = 1 /\ setBack = FALSE /\ changes = 0

Playing == main \in {"playing", "connected", "run", "quit"}

-----------------------------------------------------------------------------
(* The main thread *)

\* parse_launch sets the properties named in the description.
Launch ==
  /\ main = "launch" /\ main' = "ready"
  /\ IF program = "sender" THEN InitLibrary ELSE UNCHANGED encoderVars
  /\ UNCHANGED <<settled, bus, posted, errors, poll, connected, notifyVars, clockVars>>

\* set_state(Playing), before anything listens to the bitrate
Play ==
  /\ main = "ready" /\ main' = "playing"
  /\ UNCHANGED <<encoderVars, settled, bus, posted, errors, poll, connected,
                 notifyVars, clockVars>>

\* run_time_bitrate_set finds the element by its name or does nothing.
Connect ==
  /\ main = "playing" /\ main' = "connected"
  /\ connected' = (program = "sender" /\ named)
  /\ UNCHANGED <<encoderVars, settled, bus, posted, errors, poll, notifyVars, clockVars>>

\* The watch, the polling thread of the sender, main_loop.run()
Run ==
  /\ main = "connected" /\ main' = "run"
  /\ poll' = IF program = "sender" THEN "polling" ELSE "none"
  /\ UNCHANGED <<encoderVars, settled, bus, posted, errors, connected,
                 notifyVars, clockVars>>

QuitOn == IF program = "sender" THEN {"eos"} ELSE {"eos", "error"}

BusCleared == <<>>
BusAfter == Tail(bus)

\* The watch takes one message and stays (Continue(true)).
Dispatch ==
  /\ main = "run" /\ bus # <<>>
  /\ main' = IF Head(bus) \in QuitOn THEN "quit" ELSE "run"
  /\ bus' = BusAfter
  /\ UNCHANGED <<encoderVars, settled, posted, errors, poll, connected,
                 notifyVars, clockVars>>

\* set_state(Null) makes the pads flush and waits for the streaming thread.
StopPads ==
  /\ main = "quit" /\ main' = "stopping"
  /\ EncoderStops
  /\ UNCHANGED <<settled, bus, posted, errors, poll, connected, notifyVars, clockVars>>

StopDone ==
  /\ main = "stopping" /\ setter[Stream].pc = "idle"
  /\ main' = "returned"
  /\ UNCHANGED <<encoderVars, settled, bus, posted, errors, poll, connected,
                 notifyVars, clockVars>>

\* start has dropped its reference to the pipeline; main returns.
Exit ==
  /\ main = "returned" /\ main' = "exited"
  /\ UNCHANGED <<encoderVars, settled, bus, posted, errors, poll, connected,
                 notifyVars, clockVars>>

MainStep ==
  Launch \/ Play \/ Connect \/ Run \/ Dispatch \/ StopPads \/ StopDone \/ Exit

\* Every 100 ms: by_name_recurse_up("nadatx").unwrap()
PollPanics ==
  /\ poll = "polling" /\ ~named
  /\ poll' = "dead"
  /\ UNCHANGED <<encoderVars, settled, main, bus, posted, errors, connected,
                 notifyVars, clockVars>>

-----------------------------------------------------------------------------
(* The pipeline: end of stream and errors *)

\* The end of stream has passed the elements and every sink has it.  If an
\* element refuses it, it may have passed there before.
PostEos ==
  /\ Playing /\ ~posted /\ (program = "sender" => encoderEos)
  /\ posted' = TRUE /\ bus' = Append(bus, "eos")
  /\ UNCHANGED <<encoderVars, settled, main, errors, poll, connected, notifyVars, clockVars>>

\* An element posts an error; one behind the encoder may refuse all that
\* follows, as nadatx does after a panic in a pad function.
PostError ==
  /\ Playing /\ errors < MaxErrors
  /\ errors' = errors + 1 /\ bus' = Append(bus, "error")
  /\ \/ UNCHANGED encoderVars
     \/ program = "sender" /\ DownstreamRefuses
  /\ UNCHANGED <<settled, main, posted, poll, connected, notifyVars, clockVars>>

EncoderStep ==
  /\ program = "sender"
  /\ \/ CallbackTest \/ CallbackPush \/ CallbackAborts
     \/ Playing /\ (EncoderEos \/ EncoderPanics)
  /\ UNCHANGED <<settled, mainVars, notifyVars, clockVars>>

-----------------------------------------------------------------------------
(* The bitrate and its notification *)

InHandler == {"read", "set", "told"}
Others(s) == Setters \ {s}
OnlyRises(rate) == bitrate < rate
Differs(rate) == bitrate # rate

\* sink_chain compares and stores the new estimate under the settings lock
\* and notifies after releasing it.
StreamStore(rate) ==
  /\ program = "sender" /\ Playing /\ ~posted
  /\ setter[Stream].pc = "idle" /\ changes < MaxChanges
  /\ bitrate' = rate /\ changes' = changes + 1
  /\ setter' = [setter EXCEPT ![Stream].pc = IF Differs(rate) THEN "notify" ELSE "idle"]
  /\ UNCHANGED <<encoderVars, settled, mainVars, heard, crossed, info, clockVars>>

\* set_property stores whatever it is given; GLib notifies afterwards.
ApplicationStore(s, rate) ==
  /\ program = "sender" /\ main # "launch" /\ s # Stream
  /\ setter[s].pc = "idle" /\ changes < MaxChanges
  /\ bitrate' = rate /\ changes' = changes + 1
  /\ setter' = [setter EXCEPT ![s].pc = "notify"]
  /\ UNCHANGED <<encoderVars, settled, mainVars, heard, crossed, info, clockVars>>

\* Nobody listens yet.
NotifyUnheard(s) ==
  /\ setter[s].pc = "notify" /\ ~connected
  /\ setter' = [setter EXCEPT ![s].pc = "idle"]
  /\ UNCHANGED <<encoderVars, settled, mainVars, bitrate, heard, crossed, info,
                 changes, clockVars>>

\* The handler reads the property ...
HandlerReads(s) ==
  /\ setter[s].pc = "notify" /\ connected
  /\ setter' = [setter EXCEPT ![s].pc = "read", ![s].rate = bitrate]
  /\ heard' = TRUE
  /\ crossed' = (\E o \in Others(s) : setter[o].pc \in InHandler)
  /\ UNCHANGED <<encoderVars, settled, mainVars, bitrate, info, changes, clockVars>>

\* ... multiplies it in 32 bits ...
ProductWide(rate) == rate * Multiply
Product(rate) == (rate * Multiply) % RateModulus
ProductOverflows(rate) == overflowChecks /\ rate * Multiply >= RateModulus

HandlerOverflows(s) ==
  /\ setter[s].pc = "read" /\ ProductOverflows(setter[s].rate)
  /\ aborted' = "overflow"
  /\ UNCHANGED <<rateVars, padVars, settled, mainVars, notifyVars, clockVars>>

\* ... and sets the encoder, which takes the encoder's settings mutex.
HandlerStores(s) ==
  /\ setter[s].pc = "read" /\ ~ProductOverflows(setter[s].rate)
  /\ StoreRate(s, Product(setter[s].rate))
  /\ setter' = [setter EXCEPT ![s].pc = "set", ![s].rate = Product(@)]
  /\ UNCHANGED <<settled, mainVars, bitrate, heard, crossed, info, changes, clockVars>>

\* The time for the statistics is read next, before their mutex is taken.
HandlerTells(s) ==
  /\ setter[s].pc = "set"
  /\ TellLibrary(s, setter[s].rate)
  /\ setter' = [setter EXCEPT ![s].pc = "told", ![s].at = clock]
  /\ UNCHANGED <<settled, mainVars, bitrate, heard, crossed, info, changes, clockVars>>

\* n.as_secs() - st_prev.as_secs(), unsigned
DiffSwapped(s) == info.st - setter[s].at
Diff(s) == setter[s].at - info.st
ClockUnderflows(s) == overflowChecks /\ Diff(s) < 0

HandlerCounts(s) ==
  /\ setter[s].pc = "told" /\ ~ClockUnderflows(s)
  /\ info' = IF Diff(s) # 0 /\ setter[s].rate # info.rate
             THEN [rate |-> setter[s].rate, st |-> setter[s].at] ELSE info
  /\ setter' = [setter EXCEPT ![s].pc = "idle"]
  /\ UNCHANGED <<encoderVars, settled, mainVars, bitrate, heard, crossed, changes, clockVars>>

HandlerUnderflows(s) ==
  /\ setter[s].pc = "told" /\ ClockUnderflows(s)
  /\ aborted' = "clock"
  /\ UNCHANGED <<rateVars, padVars, settled, mainVars, notifyVars, clockVars>>

SetterStep(s) ==
  \/ NotifyUnheard(s) \/ HandlerReads(s) \/ HandlerOverflows(s)
  \/ HandlerStores(s) \/ HandlerTells(s) \/ HandlerCounts(s) \/ HandlerUnderflows(s)

Tick ==
  /\ clock < MaxClock /\ clock' = clock + 1
  /\ UNCHANGED <<encoderVars, settled, mainVars, notifyVars, setBack>>

SetClockBack ==
  /\ clock > 1 /\ clock' = clock - 1 /\ setBack' = TRUE
  /\ UNCHANGED <<encoderVars, settled, mainVars, notifyVars>>

-----------------------------------------------------------------------------
Next ==
  /\ aborted = "none" /\ main # "exited"
  /\ \/ MainStep \/ PollPanics \/ PostEos \/ PostError \/ EncoderStep
     \/ \E rate \in Rates : StreamStore(rate)
     \/ \E s \in Setters, rate \in Rates : ApplicationStore(s, rate)
     \/ \E s \in Setters : SetterStep(s)
     \/ Tick \/ SetClockBack

Spec == Init /\ [][Next]_vars

\* Threads that can run do run, an end of stream that entered the pipeline
\* reaches its sinks unless an element refuses it, and the encoder's mutex is
\* held only for the length of a library call, so no thread is passed over for
\* ever.
Fairness ==
  /\ WF_vars(MainStep /\ Next) /\ WF_vars(~refused /\ PostEos /\ Next)
  /\ \A s \in Setters : SF_vars(SetterStep(s) /\ Next)

FairSpec == Spec /\ Fairness

-----------------------------------------------------------------------------
(* Properties *)

MainPlaces ==
  {"launch", "ready", "playing", "connected", "run", "quit", "stopping",
   "returned", "exited"}
SetterPlaces == {"idle", "notify"} \union InHandler

\* Every variable has its type, rates fit 32 bits, and a thread holds the
\* encoder's settings mutex exactly while it is inside its set_property.
SenderTypeOK ==
  /\ EncoderTypeOK
  /\ program \in {"sender", "receiver"} /\ named \in BOOLEAN
  /\ overflowChecks \in BOOLEAN
  /\ main \in MainPlaces /\ bus \in Seq({"eos", "error"})
  /\ posted \in BOOLEAN /\ errors \in Nat
  /\ poll \in {"none", "polling", "dead"} /\ connected \in BOOLEAN
  /\ bitrate \in 0 .. RateModulus - 1 /\ heard \in BOOLEAN /\ crossed \in BOOLEAN
  /\ setter \in [Setters -> [pc : SetterPlaces, rate : 0 .. RateModulus - 1, at : Nat]]
  /\ info \in [rate : 0 .. RateModulus - 1, st : Nat]
  /\ clock \in Nat /\ setBack \in BOOLEAN /\ changes \in Nat
  /\ \A s \in Setters : lockedBy = s <=> setter[s].pc = "set"

\* Whoever sets the encoder's bitrate, and however the calls overlap: when
\* the settings mutex is free the library runs at the rate of the property,
\* or was never told one and the property has its default.
TargetFollowsSetting ==
  lockedBy = NoSetter =>
    IF target = Untold THEN encoderRate = DefaultRate ELSE target = encoderRate

\* At rest the encoder runs at the rate the property of nadatx shows, times
\* ratemultiply in 32 bits, from the first notification after the handler
\* was connected.  Two notifications that overlap may leave an old rate, until
\* the next one that begins alone.
EncoderFollowsRate ==
  (heard /\ ~crossed /\ \A s \in Setters : setter[s].pc \in {"idle", "told"})
    => target = Product(bitrate)

\* The statistics of the handler read the clock before they take their lock,
\* yet end the process only if the clock was set back or the last call of the
\* handler began within another.
ClockPanicIsExplained == aborted = "clock" => setBack \/ crossed

\* References to the pipeline or its nadatx outside the element: start, the
\* polling thread, and the handler, which the element itself keeps alive.
PollLetsGo == FALSE
PollHolds == poll = "polling"
ElementHeld == main \notin {"returned", "exited"} \/ PollHolds \/ connected

\* The timer threads of nadatx point to it and never stop.  In the running
\* process it is freed under them only if the names did not match: the
\* polling thread panicked and the handler was never connected.
FreedOnlyIfUnnamed ==
  (program = "sender" /\ main = "returned" /\ ~ElementHeld) => poll = "dead"

\* An end of stream that passed the encoder, and any message the program is
\* to quit on, ends the program, whatever messages came before and whatever
\* the handler is doing, unless an element failed and the end of stream never
\* reached the bus.  Only the handler's arithmetic may end it otherwise: with
\* no packet of the callback under way, the callback does not.
EndOfStreamEndsProgram ==
  (cb = "idle" /\ (encoderEos \/ \E i \in 1 .. Len(bus) : bus[i] \in QuitOn))
    ~> \/ main = "exited"
       \/ refused /\ ~posted
       \/ aborted \in {"overflow", "clock"}
=============================================================================
