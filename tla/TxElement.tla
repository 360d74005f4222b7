----------------------------- MODULE TxElement ------------------------------
(***************************************************************************)
(* The nadatx element around its controller: the buffer queue between the  *)
(* streaming thread (sink_chain, sink_event) and the timer threads that    *)
(* "params" starts, the data mutex with its poisoning, the flags of the    *)
(* source pad, and the panics that close the element.  What sink_chain     *)
(* does between the arrival of a buffer and its queueing is the subject of *)
(* TxFeedback (numbers) and Sender (bitrate).                              *)
(*                                                                         *)
(* An operator that stands just before the one it resembles and differs    *)
(* from it by a slip is never used by the specification: it is a wrong     *)
(* variant some property must be able to tell from the code.               *)
(***************************************************************************)
EXTENDS Naturals, Sequences, FiniteSets

CONSTANTS
  Timers,      \* timer threads that setting "params" may start
  NoOne,       \* nobody holds the data mutex
  MaxBuffers,  \* bound on the buffers accepted, for TLC only
  MaxFlushes   \* bound on the flushes

ASSUME TimersAssumption == NoOne \notin Timers

VARIABLES
  sink,       \* sink_chain: idle, or on its way to the queue
  accepted,   \* buffers queued so far
  queue,      \* data
  holder,     \* who holds the data mutex
  poisoned,   \* a thread panicked while holding it
  timer,      \* the timer threads: [pc, buf]
  out,        \* buffers the source pad has pushed
  eos, flushing,  \* flags of the source pad
  panicked,   \* a pad function panicked: the element answers with errors
  flushes

pathVars == <<accepted, queue, holder, poisoned, timer, out>>
padVars == <<eos, flushing, flushes>>
vars == <<sink, pathVars, padVars, panicked>>

NotStarted == [pc |-> "none", buf |-> 0]

Init ==
  /\ sink = "idle"
  /\ accepted = 0 /\ queue = <<>> /\ holder = NoOne /\ poisoned = FALSE
  /\ timer = [t \in Timers |-> NotStarted]
  /\ out = <<>> /\ eos = FALSE /\ flushing = FALSE /\ panicked = FALSE
  /\ flushes = 0

-----------------------------------------------------------------------------
(* sink_chain *)

\* A buffer arrives and is numbered and measured.
SinkArrive ==
  /\ sink = "idle" /\ ~panicked /\ ~eos /\ ~flushing
  /\ accepted < MaxBuffers
  /\ sink' = "enqueue"
  /\ UNCHANGED <<pathVars, padVars, panicked>>

\* self.data.lock().unwrap().push_back(buffer)
SinkEnqueue ==
  /\ sink = "enqueue" /\ holder = NoOne /\ ~poisoned
  /\ accepted' = accepted + 1
  /\ queue' = Append(queue, accepted')
  /\ sink' = "idle"
  /\ UNCHANGED <<holder, poisoned, timer, out, padVars, panicked>>

\* The unwrap of a poisoned lock; catch_panic_pad_function turns the panic
\* into an error and marks the element.
SinkPanic ==
  /\ sink = "enqueue" /\ holder = NoOne /\ poisoned
  /\ panicked' = TRUE /\ sink' = "idle"
  /\ UNCHANGED <<pathVars, padVars>>

SinkChain == SinkEnqueue \/ SinkPanic

\* A packet without a header extension panics at an unwrap of sink_chain; so
\* do, in the debug build, a number below the offset there and one beyond
\* 65535 in rtcp_sink_chain, whatever sink_chain is doing.  No mutex is held.
PadPanics ==
  /\ ~panicked
  /\ panicked' = TRUE
  /\ UNCHANGED <<sink, pathVars, padVars>>

\* sink_event, serialised with sink_chain: end of stream goes to the source
\* pad at once, past whatever is queued.
SinkEos ==
  /\ sink = "idle" /\ ~panicked /\ ~eos /\ ~flushing
  /\ eos' = TRUE
  /\ UNCHANGED <<sink, pathVars, flushing, flushes, panicked>>

\* A flush comes from any thread; it ends when sink_chain has returned.  The
\* queue is not touched, nor is it by a stop and restart, which set and clear
\* the same flags (an element that panicked can only be stopped).
FlushStart ==
  /\ ~flushing /\ flushes < MaxFlushes
  /\ flushing' = TRUE /\ flushes' = flushes + 1
  /\ UNCHANGED <<sink, pathVars, eos, panicked>>

FlushStop ==
  /\ flushing /\ ~panicked /\ sink = "idle"
  /\ flushing' = FALSE /\ eos' = FALSE
  /\ UNCHANGED <<sink, pathVars, flushes, panicked>>

-----------------------------------------------------------------------------
(* set_property *)

\* "params": every setting starts one more timer thread.
SetParams(t) ==
  /\ timer[t].pc = "none"
  /\ timer' = [timer EXCEPT ![t].pc = "sleep"]
  /\ UNCHANGED <<sink, accepted, queue, holder, poisoned, out, padVars, panicked>>

-----------------------------------------------------------------------------
(* thread_timer, after each sleep *)
TimerUnchanged == <<sink, accepted, padVars, panicked>>

EnterAnyway(t) == holder = NoOne
MayEnter(t) == holder = NoOne /\ ~poisoned

TimerLock(t) ==
  /\ timer[t].pc = "sleep" /\ MayEnter(t)
  /\ holder' = t
  /\ timer' = [timer EXCEPT ![t].pc = "loop"]
  /\ UNCHANGED <<queue, poisoned, out, TimerUnchanged>>

\* The unwrap of a poisoned lock ends the thread.
TimerPanic(t) ==
  /\ timer[t].pc = "sleep" /\ holder = NoOne /\ poisoned
  /\ timer' = [timer EXCEPT ![t].pc = "dead"]
  /\ UNCHANGED <<queue, holder, poisoned, out, TimerUnchanged>>

\* while let Some(obj) = guard.pop_front()
HasTwo == Len(queue) > 1
HasOne == queue # <<>>

ReleaseAtPop(t) == NoOne
HolderAfterPop(t) == t

TimerPop(t) ==
  /\ timer[t].pc = "loop" /\ HasOne
  /\ timer' = [timer EXCEPT ![t] = [pc |-> "popped", buf |-> Head(queue)]]
  /\ queue' = Tail(queue)
  /\ holder' = HolderAfterPop(t)
  /\ UNCHANGED <<poisoned, out, TimerUnchanged>>

KeepLock(t) == t
Released(t) == NoOne

TimerUnlock(t) ==
  /\ timer[t].pc = "loop" /\ ~HasOne
  /\ timer' = [timer EXCEPT ![t].pc = "sleep"]
  /\ holder' = Released(t)
  /\ UNCHANGED <<queue, poisoned, out, TimerUnchanged>>

\* callback, still under the lock: the flags of the source pad are tested ...
Closed == eos \/ flushing

TimerDrop(t) ==
  /\ timer[t].pc = "popped" /\ Closed
  /\ timer' = [timer EXCEPT ![t] = [pc |-> "loop", buf |-> 0]]
  /\ UNCHANGED <<queue, holder, poisoned, out, TimerUnchanged>>

TimerOpen(t) ==
  /\ timer[t].pc = "popped" /\ ~Closed
  /\ timer' = [timer EXCEPT ![t].pc = "push"]
  /\ UNCHANGED <<queue, holder, poisoned, out, TimerUnchanged>>

\* ... and then the buffer is pushed.
TimerPush(t) ==
  /\ timer[t].pc = "push" /\ ~Closed
  /\ out' = Append(out, timer[t].buf)
  /\ timer' = [timer EXCEPT ![t] = [pc |-> "loop", buf |-> 0]]
  /\ UNCHANGED <<queue, holder, poisoned, TimerUnchanged>>

\* The push fails: the flags were set since the test, or downstream refuses
\* the buffer.  The expect panics under the lock.
IgnoreFailure(t) == FALSE
PoisonedByFailure(t) == TRUE

TimerPushFails(t) ==
  /\ timer[t].pc = "push"
  /\ timer' = [timer EXCEPT ![t] = [pc |-> "dead", buf |-> 0]]
  /\ holder' = NoOne /\ poisoned' = PoisonedByFailure(t)
  /\ UNCHANGED <<queue, out, TimerUnchanged>>

TimerCallback(t) ==
  TimerDrop(t) \/ TimerOpen(t) \/ TimerPush(t) \/ TimerPushFails(t)

TimerStep(t) ==
  \/ TimerLock(t) \/ TimerPanic(t)
  \/ TimerPop(t) \/ TimerUnlock(t) \/ TimerCallback(t)

-----------------------------------------------------------------------------
Next ==
  \/ SinkArrive \/ SinkChain \/ PadPanics
  \/ SinkEos \/ FlushStart \/ FlushStop
  \/ \E t \in Timers : SetParams(t) \/ TimerStep(t)

Spec == Init /\ [][Next]_vars

\* Threads that can run do run; downstream returns from every push.  The
\* streaming thread competes for the data mutex with threads that sleep 5 ms
\* after each release, so it is not passed over for ever.
Fairness ==
  /\ SF_vars(SinkChain)
  /\ \A t \in Timers : WF_vars(TimerStep(t))

FairSpec == Spec /\ Fairness

-----------------------------------------------------------------------------
(* Properties *)

InCallback == {"popped", "push"}
Holding == {"loop"} \union InCallback

PadOK ==
  /\ sink \in {"idle", "enqueue"}
  /\ eos \in BOOLEAN /\ flushing \in BOOLEAN /\ panicked \in BOOLEAN /\ flushes \in Nat

PathOK ==
  /\ accepted \in Nat /\ queue \in Seq(Nat) /\ out \in Seq(Nat)
  /\ poisoned \in BOOLEAN /\ holder \in Timers \union {NoOne}
  /\ timer \in [Timers -> [pc : {"none", "sleep", "dead"} \union Holding, buf : Nat]]

HoldsInside == \A t \in Timers : timer[t].pc \in Holding <=> holder = t

\* Every variable has its type, and a timer thread is inside thread_timer
\* exactly when it holds the data mutex.
TypeOK == PadOK /\ PathOK /\ HoldsInside

\* The buffer a timer thread has taken and not yet pushed or dropped.
InHand ==
  IF holder \in Timers /\ timer[holder].pc \in InCallback
  THEN <<timer[holder].buf>> ELSE <<>>

Pipe == InHand \o queue

\* However many timer threads there are, the element forwards each buffer at
\* most once and in the order of arrival: thread_timer keeps the data mutex
\* over the push.
AsRelay == INSTANCE Relay WITH pipe <- Pipe
ImplementsRelay == AsRelay!Spec

Leaves == Len(Pipe') < Len(Pipe) /\ out' = out

\* A buffer that sink_chain answered with Ok is discarded only by a source
\* pad at end of stream or flushing, or by the failure that poisons the
\* mutex; nothing is lost in silence.
LossIsExplained == [][Leaves => Closed \/ (poisoned' /\ ~poisoned)]_vars

\* Once a push has failed nothing more is forwarded, so what left the element
\* has no hole behind a failed push.
NothingAfterFailure == [][poisoned => out' = out /\ poisoned']_vars

\* While a timer thread runs and no push fails, every queued buffer leaves
\* the queue.
QueueDrains ==
  \A b \in 1 .. MaxBuffers :
    (/\ \E i \in 1 .. Len(queue) : queue[i] = b
     /\ \E t \in Timers : timer[t].pc \notin {"none", "dead"})
      ~> (poisoned \/ \A i \in 1 .. Len(Pipe) : Pipe[i] # b)

\* sink_chain returns: it waits for nothing but the data mutex.
SinkReturns == (sink = "enqueue") ~> (sink = "idle")

\* The comment on sink_chain: "Here we just pass through all buffers
\* directly".  Without a flush or a failing push, none is discarded.
AllPassThrough == [][Leaves => flushing \/ poisoned']_vars
=============================================================================
