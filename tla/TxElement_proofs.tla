-------------------------- MODULE TxElement_proofs --------------------------
(***************************************************************************)
(* TxElement for any number of timer threads, buffers and flushes: its    *)
(* types with the discipline of the data mutex, and that it implements     *)
(* Relay, whose forwarding order Relay_proofs proves.                      *)
(***************************************************************************)
EXTENDS TxElement, TLAPS

-----------------------------------------------------------------------------
(* Types *)

LEMMA InitTyped == Init => TypeOK
<1> SUFFICES ASSUME Init PROVE TypeOK
  OBVIOUS
<1>1. PadOK
  BY DEF Init, PadOK
<1>2. PathOK
  <2>1. timer \in [Timers -> [pc : {"none", "sleep", "dead"} \union Holding, buf : Nat]]
    BY DEF Init, NotStarted
  <2>2. accepted \in Nat /\ queue \in Seq(Nat) /\ out \in Seq(Nat)
    BY DEF Init
  <2> QED  BY <2>1, <2>2 DEF Init, PathOK
<1>3. HoldsInside
  BY TimersAssumption DEF Init, HoldsInside, NotStarted, Holding, InCallback
<1> QED  BY <1>1, <1>2, <1>3 DEF TypeOK

LEMMA PathTypedByFrame ==
  ASSUME PathOK /\ HoldsInside, UNCHANGED pathVars
  PROVE  (PathOK /\ HoldsInside)'
BY DEF PathOK, HoldsInside, pathVars

LEMMA SidesTypedByFrame ==
  ASSUME PadOK, UNCHANGED <<sink, padVars, panicked>>
  PROVE  PadOK'
BY DEF PadOK, padVars

LEMMA SinkTyped ==
  ASSUME TypeOK,
         SinkArrive \/ SinkChain \/ PadPanics \/ SinkEos \/ FlushStart \/ FlushStop
  PROVE  TypeOK'
<1>0. USE PathTypedByFrame DEF TypeOK, PadOK, padVars
<1>1. CASE SinkArrive   BY <1>1 DEF SinkArrive
<1>2. CASE SinkEnqueue  BY <1>2 DEF SinkEnqueue, PathOK, HoldsInside
<1>3. CASE SinkPanic    BY <1>3 DEF SinkPanic
<1>4. CASE PadPanics    BY <1>4 DEF PadPanics
<1>5. CASE SinkEos      BY <1>5 DEF SinkEos
<1>6. CASE FlushStart   BY <1>6 DEF FlushStart
<1>7. CASE FlushStop    BY <1>7 DEF FlushStop
<1> QED  BY <1>1, <1>2, <1>3, <1>4, <1>5, <1>6, <1>7 DEF SinkChain

LEMMA TimerTyped ==
  ASSUME TypeOK, NEW t \in Timers, SetParams(t) \/ TimerStep(t)
  PROVE  TypeOK'
<1>1. PadOK'
  BY SidesTypedByFrame
     DEF TypeOK, SetParams, TimerStep, TimerCallback, TimerLock, TimerPanic,
         TimerPop, TimerUnlock, TimerDrop, TimerOpen, TimerPush,
         TimerPushFails, TimerUnchanged
<1>2. PathOK /\ HoldsInside
  BY DEF TypeOK
<1>3. ASSUME NEW pc \in {"none", "sleep", "dead"} \union Holding, NEW buf \in Nat
      PROVE  [timer EXCEPT ![t] = [pc |-> pc, buf |-> buf]]
               \in [Timers -> [pc : {"none", "sleep", "dead"} \union Holding, buf : Nat]]
  BY <1>2 DEF PathOK
<1>4. timer[t].buf \in Nat /\ timer[t] = [pc |-> timer[t].pc, buf |-> timer[t].buf]
  BY <1>2 DEF PathOK
<1>5. /\ {"sleep", "dead"} \subseteq {"none", "sleep", "dead"} \union Holding
      /\ {"loop", "popped", "push"} = Holding
  BY DEF Holding, InCallback
<1>6. PathOK'
  <2>1. CASE SetParams(t)
    BY <1>2, <1>5, <2>1 DEF SetParams, PathOK
  <2>2. CASE TimerLock(t)
    BY <1>2, <1>5, <2>2 DEF TimerLock, PathOK, TimerUnchanged
  <2>3. CASE TimerPanic(t)
    BY <1>2, <1>5, <2>3 DEF TimerPanic, PathOK, TimerUnchanged
  <2>4. CASE TimerPop(t)
    <3>1. Head(queue) \in Nat /\ Tail(queue) \in Seq(Nat)
      BY <1>2, <2>4 DEF TimerPop, HasOne, PathOK
    <3> QED
      BY <1>2, <1>5, <2>4, <3>1 DEF TimerPop, HolderAfterPop, PathOK, TimerUnchanged
  <2>5. CASE TimerUnlock(t)
    BY <1>2, <1>5, <2>5 DEF TimerUnlock, Released, PathOK, TimerUnchanged
  <2>6. CASE TimerDrop(t)
    BY <1>2, <1>5, <2>6 DEF TimerDrop, PathOK, TimerUnchanged
  <2>7. CASE TimerOpen(t)
    BY <1>2, <1>5, <2>7 DEF TimerOpen, PathOK, TimerUnchanged
  <2>8. CASE TimerPush(t)
    BY <1>2, <1>4, <1>5, <2>8 DEF TimerPush, PathOK, TimerUnchanged
  <2>9. CASE TimerPushFails(t)
    <3>1. timer' \in [Timers -> [pc : {"none", "sleep", "dead"} \union Holding, buf : Nat]]
      BY <1>3, <2>9 DEF TimerPushFails
    <3>2. poisoned' \in BOOLEAN /\ holder' = NoOne /\ UNCHANGED <<accepted, queue, out>>
      BY <2>9 DEF TimerPushFails, PoisonedByFailure, TimerUnchanged
    <3> QED  BY <1>2, <3>1, <3>2 DEF PathOK
  <2> QED  BY <2>1, <2>2, <2>3, <2>4, <2>5, <2>6, <2>7, <2>8, <2>9
           DEF TimerStep, TimerCallback
<1>7. /\ timer'[t].pc \in Holding <=> holder' = t
      /\ \A u \in Timers \ {t} : timer'[u] = timer[u] /\ (holder' = u <=> holder = u)
  <2> USE TimersAssumption DEF PathOK, HoldsInside, Holding, InCallback
  <2>1. CASE SetParams(t)   BY <1>2, <2>1 DEF SetParams
  <2>2. CASE TimerLock(t)   BY <1>2, <2>2 DEF TimerLock, MayEnter
  <2>3. CASE TimerPanic(t)  BY <1>2, <2>3 DEF TimerPanic
  <2>4. CASE TimerPop(t)    BY <1>2, <2>4 DEF TimerPop, HolderAfterPop
  <2>5. CASE TimerUnlock(t) BY <1>2, <2>5 DEF TimerUnlock, Released
  <2>6. CASE TimerDrop(t)   BY <1>2, <2>6 DEF TimerDrop
  <2>7. CASE TimerOpen(t)   BY <1>2, <2>7 DEF TimerOpen
  <2>8. CASE TimerPush(t)   BY <1>2, <2>8 DEF TimerPush
  <2>9. CASE TimerPushFails(t)
    BY <1>2, <2>9 DEF TimerPushFails
  <2> QED  BY <2>1, <2>2, <2>3, <2>4, <2>5, <2>6, <2>7, <2>8, <2>9
           DEF TimerStep, TimerCallback
<1>8. HoldsInside'
  BY <1>2, <1>7 DEF HoldsInside
<1> QED  BY <1>1, <1>6, <1>8 DEF TypeOK

LEMMA StepTyped == TypeOK /\ [Next]_vars => TypeOK'
<1> SUFFICES ASSUME TypeOK, [Next]_vars PROVE TypeOK'
  OBVIOUS
<1>1. CASE UNCHANGED vars
  BY <1>1, PathTypedByFrame, SidesTypedByFrame DEF TypeOK, vars
<1>2. CASE Next
  BY <1>2, SinkTyped, TimerTyped DEF Next
<1> QED  BY <1>1, <1>2

\* The element keeps its types, and a timer thread is in thread_timer exactly
\* when it holds the data mutex, however many such threads there are.
THEOREM ElementTypeCorrect == Spec => []TypeOK
BY InitTyped, StepTyped, PTL DEF Spec

-----------------------------------------------------------------------------
(* Refinement *)

LEMMA PrefixOfOne ==
  ASSUME NEW b \in Nat, NEW s \in Seq(Nat)
  PROVE  /\ <<b>> \o s # <<>>
         /\ Head(<<b>> \o s) = b /\ Tail(<<b>> \o s) = s
OBVIOUS

LEMMA HeadAndTail ==
  ASSUME NEW s \in Seq(Nat), s # <<>>
  PROVE  <<Head(s)>> \o Tail(s) = s
OBVIOUS

LEMMA NothingInFront == ASSUME NEW s \in Seq(Nat) PROVE <<>> \o s = s
OBVIOUS

\* What the pipe holds, by who holds the mutex.
LEMMA PipeWhenFree ==
  ASSUME TypeOK, holder = NoOne PROVE Pipe = queue
BY TimersAssumption, NothingInFront DEF Pipe, InHand, TypeOK, PathOK, HoldsInside

LEMMA PipeInLoop ==
  ASSUME TypeOK, NEW t \in Timers, timer[t].pc = "loop" PROVE Pipe = queue
<1>1. holder = t /\ queue \in Seq(Nat)
  BY DEF TypeOK, PathOK, HoldsInside, Holding
<1> QED  BY <1>1, NothingInFront DEF Pipe, InHand, InCallback

LEMMA PipeInCallback ==
  ASSUME TypeOK, NEW t \in Timers, timer[t].pc \in InCallback
  PROVE  Pipe = <<timer[t].buf>> \o queue
<1>1. holder = t
  BY DEF TypeOK, PathOK, HoldsInside, Holding
<1> QED  BY <1>1 DEF Pipe, InHand

\* A step that touches neither the queue nor the timers nor the mutex leaves
\* the pipe alone.
LEMMA SamePipe ==
  ASSUME UNCHANGED <<queue, holder, timer>> PROVE UNCHANGED Pipe
BY DEF Pipe, InHand

\* SetParams, TimerLock and TimerPanic move no buffer.
LEMMA QuietTimer ==
  ASSUME TypeOK, TypeOK', NEW t \in Timers,
         SetParams(t) \/ TimerLock(t) \/ TimerPanic(t) \/ TimerUnlock(t)
  PROVE  UNCHANGED <<accepted, Pipe, out>>
<1>1. CASE SetParams(t)
  <2>1. holder # t /\ holder' = holder
    BY <1>1 DEF SetParams, TypeOK, PathOK, HoldsInside, Holding, InCallback
  <2>2. InHand' = InHand
    BY <1>1, <2>1 DEF SetParams, InHand, TypeOK, PathOK, HoldsInside
  <2> QED  BY <1>1, <2>2 DEF SetParams, Pipe
<1>2. CASE TimerLock(t)
  <2>1. Pipe = queue
    BY <1>2, PipeWhenFree DEF TimerLock, MayEnter
  <2>2. timer'[t].pc = "loop" /\ queue' = queue /\ queue \in Seq(Nat) /\ holder' = t
    BY <1>2 DEF TimerLock, TypeOK, PathOK
  <2>3. Pipe' = queue
    BY <2>2, NothingInFront DEF Pipe, InHand, InCallback
  <2> QED  BY <1>2, <2>1, <2>3 DEF TimerLock, TimerUnchanged
<1>3. CASE TimerPanic(t)
  <2>1. holder = NoOne /\ holder' = NoOne /\ queue' = queue
    BY <1>3 DEF TimerPanic
  <2>2. InHand = <<>> /\ InHand' = <<>>
    BY <2>1, TimersAssumption DEF InHand
  <2> QED  BY <1>3, <2>1, <2>2 DEF TimerPanic, TimerUnchanged, Pipe
<1>4. CASE TimerUnlock(t)
  <2>1. Pipe = queue
    BY <1>4, PipeInLoop DEF TimerUnlock
  <2>2. holder' = NoOne /\ queue' = queue /\ queue \in Seq(Nat)
    BY <1>4 DEF TimerUnlock, Released, TypeOK, PathOK
  <2>3. Pipe' = queue
    BY <2>2, TimersAssumption, NothingInFront DEF Pipe, InHand
  <2> QED  BY <1>4, <2>1, <2>3 DEF TimerUnlock, TimerUnchanged
<1> QED  BY <1>1, <1>2, <1>3, <1>4

\* Taking a buffer from the queue moves it from the front of the queue into
\* the hand of the thread, which is still the front of the pipe.
LEMMA PopKeepsPipe ==
  ASSUME TypeOK, NEW t \in Timers, TimerPop(t)
  PROVE  UNCHANGED <<accepted, Pipe, out>>
<1>1. Pipe = queue
  BY PipeInLoop DEF TimerPop
<1>2. /\ holder' = t /\ queue' = Tail(queue)
      /\ timer'[t].pc = "popped" /\ timer'[t].buf = Head(queue)
  BY DEF TimerPop, HolderAfterPop, TypeOK, PathOK
<1>3. Pipe' = <<Head(queue)>> \o Tail(queue)
  BY <1>2 DEF Pipe, InHand, InCallback
<1>4. queue \in Seq(Nat) /\ queue # <<>>
  BY DEF TimerPop, HasOne, TypeOK, PathOK
<1>5. Pipe' = queue
  BY <1>3, <1>4, HeadAndTail
<1> QED  BY <1>1, <1>5 DEF TimerPop, TimerUnchanged

LEMMA CallbackStep ==
  ASSUME TypeOK, TypeOK', NEW t \in Timers, TimerCallback(t)
  PROVE  AsRelay!Forward \/ AsRelay!Discard \/ UNCHANGED <<accepted, Pipe, out>>
<1>1. timer[t].pc \in InCallback /\ holder = t
  BY DEF TimerCallback, TimerDrop, TimerOpen, TimerPush, TimerPushFails,
         InCallback, TypeOK, PathOK, HoldsInside, Holding
<1>2. timer[t].buf \in Nat /\ queue \in Seq(Nat) /\ queue' = queue
  BY DEF TypeOK, PathOK, TimerCallback, TimerDrop, TimerOpen, TimerPush, TimerPushFails
<1>3. Pipe = <<timer[t].buf>> \o queue
  BY <1>1, PipeInCallback
<1>4. Pipe # <<>> /\ Head(Pipe) = timer[t].buf /\ Tail(Pipe) = queue
  BY <1>2, <1>3, PrefixOfOne
<1>5. CASE TimerOpen(t)
  <2>1. timer'[t].pc = "push" /\ timer'[t].buf = timer[t].buf /\ holder' = t
    BY <1>1, <1>5 DEF TimerOpen, TypeOK, PathOK
  <2>2. Pipe' = <<timer[t].buf>> \o queue
    BY <1>2, <2>1 DEF Pipe, InHand, InCallback
  <2> QED  BY <1>3, <1>5, <2>2 DEF TimerOpen, TimerUnchanged
<1>6. CASE TimerDrop(t)
  <2>1. timer'[t].pc = "loop"
    BY <1>6 DEF TimerDrop, TypeOK, PathOK
  <2>2. Pipe' = queue
    BY <1>1, <1>2, <1>6, <2>1, NothingInFront DEF TimerDrop, Pipe, InHand, InCallback
  <2> QED  BY <1>4, <1>6, <2>2 DEF TimerDrop, TimerUnchanged, AsRelay!Discard
<1>7. CASE TimerPush(t)
  <2>1. timer'[t].pc = "loop"
    BY <1>7 DEF TimerPush, TypeOK, PathOK
  <2>2. Pipe' = queue
    BY <1>1, <1>2, <1>7, <2>1, NothingInFront DEF TimerPush, Pipe, InHand, InCallback
  <2> QED  BY <1>4, <1>7, <2>2 DEF TimerPush, TimerUnchanged, AsRelay!Forward
<1>8. CASE TimerPushFails(t)
  <2>1. holder' = NoOne
    BY <1>8 DEF TimerPushFails
  <2>2. Pipe' = queue
    BY <1>2, <2>1, TimersAssumption, NothingInFront DEF Pipe, InHand
  <2> QED  BY <1>4, <1>8, <2>2 DEF TimerPushFails, TimerUnchanged, AsRelay!Discard
<1> QED  BY <1>5, <1>6, <1>7, <1>8 DEF TimerCallback

LEMMA EnqueueAccepts ==
  ASSUME TypeOK, TypeOK', SinkEnqueue PROVE AsRelay!Accept
<1>1. Pipe = queue
  BY PipeWhenFree DEF SinkEnqueue
<1>2. holder' = NoOne /\ queue' \in Seq(Nat)
  BY DEF SinkEnqueue, TypeOK, PathOK
<1>3. Pipe' = queue'
  BY <1>2, TimersAssumption, NothingInFront DEF Pipe, InHand
<1> QED  BY <1>1, <1>3 DEF SinkEnqueue, AsRelay!Accept

LEMMA OtherSteps ==
  ASSUME SinkArrive \/ SinkPanic \/ PadPanics \/ SinkEos \/ FlushStart \/ FlushStop
  PROVE  UNCHANGED <<accepted, Pipe, out>>
<1>1. UNCHANGED pathVars
  BY DEF SinkArrive, SinkPanic, PadPanics, SinkEos, FlushStart, FlushStop
<1> QED  BY <1>1, SamePipe DEF pathVars

LEMMA StepRefines ==
  ASSUME TypeOK, TypeOK', [Next]_vars
  PROVE  [AsRelay!Next]_<<accepted, Pipe, out>>
<1>1. CASE UNCHANGED vars
  BY <1>1, SamePipe DEF vars, pathVars
<1>2. CASE Next
  BY <1>2, OtherSteps, EnqueueAccepts, CallbackStep, PopKeepsPipe, QuietTimer
     DEF Next, SinkChain, TimerStep, AsRelay!Next
<1> QED  BY <1>1, <1>2

LEMMA InitRefines == Init => AsRelay!Init
BY TimersAssumption DEF Init, AsRelay!Init, Pipe, InHand

\* The element implements the relay: every buffer that sink_chain accepted
\* leaves at most once and in order, with any number of timer threads.
THEOREM ElementRelays == Spec => ImplementsRelay
<1>1. TypeOK /\ TypeOK' /\ [Next]_vars => [AsRelay!Next]_<<accepted, Pipe, out>>
  BY StepRefines
<1>2. AsRelay!relayVars = <<accepted, Pipe, out>>
  BY DEF AsRelay!relayVars
<1> QED
  BY <1>1, <1>2, InitRefines, ElementTypeCorrect, PTL
     DEF Spec, ImplementsRelay, AsRelay!Spec, AsRelay!relayVars

Ordering == INSTANCE Relay_proofs WITH pipe <- Pipe

\* What the relay promises holds of the element: buffers are forwarded in the
\* order in which sink_chain queued them, none twice, and none waits behind
\* one that came later.
THEOREM ElementInOrder == Spec => []AsRelay!InOrder
<1>1. Ordering!Spec => []Ordering!InOrder
  BY Ordering!Ordered
<1>2. Ordering!InOrder <=> AsRelay!InOrder
  BY DEF Ordering!InOrder, AsRelay!InOrder
<1>3. ImplementsRelay => Ordering!Spec
  BY DEF ImplementsRelay, AsRelay!Spec, AsRelay!Init, AsRelay!Next, AsRelay!Accept,
         AsRelay!Forward, AsRelay!Discard, AsRelay!relayVars, Ordering!Spec, Ordering!Init,
         Ordering!Next, Ordering!Accept, Ordering!Forward, Ordering!Discard,
         Ordering!relayVars
<1> QED
  BY <1>1, <1>2, <1>3, ElementRelays, PTL

-----------------------------------------------------------------------------
(* Failures and losses *)

\* The mutex is poisoned by a thread that leaves it, and no one enters it
\* afterwards.
PoisonInv == poisoned => holder = NoOne

LEMMA PoisonStep ==
  ASSUME TypeOK, PoisonInv, [Next]_vars
  PROVE  /\ PoisonInv'
         /\ poisoned => out' = out /\ poisoned'
<1>1. ASSUME NEW t \in Timers, poisoned PROVE timer[t].pc \notin Holding
  BY <1>1, TimersAssumption DEF PoisonInv, TypeOK, HoldsInside
<1>2. CASE UNCHANGED pathVars
  BY <1>2 DEF pathVars, PoisonInv
<1>3. CASE SinkEnqueue
  BY <1>3 DEF SinkEnqueue, PoisonInv
<1>4. ASSUME NEW t \in Timers, SetParams(t) \/ TimerPanic(t)
      PROVE  UNCHANGED <<poisoned, holder, out>>
  BY <1>4 DEF SetParams, TimerPanic
<1>5. ASSUME NEW t \in Timers, TimerLock(t)
      PROVE  ~poisoned /\ ~poisoned'
  BY <1>5 DEF TimerLock, MayEnter
<1>6. ASSUME NEW t \in Timers,
             TimerPop(t) \/ TimerUnlock(t) \/ TimerDrop(t) \/ TimerOpen(t) \/ TimerPush(t)
      PROVE  ~poisoned /\ ~poisoned'
  <2>1. timer[t].pc \in Holding /\ poisoned' = poisoned
    BY <1>6 DEF TimerPop, TimerUnlock, TimerDrop, TimerOpen, TimerPush, Holding, InCallback
  <2> QED  BY <1>1, <2>1
<1>7. ASSUME NEW t \in Timers, TimerPushFails(t)
      PROVE  ~poisoned /\ holder' = NoOne
  <2>1. timer[t].pc \in Holding
    BY <1>7 DEF TimerPushFails, Holding, InCallback
  <2> QED  BY <1>1, <1>7, <2>1 DEF TimerPushFails
<1>8. CASE Next
  <2>1. CASE SinkArrive \/ SinkPanic \/ PadPanics \/ SinkEos \/ FlushStart \/ FlushStop
    <3>1. UNCHANGED pathVars
      BY <2>1 DEF SinkArrive, SinkPanic, PadPanics, SinkEos, FlushStart, FlushStop
    <3> QED  BY <1>2, <3>1
  <2>2. ASSUME NEW t \in Timers, SetParams(t) \/ TimerPanic(t)
        PROVE  PoisonInv' /\ (poisoned => out' = out /\ poisoned')
    BY <1>4, <2>2 DEF PoisonInv
  <2>3. ASSUME NEW t \in Timers, TimerLock(t) \/ TimerPop(t) \/ TimerUnlock(t) \/ TimerCallback(t)
        PROVE  PoisonInv' /\ (poisoned => out' = out /\ poisoned')
    BY <1>5, <1>6, <1>7, <2>3 DEF PoisonInv, TimerCallback
  <2> QED  BY <1>3, <1>8, <2>1, <2>2, <2>3 DEF Next, SinkChain, TimerStep
<1> QED  BY <1>2, <1>8 DEF vars

LEMMA PoisonInit == Init => PoisonInv
BY DEF Init, PoisonInv

\* Once a push has failed nothing more is forwarded, by whichever thread.
THEOREM FailureTheorem == Spec => NothingAfterFailure
<1>1. TypeOK /\ PoisonInv /\ [Next]_vars => [poisoned => out' = out /\ poisoned']_vars
  BY PoisonStep
<1>2. TypeOK /\ PoisonInv /\ [Next]_vars => PoisonInv'
  BY PoisonStep
<1> QED
  BY <1>1, <1>2, PoisonInit, ElementTypeCorrect, PTL DEF Spec, NothingAfterFailure

LEMMA AcceptGrows ==
  ASSUME TypeOK, AsRelay!Accept PROVE Len(Pipe') = Len(Pipe) + 1
<1>1. Pipe \in Seq(Nat)
  <2>1. ASSUME holder \in Timers, timer[holder].pc \in InCallback
        PROVE  timer[holder].buf \in Nat
    BY <2>1 DEF TypeOK, PathOK
  <2>2. queue \in Seq(Nat)
    BY DEF TypeOK, PathOK
  <2>3. InHand = <<>> \/ \E b \in Nat : InHand = <<b>>
    BY <2>1 DEF InHand
  <2>4. InHand \in Seq(Nat)
    <3>1. <<>> \in Seq(Nat)
      OBVIOUS
    <3>2. ASSUME NEW b \in Nat PROVE <<b>> \in Seq(Nat)
      OBVIOUS
    <3> QED  BY <2>3, <3>1, <3>2
  <2>5. \A s, t \in Seq(Nat) : s \o t \in Seq(Nat)
    OBVIOUS
  <2> QED  BY <2>2, <2>4, <2>5 DEF Pipe
<1>2. Pipe' = Append(Pipe, accepted')
  BY DEF AsRelay!Accept
<1> QED  BY <1>1, <1>2

\* A buffer leaves without being pushed only through a closed pad or through
\* the failure that poisons the mutex.
LEMMA LossStep ==
  ASSUME TypeOK, TypeOK', PoisonInv, [Next]_vars, Leaves
  PROVE  Closed \/ (poisoned' /\ ~poisoned)
<1>1. Len(Pipe') # Len(Pipe) /\ Pipe' # Pipe
  BY DEF Leaves
<1>2. ~SinkEnqueue
  <2> SUFFICES ASSUME SinkEnqueue PROVE FALSE
    OBVIOUS
  <2>1. Len(Pipe') = Len(Pipe) + 1 /\ Len(Pipe) \in Nat
    BY EnqueueAccepts, AcceptGrows
  <2> QED  BY <2>1 DEF Leaves
<1>3. ASSUME NEW t \in Timers, TimerCallback(t)
      PROVE  Closed \/ (poisoned' /\ ~poisoned)
  <2>1. CASE TimerDrop(t)
    BY <2>1 DEF TimerDrop
  <2>2. CASE TimerPushFails(t)
    <3>1. holder = t
      BY <2>2 DEF TimerPushFails, TypeOK, PathOK, HoldsInside, Holding, InCallback
    <3>2. ~poisoned
      BY <3>1, TimersAssumption DEF PoisonInv
    <3>3. poisoned'
      BY <2>2 DEF TimerPushFails, PoisonedByFailure
    <3> QED  BY <3>2, <3>3
  <2>3. ~TimerPush(t)
    <3> SUFFICES ASSUME TimerPush(t) PROVE FALSE
      OBVIOUS
    <3>1. out' = Append(out, timer[t].buf) /\ out \in Seq(Nat)
      BY DEF TimerPush, TypeOK, PathOK
    <3>2. timer[t].buf \in Nat
      BY DEF TypeOK, PathOK
    <3>3. Append(out, timer[t].buf) # out
      BY <3>1, <3>2
    <3> QED  BY <3>1, <3>3 DEF Leaves
  <2>4. ~TimerOpen(t)
    <3> SUFFICES ASSUME TimerOpen(t) PROVE FALSE
      OBVIOUS
    <3>1. timer[t].pc = "popped" /\ holder = t /\ holder' = t /\ queue' = queue
      BY DEF TimerOpen, TypeOK, PathOK, HoldsInside, Holding, InCallback
    <3>2. timer'[t].pc = "push" /\ timer'[t].buf = timer[t].buf
      BY DEF TimerOpen, TypeOK, PathOK
    <3>3. Pipe' = Pipe
      BY <3>1, <3>2 DEF Pipe, InHand, InCallback
    <3> QED  BY <1>1, <3>3
  <2> QED  BY <1>3, <2>1, <2>2, <2>3, <2>4 DEF TimerCallback
<1>4. ~UNCHANGED vars
  BY <1>1, SamePipe DEF vars, pathVars
<1> QED
  BY <1>1, <1>2, <1>3, <1>4, OtherSteps, PopKeepsPipe, QuietTimer
     DEF Next, SinkChain, TimerStep

\* No buffer is lost in silence, with any number of timer threads.
THEOREM LossTheorem == Spec => LossIsExplained
<1>1. TypeOK /\ TypeOK' /\ PoisonInv /\ [Next]_vars
        => [Leaves => Closed \/ (poisoned' /\ ~poisoned)]_vars
  BY LossStep
<1>2. TypeOK /\ PoisonInv /\ [Next]_vars => PoisonInv'
  BY PoisonStep
<1> QED
  BY <1>1, <1>2, PoisonInit, ElementTypeCorrect, PTL DEF Spec, LossIsExplained
=============================================================================
