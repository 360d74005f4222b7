----------------------- MODULE SenderController_proofs -----------------------
(***************************************************************************)
(* Proofs about SenderController for every width of the sequence numbers,  *)
(* every window and every clock bound.                                     *)
(***************************************************************************)
EXTENDS SenderController, SequenceTheorems, FiniteSetTheorems,
        WellFoundedInduction, TLAPS

\* The successor is one step ahead, and stays in range.
LEMMA SuccProperties ==
  ASSUME NEW a \in SeqNr
  PROVE  /\ Succ(a) \in SeqNr
         /\ Minus(Succ(a), a) = 1
BY SeqModulusAssumption DEF Succ, SeqNr, Minus

\* Wrapped distances are numbers of the space, and zero only between equals.
LEMMA MinusProperties ==
  ASSUME NEW a \in SeqNr, NEW b \in SeqNr
  PROVE  /\ Minus(a, b) \in SeqNr
         /\ Minus(a, b) = 0 <=> a = b
BY SeqModulusAssumption DEF SeqNr, Minus

\* Dropping a prefix of a sequence.
LEMMA SuffixProperties ==
  ASSUME NEW S, NEW s \in Seq(S), NEW k \in 0 .. Len(s)
  PROVE  /\ SubSeq(s, k + 1, Len(s)) \in Seq(S)
         /\ Len(SubSeq(s, k + 1, Len(s))) = Len(s) - k
         /\ \A i \in 1 .. Len(s) - k : SubSeq(s, k + 1, Len(s))[i] = s[k + i]
<1>1. \A i \in k + 1 .. Len(s) : s[i] \in S
  BY ElementOfSeq
<1>2. Len(s) \in Nat
  BY LenProperties
<1> QED
  BY <1>1, <1>2, SubSeqProperties

-----------------------------------------------------------------------------
(* Type correctness *)

InterLoss == [intervals : Seq(Nat), expectedSeq : SeqNr, initialized : BOOLEAN]

\* What updateInterLossData leaves has the type of what it found, and no more
\* than MaxIntervals intervals.
LEMMA InterLossTyped ==
  ASSUME NEW seq \in SeqNr, NEW il \in InterLoss,
         Len(il.intervals) \in 1 .. MaxIntervals
  PROVE  /\ InterLossAfter(seq, il) \in InterLoss
         /\ Len(InterLossAfter(seq, il).intervals) \in 1 .. MaxIntervals
<1> DEFINE ivals == il.intervals
<1>1. ivals \in Seq(Nat) /\ Len(ivals) \in Nat /\ ivals[1] \in Nat
  BY LenProperties, ElementOfSeq DEF InterLoss
<1>2. CASE seq = il.expectedSeq
  <2>1. /\ [ivals EXCEPT ![1] = ivals[1] + 1] \in Seq(Nat)
        /\ Len([ivals EXCEPT ![1] = ivals[1] + 1]) = Len(ivals)
    BY <1>1, ExceptSeq
  <2>2. InterLossAfter(seq, il) =
          [intervals |-> [ivals EXCEPT ![1] = ivals[1] + 1],
           expectedSeq |-> Succ(seq), initialized |-> il.initialized]
    BY <1>2 DEF InterLossAfter, InterLoss
  <2> QED
    BY <2>1, <2>2, SuccProperties DEF InterLoss
<1>3. CASE seq # il.expectedSeq
  <2> DEFINE kept == IF Len(ivals) < MaxIntervals THEN ivals
                     ELSE SubSeq(ivals, 1, MaxIntervals - 1)
  <2>1. kept \in Seq(Nat) /\ Len(kept) \in 0 .. MaxIntervals - 1
    <3>1. CASE Len(ivals) < MaxIntervals
      BY <1>1, <3>1, IntervalsAssumption
    <3>2. CASE ~(Len(ivals) < MaxIntervals)
      <4>1. Len(ivals) = MaxIntervals
        BY <1>1, <3>2, IntervalsAssumption
      <4>2. \A i \in 1 .. MaxIntervals - 1 : ivals[i] \in Nat
        BY <1>1, <4>1, IntervalsAssumption, ElementOfSeq
      <4> QED
        BY <3>2, <4>2, IntervalsAssumption, SubSeqProperties
    <3> QED
      BY <3>1, <3>2
  <2>2. <<1>> \in Seq(Nat) /\ Len(<<1>>) = 1
    OBVIOUS
  <2>3. /\ <<1>> \o kept \in Seq(Nat)
        /\ Len(<<1>> \o kept) = 1 + Len(kept)
    BY <2>1, <2>2, ConcatProperties
  <2>4. InterLossAfter(seq, il) =
          [intervals |-> <<1>> \o kept,
           expectedSeq |-> Succ(seq), initialized |-> TRUE]
    BY <1>3 DEF InterLossAfter
  <2> HIDE DEF kept
  <2> QED
    BY <2>1, <2>3, <2>4, SuccProperties, IntervalsAssumption DEF InterLoss
<1> QED
  BY <1>2, <1>3

\* After it the number expected is the one after the packet's.
LEMMA ExpectedAfter ==
  ASSUME NEW seq \in SeqNr, NEW il \in InterLoss
  PROVE  InterLossAfter(seq, il).expectedSeq = Succ(seq)
<1>1. CASE seq = il.expectedSeq
  <2>1. InterLossAfter(seq, il) =
          [intervals |-> [il.intervals EXCEPT ![1] = il.intervals[1] + 1],
           expectedSeq |-> Succ(seq), initialized |-> il.initialized]
    BY <1>1 DEF InterLossAfter, InterLoss
  <2> QED
    BY <2>1
<1>2. CASE seq # il.expectedSeq
  BY <1>2 DEF InterLossAfter
<1> QED
  BY <1>1, <1>2

\* The initial states are well typed.
LEMMA InitTyped == Init => TypeOK
  BY IntervalsAssumption, SeqModulusAssumption
     DEF Init, Fresh, FreshInterLoss, TypeOK, SeqNr

\* An element taken out of the in-transit list is a sent packet, and what is
\* left of the list is a list of sent packets.
LEMMA RestTyped ==
  ASSUME inTransit \in Seq(Sent), NEW n \in 0 .. Len(inTransit) - 1
  PROVE  /\ inTransit[n + 1] \in Sent
         /\ Rest(n) \in Seq(Sent)
         /\ Rest(n + 1) \in Seq(Sent)
<1>1. Len(inTransit) \in Nat
  BY LenProperties
<1>2. n + 1 \in 1 .. Len(inTransit) /\ n \in 0 .. Len(inTransit)
      /\ n + 1 \in 0 .. Len(inTransit)
  BY <1>1
<1> QED
  BY <1>2, ElementOfSeq, SuffixProperties DEF Rest

\* A send that is accepted keeps the types.
LEMMA SendAcceptedTyped ==
  ASSUME TypeOK, NEW seq \in SeqNr, NEW size \in Sizes, SendAccepted(seq, size)
  PROVE  TypeOK'
<1> DEFINE sent == Append(inTransit, [seq |-> seq, tx |-> now, size |-> size])
<1>1. [seq |-> seq, tx |-> now, size |-> size] \in Sent
  BY InputsAssumption DEF TypeOK, Sent
<1>2. sent \in Seq(Sent) /\ Len(sent) \in Nat
  BY <1>1, AppendProperties, LenProperties DEF TypeOK
<1>3. inTransit' \in Seq(Sent)
  <2>1. PICK k \in 0 .. Len(sent) - 1 : inTransit' = SubSeq(sent, k + 1, Len(sent))
    BY DEF SendAccepted, TrimInTransit
  <2>2. k \in 0 .. Len(sent)
    BY <1>2
  <2> HIDE DEF sent
  <2> QED
    BY <1>2, <2>1, <2>2, SuffixProperties
<1> QED
  BY <1>3 DEF TypeOK, SendAccepted, historyVars

\* Recording feedback keeps the types: the log, the loss intervals and the
\* base delay.
LEMMA RecordTyped ==
  ASSUME TypeOK, NEW packet \in Sent, NEW rx \in Int, Record(packet, rx)
  PROVE  /\ history' \in Seq(Acked)
         /\ baseDelay' \in Int
         /\ ilState' \in InterLoss
         /\ Len(ilState'.intervals) \in 1 .. MaxIntervals
<1> DEFINE log == Kept(packet)
           owd == rx - packet.tx
           acked == [seq |-> packet.seq, tx |-> packet.tx,
                     size |-> packet.size, owd |-> owd]
           longer == Append(log, acked)
           il == InterLossBefore(packet.seq, log)
<1>1. owd \in Int /\ packet.seq \in SeqNr /\ packet.tx \in Int /\ packet.size \in Nat
  BY InputsAssumption DEF Sent
<1>2. log \in Seq(Acked)
  BY DEF Kept, TypeOK
<1>3. acked \in Acked
  BY <1>1 DEF Acked
<1>4. longer \in Seq(Acked) /\ Len(longer) \in Nat
  BY <1>2, <1>3, AppendProperties, LenProperties
<1>5. history' \in Seq(Acked)
  <2>1. PICK k \in 0 .. Len(longer) - 1 :
          history' = SubSeq(longer, k + 1, Len(longer))
    BY DEF Record, TrimHistory
  <2>2. k \in 0 .. Len(longer)
    BY <1>4
  <2> HIDE DEF longer
  <2> QED
    BY <1>4, <2>1, <2>2, SuffixProperties
<1>6. baseDelay' \in Int
  BY <1>1 DEF Record, BaseDelayAfter, TypeOK
<1>7. il \in InterLoss /\ Len(il.intervals) \in 1 .. MaxIntervals
  <2>1. CASE log = <<>>
    <3>1. il = [intervals |-> <<0>>, expectedSeq |-> packet.seq, initialized |-> FALSE]
      BY <2>1 DEF InterLossBefore, FreshInterLoss
    <3> QED
      BY <1>1, <3>1, IntervalsAssumption DEF InterLoss
  <2>2. CASE log # <<>>
    BY <2>2 DEF InterLossBefore, TypeOK, InterLoss
  <2> QED
    BY <2>1, <2>2
<1>8. ilState' = InterLossAfter(packet.seq, il)
  BY DEF Record
<1> HIDE DEF il
<1> QED
  BY <1>1, <1>5, <1>6, <1>7, <1>8, InterLossTyped

\* A call of processFeedback keeps the types, however it ends.
LEMMA FeedbackTyped ==
  ASSUME TypeOK, NEW seq \in SeqNr, NEW rx \in Int, Feedback(seq, rx)
  PROVE  TypeOK'
<1> USE DEF vars, sendVars, historyVars
<1>0. inTransit \in Seq(Sent)
  BY DEF TypeOK
<1>1. CASE FeedbackFromFuture(seq) \/ FeedbackNothingInTransit(seq)
  BY <1>1 DEF FeedbackFromFuture, FeedbackNothingInTransit, TypeOK
<1>2. CASE AbortBackNotLast(seq)
  BY <1>2 DEF AbortBackNotLast, TypeOK
<1>3. CASE FeedbackOutOfOrder(seq)
  <2>1. inTransit' \in Seq(Sent)
    BY <1>0, <1>3, RestTyped DEF FeedbackOutOfOrder
  <2> QED
    BY <1>3, <2>1 DEF FeedbackOutOfOrder, TypeOK
<1>4. CASE AbortHalfSpace(seq)
  <2>1. inTransit' \in Seq(Sent)
    BY <1>0, <1>4, RestTyped DEF AbortHalfSpace
  <2> QED
    BY <1>4, <2>1 DEF AbortHalfSpace, TypeOK
<1>5. CASE FeedbackDecreasing(seq)
  <2>1. inTransit' \in Seq(Sent)
    BY <1>0, <1>5, RestTyped DEF FeedbackDecreasing
  <2> QED
    BY <1>5, <2>1 DEF FeedbackDecreasing, TypeOK
<1>6. CASE AbortInterLoss(seq)
  <2>1. inTransit' \in Seq(Sent)
    BY <1>0, <1>6, RestTyped DEF AbortInterLoss
  <2> QED
    BY <1>6, <2>1 DEF AbortInterLoss, TypeOK
<1>7. CASE FeedbackRecorded(seq, rx)
  <2>1. PICK n \in 0 .. Len(inTransit) - 1 :
          inTransit' = Rest(n + 1) /\ Record(inTransit[n + 1], rx)
    BY <1>7 DEF FeedbackRecorded
  <2>2. inTransit' \in Seq(Sent) /\ inTransit[n + 1] \in Sent
    BY <1>0, <2>1, RestTyped
  <2>3. /\ history' \in Seq(Acked) /\ baseDelay' \in Int
        /\ ilState' \in InterLoss
        /\ Len(ilState'.intervals) \in 1 .. MaxIntervals
    BY <2>1, <2>2, RecordTyped
  <2> QED
    BY <1>7, <2>2, <2>3 DEF FeedbackRecorded, TypeOK, InterLoss
<1> QED
  BY <1>1, <1>2, <1>3, <1>4, <1>5, <1>6, <1>7
     DEF Feedback, FeedbackTrue, FeedbackFalse, FeedbackAborts

\* Every step of the any-caller specification keeps the types.
LEMMA NextTyped == TypeOK /\ [Next]_vars => TypeOK'
<1> SUFFICES ASSUME TypeOK, [Next]_vars PROVE TypeOK'
  OBVIOUS
<1>1. CASE \E seq \in SeqNr, size \in Sizes : SendAccepted(seq, size)
  BY <1>1, SendAcceptedTyped
<1>2. CASE \E seq \in SeqNr : SendRejected(seq)
  BY <1>2, SuccProperties
     DEF SendRejected, NextSequence, TypeOK, historyVars
<1>3. CASE \E seq \in SeqNr, rx \in RxTimes : Feedback(seq, rx)
  BY <1>3, FeedbackTyped, InputsAssumption
<1>4. CASE Reset
  BY <1>4, IntervalsAssumption, SeqModulusAssumption
     DEF Reset, FreshInterLoss, TypeOK, SeqNr
<1>5. CASE Tick \/ ClockSetBack
  BY <1>5 DEF Tick, ClockSetBack, Unchanged, TypeOK, sendVars, historyVars
<1>6. CASE UNCHANGED vars
  BY <1>6 DEF vars, sendVars, historyVars, TypeOK
<1> QED
  BY <1>1, <1>2, <1>3, <1>4, <1>5, <1>6 DEF Next

\* The contract only restricts the caller.
LEMMA ContractIsNext == [ContractNext]_vars => [Next]_vars
  BY DEF ContractNext, Next, ContractSend, ContractFeedback

\* Whatever numbers, times and clock readings the class is fed, its state
\* keeps its types.
THEOREM TypeCorrect == Spec => []TypeOK
  BY InitTyped, NextTyped, PTL DEF Spec

\* The same for a caller that keeps to the contract.
THEOREM ContractTypeCorrect == ContractSpec => []TypeOK
  BY InitTyped, NextTyped, ContractIsNext, PTL DEF ContractSpec

-----------------------------------------------------------------------------
(* The log's window, for any caller *)

\* What the two lists hold carries sequence numbers and times.
LEMMA ListElements ==
  ASSUME TypeOK
  PROVE  /\ \A i \in 1 .. Len(inTransit) :
              inTransit[i].seq \in SeqNr /\ inTransit[i].tx \in Int
         /\ \A i \in 1 .. Len(history) :
              history[i].seq \in SeqNr /\ history[i].tx \in Int
<1>1. inTransit \in Seq(Sent) /\ history \in Seq(Acked)
  BY DEF TypeOK
<1>2. ASSUME NEW i \in 1 .. Len(inTransit) PROVE inTransit[i] \in Sent
  BY <1>1, ElementOfSeq
<1>3. ASSUME NEW i \in 1 .. Len(history) PROVE history[i] \in Acked
  BY <1>1, ElementOfSeq
<1> QED
  BY <1>2, <1>3 DEF Sent, Acked

\* The log after a packet is recorded: a suffix of what was kept of it, then
\* the packet, and its first entry is recent.
LEMMA RecordShape ==
  ASSUME TypeOK, NEW packet \in Sent, NEW rx \in RxTimes, Record(packet, rx)
  PROVE  \E k \in 0 .. Len(Kept(packet)) :
           /\ Len(history') = Len(Kept(packet)) + 1 - k
           /\ \A i \in 1 .. Len(Kept(packet)) - k : history'[i] = Kept(packet)[k + i]
           /\ history'[Len(history')].seq = packet.seq
           /\ history'[Len(history')].tx = packet.tx
           /\ history'[Len(history')].owd = rx - packet.tx
           /\ packet.tx < history'[1].tx + HistoryLength
<1> DEFINE log == Kept(packet)
           owd == rx - packet.tx
           acked == [seq |-> packet.seq, tx |-> packet.tx,
                     size |-> packet.size, owd |-> owd]
           longer == Append(log, acked)
<1>1. owd \in Int /\ packet.seq \in SeqNr /\ packet.tx \in Int /\ packet.size \in Nat
  BY InputsAssumption DEF Sent
<1>2. log \in Seq(Acked) /\ Len(log) \in Nat
  BY LenProperties DEF Kept, TypeOK
<1>3. acked \in Acked
  BY <1>1 DEF Acked
<1>4. /\ longer \in Seq(Acked) /\ Len(longer) = Len(log) + 1
      /\ \A i \in 1 .. Len(log) : longer[i] = log[i]
      /\ longer[Len(log) + 1] = acked
  BY <1>2, <1>3, AppendProperties
<1>5. PICK k \in 0 .. Len(longer) - 1 :
        /\ Recent(longer[k + 1], Last(longer))
        /\ history' = SubSeq(longer, k + 1, Len(longer))
  BY DEF Record, TrimHistory
<1>6. Last(longer).tx = packet.tx
  BY <1>4 DEF Last
<1> HIDE DEF longer, log
<1>7. k \in 0 .. Len(longer) /\ k \in 0 .. Len(log)
  BY <1>2, <1>4
<1>8. /\ Len(history') = Len(longer) - k
      /\ \A i \in 1 .. Len(longer) - k : history'[i] = longer[k + i]
  BY <1>4, <1>5, <1>7, SuffixProperties
<1>9. Len(history') = Len(log) + 1 - k
  BY <1>2, <1>4, <1>7, <1>8
<1>10. history'[Len(history')] = acked
  BY <1>2, <1>4, <1>7, <1>8
<1>11. ASSUME NEW i \in 1 .. Len(log) - k PROVE history'[i] = log[k + i]
  <2>1. i \in 1 .. Len(longer) - k /\ k + i \in 1 .. Len(log)
    BY <1>2, <1>4, <1>7
  <2> QED
    BY <1>4, <1>8, <2>1
<1>12. packet.tx < history'[1].tx + HistoryLength
  <2>1. 1 \in 1 .. Len(longer) - k
    BY <1>2, <1>4, <1>7
  <2>2. history'[1] = longer[k + 1]
    BY <1>8, <2>1
  <2> QED
    BY <1>5, <1>6, <2>2 DEF Recent
<1> QED
  BY <1>7, <1>9, <1>10, <1>11, <1>12 DEF log

\* Recording a packet that does not go back in time keeps the log sorted and
\* within its window.
LEMMA RecordWindow ==
  ASSUME TypeOK, LogWithinWindow, NEW packet \in Sent, NEW rx \in RxTimes,
         Record(packet, rx), ~GoesBack(packet)
  PROVE  LogWithinWindow'
<1> DEFINE log == Kept(packet)
<1>1. PICK k \in 0 .. Len(log) :
           /\ Len(history') = Len(log) + 1 - k
           /\ \A i \in 1 .. Len(log) - k : history'[i] = log[k + i]
           /\ history'[Len(history')].tx = packet.tx
           /\ packet.tx < history'[1].tx + HistoryLength
  BY RecordShape
<1>2. packet.tx \in Int
  BY DEF Sent
<1>3. Len(log) \in Nat
  BY LenProperties DEF Kept, TypeOK
<1>4. ASSUME NEW i \in 1 .. Len(log) PROVE log[i].tx \in Int /\ log[i].tx <= packet.tx
  <2>1. log = history
    BY <1>4 DEF Kept
  <2>2. history[i].tx \in Int /\ history[Len(history)].tx \in Int
    BY <1>3, <2>1, ListElements
  <2>3. history[i].tx <= history[Len(history)].tx
    BY <1>3, <2>1, <2>2 DEF LogWithinWindow
  <2>4. history[Len(history)].tx <= packet.tx
    BY <1>2, <2>1, <2>2 DEF GoesBack, Last
  <2> QED
    BY <1>2, <2>1, <2>2, <2>3, <2>4
<1>5. ASSUME NEW i \in 1 .. Len(history'), NEW j \in 1 .. Len(history'), i < j
      PROVE history'[i].tx <= history'[j].tx
  <2>1. i \in 1 .. Len(log) - k /\ k + i \in 1 .. Len(log)
    BY <1>1, <1>3, <1>5
  <2>2. history'[i] = log[k + i]
    BY <1>1, <2>1
  <2>3. CASE j = Len(history')
    BY <1>1, <1>4, <2>1, <2>2, <2>3
  <2>4. CASE j # Len(history')
    <3>1. j \in 1 .. Len(log) - k /\ k + j \in 1 .. Len(log)
      BY <1>1, <1>3, <2>4
    <3>2. history'[j] = log[k + j]
      BY <1>1, <3>1
    <3>3. log = history
      BY <2>1 DEF Kept
    <3>4. k + i < k + j
      BY <1>5
    <3> QED
      BY <2>1, <2>2, <3>1, <3>2, <3>3, <3>4 DEF LogWithinWindow
  <2> QED
    BY <2>3, <2>4
<1>6. Last(history').tx < Head(history').tx + HistoryLength
  <2>1. history' \in Seq(Acked) /\ Len(history') \in Nat \ {0}
    BY <1>1, <1>3, InputsAssumption, RecordTyped
  <2>2. Head(history') = history'[1] /\ Last(history') = history'[Len(history')]
    BY <2>1 DEF Last
  <2> QED
    BY <1>1, <2>2
<1> QED
  BY <1>5, <1>6 DEF LogWithinWindow

\* The log is sorted by sending time and covers less than HistoryLength, for
\* every caller and with a clock that may be set back: the asserts of the
\* garbage collection hold.
THEOREM LogWindow == Spec => []LogWithinWindow
<1>1. Init => LogWithinWindow
  BY DEF Init, Fresh, LogWithinWindow
<1>2. TypeOK /\ LogWithinWindow /\ [Next]_vars => LogWithinWindow'
  <2> SUFFICES ASSUME TypeOK, LogWithinWindow, [Next]_vars PROVE LogWithinWindow'
    OBVIOUS
  <2>1. CASE UNCHANGED history
    BY <2>1 DEF LogWithinWindow
  <2>2. CASE Reset
    BY <2>2 DEF Reset, LogWithinWindow
  <2>3. ASSUME NEW seq \in SeqNr, NEW rx \in RxTimes, FeedbackRecorded(seq, rx)
        PROVE LogWithinWindow'
    <3>1. PICK n \in 0 .. Len(inTransit) - 1 :
            ~GoesBack(inTransit[n + 1]) /\ Record(inTransit[n + 1], rx)
      BY <2>3 DEF FeedbackRecorded
    <3>2. inTransit[n + 1] \in Sent
      BY RestTyped DEF TypeOK
    <3> QED
      BY <3>1, <3>2, RecordWindow
  <2>4. ASSUME NEW seq \in SeqNr, NEW rx \in RxTimes, Feedback(seq, rx)
        PROVE UNCHANGED history \/ FeedbackRecorded(seq, rx)
    BY <2>4 DEF Feedback, FeedbackTrue, FeedbackFalse, FeedbackAborts,
         FeedbackNothingInTransit, FeedbackOutOfOrder, FeedbackFromFuture,
         FeedbackDecreasing, AbortBackNotLast, AbortHalfSpace, AbortInterLoss,
         vars, historyVars
  <2> QED
    BY <2>1, <2>2, <2>3, <2>4
       DEF Next, vars, SendAccepted, SendRejected, historyVars, Tick,
           ClockSetBack, Unchanged
<1> QED
  BY <1>1, <1>2, TypeCorrect, PTL DEF Spec

-----------------------------------------------------------------------------
(***************************************************************************)
(* The numbering invariant of the contract.  NumbersInOrder and NoAbort    *)
(* are not inductive: what makes them so are the wrapped distances, which  *)
(* stay below half the number space wherever two numbers are compared.     *)
(***************************************************************************)
\* a is ahead of b by a distance the wrapping order can tell.
Ahead(a, b) == Minus(a, b) # 0 /\ HalfSpace(Minus(a, b))

FirstSendInv == firstSend => inTransit = <<>> /\ history = <<>>

LogInv ==
  \A i, j \in 1 .. Len(history) :
     i < j => Ahead(history[j].seq, history[i].seq)

TransitInv ==
  \A i \in 1 .. Len(history), j \in 1 .. Len(inTransit) :
     inTransit[j].tx <= history[i].tx + MaxInterPacketTime
       => Ahead(inTransit[j].seq, history[i].seq)

ExpectedInv ==
  history # <<>> => ilState.expectedSeq = Succ(history[Len(history)].seq)

NumberingInv ==
  /\ InTransitIsTail /\ HalfSpace(Len(inTransit))
  /\ FirstSendInv /\ LogInv /\ TransitInv /\ ExpectedInv
  /\ NoAbort

\* A number ahead of another is greater in the wrapping order.
LEMMA AheadIsGreater ==
  ASSUME NEW a \in SeqNr, NEW b \in SeqNr, Ahead(a, b)
  PROVE  lessThan(b, a)
BY SeqModulusAssumption DEF SeqNr, Ahead, HalfSpace, lessThan, Minus

\* A number ahead of b is the one after b or ahead of the one after b.
LEMMA AheadOfSucc ==
  ASSUME NEW a \in SeqNr, NEW b \in SeqNr, Ahead(a, b)
  PROVE  a = Succ(b) \/ lessThan(Succ(b), a)
BY SeqModulusAssumption DEF SeqNr, Ahead, HalfSpace, lessThan, Minus, Succ

\* Distances to the last number sent grow by one with each packet.
LEMMA MinusSucc ==
  ASSUME NEW a \in SeqNr, NEW b \in SeqNr, HalfSpace(Minus(a, b) + 1)
  PROVE  Minus(Succ(a), b) = Minus(a, b) + 1
BY SeqModulusAssumption DEF SeqNr, HalfSpace, Minus, Succ

\* In a list shorter than half the space, every element is less than half the
\* space from the end, and a later one is closer to it.
LEMMA LaterIsCloser ==
  ASSUME NEW len \in Nat, NEW first \in Int, NEW second \in Int,
         HalfSpace(len), 0 <= first, first < second
  PROVE  /\ HalfSpace(len - second) /\ HalfSpace(len - first)
         /\ len - second < len - first
BY SeqModulusAssumption DEF HalfSpace

\* Of two numbers less than half the space behind a third, the one closer to
\* it is ahead of the other.
LEMMA CloserIsAhead ==
  ASSUME NEW l \in SeqNr, NEW a \in SeqNr, NEW b \in SeqNr,
         HalfSpace(Minus(l, a)), HalfSpace(Minus(l, b)),
         Minus(l, a) < Minus(l, b)
  PROVE  Ahead(a, b)
BY SeqModulusAssumption DEF SeqNr, HalfSpace, Minus, Ahead

\* Two numbers less than half the space behind a third are ordered.
LEMMA OrderedBehind ==
  ASSUME NEW l \in SeqNr, NEW a \in SeqNr, NEW b \in SeqNr,
         HalfSpace(Minus(l, a)), HalfSpace(Minus(l, b)),
         ~lessThan(a, b), ~lessThan(b, a)
  PROVE  a = b
BY SeqModulusAssumption DEF SeqNr, HalfSpace, Minus, lessThan

\* A number that is not from the future, and not exactly half the space away,
\* is less than half the space behind.
LEMMA NotFutureIsBehind ==
  ASSUME NEW l \in SeqNr, NEW s \in SeqNr,
         ~lessThan(l, s), 2 * Minus(l, s) # SeqModulus
  PROVE  HalfSpace(Minus(l, s))
BY SeqModulusAssumption DEF SeqNr, HalfSpace, Minus, lessThan

\* Dropping a prefix of the in-transit list keeps the rest of the invariant's
\* statements about it.
LEMMA RestNumbering ==
  ASSUME TypeOK, NumberingInv, NEW n \in 0 .. Len(inTransit),
         inTransit' = SubSeq(inTransit, n + 1, Len(inTransit)),
         UNCHANGED lastSequence
  PROVE  /\ InTransitIsTail' /\ HalfSpace(Len(inTransit'))
         /\ Len(inTransit') = Len(inTransit) - n
         /\ \A i \in 1 .. Len(inTransit') : inTransit'[i] = inTransit[n + i]
<1>1. inTransit \in Seq(Sent) /\ Len(inTransit) \in Nat
  BY LenProperties DEF TypeOK
<1>2. /\ Len(inTransit') = Len(inTransit) - n
      /\ \A i \in 1 .. Len(inTransit) - n : inTransit'[i] = inTransit[n + i]
  BY <1>1, SuffixProperties
<1>3. \A i \in 1 .. Len(inTransit') : inTransit'[i] = inTransit[n + i]
  BY <1>2
<1>4. HalfSpace(Len(inTransit'))
  BY <1>1, <1>2, SeqModulusAssumption DEF NumberingInv, HalfSpace
<1>5. InTransitIsTail'
  <2> SUFFICES ASSUME NEW i \in 1 .. Len(inTransit')
               PROVE Minus(lastSequence', inTransit'[i].seq) = Len(inTransit') - i
    BY DEF InTransitIsTail, Minus
  <2>1. n + i \in 1 .. Len(inTransit)
    BY <1>1, <1>2
  <2>2. Minus(lastSequence, inTransit[n + i].seq) = Len(inTransit) - (n + i)
    BY <2>1 DEF NumberingInv, InTransitIsTail
  <2> QED
    BY <1>1, <1>2, <1>3, <2>2 DEF Minus
<1> QED
  BY <1>2, <1>3, <1>4, <1>5

\* The initial states satisfy the invariant.
LEMMA InitNumbering == Init => NumberingInv
<1> SUFFICES ASSUME Init PROVE NumberingInv
  OBVIOUS
<1>1. inTransit = <<>> /\ history = <<>> /\ aborted = "no"
  BY DEF Init, Fresh
<1> QED
  BY <1>1, SeqModulusAssumption
     DEF NumberingInv, InTransitIsTail, HalfSpace, FirstSendInv, LogInv,
         TransitInv, ExpectedInv, NoAbort

\* An accepted packet extends the run of numbers by one, and aging takes
\* from its front only.
LEMMA SendNumbering ==
  ASSUME TypeOK, NumberingInv, NEW seq \in SeqNr, NEW size \in Sizes,
         ContractSend(seq, size)
  PROVE  NumberingInv'
<1> DEFINE packet == [seq |-> seq, tx |-> now, size |-> size]
           sent == Append(inTransit, packet)
<1>1. SendAccepted(seq, size) /\ RoomToSend
  BY DEF ContractSend
<1>2. inTransit \in Seq(Sent) /\ Len(inTransit) \in Nat
  BY LenProperties DEF TypeOK
<1>3. packet \in Sent
  BY InputsAssumption DEF TypeOK, Sent
<1>4. /\ sent \in Seq(Sent) /\ Len(sent) = Len(inTransit) + 1
      /\ \A i \in 1 .. Len(inTransit) : sent[i] = inTransit[i]
      /\ sent[Len(inTransit) + 1] = packet
  BY <1>2, <1>3, AppendProperties
<1>5. PICK k \in 0 .. Len(sent) - 1 : inTransit' = SubSeq(sent, k + 1, Len(sent))
  BY <1>1 DEF SendAccepted, TrimInTransit
<1> HIDE DEF sent
<1>6. /\ Len(inTransit') = Len(inTransit) + 1 - k
      /\ \A i \in 1 .. Len(inTransit') : inTransit'[i] = sent[k + i]
  <2>1. k \in 0 .. Len(sent)
    BY <1>2, <1>4
  <2> QED
    BY <1>4, <1>5, <2>1, SuffixProperties
<1>7. UNCHANGED <<history, ilState, aborted>> /\ firstSend' = FALSE /\ lastSequence' = seq
  BY <1>1 DEF SendAccepted, historyVars
<1>8. lastSequence \in SeqNr
  BY DEF TypeOK
<1>9. \A i \in 1 .. Len(sent) : Minus(seq, sent[i].seq) = Len(sent) - i
  <2> SUFFICES ASSUME NEW i \in 1 .. Len(sent)
               PROVE Minus(seq, sent[i].seq) = Len(sent) - i
    OBVIOUS
  <2>1. CASE i = Len(sent)
    BY <1>2, <1>4, <2>1, MinusProperties
  <2>2. CASE i # Len(sent)
    <3>1. i \in 1 .. Len(inTransit) /\ sent[i] = inTransit[i]
      BY <1>2, <1>4, <2>2
    <3>2. seq = Succ(lastSequence)
      BY <1>1, <1>2, <3>1 DEF SendAccepted, NextSequence, NumberingInv, FirstSendInv
    <3>3. inTransit[i].seq \in SeqNr
      BY <3>1, ListElements
    <3>4. Minus(lastSequence, inTransit[i].seq) = Len(inTransit) - i
      BY <3>1 DEF NumberingInv, InTransitIsTail
    <3>5. HalfSpace(Minus(lastSequence, inTransit[i].seq) + 1)
      BY <1>1, <1>2, <3>1, <3>4, SeqModulusAssumption DEF RoomToSend, HalfSpace
    <3> QED
      BY <1>2, <1>4, <1>8, <3>1, <3>2, <3>3, <3>4, <3>5, MinusSucc
  <2> QED
    BY <2>1, <2>2
<1>10. InTransitIsTail'
  <2> SUFFICES ASSUME NEW i \in 1 .. Len(inTransit')
               PROVE Minus(seq, inTransit'[i].seq) = Len(inTransit') - i
    BY <1>7 DEF InTransitIsTail, Minus
  <2>1. k + i \in 1 .. Len(sent)
    BY <1>2, <1>4, <1>6
  <2>2. Minus(seq, sent[k + i].seq) = Len(sent) - (k + i)
    BY <1>9, <2>1
  <2> QED
    BY <1>2, <1>4, <1>6, <2>2
<1>11. HalfSpace(Len(inTransit'))
  BY <1>1, <1>2, <1>4, <1>6, SeqModulusAssumption DEF RoomToSend, HalfSpace
<1>12. TransitInv'
  <2> SUFFICES ASSUME NEW i \in 1 .. Len(history), NEW j \in 1 .. Len(inTransit'),
                      inTransit'[j].tx <= history[i].tx + MaxInterPacketTime
               PROVE Ahead(inTransit'[j].seq, history[i].seq)
    BY <1>7 DEF TransitInv, Ahead, Minus, HalfSpace
  <2>1. k + j \in 1 .. Len(sent)
    BY <1>2, <1>4, <1>6
  <2>2. inTransit'[j] = sent[k + j]
    BY <1>6
  <2>5. history[i].seq \in SeqNr
    BY ListElements
  <2>3. CASE k + j = Len(sent)
    <3>1. inTransit'[j] = packet
      BY <1>4, <2>2, <2>3
    <3>2. history # <<>>
      OBVIOUS
    <3>3. seq = Succ(lastSequence)
      BY <1>1, <3>2 DEF SendAccepted, NextSequence, NumberingInv, FirstSendInv
    <3>4. HalfSpace(Minus(lastSequence, history[i].seq) + 1)
      BY <1>1, <3>1 DEF RoomToSend
    <3>5. Minus(seq, history[i].seq) = Minus(lastSequence, history[i].seq) + 1
      BY <1>8, <2>5, <3>3, <3>4, MinusSucc
    <3>6. Minus(lastSequence, history[i].seq) \in Nat
      <4>1. Minus(lastSequence, history[i].seq) \in SeqNr
        BY <1>8, <2>5, MinusProperties
      <4> QED
        BY <4>1, SeqModulusAssumption DEF SeqNr
    <3> QED
      BY <3>1, <3>4, <3>5, <3>6 DEF Ahead
  <2>4. CASE k + j # Len(sent)
    <3>1. k + j \in 1 .. Len(inTransit)
      BY <1>2, <1>4, <2>1, <2>4
    <3>2. inTransit'[j] = inTransit[k + j]
      BY <1>4, <2>2, <3>1
    <3> QED
      BY <3>1, <3>2 DEF NumberingInv, TransitInv
  <2> QED
    BY <2>3, <2>4
<1>13. FirstSendInv' /\ LogInv' /\ ExpectedInv' /\ NoAbort'
  BY <1>7 DEF NumberingInv, FirstSendInv, LogInv, ExpectedInv, NoAbort, Ahead, Minus, HalfSpace
<1> QED
  BY <1>10, <1>11, <1>12, <1>13 DEF NumberingInv

\* Feedback that only drops entries from the list keeps the invariant.
LEMMA DropNumbering ==
  ASSUME TypeOK, NumberingInv, inTransit # <<>>, NEW n \in 0 .. Len(inTransit),
         inTransit' = SubSeq(inTransit, n + 1, Len(inTransit)),
         UNCHANGED <<sendVars, historyVars, aborted>>
  PROVE  NumberingInv'
<1>0. UNCHANGED <<firstSend, lastSequence, history, ilState, aborted>>
  BY DEF sendVars, historyVars
<1>1. /\ InTransitIsTail' /\ HalfSpace(Len(inTransit'))
      /\ Len(inTransit') = Len(inTransit) - n
      /\ \A i \in 1 .. Len(inTransit') : inTransit'[i] = inTransit[n + i]
  BY <1>0, RestNumbering
<1>2. Len(inTransit) \in Nat
  BY LenProperties DEF TypeOK
<1>3. TransitInv'
  <2> SUFFICES ASSUME NEW i \in 1 .. Len(history), NEW j \in 1 .. Len(inTransit'),
                      inTransit'[j].tx <= history[i].tx + MaxInterPacketTime
               PROVE Ahead(inTransit'[j].seq, history[i].seq)
    BY <1>0 DEF TransitInv, Ahead, Minus, HalfSpace
  <2>1. n + j \in 1 .. Len(inTransit) /\ inTransit'[j] = inTransit[n + j]
    BY <1>1, <1>2
  <2> QED
    BY <2>1 DEF NumberingInv, TransitInv
<1>4. FirstSendInv' /\ LogInv' /\ ExpectedInv' /\ NoAbort'
  BY <1>0 DEF NumberingInv, FirstSendInv, LogInv, ExpectedInv, NoAbort,
              Ahead, Minus, HalfSpace
<1> QED
  BY <1>1, <1>3, <1>4 DEF NumberingInv

\* The last entry of a non-empty list is the last number sent.
LEMMA BackIsLastHolds ==
  ASSUME TypeOK, NumberingInv, inTransit # <<>>
  PROVE  BackIsLast
<1>1. Len(inTransit) \in 1 .. Len(inTransit)
  BY LenProperties, EmptySeq DEF TypeOK
<1>2. Minus(lastSequence, inTransit[Len(inTransit)].seq) = 0
  BY <1>1, LenProperties DEF NumberingInv, InTransitIsTail, TypeOK
<1>3. inTransit[Len(inTransit)].seq \in SeqNr /\ lastSequence \in SeqNr
  BY <1>1, ListElements DEF TypeOK
<1> QED
  BY <1>2, <1>3, MinusProperties DEF BackIsLast, Last

\* Under the contract the entry taken for a number carries that number.
LEMMA TakenMatches ==
  ASSUME TypeOK, NumberingInv, NEW seq \in SeqNr, NEW n \in 0 .. Len(inTransit) - 1,
         2 * Minus(lastSequence, seq) # SeqModulus, ~FromFuture(seq), Taken(n, seq)
  PROVE  inTransit[n + 1].seq = seq
<1>1. Len(inTransit) \in Nat /\ n + 1 \in 1 .. Len(inTransit)
  BY LenProperties DEF TypeOK
<1>2. inTransit[n + 1].seq \in SeqNr /\ lastSequence \in SeqNr
  BY <1>1, ListElements DEF TypeOK
<1>3. HalfSpace(Minus(lastSequence, seq))
  BY <1>2, NotFutureIsBehind DEF FromFuture
<1>4. Minus(lastSequence, inTransit[n + 1].seq) = Len(inTransit) - (n + 1)
  BY <1>1 DEF NumberingInv, InTransitIsTail
<1>5. HalfSpace(Minus(lastSequence, inTransit[n + 1].seq))
  BY <1>1, <1>4, SeqModulusAssumption DEF NumberingInv, HalfSpace
<1>6. ~lessThan(inTransit[n + 1].seq, seq) /\ ~lessThan(seq, inTransit[n + 1].seq)
  BY DEF Taken, StalePrefix
<1> QED
  BY <1>2, <1>3, <1>5, <1>6, OrderedBehind

\* Under the contract a packet in transit is in order with the loss record.
LEMMA InLossOrderHolds ==
  ASSUME TypeOK, NumberingInv, NEW n \in 1 .. Len(inTransit)
  PROVE  InLossOrder(inTransit[n])
<1> DEFINE packet == inTransit[n]
<1>1. packet.seq \in SeqNr /\ packet.tx \in Int
  BY ListElements
<1>2. CASE Kept(packet) = <<>>
  <2>1. InterLossBefore(packet.seq, Kept(packet)) =
          [intervals |-> <<0>>, expectedSeq |-> packet.seq, initialized |-> FALSE]
    BY <1>2 DEF InterLossBefore, FreshInterLoss
  <2> QED
    BY <2>1 DEF InLossOrder, InterLossInOrder
<1>3. CASE Kept(packet) # <<>>
  <2>1. history # <<>> /\ ~Obsolete(packet) /\ InterLossBefore(packet.seq, Kept(packet)) = ilState
    BY <1>3 DEF Kept, InterLossBefore, Obsolete
  <2>2. Len(history) \in 1 .. Len(history)
    BY <2>1, LenProperties, EmptySeq DEF TypeOK
  <2>3. history[Len(history)].tx \in Int /\ history[Len(history)].seq \in SeqNr
    BY <2>2, ListElements
  <2>4. packet.tx <= history[Len(history)].tx + MaxInterPacketTime
    BY <1>1, <2>1, <2>3, TimesAssumption DEF Obsolete, Last
  <2>5. Ahead(packet.seq, history[Len(history)].seq)
    BY <2>2, <2>4 DEF NumberingInv, TransitInv
  <2>6. ilState.expectedSeq = Succ(history[Len(history)].seq)
    BY <2>1 DEF NumberingInv, ExpectedInv
  <2> QED
    BY <1>1, <2>1, <2>3, <2>5, <2>6, AheadOfSucc DEF InLossOrder, InterLossInOrder
<1> QED
  BY <1>2, <1>3

\* A place after the n-th.
LEMMA FurtherOn ==
  ASSUME NEW n \in Int, NEW j \in Int, 0 <= n, 1 <= j
  PROVE  n + j \in Int /\ n < n + j
OBVIOUS

\* Recording a packet of the list keeps the invariant: it was ahead of the
\* whole log, and the rest of the list is ahead of it.
LEMMA RecordNumbering ==
  ASSUME TypeOK, LogWithinWindow, NumberingInv,
         NEW n \in 1 .. Len(inTransit), NEW rx \in RxTimes,
         inTransit' = SubSeq(inTransit, n + 1, Len(inTransit)),
         ~GoesBack(inTransit[n]), Record(inTransit[n], rx),
         UNCHANGED <<sendVars, aborted>>
  PROVE  NumberingInv'
<1> DEFINE packet == inTransit[n]
           log == Kept(packet)
<1>0. UNCHANGED <<firstSend, lastSequence, aborted>>
  BY DEF sendVars
<1>1. /\ Len(inTransit) \in Nat /\ Len(log) \in Nat /\ n \in 0 .. Len(inTransit)
      /\ packet \in Sent
  BY LenProperties, ElementOfSeq DEF TypeOK, Kept
<1>2. packet.seq \in SeqNr /\ packet.tx \in Int /\ lastSequence \in SeqNr
  BY ListElements DEF TypeOK
<1>3. /\ InTransitIsTail' /\ HalfSpace(Len(inTransit'))
      /\ Len(inTransit') = Len(inTransit) - n
      /\ \A i \in 1 .. Len(inTransit') : inTransit'[i] = inTransit[n + i]
  BY <1>0, <1>1, RestNumbering
<1>4. PICK k \in 0 .. Len(log) :
           /\ Len(history') = Len(log) + 1 - k
           /\ \A i \in 1 .. Len(log) - k : history'[i] = log[k + i]
           /\ history'[Len(history')].seq = packet.seq
           /\ history'[Len(history')].tx = packet.tx
           /\ packet.tx < history'[1].tx + HistoryLength
  BY <1>1, RecordShape
<1>5. LogWithinWindow'
  BY <1>1, RecordWindow
<1>6. ASSUME NEW i \in 1 .. Len(history'), i # Len(history')
      PROVE  /\ log = history /\ k + i \in 1 .. Len(history)
             /\ history'[i] = history[k + i]
  <2>1. i \in 1 .. Len(log) - k /\ k + i \in 1 .. Len(log)
    BY <1>1, <1>4, <1>6
  <2>2. log = history
    BY <2>1 DEF Kept
  <2> QED
    BY <1>4, <2>1, <2>2
<1>7. history' \in Seq(Acked) /\ \A i \in 1 .. Len(history') : history'[i].tx \in Int
  <2>1. history' \in Seq(Acked)
    BY <1>1, InputsAssumption, RecordTyped
  <2>2. ASSUME NEW i \in 1 .. Len(history') PROVE history'[i] \in Acked
    BY <2>1, ElementOfSeq
  <2> QED
    BY <2>1, <2>2 DEF Acked
<1>8. \A i \in 1 .. Len(history') : packet.tx <= history'[i].tx + MaxInterPacketTime
  <2> SUFFICES ASSUME NEW i \in 1 .. Len(history')
               PROVE packet.tx <= history'[i].tx + MaxInterPacketTime
    OBVIOUS
  <2>1. 1 \in 1 .. Len(history')
    BY <1>1, <1>4
  <2>2. history'[1].tx <= history'[i].tx
    <3>1. CASE i = 1
      BY <1>7, <2>1, <3>1
    <3>2. CASE i # 1
      BY <1>5, <2>1, <3>2 DEF LogWithinWindow
    <3> QED
      BY <3>1, <3>2
  <2>3. HistoryLength \in Int /\ MaxInterPacketTime \in Int
        /\ HistoryLength <= MaxInterPacketTime
    BY TimesAssumption
  <2>4. history'[1].tx \in Int /\ history'[i].tx \in Int
    BY <1>7, <2>1
  <2>5. packet.tx < history'[1].tx + HistoryLength
    BY <1>4
  <2> HIDE DEF packet
  <2> QED
    BY <1>2, <2>2, <2>3, <2>4, <2>5
<1>9. LogInv'
  <2> SUFFICES ASSUME NEW i \in 1 .. Len(history'), NEW j \in 1 .. Len(history'), i < j
               PROVE Ahead(history'[j].seq, history'[i].seq)
    BY DEF LogInv, Ahead, Minus, HalfSpace
  <2>1. /\ log = history /\ k + i \in 1 .. Len(history) /\ history'[i] = history[k + i]
    <3>1. i # Len(history')
      BY <1>1, <1>4
    <3> QED
      BY <1>6, <3>1
  <2>2. CASE j = Len(history')
    <3>1. packet.tx <= history[k + i].tx + MaxInterPacketTime
      BY <1>8, <2>1
    <3> QED
      BY <1>4, <2>1, <2>2, <3>1 DEF NumberingInv, TransitInv
  <2>3. CASE j # Len(history')
    <3>1. k + j \in 1 .. Len(history) /\ history'[j] = history[k + j]
      BY <1>6, <2>3
    <3> QED
      BY <2>1, <3>1 DEF NumberingInv, LogInv
  <2> QED
    BY <2>2, <2>3
<1>10. TransitInv'
  <2> SUFFICES ASSUME NEW i \in 1 .. Len(history'), NEW j \in 1 .. Len(inTransit'),
                      inTransit'[j].tx <= history'[i].tx + MaxInterPacketTime
               PROVE Ahead(inTransit'[j].seq, history'[i].seq)
    BY DEF TransitInv, Ahead, Minus, HalfSpace
  <2>1. n + j \in 1 .. Len(inTransit)
    <3>1. Len(inTransit') = Len(inTransit) - n /\ Len(inTransit) \in Nat
          /\ n \in 0 .. Len(inTransit)
      BY <1>1, <1>3
    <3> HIDE DEF packet, log
    <3>2. n \in Int /\ 0 <= n /\ j \in Int /\ 1 <= j /\ j <= Len(inTransit) - n
      BY <3>1
    <3> QED
      BY <3>1, <3>2
  <2>4. inTransit'[j] = inTransit[n + j]
    BY <1>3
  <2>2. CASE i = Len(history')
    <3>1. /\ Minus(lastSequence, inTransit[n + j].seq) = Len(inTransit) - (n + j)
          /\ Minus(lastSequence, packet.seq) = Len(inTransit) - n
      BY <2>1 DEF NumberingInv, InTransitIsTail
    <3>2. /\ HalfSpace(Minus(lastSequence, inTransit[n + j].seq))
          /\ HalfSpace(Minus(lastSequence, packet.seq))
          /\ Minus(lastSequence, inTransit[n + j].seq) < Minus(lastSequence, packet.seq)
      <4>1. HalfSpace(Len(inTransit)) /\ Len(inTransit) \in Nat
        BY <1>1 DEF NumberingInv
      <4>2. n + j \in Int /\ n \in Int /\ 0 <= n /\ n < n + j
        <5>1. j \in Int /\ 1 <= j
          BY <1>1, <1>3
        <5>2. n \in Int /\ 0 <= n
          BY <1>1
        <5> HIDE DEF packet
        <5> QED
          BY <5>1, <5>2, FurtherOn
      <4>3. /\ HalfSpace(Len(inTransit) - (n + j)) /\ HalfSpace(Len(inTransit) - n)
            /\ Len(inTransit) - (n + j) < Len(inTransit) - n
        BY <4>1, <4>2, LaterIsCloser
      <4> QED
        BY <3>1, <4>3
    <3>3. inTransit[n + j].seq \in SeqNr
      BY <2>1, ListElements
    <3>4. Ahead(inTransit[n + j].seq, packet.seq)
      BY <1>2, <3>2, <3>3, CloserIsAhead
    <3> QED
      BY <1>4, <2>2, <2>4, <3>4
  <2>3. CASE i # Len(history')
    BY <1>6, <2>1, <2>3, <2>4 DEF NumberingInv, TransitInv
  <2> QED
    BY <2>2, <2>3
<1>11. ExpectedInv'
  <2>1. ilState' = InterLossAfter(packet.seq, InterLossBefore(packet.seq, log))
    BY DEF Record
  <2>2. InterLossBefore(packet.seq, log) \in InterLoss
    <3>1. CASE log = <<>>
      <4>1. InterLossBefore(packet.seq, log) =
              [intervals |-> <<0>>, expectedSeq |-> packet.seq, initialized |-> FALSE]
        BY <3>1 DEF InterLossBefore, FreshInterLoss
      <4> QED
        BY <1>2, <4>1 DEF InterLoss
    <3>2. CASE log # <<>>
      BY <3>2 DEF InterLossBefore, TypeOK, InterLoss
    <3> QED
      BY <3>1, <3>2
  <2>3. ilState'.expectedSeq = Succ(packet.seq)
    BY <1>2, <2>1, <2>2, ExpectedAfter
  <2> QED
    BY <1>4, <2>3 DEF ExpectedInv, Succ
<1>12. FirstSendInv' /\ NoAbort'
  <2>1. inTransit # <<>>
    BY <1>1
  <2> QED
    BY <1>0, <2>1 DEF NumberingInv, FirstSendInv, NoAbort
<1> QED
  BY <1>3, <1>9, <1>10, <1>11, <1>12 DEF NumberingInv

\* Every call of processFeedback under the contract keeps the invariant, and
\* none of its asserts fires.
LEMMA FeedbackNumbering ==
  ASSUME TypeOK, LogWithinWindow, NumberingInv,
         NEW seq \in SeqNr, NEW rx \in RxTimes, ContractFeedback(seq, rx)
  PROVE  NumberingInv'
<1>0. Feedback(seq, rx) /\ 2 * Minus(lastSequence, seq) # SeqModulus
  BY DEF ContractFeedback
<1>1. Len(inTransit) \in Nat
  BY LenProperties DEF TypeOK
<1>2. ASSUME UNCHANGED vars PROVE NumberingInv'
  <2>1. UNCHANGED <<firstSend, lastSequence, inTransit, history, ilState, aborted>>
    BY <1>2 DEF vars, sendVars, historyVars
  <2> QED
    BY <2>1 DEF NumberingInv, InTransitIsTail, HalfSpace, FirstSendInv, LogInv,
                TransitInv, ExpectedInv, NoAbort, Ahead, Minus
<1>3. CASE FeedbackFromFuture(seq) \/ FeedbackNothingInTransit(seq)
  BY <1>2, <1>3 DEF FeedbackFromFuture, FeedbackNothingInTransit
<1>4. CASE AbortBackNotLast(seq)
  BY <1>4, BackIsLastHolds DEF AbortBackNotLast
<1>5. CASE FeedbackOutOfOrder(seq)
  <2>1. PICK n \in 0 .. Len(inTransit) - 1 : inTransit' = Rest(n)
    BY <1>5 DEF FeedbackOutOfOrder
  <2>2. n \in 0 .. Len(inTransit)
    BY <1>1
  <2> QED
    BY <1>5, <2>1, <2>2, DropNumbering DEF FeedbackOutOfOrder, Searched, Rest
<1>6. CASE AbortHalfSpace(seq)
  BY <1>0, <1>6, TakenMatches DEF AbortHalfSpace, Searched
<1>7. CASE FeedbackDecreasing(seq)
  <2>1. PICK n \in 0 .. Len(inTransit) - 1 : inTransit' = Rest(n + 1)
    BY <1>7 DEF FeedbackDecreasing
  <2>2. n + 1 \in 0 .. Len(inTransit)
    BY <1>1
  <2> QED
    BY <1>7, <2>1, <2>2, DropNumbering DEF FeedbackDecreasing, Searched, Rest
<1>8. CASE AbortInterLoss(seq)
  <2>1. PICK n \in 0 .. Len(inTransit) - 1 : ~InLossOrder(inTransit[n + 1])
    BY <1>8 DEF AbortInterLoss
  <2>2. n + 1 \in 1 .. Len(inTransit)
    BY <1>1
  <2> QED
    BY <2>1, <2>2, InLossOrderHolds
<1>9. CASE FeedbackRecorded(seq, rx)
  <2>1. PICK n \in 0 .. Len(inTransit) - 1 :
          /\ ~GoesBack(inTransit[n + 1])
          /\ inTransit' = Rest(n + 1) /\ Record(inTransit[n + 1], rx)
    BY <1>9 DEF FeedbackRecorded
  <2>2. n + 1 \in 1 .. Len(inTransit)
    BY <1>1
  <2>3. UNCHANGED <<sendVars, aborted>>
    BY <1>9 DEF FeedbackRecorded
  <2> QED
    BY <2>1, <2>2, <2>3, RecordNumbering DEF Rest
<1> QED
  BY <1>0, <1>3, <1>4, <1>5, <1>6, <1>7, <1>8, <1>9
     DEF Feedback, FeedbackTrue, FeedbackFalse, FeedbackAborts

\* Every step of a caller that keeps to the contract keeps the invariant.
LEMMA ContractNumbering ==
  TypeOK /\ LogWithinWindow /\ NumberingInv /\ [ContractNext]_vars => NumberingInv'
<1> SUFFICES ASSUME TypeOK, LogWithinWindow, NumberingInv, [ContractNext]_vars
             PROVE NumberingInv'
  OBVIOUS
<1>1. CASE \E seq \in SeqNr, size \in Sizes : ContractSend(seq, size)
  BY <1>1, SendNumbering
<1>2. CASE \E seq \in SeqNr, rx \in RxTimes : ContractFeedback(seq, rx)
  BY <1>2, FeedbackNumbering
<1>3. CASE Reset
  <2>1. inTransit' = <<>> /\ history' = <<>> /\ aborted' = aborted
    BY <1>3 DEF Reset
  <2> QED
    BY <2>1, SeqModulusAssumption
       DEF NumberingInv, InTransitIsTail, HalfSpace, FirstSendInv, LogInv,
           TransitInv, ExpectedInv, NoAbort
<1>4. CASE Tick \/ UNCHANGED vars
  <2>1. UNCHANGED <<firstSend, lastSequence, inTransit, history, ilState, aborted>>
    BY <1>4 DEF Tick, Unchanged, vars, sendVars, historyVars
  <2> QED
    BY <2>1 DEF NumberingInv, InTransitIsTail, HalfSpace, FirstSendInv, LogInv,
                TransitInv, ExpectedInv, NoAbort, Ahead, Minus
<1> QED
  BY <1>1, <1>2, <1>3, <1>4 DEF ContractNext

\* The invariant implies that the lists are ordered by the comparison the
\* code uses.
LEMMA NumberingOrders == TypeOK /\ NumberingInv => NumbersInOrder
<1> SUFFICES ASSUME TypeOK, NumberingInv PROVE NumbersInOrder
  OBVIOUS
<1>1. ASSUME NEW i \in 1 .. Len(history), NEW j \in 1 .. Len(history), i < j
      PROVE lessThan(history[i].seq, history[j].seq)
  <2>1. Ahead(history[j].seq, history[i].seq)
    BY <1>1 DEF NumberingInv, LogInv
  <2>2. history[i].seq \in SeqNr /\ history[j].seq \in SeqNr
    BY ListElements
  <2> QED
    BY <2>1, <2>2, AheadIsGreater
<1>2. ASSUME NEW i \in 1 .. Len(history), NEW j \in 1 .. Len(inTransit),
             inTransit[j].tx <= history[i].tx + MaxInterPacketTime
      PROVE lessThan(history[i].seq, inTransit[j].seq)
  <2>1. Ahead(inTransit[j].seq, history[i].seq)
    BY <1>2 DEF NumberingInv, TransitInv
  <2>2. history[i].seq \in SeqNr /\ inTransit[j].seq \in SeqNr
    BY ListElements
  <2> QED
    BY <2>1, <2>2, AheadIsGreater
<1> QED
  BY <1>1, <1>2 DEF NumbersInOrder

\* A caller that keeps to the contract is a caller.
LEMMA ContractImplements == ContractSpec => Spec
  BY ContractIsNext, PTL DEF ContractSpec, Spec

\* The numbering invariant holds throughout.
THEOREM Numbering == ContractSpec => []NumberingInv
<1>1. ContractSpec => [](TypeOK /\ LogWithinWindow)
  BY ContractImplements, TypeCorrect, LogWindow, PTL
<1> QED
  BY <1>1, InitNumbering, ContractNumbering, PTL DEF ContractSpec

\* The in-transit list is always the run of numbers up to the last one sent.
THEOREM TailTheorem == ContractSpec => []InTransitIsTail
<1>1. NumberingInv => InTransitIsTail
  BY DEF NumberingInv
<1> QED
  BY <1>1, Numbering, PTL

\* No packet is counted twice, at any width of the numbers.
THEOREM OrderTheorem == ContractSpec => []NumbersInOrder
  BY Numbering, ContractTypeCorrect, NumberingOrders, PTL

\* A caller that keeps to the header's contract never meets an assert of the
\* class.
THEOREM AbortFreedom == ContractSpec => []NoAbort
<1>1. NumberingInv => NoAbort
  BY DEF NumberingInv
<1> QED
  BY <1>1, Numbering, PTL

-----------------------------------------------------------------------------
(* Any caller: the base delay and the growth of the log *)

\* A call of processFeedback that does not record a packet leaves the log and
\* the base delay alone.
LEMMA OnlyRecordingLogs ==
  ASSUME NEW seq, NEW rx, Feedback(seq, rx)
  PROVE  UNCHANGED <<history, baseDelay>> \/ FeedbackRecorded(seq, rx)
BY DEF Feedback, FeedbackTrue, FeedbackFalse, FeedbackAborts,
   FeedbackNothingInTransit, FeedbackOutOfOrder, FeedbackFromFuture,
   FeedbackDecreasing, AbortBackNotLast, AbortHalfSpace, AbortInterLoss,
   vars, historyVars

\* Every step either leaves log and base delay alone, records a packet, or
\* empties the log.
LEMMA LogCases ==
  ASSUME [Next]_vars
  PROVE  \/ UNCHANGED <<history, baseDelay>>
         \/ \E seq \in SeqNr, rx \in RxTimes : FeedbackRecorded(seq, rx)
         \/ history' = <<>>
<1>1. CASE \E seq \in SeqNr, rx \in RxTimes : Feedback(seq, rx)
  BY <1>1, OnlyRecordingLogs
<1>2. CASE ~\E seq \in SeqNr, rx \in RxTimes : Feedback(seq, rx)
  BY <1>2 DEF Next, vars, SendAccepted, SendRejected, Reset, Tick, ClockSetBack,
     Unchanged, historyVars
<1> QED
  BY <1>1, <1>2

\* A place of the new log other than its last, seen from the old log.
LEMMA EarlierPlace ==
  ASSUME NEW n \in Nat, NEW k \in 0 .. n, NEW i \in 1 .. n + 1 - k, i # n + 1 - k
  PROVE  i \in 1 .. n - k /\ k + i \in 1 .. n
OBVIOUS

LEMMA AtMostTrans ==
  ASSUME NEW a \in Int, NEW b \in Int, NEW c \in Int, a <= b, b <= c
  PROVE  a <= c
OBVIOUS

\* Recording a packet lowers the base delay to its delay if that is less, and
\* replaces it when the log starts anew.
LEMMA RecordBaseDelay ==
  ASSUME TypeOK, BaseDelayIsLeast, NEW packet \in Sent, NEW rx \in RxTimes,
         Record(packet, rx)
  PROVE  BaseDelayIsLeast'
<1> DEFINE log == Kept(packet)
<1>1. PICK k \in 0 .. Len(log) :
           /\ Len(history') = Len(log) + 1 - k
           /\ \A i \in 1 .. Len(log) - k : history'[i] = log[k + i]
           /\ history'[Len(history')].owd = rx - packet.tx
  BY RecordShape
<1>2. rx - packet.tx \in Int /\ baseDelay \in Int
  BY InputsAssumption DEF Sent, TypeOK
<1>3. Len(log) \in Nat
  BY LenProperties DEF Kept, TypeOK
<1>4. baseDelay' = IF log = <<>> \/ rx - packet.tx < baseDelay
                   THEN rx - packet.tx ELSE baseDelay
  BY DEF Record, BaseDelayAfter
<1>5. baseDelay' <= rx - packet.tx
  BY <1>2, <1>4
<1>6. ASSUME NEW i \in 1 .. Len(history'), i # Len(history')
      PROVE baseDelay' <= history'[i].owd
  <2>0. PICK n \in Nat : n = Len(log)
    BY <1>3
  <2>1. i \in 1 .. Len(log) - k /\ k + i \in 1 .. Len(log)
    <3>1. k \in 0 .. n /\ i \in 1 .. n + 1 - k /\ i # n + 1 - k
      BY <1>1, <1>6, <2>0
    <3>2. i \in 1 .. n - k /\ k + i \in 1 .. n
      BY <2>0, <3>1, EarlierPlace
    <3> QED
      BY <2>0, <3>2
  <2>2. history'[i] = log[k + i]
    BY <1>1, <2>1
  <2>3. log = history /\ log # <<>>
    BY <1>3, <2>1 DEF Kept
  <2>4. history[k + i] \in Acked
    BY <2>1, <2>3, ElementOfSeq DEF TypeOK
  <2>5. history[k + i].owd \in Int
    BY <2>4 DEF Acked
  <2>6. baseDelay <= history[k + i].owd
    BY <2>1, <2>3 DEF BaseDelayIsLeast
  <2>7. baseDelay' <= baseDelay
    BY <1>2, <1>4, <2>3
  <2>8. baseDelay' \in Int
    BY <1>2, <1>4
  <2>9. history'[i].owd = history[k + i].owd
    BY <2>2, <2>3
  <2> QED
    BY <2>5, <2>6, <2>7, <2>8, <2>9, <1>2, AtMostTrans
<1> QED
  BY <1>1, <1>5, <1>6 DEF BaseDelayIsLeast

\* No logged delay lies below the base delay, for any caller, any receive
\* times and any clock.
THEOREM BaseDelayTheorem == Spec => []BaseDelayIsLeast
<1>1. Init => BaseDelayIsLeast
  BY DEF Init, Fresh, BaseDelayIsLeast
<1>2. TypeOK /\ BaseDelayIsLeast /\ [Next]_vars => BaseDelayIsLeast'
  <2> SUFFICES ASSUME TypeOK, BaseDelayIsLeast, [Next]_vars PROVE BaseDelayIsLeast'
    OBVIOUS
  <2>1. CASE UNCHANGED <<history, baseDelay>> \/ history' = <<>>
    BY <2>1 DEF BaseDelayIsLeast
  <2>2. ASSUME NEW seq \in SeqNr, NEW rx \in RxTimes, FeedbackRecorded(seq, rx)
        PROVE BaseDelayIsLeast'
    <3>1. PICK n \in 0 .. Len(inTransit) - 1 : Record(inTransit[n + 1], rx)
      BY <2>2 DEF FeedbackRecorded
    <3>2. inTransit[n + 1] \in Sent
      BY RestTyped DEF TypeOK
    <3> QED
      BY <3>1, <3>2, RecordBaseDelay
  <2> QED
    BY <2>1, <2>2, LogCases
<1> QED
  BY <1>1, <1>2, TypeCorrect, PTL DEF Spec

\* A step that logs a packet takes it from the in-transit list, with the time
\* it was sent, and discards everything older there.
THEOREM LogGrowsTheorem == Spec => LogGrowsInOrder
<1> DEFINE Grows ==
      (history' # <<>> /\ history' # history) =>
         \E j \in 1 .. Len(inTransit) :
            /\ Last(history').seq = inTransit[j].seq
            /\ Last(history').tx = inTransit[j].tx
            /\ inTransit' = SubSeq(inTransit, j + 1, Len(inTransit))
<1>1. TypeOK /\ [Next]_vars => [Grows]_vars
  <2> SUFFICES ASSUME TypeOK, [Next]_vars PROVE Grows
    OBVIOUS
  <2>1. CASE UNCHANGED history \/ history' = <<>>
    BY <2>1
  <2>2. ASSUME NEW seq \in SeqNr, NEW rx \in RxTimes, FeedbackRecorded(seq, rx)
        PROVE Grows
    <3>1. PICK n \in 0 .. Len(inTransit) - 1 :
            inTransit' = Rest(n + 1) /\ Record(inTransit[n + 1], rx)
      BY <2>2 DEF FeedbackRecorded
    <3>2. inTransit[n + 1] \in Sent
      BY RestTyped DEF TypeOK
    <3>3. /\ history'[Len(history')].seq = inTransit[n + 1].seq
          /\ history'[Len(history')].tx = inTransit[n + 1].tx
      BY <3>1, <3>2, InputsAssumption, RecordShape
    <3>4. n + 1 \in 1 .. Len(inTransit)
      BY LenProperties DEF TypeOK
    <3> QED
      BY <3>1, <3>3, <3>4 DEF Last, Rest
  <2> QED
    BY <2>1, <2>2, LogCases
<1> QED
  BY <1>1, TypeCorrect, PTL DEF Spec, LogGrowsInOrder
-----------------------------------------------------------------------------
(* Induction over the naturals, for one set at a time *)

\* The theorems of the library that take a predicate as a parameter cannot be
\* used; that "less than" is well founded can, and gives a least element.
LessThan == {p \in Nat \X Nat : p[1] < p[2]}

LEMMA LeastNatural ==
  ASSUME NEW T, T \subseteq Nat, T # {}
  PROVE  \E x \in T : \A y \in T : x <= y
<1>1. IsWellFoundedOn(LessThan, Nat)
  <2>1. IsWellFoundedOn({p \in Nat \X Nat : p[1] < p[2]}, Nat)
    BY NatLessThanWellFounded DEF OpToRel
  <2> QED
    BY <2>1 DEF LessThan
<1>2. PICK x \in T : \A y \in T : ~(<<y, x>> \in LessThan)
  BY <1>1, WFMin
<1>3. ASSUME NEW y \in T PROVE x <= y
  <2>1. <<y, x>> \in Nat \X Nat /\ <<y, x>>[1] = y /\ <<y, x>>[2] = x
    OBVIOUS
  <2> QED
    BY <1>2, <2>1 DEF LessThan
<1> QED
  BY <1>3

\* A set of naturals with 0 that is closed under adding one has them all.
LEMMA InductiveSet ==
  ASSUME NEW T, T \subseteq Nat, 0 \in T, \A n \in T : n + 1 \in T
  PROVE  T = Nat
<1> DEFINE missing == Nat \ T
<1>1. SUFFICES ASSUME missing # {} PROVE FALSE
  OBVIOUS
<1>2. PICK x \in missing : \A y \in missing : x <= y
  BY <1>1, LeastNatural
<1>3. x - 1 \in T
  BY <1>2
<1> QED
  BY <1>3

\* A set of naturals with an upper bound has a greatest element.
LEMMA GreatestNatural ==
  ASSUME NEW T, T \subseteq Nat, T # {}, NEW m \in Nat, \A y \in T : y <= m
  PROVE  \E x \in T : \A y \in T : y <= x
<1> DEFINE U == {m - y : y \in T}
<1>0. U \subseteq Nat /\ U # {}
  <2>1. ASSUME NEW y \in T PROVE m - y \in Nat
    <3>1. y \in Nat /\ y <= m
      OBVIOUS
    <3> QED
      BY <3>1
  <2> QED
    BY <2>1
<1> HIDE DEF U
<1>1. PICK x \in U : \A y \in U : x <= y
  BY <1>0, LeastNatural
<1> USE DEF U
<1>2. PICK z \in T : x = m - z
  BY <1>1
<1>3. ASSUME NEW y \in T PROVE y <= z
  <2>1. y \in Nat /\ z \in Nat /\ m - y \in U
    OBVIOUS
  <2>2. m - z <= m - y
    BY <2>1, <1>1, <1>2
  <2> QED
    BY <2>1, <2>2
<1> QED
  BY <1>3

-----------------------------------------------------------------------------
(* The byte sum, for any caller *)

\* The equation of the fold in SizeOf: the greatest place comes last.
SizeStep(log, iter, s) ==
  IF s = {} THEN 0 ELSE iter[s \ {Max(s)}] + log[Max(s)].size
IsSizeFold(log, iter, n) ==
  iter = [s \in SUBSET (1 .. n) |-> SizeStep(log, iter, s)]
SizeFold(log) == CHOOSE iter : IsSizeFold(log, iter, Len(log))

LEMMA SizeOfIsFold ==
  ASSUME NEW log, DOMAIN log = 1 .. Len(log)
  PROVE  SizeOf(log) = SizeFold(log)[1 .. Len(log)]
BY DEF SizeOf, FoldLeft, MapThenFoldSet, SizeFold, IsSizeFold, SizeStep

\* The greatest place in a set of places.
LEMMA MaxPlace ==
  ASSUME NEW n \in Nat, NEW s \in SUBSET (1 .. n), s # {}
  PROVE  Max(s) \in s /\ \A i \in s : i <= Max(s)
<1>1. s \subseteq Nat /\ \A y \in s : y <= n
  OBVIOUS
<1>2. PICK x \in s : \A y \in s : y <= x
  BY <1>1, GreatestNatural
<1>3. \A y \in s : x >= y
  BY <1>1, <1>2
<1>4. Max(s) \in s /\ \A y \in s : Max(s) >= y
  BY <1>3 DEF Max
<1> QED
  BY <1>1, <1>4

LEMMA MaxWhole ==
  ASSUME NEW n \in Nat, NEW s \in SUBSET (1 .. n + 1), n + 1 \in s
  PROVE  Max(s) = n + 1
<1>1. Max(s) \in s /\ \A i \in s : i <= Max(s)
  BY MaxPlace
<1>2. Max(s) \in 1 .. n + 1 /\ n + 1 <= Max(s)
  BY <1>1
<1> QED
  BY <1>2

\* There is such a function on the sets of the first n places.
LEMMA FoldExtends ==
  ASSUME NEW log, NEW n \in Nat, NEW iter, IsSizeFold(log, iter, n)
  PROVE  \E longer : IsSizeFold(log, longer, n + 1)
<1> DEFINE longer == [s \in SUBSET (1 .. n + 1) |->
                        IF n + 1 \in s THEN iter[s \ {n + 1}] + log[n + 1].size
                        ELSE iter[s]]
<1>1. ASSUME NEW s \in SUBSET (1 .. n + 1)
      PROVE  longer[s] = SizeStep(log, longer, s)
  <2>1. CASE n + 1 \in s
    <3>1. s \ {n + 1} \in SUBSET (1 .. n) /\ s \ {n + 1} \in SUBSET (1 .. n + 1)
      OBVIOUS
    <3>2. longer[s \ {n + 1}] = iter[s \ {n + 1}]
      BY <3>1
    <3>3. longer[s] = iter[s \ {n + 1}] + log[n + 1].size
      BY <2>1
    <3>4. Max(s) = n + 1
      BY <2>1, MaxWhole
    <3> HIDE DEF longer
    <3> QED
      BY <2>1, <3>2, <3>3, <3>4 DEF SizeStep
  <2>2. CASE n + 1 \notin s
    <3>1. s \in SUBSET (1 .. n)
      BY <2>2
    <3>2. longer[s] = iter[s]
      BY <2>2
    <3>3. iter[s] = SizeStep(log, iter, s)
      BY <3>1 DEF IsSizeFold
    <3>4. CASE s = {}
      BY <3>2, <3>3, <3>4 DEF SizeStep
    <3>5. CASE s # {}
      <4>1. s \ {Max(s)} \in SUBSET (1 .. n + 1)
        OBVIOUS
      <4>2. longer[s \ {Max(s)}] = iter[s \ {Max(s)}]
        BY <2>2, <4>1
      <4> HIDE DEF longer
      <4> QED
        BY <3>2, <3>3, <3>5, <4>2 DEF SizeStep
    <3> QED
      BY <3>4, <3>5
  <2> QED
    BY <2>1, <2>2
<1>2. IsSizeFold(log, longer, n + 1)
  BY <1>1 DEF IsSizeFold
<1> QED
  BY <1>2

LEMMA FoldExists ==
  ASSUME NEW log, NEW n \in Nat
  PROVE  \E iter : IsSizeFold(log, iter, n)
<1> DEFINE T == {k \in Nat : \E iter : IsSizeFold(log, iter, k)}
<1>1. 0 \in T
  <2>1. \A s \in SUBSET (1 .. 0) : s = {}
    OBVIOUS
  <2>2. IsSizeFold(log, [s \in SUBSET (1 .. 0) |-> 0], 0)
    BY <2>1 DEF IsSizeFold, SizeStep
  <2> QED
    BY <2>2
<1>2. ASSUME NEW k \in T PROVE k + 1 \in T
  BY <1>2, FoldExtends
<1>3. T \subseteq Nat
  OBVIOUS
<1> HIDE DEF T
<1>4. n \in T
  BY <1>1, <1>2, <1>3, InductiveSet
<1> QED
  BY <1>4 DEF T

\* An interval of numbers without its last one is the shorter interval.
LEMMA WithoutLast ==
  ASSUME NEW n \in Nat, NEW k \in 1 .. n
  PROVE  (1 .. k) \ {k} = 1 .. k - 1 /\ 1 .. k # {} /\ 1 .. k \in SUBSET (1 .. n)
<1>1. k \in Nat /\ 1 <= k /\ k <= n /\ k - 1 \in Nat
  OBVIOUS
<1>2. ASSUME NEW i \in Int PROVE (i \in 1 .. k /\ i # k) <=> i \in 1 .. k - 1
  BY <1>1
<1>3. (1 .. k) \ {k} = 1 .. k - 1
  <2>1. 1 .. k \subseteq Int /\ 1 .. k - 1 \subseteq Int
    BY <1>1
  <2> QED
    BY <1>2, <2>1
<1>4. k \in 1 .. k
  BY <1>1
<1>5. 1 .. k \subseteq 1 .. n
  BY <1>1
<1> QED
  BY <1>3, <1>4, <1>5

\* The sizes of a log are the last of its running sums.
RunningSums(log, sum) ==
  /\ sum \in [0 .. Len(log) -> Nat] /\ sum[0] = 0
  /\ \A k \in 1 .. Len(log) : sum[k] = sum[k - 1] + log[k].size

LEMMA SizeOfIsLastSum ==
  ASSUME NEW log \in Seq(Acked)
  PROVE  \E sum : RunningSums(log, sum) /\ SizeOf(log) = sum[Len(log)]
<1> DEFINE fold == SizeFold(log)
           sum == [k \in 0 .. Len(log) |-> fold[1 .. k]]
<1>0. Len(log) \in Nat /\ DOMAIN log = 1 .. Len(log)
  BY LenProperties
<1>1. IsSizeFold(log, fold, Len(log))
  BY <1>0, FoldExists DEF SizeFold
<1>2. \A s \in SUBSET (1 .. Len(log)) : fold[s] = SizeStep(log, fold, s)
  BY <1>1 DEF IsSizeFold
<1>3. SizeOf(log) = fold[1 .. Len(log)]
  BY <1>0, SizeOfIsFold
<1> HIDE DEF fold
<1>4. sum[0] = 0
  <2>1. sum[0] = fold[1 .. 0] /\ 1 .. 0 = {}
    BY <1>0
  <2> QED
    BY <1>2, <2>1 DEF SizeStep
<1>5. ASSUME NEW k \in 1 .. Len(log) PROVE sum[k] = sum[k - 1] + log[k].size
  <2>1. k - 1 \in 0 .. Len(log) /\ k \in 0 .. Len(log) /\ k - 1 \in Nat
    BY <1>0
  <2>2. sum[k] = fold[1 .. k] /\ sum[k - 1] = fold[1 .. k - 1]
    BY <2>1
  <2>3. Max(1 .. k) = k
    <3>1. PICK j \in Nat : j = k - 1
      BY <2>1
    <3>2. 1 .. k \in SUBSET (1 .. j + 1) /\ j + 1 \in 1 .. k /\ j + 1 = k
      BY <3>1
    <3> QED
      BY <3>2, MaxWhole
  <2>4. (1 .. k) \ {k} = 1 .. k - 1 /\ 1 .. k # {} /\ 1 .. k \in SUBSET (1 .. Len(log))
    BY <1>0, WithoutLast
  <2>5. fold[1 .. k] = SizeStep(log, fold, 1 .. k)
    BY <1>2, <2>4
  <2> QED
    BY <2>2, <2>3, <2>4, <2>5 DEF SizeStep
<1>6. ASSUME NEW k \in 1 .. Len(log) PROVE log[k].size \in Nat
  <2>1. log[k] \in Acked
    BY ElementOfSeq
  <2> QED
    BY <2>1 DEF Acked
<1>7. sum \in [0 .. Len(log) -> Nat]
  <2> DEFINE T == {k \in Nat : k <= Len(log) => sum[k] \in Nat}
  <2>1. 0 \in T
    BY <1>4
  <2>2. ASSUME NEW k \in T PROVE k + 1 \in T
    <3> SUFFICES ASSUME k + 1 <= Len(log) PROVE sum[k + 1] \in Nat
      OBVIOUS
    <3>1. k \in Nat /\ k + 1 \in 1 .. Len(log) /\ k <= Len(log) /\ (k + 1) - 1 = k
      BY <1>0
    <3>2. sum[k + 1] = sum[k] + log[k + 1].size
      BY <1>5, <3>1
    <3>3. sum[k] \in Nat
      BY <3>1
    <3> HIDE DEF sum
    <3> QED
      BY <1>6, <3>1, <3>2, <3>3
  <2>3. T \subseteq Nat
    OBVIOUS
  <2> HIDE DEF T
  <2>4. T = Nat
    BY <2>1, <2>2, <2>3, InductiveSet
  <2>5. ASSUME NEW k \in 0 .. Len(log) PROVE fold[1 .. k] \in Nat
    <3>1. k \in T /\ k <= Len(log)
      BY <1>0, <2>4
    <3>2. sum[k] \in Nat
      BY <3>1 DEF T
    <3> QED
      BY <3>2
  <2> QED
    BY <2>5
<1>8. sum[Len(log)] = SizeOf(log)
  BY <1>0, <1>3
<1> QED
  BY <1>4, <1>5, <1>7, <1>8 DEF RunningSums

\* The running sums of a stretch of a log are those of the log from there on.
IsStretch(part, log, k, n, l) ==
  /\ n \in Nat /\ k \in Nat /\ l \in Nat /\ k + l <= n
  /\ Len(log) = n /\ Len(part) = l
  /\ \A i \in 1 .. n : log[i].size \in Nat
  /\ \A i \in 1 .. l : part[i] = log[k + i]

LEMMA SumsOfStretch ==
  ASSUME NEW log, NEW part, NEW sum, NEW sums,
         NEW n \in Nat, NEW k \in Nat, NEW l \in Nat,
         IsStretch(part, log, k, n, l),
         RunningSums(log, sum), RunningSums(part, sums)
  PROVE  sums[l] = sum[k + l] - sum[k]
<1> USE DEF IsStretch
<1> DEFINE T == {j \in Nat : j <= l => sums[j] = sum[k + j] - sum[k]}
<1>1. 0 \in T
  <2>1. sum[k] \in Nat /\ sums[0] = 0 /\ k + 0 = k
    BY DEF RunningSums
  <2> QED
    BY <2>1
<1>2. ASSUME NEW j \in T PROVE j + 1 \in T
  <2> SUFFICES ASSUME j + 1 <= l PROVE sums[j + 1] = sum[k + (j + 1)] - sum[k]
    OBVIOUS
  <2>1. /\ j \in Nat /\ j + 1 \in 1 .. l /\ j \in 0 .. l /\ j + 1 \in 0 .. l
        /\ k \in 0 .. n /\ k + j \in 0 .. n /\ (k + j) + 1 \in 1 .. n /\ (k + j) + 1 \in 0 .. n
        /\ k + (j + 1) = (k + j) + 1 /\ (j + 1) - 1 = j /\ ((k + j) + 1) - 1 = k + j
    OBVIOUS
  <2>2. sums[j] = sum[k + j] - sum[k]
    BY <2>1
  <2>3. sums[j + 1] = sums[j] + part[j + 1].size
    BY <2>1 DEF RunningSums
  <2>4. /\ sum[(k + j) + 1] = sum[k + j] + log[(k + j) + 1].size
        /\ log[(k + j) + 1].size \in Nat
    <3>1. PICK m \in 1 .. n : m = (k + j) + 1
      BY <2>1
    <3>2. sum[m] = sum[m - 1] + log[m].size /\ log[m].size \in Nat
      BY DEF RunningSums
    <3> QED
      BY <2>1, <3>1, <3>2
  <2>5. part[j + 1] = log[(k + j) + 1]
    BY <2>1
  <2>6. /\ sums[j] \in Int /\ sums[j + 1] \in Int /\ sum[k] \in Int
        /\ sum[k + j] \in Int /\ sum[(k + j) + 1] \in Int
    <3>1. /\ \A i \in 0 .. n : sum[i] \in Nat
          /\ \A i \in 0 .. l : sums[i] \in Nat
      BY DEF RunningSums
    <3>2. sums[j] \in Nat /\ sums[j + 1] \in Nat
      BY <2>1, <3>1
    <3>3. sum[k] \in Nat /\ sum[k + j] \in Nat /\ sum[(k + j) + 1] \in Nat
      BY <2>1, <3>1
    <3> QED
      BY <3>2, <3>3
  <2> QED
    BY <2>1, <2>2, <2>3, <2>4, <2>5, <2>6
<1>3. T \subseteq Nat
  OBVIOUS
<1> HIDE DEF T
<1>4. l \in T
  BY <1>1, <1>2, <1>3, InductiveSet
<1> QED
  BY <1>4 DEF T

\* The sizes of a log are those of its first k packets and those of the rest.
LEMMA SizeOfSplit ==
  ASSUME NEW log \in Seq(Acked), NEW k \in 0 .. Len(log)
  PROVE  /\ SizeOf(SubSeq(log, k + 1, Len(log))) = SizeOf(log) - SizeOf(SubSeq(log, 1, k))
         /\ SizeOf(log) \in Nat /\ SizeOf(SubSeq(log, 1, k)) \in Nat
<1> DEFINE rest == SubSeq(log, k + 1, Len(log))
           front == SubSeq(log, 1, k)
<1>0. Len(log) \in Nat /\ k \in Nat /\ k <= Len(log)
  BY LenProperties
<1>1. \A i \in 1 .. Len(log) : log[i] \in Acked
  BY ElementOfSeq
<1>2. /\ rest \in Seq(Acked) /\ Len(rest) = Len(log) - k
      /\ \A i \in 1 .. Len(log) - k : rest[i] = log[k + i]
  BY SuffixProperties
<1>3. /\ front \in Seq(Acked) /\ Len(front) = k
      /\ \A i \in 1 .. k : front[i] = log[i]
  BY <1>0, <1>1, SubSeqProperties
<1> HIDE DEF rest, front
<1>4. PICK sum : RunningSums(log, sum) /\ SizeOf(log) = sum[Len(log)]
  BY SizeOfIsLastSum
<1>5. PICK r : RunningSums(rest, r) /\ SizeOf(rest) = r[Len(rest)]
  BY <1>2, SizeOfIsLastSum
<1>6. PICK f : RunningSums(front, f) /\ SizeOf(front) = f[Len(front)]
  BY <1>3, SizeOfIsLastSum
<1>7. \A i \in 1 .. Len(log) : log[i].size \in Nat
  BY <1>1 DEF Acked
<1>8. PICK n \in Nat : n = Len(log)
  BY <1>0
<1>9. PICK l \in Nat : l = n - k
  <2>1. n \in Nat /\ k \in Nat /\ k <= n
    BY <1>0, <1>8
  <2>2. n - k \in Nat
    BY <2>1
  <2> QED
    BY <2>2
<1>10. r[l] = sum[n] - sum[k]
  <2>1. k + l <= n /\ Len(rest) = l /\ k + l = n
    BY <1>0, <1>2, <1>8, <1>9
  <2>2. \A i \in 1 .. l : rest[i] = log[k + i]
    BY <1>2, <1>8, <1>9
  <2>3. \A i \in 1 .. n : log[i].size \in Nat
    BY <1>7, <1>8
  <2>4. IsStretch(rest, log, k, n, l)
    BY <1>0, <1>8, <2>1, <2>2, <2>3 DEF IsStretch
  <2>5. RunningSums(log, sum) /\ RunningSums(rest, r)
    BY <1>4, <1>5
  <2>6. r[l] = sum[k + l] - sum[k]
    BY <1>0, <2>4, <2>5, SumsOfStretch
  <2> QED
    BY <2>1, <2>6
<1>11. f[k] = sum[k] - sum[0]
  <2>1. 0 + k <= n /\ Len(front) = k /\ 0 + k = k
    BY <1>0, <1>3, <1>8
  <2>2. \A i \in 1 .. k : front[i] = log[0 + i]
    BY <1>0, <1>3
  <2>3. \A i \in 1 .. n : log[i].size \in Nat
    BY <1>7, <1>8
  <2>4. IsStretch(front, log, 0, n, k)
    BY <1>0, <1>8, <2>1, <2>2, <2>3 DEF IsStretch
  <2>5. RunningSums(log, sum) /\ RunningSums(front, f)
    BY <1>4, <1>6
  <2>6. f[k] = sum[0 + k] - sum[0]
    BY <1>0, <2>4, <2>5, SumsOfStretch
  <2> QED
    BY <2>1, <2>6
<1>12. sum[0] = 0 /\ sum[k] \in Nat /\ sum[n] \in Nat
  BY <1>0, <1>4, <1>8 DEF RunningSums
<1>13. SizeOf(rest) = r[l] /\ SizeOf(front) = f[k] /\ SizeOf(log) = sum[n]
  BY <1>2, <1>3, <1>4, <1>5, <1>6, <1>8, <1>9
<1>14. SizeOf(rest) = SizeOf(log) - SizeOf(front) /\ SizeOf(log) \in Nat /\ SizeOf(front) \in Nat
  BY <1>10, <1>11, <1>12, <1>13
<1> QED
  BY <1>14 DEF rest, front

LEMMA SizeOfOne ==
  ASSUME NEW log \in Seq(Acked), Len(log) = 1
  PROVE  SizeOf(log) = log[1].size
<1>1. PICK sum : RunningSums(log, sum) /\ SizeOf(log) = sum[1]
  BY SizeOfIsLastSum
<1>2. sum[0] = 0 /\ 1 \in 1 .. 1 /\ 1 - 1 = 0
  BY <1>1 DEF RunningSums
<1>3. sum[1] = sum[1 - 1] + log[1].size
  BY <1>1, <1>2 DEF RunningSums
<1>4. log[1].size \in Nat
  <2>1. log[1] \in Acked
    BY ElementOfSeq
  <2> QED
    BY <2>1 DEF Acked
<1> QED
  BY <1>1, <1>2, <1>3, <1>4

LEMMA SizeOfEmpty == SizeOf(<<>>) = 0
<1>1. <<>> \in Seq(Acked) /\ Len(<<>>) = 0
  OBVIOUS
<1>2. PICK sum : RunningSums(<<>>, sum) /\ SizeOf(<<>>) = sum[0]
  BY <1>1, SizeOfIsLastSum
<1> QED
  BY <1>2 DEF RunningSums

LEMMA SizeOfAppend ==
  ASSUME NEW log \in Seq(Acked), NEW p \in Acked
  PROVE  SizeOf(Append(log, p)) = SizeOf(log) + p.size
<1> DEFINE longer == Append(log, p)
           n == Len(log)
<1>0. n \in Nat
  BY LenProperties
<1>1. /\ longer \in Seq(Acked) /\ Len(longer) = n + 1
      /\ \A i \in 1 .. n : longer[i] = log[i]
      /\ longer[n + 1] = p
  BY AppendProperties
<1> HIDE DEF longer
<1>2. n \in 0 .. Len(longer)
  BY <1>0, <1>1
<1>3. /\ SizeOf(SubSeq(longer, n + 1, n + 1)) = SizeOf(longer) - SizeOf(SubSeq(longer, 1, n))
      /\ SizeOf(longer) \in Nat /\ SizeOf(SubSeq(longer, 1, n)) \in Nat
  BY <1>1, <1>2, SizeOfSplit
<1>4. SubSeq(longer, 1, n) = log
  <2>1. \A i \in 1 .. n : longer[i] \in Acked
    BY <1>1, ElementOfSeq
  <2>2. /\ SubSeq(longer, 1, n) \in Seq(Acked) /\ Len(SubSeq(longer, 1, n)) = n
        /\ \A i \in 1 .. n : SubSeq(longer, 1, n)[i] = log[i]
    BY <1>0, <1>1, <2>1, SubSeqProperties
  <2> QED
    BY <2>2, SeqEqual
<1>5. SizeOf(SubSeq(longer, n + 1, n + 1)) = p.size
  <2>1. /\ SubSeq(longer, n + 1, n + 1) \in Seq(Acked)
        /\ Len(SubSeq(longer, n + 1, n + 1)) = 1
        /\ SubSeq(longer, n + 1, n + 1)[1] = p
    <3>1. /\ SubSeq(longer, n + 1, n + 1) \in Seq(Acked)
          /\ Len(SubSeq(longer, n + 1, n + 1)) = (n + 1) - n
          /\ \A i \in 1 .. (n + 1) - n : SubSeq(longer, n + 1, n + 1)[i] = longer[n + i]
      BY <1>1, <1>2, SuffixProperties
    <3>2. (n + 1) - n = 1 /\ 1 \in 1 .. 1
      BY <1>0
    <3> QED
      BY <1>1, <3>1, <3>2
  <2> QED
    BY <2>1, SizeOfOne
<1>6. p.size \in Nat
  BY DEF Acked
<1>7. SizeOf(longer) = SizeOf(log) + p.size
  <2>1. PICK a \in Nat : a = SizeOf(longer)
    BY <1>3
  <2>2. PICK b \in Nat : b = SizeOf(log)
    BY <1>3, <1>4
  <2>3. p.size = a - b
    BY <1>1, <1>3, <1>4, <1>5, <2>1, <2>2
  <2> QED
    BY <1>6, <2>1, <2>2, <2>3
<1> QED
  BY <1>7 DEF longer

\* Every step leaves the log and what is kept about it alone, records a
\* packet, or starts afresh.
LEMMA LogKept ==
  ASSUME [Next]_vars
  PROVE  \/ UNCHANGED historyVars
         \/ \E seq \in SeqNr, rx \in RxTimes : FeedbackRecorded(seq, rx)
         \/ Reset
<1>1. ASSUME NEW seq, NEW rx, Feedback(seq, rx)
      PROVE  UNCHANGED historyVars \/ FeedbackRecorded(seq, rx)
  BY <1>1 DEF Feedback, FeedbackTrue, FeedbackFalse, FeedbackAborts,
     FeedbackNothingInTransit, FeedbackOutOfOrder, FeedbackFromFuture,
     FeedbackDecreasing, AbortBackNotLast, AbortHalfSpace, AbortInterLoss, vars
<1>2. CASE \E seq \in SeqNr, rx \in RxTimes : Feedback(seq, rx)
  BY <1>1, <1>2
<1>3. CASE ~\E seq \in SeqNr, rx \in RxTimes : Feedback(seq, rx)
  BY <1>3 DEF Next, vars, SendAccepted, SendRejected, Tick, ClockSetBack, Unchanged
<1> QED
  BY <1>2, <1>3

\* Recording a packet keeps the byte sum exact, whether or not the log was
\* obsolete and whatever leaves it.
LEMMA RecordSum ==
  ASSUME TypeOK, SizeSumExact, NEW packet \in Sent, NEW rx \in RxTimes,
         Record(packet, rx)
  PROVE  SizeSumExact'
<1> DEFINE log == Kept(packet)
           acked == [seq |-> packet.seq, tx |-> packet.tx,
                     size |-> packet.size, owd |-> rx - packet.tx]
           longer == Append(log, acked)
<1>1. log \in Seq(Acked) /\ SizeBefore(packet) = SizeOf(log)
  <2>1. CASE Obsolete(packet)
    BY <2>1, SizeOfEmpty DEF Kept, SizeBefore
  <2>2. CASE ~Obsolete(packet)
    BY <2>2 DEF Kept, SizeBefore, TypeOK, SizeSumExact
  <2> QED
    BY <2>1, <2>2
<1>2. acked \in Acked /\ acked.size = packet.size
  BY InputsAssumption DEF Sent, Acked
<1>3. SizeOf(longer) = SizeBefore(packet) + packet.size /\ longer \in Seq(Acked)
  BY <1>1, <1>2, SizeOfAppend, AppendProperties
<1>4. PICK k \in 0 .. Len(longer) - 1 :
        /\ history' = SubSeq(longer, k + 1, Len(longer))
        /\ pktSizeSum' = (SizeBefore(packet) + packet.size) - SizeOf(SubSeq(longer, 1, k))
  BY DEF Record, TrimHistory
<1> HIDE DEF longer
<1>5. k \in 0 .. Len(longer)
  BY <1>3, LenProperties
<1> QED
  BY <1>3, <1>4, <1>5, SizeOfSplit DEF SizeSumExact

\* The running byte count is the sum of the sizes in the log, for any caller
\* and any clock, through aging, clearing and resets.
THEOREM SizeSumTheorem == Spec => []SizeSumExact
<1>1. Init => SizeSumExact
  BY SizeOfEmpty DEF Init, Fresh, SizeSumExact
<1>2. TypeOK /\ SizeSumExact /\ [Next]_vars => SizeSumExact'
  <2> SUFFICES ASSUME TypeOK, SizeSumExact, [Next]_vars PROVE SizeSumExact'
    OBVIOUS
  <2>1. CASE UNCHANGED historyVars
    BY <2>1 DEF historyVars, SizeSumExact
  <2>2. CASE Reset
    BY <2>2, SizeOfEmpty DEF Reset, SizeSumExact
  <2>3. ASSUME NEW seq \in SeqNr, NEW rx \in RxTimes, FeedbackRecorded(seq, rx)
        PROVE SizeSumExact'
    <3>1. PICK n \in 0 .. Len(inTransit) - 1 : Record(inTransit[n + 1], rx)
      BY <2>3 DEF FeedbackRecorded
    <3>2. inTransit[n + 1] \in Sent
      BY RestTyped DEF TypeOK
    <3> QED
      BY <3>1, <3>2, RecordSum
  <2> QED
    BY <2>1, <2>2, <2>3, LogKept
<1> QED
  BY <1>1, <1>2, TypeCorrect, PTL DEF Spec
-----------------------------------------------------------------------------
(* The loss intervals, for any caller *)

\* The places of a log after which a number is missing.
GapsOf(log) == {i \in 1 .. Len(log) - 1 : log[i + 1].seq # Succ(log[i].seq)}

\* What the intervals say of a log that is not empty.  The current interval
\* reaches back exactly to the last gap of the log, or past its beginning once
\* that gap has aged out of it.
Tells(il, log) ==
  /\ il.expectedSeq = Succ(log[Len(log)].seq)
  /\ il.intervals[1] >= 1
  /\ \A i \in GapsOf(log) : i <= Len(log) - il.intervals[1]
  /\ Len(log) - il.intervals[1] >= 1 => Len(log) - il.intervals[1] \in GapsOf(log)
  /\ \/ Len(il.intervals) > Cardinality(GapsOf(log))
     \/ Len(il.intervals) = MaxIntervals
  /\ il.initialized <=> Len(il.intervals) >= 2

IntervalsInv == history # <<>> => Tells(ilState, history)

LEMMA GapsFinite ==
  ASSUME NEW log \in Seq(Acked)
  PROVE  /\ IsFiniteSet(GapsOf(log)) /\ Cardinality(GapsOf(log)) \in Nat
         /\ GapsOf(log) \subseteq 1 .. Len(log) - 1
<1>1. Len(log) \in Nat
  BY LenProperties
<1>2. Len(log) - 1 \in Int
  BY <1>1
<1>3. IsFiniteSet(1 .. Len(log) - 1)
  BY <1>2, FS_Interval
<1>4. GapsOf(log) \subseteq 1 .. Len(log) - 1
  BY DEF GapsOf
<1>5. IsFiniteSet(GapsOf(log))
  BY <1>3, <1>4, FS_Subset
<1> QED
  BY <1>4, <1>5, FS_CardinalityType

LEMMA GapsOfAppend ==
  ASSUME NEW log \in Seq(Acked), log # <<>>, NEW p \in Acked
  PROVE  GapsOf(Append(log, p)) =
           IF p.seq = Succ(log[Len(log)].seq) THEN GapsOf(log)
           ELSE GapsOf(log) \cup {Len(log)}
<1> DEFINE longer == Append(log, p)
<1>1. /\ Len(longer) = Len(log) + 1 /\ longer[Len(log) + 1] = p
      /\ \A i \in 1 .. Len(log) : longer[i] = log[i]
  BY AppendProperties
<1>2. PICK n \in Nat : n = Len(log) /\ n >= 1
  BY LenProperties, EmptySeq
<1> HIDE DEF longer
<1>3. \A i \in 1 .. n - 1 : longer[i] = log[i] /\ longer[i + 1] = log[i + 1]
  BY <1>1, <1>2
<1>4. longer[n] = log[n] /\ longer[n + 1] = p /\ Len(longer) - 1 = n
  BY <1>1, <1>2
<1>5. ASSUME NEW i
      PROVE  i \in GapsOf(longer) <=>
               (i \in GapsOf(log) \/ (i = n /\ p.seq # Succ(log[n].seq)))
  <2>1. CASE i \in 1 .. n - 1
    <3>1. i \in 1 .. n /\ i # n
      BY <1>2, <2>1
    <3> QED
      BY <1>2, <1>3, <1>4, <2>1, <3>1 DEF GapsOf
  <2>2. CASE i = n
    <3>1. i \in 1 .. n /\ i \notin 1 .. n - 1
      BY <1>2, <2>2
    <3> QED
      BY <1>2, <1>4, <2>2, <3>1 DEF GapsOf
  <2>3. CASE i \notin 1 .. n
    <3>1. i \notin 1 .. n - 1 /\ i # n
      BY <1>2, <2>3
    <3> QED
      BY <1>2, <1>4, <2>3, <3>1 DEF GapsOf
  <2>4. i \in 1 .. n => (i \in 1 .. n - 1 \/ i = n)
    BY <1>2
  <2> QED
    BY <2>1, <2>2, <2>3, <2>4
<1>6. CASE p.seq = Succ(log[Len(log)].seq)
  BY <1>2, <1>5, <1>6 DEF longer
<1>7. CASE p.seq # Succ(log[Len(log)].seq)
  BY <1>2, <1>5, <1>7 DEF longer
<1> QED
  BY <1>6, <1>7

LEMMA GapsOfSuffix ==
  ASSUME NEW log \in Seq(Acked), NEW k \in 0 .. Len(log) - 1
  PROVE  LET rest == SubSeq(log, k + 1, Len(log))
         IN  /\ \A i \in GapsOf(rest) : k + i \in GapsOf(log)
             /\ \A j \in GapsOf(log) : j > k => j - k \in GapsOf(rest)
             /\ Cardinality(GapsOf(rest)) <= Cardinality(GapsOf(log))
<1> DEFINE rest == SubSeq(log, k + 1, Len(log))
<1>1. PICK n \in Nat : n = Len(log)
  BY LenProperties
<1>2. k \in 0 .. Len(log) /\ k \in Nat /\ k <= n - 1
  BY <1>1
<1>3. /\ rest \in Seq(Acked) /\ Len(rest) = n - k
      /\ \A i \in 1 .. n - k : rest[i] = log[k + i]
  BY <1>1, <1>2, SuffixProperties
<1> HIDE DEF rest
<1>4. ASSUME NEW i \in 1 .. (n - k) - 1
      PROVE  /\ rest[i] = log[k + i] /\ rest[i + 1] = log[(k + i) + 1]
             /\ k + i \in 1 .. n - 1
  <2>1. /\ i \in 1 .. n - k /\ i + 1 \in 1 .. n - k /\ k + (i + 1) = (k + i) + 1
        /\ k + i \in 1 .. n - 1
    BY <1>2
  <2>2. rest[i + 1] = log[k + (i + 1)]
    BY <1>3, <2>1
  <2> QED
    BY <1>3, <2>1, <2>2
<1>5. ASSUME NEW i \in GapsOf(rest) PROVE k + i \in GapsOf(log)
  <2>1. i \in 1 .. (n - k) - 1 /\ rest[i + 1].seq # Succ(rest[i].seq)
    BY <1>3, <1>5 DEF GapsOf
  <2> QED
    BY <1>1, <1>4, <2>1 DEF GapsOf
<1>6. ASSUME NEW j \in GapsOf(log), j > k PROVE j - k \in GapsOf(rest)
  <2>1. j \in 1 .. n - 1 /\ log[j + 1].seq # Succ(log[j].seq)
    BY <1>1, <1>6 DEF GapsOf
  <2>2. PICK i \in 1 .. (n - k) - 1 : i = j - k /\ k + i = j
    <3>1. j - k \in 1 .. (n - k) - 1 /\ k + (j - k) = j
      BY <1>2, <1>6, <2>1
    <3> QED
      BY <3>1
  <2>3. rest[i + 1].seq # Succ(rest[i].seq)
    BY <1>4, <2>1, <2>2
  <2>4. i \in GapsOf(rest)
    BY <1>3, <2>3 DEF GapsOf
  <2> QED
    BY <2>2, <2>4
<1>7. Cardinality(GapsOf(rest)) <= Cardinality(GapsOf(log))
  <2> DEFINE f == [i \in GapsOf(rest) |-> k + i]
  <2>1. f \in [GapsOf(rest) -> GapsOf(log)]
    BY <1>5
  <2>2. ASSUME NEW a \in GapsOf(rest), NEW b \in GapsOf(rest), f[a] = f[b] PROVE a = b
    <3>1. a \in Int /\ b \in Int /\ k + a = k + b
      BY <1>1, <1>2, <1>3, <2>2 DEF GapsOf
    <3> QED
      BY <1>2, <3>1
  <2> HIDE DEF f
  <2>3. f \in Injection(GapsOf(rest), GapsOf(log))
    BY <2>1, <2>2 DEF Injection, IsInjective
  <2>4. IsFiniteSet(GapsOf(log))
    BY GapsFinite
  <2> QED
    BY <2>3, <2>4, FS_Injection
<1> QED
  BY <1>5, <1>6, <1>7 DEF rest

\* Packets leaving the front of the log take their gaps with them.
LEMMA TellsSuffix ==
  ASSUME NEW log \in Seq(Acked), NEW k \in 0 .. Len(log) - 1, NEW il \in InterLoss,
         Len(il.intervals) \in 1 .. MaxIntervals, Tells(il, log)
  PROVE  Tells(il, SubSeq(log, k + 1, Len(log)))
<1> DEFINE rest == SubSeq(log, k + 1, Len(log))
<1>1. PICK n \in Nat : n = Len(log)
  BY LenProperties
<1>2. k \in 0 .. Len(log) /\ k \in Nat /\ k <= n - 1
  BY <1>1
<1>3. /\ rest \in Seq(Acked) /\ Len(rest) = n - k
      /\ \A i \in 1 .. n - k : rest[i] = log[k + i]
  BY <1>1, <1>2, SuffixProperties
<1>4. /\ \A i \in GapsOf(rest) : k + i \in GapsOf(log)
      /\ \A j \in GapsOf(log) : j > k => j - k \in GapsOf(rest)
      /\ Cardinality(GapsOf(rest)) <= Cardinality(GapsOf(log))
  BY GapsOfSuffix
<1>5. PICK v \in Nat : v = il.intervals[1]
  BY LenProperties, ElementOfSeq DEF InterLoss
<1>6. PICK c \in Nat : c = Cardinality(GapsOf(log))
  BY GapsFinite
<1>7. PICK d \in Nat : d = Cardinality(GapsOf(rest))
  BY <1>3, GapsFinite
<1>8. PICK l \in Nat : l = Len(il.intervals)
  BY LenProperties DEF InterLoss
<1> HIDE DEF rest
<1>9. rest[n - k] = log[n]
  <2>1. n - k \in 1 .. n - k /\ k + (n - k) = n
    BY <1>2
  <2> QED
    BY <1>3, <2>1
<1>10. ASSUME NEW i \in GapsOf(rest) PROVE i <= (n - k) - v
  <2>1. i \in Int /\ k + i <= n - v
    BY <1>1, <1>3, <1>4, <1>5, <1>10 DEF Tells, GapsOf
  <2> QED
    BY <1>2, <2>1
<1>11. ASSUME (n - k) - v >= 1 PROVE (n - k) - v \in GapsOf(rest)
  <2>1. n - v >= 1 /\ n - v > k /\ (n - v) - k = (n - k) - v
    BY <1>2, <1>11
  <2>2. n - v \in GapsOf(log)
    BY <1>1, <1>5, <2>1 DEF Tells
  <2> QED
    BY <1>4, <2>1, <2>2
<1>12. l > d \/ l = MaxIntervals
  <2>1. l > c \/ l = MaxIntervals
    BY <1>6, <1>8 DEF Tells
  <2>2. d <= c
    BY <1>4, <1>6, <1>7
  <2> QED
    BY <2>1, <2>2
<1>13. Tells(il, rest)
  BY <1>1, <1>3, <1>5, <1>7, <1>8, <1>9, <1>10, <1>11, <1>12 DEF Tells
<1> QED
  BY <1>13 DEF rest

\* updateInterLossData keeps the story when a packet joins the log.
LEMMA TellsAppend ==
  ASSUME NEW log \in Seq(Acked), log # <<>>, NEW p \in Acked, NEW il \in InterLoss,
         Len(il.intervals) \in 1 .. MaxIntervals, Tells(il, log)
  PROVE  Tells(InterLossAfter(p.seq, il), Append(log, p))
<1> DEFINE longer == Append(log, p)
           after == InterLossAfter(p.seq, il)
<1>1. PICK n \in Nat : n = Len(log) /\ n >= 1
  BY LenProperties, EmptySeq
<1>2. longer \in Seq(Acked) /\ Len(longer) = n + 1 /\ longer[n + 1] = p
  BY <1>1, AppendProperties
<1>3. PICK v \in Nat : v = il.intervals[1]
  BY LenProperties, ElementOfSeq DEF InterLoss
<1>4. PICK l \in 1 .. MaxIntervals : l = Len(il.intervals)
  OBVIOUS
<1>5. PICK c \in Nat : c = Cardinality(GapsOf(log))
  BY GapsFinite
<1>6. p.seq \in SeqNr
  BY DEF Acked
<1>7. after.expectedSeq = Succ(longer[Len(longer)].seq)
  <2>1. longer[Len(longer)] = p
    BY <1>2
  <2> HIDE DEF longer
  <2> QED
    BY <1>6, <2>1, ExpectedAfter
<1>8. il.expectedSeq = Succ(log[n].seq)
  BY <1>1 DEF Tells
<1>9. CASE p.seq = il.expectedSeq
  <2>1. after = [intervals |-> [il.intervals EXCEPT ![1] = il.intervals[1] + 1],
                 expectedSeq |-> Succ(p.seq), initialized |-> il.initialized]
    BY <1>9 DEF InterLossAfter, InterLoss
  <2>2. /\ [il.intervals EXCEPT ![1] = il.intervals[1] + 1] \in Seq(Nat)
        /\ Len([il.intervals EXCEPT ![1] = il.intervals[1] + 1]) = l
        /\ [il.intervals EXCEPT ![1] = il.intervals[1] + 1][1] = v + 1
    BY <1>3, <1>4, IntervalsAssumption, ExceptSeq DEF InterLoss
  <2>3. /\ Len(after.intervals) = l /\ after.intervals[1] = v + 1
        /\ after.initialized = il.initialized
    BY <2>1, <2>2
  <2>4. GapsOf(longer) = GapsOf(log)
    BY <1>1, <1>8, <1>9, GapsOfAppend
  <2>5. Len(longer) - after.intervals[1] = n - v
    BY <1>1, <1>2, <2>3
  <2>6. after.intervals[1] >= 1
    BY <2>3
  <2>7. /\ \A i \in GapsOf(log) : i <= n - v
        /\ n - v >= 1 => n - v \in GapsOf(log)
        /\ l > c \/ l = MaxIntervals
        /\ il.initialized <=> l >= 2
    BY <1>1, <1>3, <1>4, <1>5 DEF Tells
  <2> HIDE DEF after, longer
  <2>8. /\ \A i \in GapsOf(longer) : i <= Len(longer) - after.intervals[1]
        /\ Len(longer) - after.intervals[1] >= 1
             => Len(longer) - after.intervals[1] \in GapsOf(longer)
    BY <2>4, <2>5, <2>7
  <2>9. /\ \/ Len(after.intervals) > Cardinality(GapsOf(longer))
           \/ Len(after.intervals) = MaxIntervals
        /\ after.initialized <=> Len(after.intervals) >= 2
    BY <1>5, <2>3, <2>4, <2>7
  <2>10. Tells(after, longer)
    BY <1>7, <2>6, <2>8, <2>9 DEF Tells
  <2> QED
    BY <2>10 DEF after, longer
<1>10. CASE p.seq # il.expectedSeq
  <2> DEFINE kept == IF Len(il.intervals) < MaxIntervals THEN il.intervals
                     ELSE SubSeq(il.intervals, 1, MaxIntervals - 1)
  <2>1. after = [intervals |-> <<1>> \o kept,
                 expectedSeq |-> Succ(p.seq), initialized |-> TRUE]
    BY <1>10 DEF InterLossAfter
  <2>2. kept \in Seq(Nat) /\ Len(kept) = IF l < MaxIntervals THEN l ELSE MaxIntervals - 1
    <3>1. CASE l < MaxIntervals
      BY <1>4, <3>1 DEF InterLoss
    <3>2. CASE ~(l < MaxIntervals)
      <4>1. l = MaxIntervals
        BY <1>4, <3>2, IntervalsAssumption
      <4>2. il.intervals \in Seq(Nat) /\ Len(il.intervals) = MaxIntervals
        BY <1>4, <4>1 DEF InterLoss
      <4>3. \A i \in 1 .. MaxIntervals - 1 : il.intervals[i] \in Nat
        <5>1. \A i \in 1 .. Len(il.intervals) : il.intervals[i] \in Nat
          BY <4>2, ElementOfSeq
        <5> QED
          BY <4>2, <5>1, IntervalsAssumption
      <4> QED
        BY <1>4, <3>2, <4>2, <4>3, IntervalsAssumption, SubSeqProperties
    <3> QED
      BY <3>1, <3>2
  <2> HIDE DEF kept
  <2>3. /\ Len(<<1>> \o kept) = 1 + Len(kept) /\ (<<1>> \o kept)[1] = 1
    <3>1. <<1>> \in Seq(Nat) /\ Len(<<1>>) = 1 /\ <<1>>[1] = 1
      OBVIOUS
    <3>2. Len(<<1>> \o kept) = Len(<<1>>) + Len(kept)
      BY <2>2, <3>1, ConcatProperties
    <3>3. (<<1>> \o kept)[1] = <<1>>[1]
      BY <2>2, <3>1, ConcatProperties, LenProperties
    <3> QED
      BY <3>1, <3>2, <3>3
  <2>4. PICK q \in Nat : q = Len(kept)
    BY <2>2, LenProperties
  <2>5. /\ Len(after.intervals) = 1 + q /\ after.intervals[1] = 1
        /\ after.initialized = TRUE
    BY <2>1, <2>3, <2>4
  <2>6. GapsOf(longer) = GapsOf(log) \cup {n}
    BY <1>1, <1>8, <1>10, GapsOfAppend
  <2>7. n \notin GapsOf(log) /\ \A i \in GapsOf(log) : i <= n
    BY <1>1 DEF GapsOf
  <2>8. Cardinality(GapsOf(log) \cup {n}) = c + 1
    BY <1>5, <2>7, GapsFinite, FS_AddElement
  <2>9. Len(longer) - after.intervals[1] = n
    BY <1>1, <1>2, <2>5
  <2>10. l > c \/ l = MaxIntervals
    BY <1>4, <1>5 DEF Tells
  <2>11. 1 + q > c + 1 \/ 1 + q = MaxIntervals
    BY <2>2, <2>4, <2>10, IntervalsAssumption
  <2>12. 1 + q >= 2
    BY <2>2, <2>4, IntervalsAssumption
  <2> HIDE DEF after, longer
  <2>13. /\ \A i \in GapsOf(longer) : i <= Len(longer) - after.intervals[1]
         /\ Len(longer) - after.intervals[1] >= 1
              => Len(longer) - after.intervals[1] \in GapsOf(longer)
    BY <2>6, <2>7, <2>9
  <2>14. /\ \/ Len(after.intervals) > Cardinality(GapsOf(longer))
            \/ Len(after.intervals) = MaxIntervals
         /\ after.initialized <=> Len(after.intervals) >= 2
    BY <2>5, <2>6, <2>8, <2>11, <2>12
  <2>15. Tells(after, longer)
    BY <1>7, <2>5, <2>13, <2>14 DEF Tells
  <2> QED
    BY <2>15 DEF after, longer
<1> QED
  BY <1>9, <1>10

\* The first packet of a log starts the first interval.
LEMMA TellsFirst ==
  ASSUME NEW p \in Acked
  PROVE  Tells(InterLossAfter(p.seq, [FreshInterLoss EXCEPT !.expectedSeq = p.seq]),
               Append(<<>>, p))
<1> DEFINE longer == Append(<<>>, p)
           fresh == [FreshInterLoss EXCEPT !.expectedSeq = p.seq]
           after == InterLossAfter(p.seq, fresh)
<1>1. Len(longer) = 1 /\ longer[1] = p
  OBVIOUS
<1>2. /\ fresh \in InterLoss /\ fresh.intervals = <<0>> /\ fresh.expectedSeq = p.seq
      /\ fresh.initialized = FALSE
  <2>1. fresh = [intervals |-> <<0>>, expectedSeq |-> p.seq, initialized |-> FALSE]
    <3>1. PICK seq \in SeqNr : seq = p.seq
      BY DEF Acked
    <3>2. fresh = InterLossBefore(seq, <<>>)
      BY <3>1 DEF InterLossBefore
    <3>3. InterLossBefore(seq, <<>>) =
            [intervals |-> <<0>>, expectedSeq |-> seq, initialized |-> FALSE]
      BY DEF InterLossBefore, FreshInterLoss
    <3> QED
      BY <3>1, <3>2, <3>3
  <2>2. [intervals |-> <<0>>, expectedSeq |-> p.seq, initialized |-> FALSE] \in InterLoss
    <3>1. <<0>> \in Seq(Nat)
      OBVIOUS
    <3>2. p.seq \in SeqNr
      BY DEF Acked
    <3> QED
      BY <3>1, <3>2 DEF InterLoss
  <2> HIDE DEF fresh
  <2>3. fresh.intervals = <<0>>
    BY <2>1
  <2>4. fresh.expectedSeq = p.seq /\ fresh.initialized = FALSE
    BY <2>1
  <2>5. fresh \in InterLoss
    BY <2>1, <2>2
  <2> QED
    BY <2>3, <2>4, <2>5
<1> HIDE DEF fresh
<1>3. after.intervals[1] = 1 /\ Len(after.intervals) = 1 /\ after.initialized = FALSE
      /\ after.expectedSeq = Succ(p.seq)
  <2>1. after = [intervals |-> [fresh.intervals EXCEPT ![1] = fresh.intervals[1] + 1],
                 expectedSeq |-> Succ(p.seq), initialized |-> fresh.initialized]
    BY <1>2 DEF InterLossAfter, InterLoss
  <2>2. /\ fresh.intervals \in Seq(Nat) /\ Len(fresh.intervals) = 1
        /\ fresh.intervals[1] = 0
    BY <1>2
  <2>3. /\ Len([fresh.intervals EXCEPT ![1] = fresh.intervals[1] + 1]) = 1
        /\ [fresh.intervals EXCEPT ![1] = fresh.intervals[1] + 1][1] = 1
    BY <2>2, ExceptSeq
  <2> QED
    BY <1>2, <2>1, <2>3
<1>4. GapsOf(longer) = {}
  BY <1>1 DEF GapsOf
<1> HIDE DEF longer, after
<1>5. Tells(after, longer)
  BY <1>1, <1>3, <1>4, FS_EmptySet DEF Tells
<1> QED
  BY <1>5 DEF longer, after, fresh

\* The run that the property is about, in terms of the gaps.
LEMMA RunOfGaps ==
  ASSUME TypeOK, history # <<>>
  PROVE  /\ TrailingRun \in 1 .. Len(history)
         /\ TrailingRun < Len(history) => Len(history) - TrailingRun \in Gaps
         /\ \A i \in Gaps : i <= Len(history) - TrailingRun
<1>1. PICK n \in Nat : n = Len(history) /\ n >= 1
  BY LenProperties, EmptySeq DEF TypeOK
<1> DEFINE Run(r) ==
      /\ \A i \in n - r + 1 .. n - 1 : history[i + 1].seq = Succ(history[i].seq)
      /\ r < n => history[n - r + 1].seq # Succ(history[n - r].seq)
<1>2. ASSUME NEW r \in 1 .. n, \A i \in Gaps : i <= n - r, r < n => n - r \in Gaps
      PROVE  Run(r)
  <2>1. ASSUME NEW i \in n - r + 1 .. n - 1
        PROVE history[i + 1].seq = Succ(history[i].seq)
    <3>1. i \in 1 .. n - 1 /\ ~(i <= n - r)
      BY <1>1
    <3> QED
      BY <1>1, <1>2, <3>1 DEF Gaps
  <2>2. r < n => history[n - r + 1].seq # Succ(history[n - r].seq)
    BY <1>2 DEF Gaps
  <2> QED
    BY <2>1, <2>2
<1>3. \E r \in 1 .. n : Run(r)
  <2>1. Gaps \subseteq Nat /\ \A i \in Gaps : i <= n - 1
    BY <1>1 DEF Gaps
  <2>2. CASE Gaps = {}
    <3>1. n \in 1 .. n /\ ~(n < n)
      BY <1>1
    <3> QED
      BY <1>2, <2>2, <3>1
  <2>3. CASE Gaps # {}
    <3>1. n - 1 \in Nat
      BY <1>1
    <3>2. PICK g \in Gaps : \A i \in Gaps : i <= g
      BY <2>1, <2>3, <3>1, GreatestNatural
    <3>3. g \in 1 .. n - 1
      BY <1>1 DEF Gaps
    <3>4. n - g \in 1 .. n /\ n - (n - g) = g
      BY <1>1, <3>3
    <3> HIDE DEF Run
    <3> QED
      BY <1>2, <3>2, <3>4
  <2> QED
    BY <2>2, <2>3
<1>4. TrailingRun = CHOOSE r \in 1 .. n : Run(r)
  BY <1>1 DEF TrailingRun
<1>5. TrailingRun \in 1 .. n /\ Run(TrailingRun)
  BY <1>3, <1>4
<1>6. ASSUME TrailingRun < n PROVE n - TrailingRun \in Gaps
  <2>1. n - TrailingRun \in 1 .. n - 1
    BY <1>1, <1>5, <1>6
  <2> QED
    BY <1>1, <1>5, <1>6, <2>1 DEF Gaps
<1>7. ASSUME NEW i \in Gaps PROVE i <= n - TrailingRun
  <2>1. i \in 1 .. n - 1 /\ history[i + 1].seq # Succ(history[i].seq)
    BY <1>1 DEF Gaps
  <2>2. i \notin n - TrailingRun + 1 .. n - 1
    BY <1>5, <2>1
  <2> QED
    BY <1>1, <1>5, <2>1, <2>2
<1> QED
  BY <1>1, <1>5, <1>6, <1>7

\* What the intervals tell is what the property asks of them.
LEMMA TellsMatches == TypeOK /\ IntervalsInv => IntervalsMatchLog
<1> SUFFICES ASSUME TypeOK, IntervalsInv, history # <<>>
             PROVE  /\ ilState.expectedSeq = Succ(Last(history).seq)
                    /\ IF Gaps = {} THEN ilState.intervals[1] >= TrailingRun
                                    ELSE ilState.intervals[1] = TrailingRun
                    /\ Len(ilState.intervals) > Cardinality(Gaps)
                         \/ Len(ilState.intervals) = MaxIntervals
                    /\ ilState.initialized <=> Len(ilState.intervals) >= 2
  BY DEF IntervalsMatchLog
<1>1. PICK n \in Nat : n = Len(history) /\ n >= 1
  BY LenProperties, EmptySeq DEF TypeOK
<1>2. PICK v \in Nat : v = ilState.intervals[1]
  BY LenProperties, ElementOfSeq DEF TypeOK
<1>3. Tells(ilState, history) /\ GapsOf(history) = Gaps
  BY DEF IntervalsInv, GapsOf, Gaps
<1>4. PICK r \in 1 .. n : r = TrailingRun
  BY <1>1, RunOfGaps
<1>5. (r < n => n - r \in Gaps) /\ \A i \in Gaps : i <= n - r
  BY <1>1, <1>4, RunOfGaps
<1>6. (n - v >= 1 => n - v \in Gaps) /\ \A i \in Gaps : i <= n - v
  BY <1>1, <1>2, <1>3 DEF Tells
<1>7. \A i \in Gaps : i \in 1 .. n - 1
  BY <1>1 DEF Gaps
<1>8. CASE Gaps = {}
  <2>1. v >= r
    BY <1>1, <1>6, <1>8
  <2> QED
    BY <1>2, <1>3, <1>4, <1>8, <2>1 DEF Tells, Last
<1>9. CASE Gaps # {}
  <2>1. PICK g \in Gaps : g \in 1 .. n - 1
    BY <1>7, <1>9
  <2>2. g <= n - v /\ g <= n - r
    BY <1>5, <1>6
  <2>3. n - v >= 1 /\ r < n
    BY <1>1, <2>1, <2>2
  <2>4. n - v <= n - r /\ n - r <= n - v
    BY <1>5, <1>6, <2>3
  <2>5. v = r
    BY <1>1, <2>4
  <2> QED
    BY <1>2, <1>3, <1>4, <1>9, <2>5 DEF Tells, Last
<1> QED
  BY <1>8, <1>9

\* Recording a packet keeps the story, whether or not the log was obsolete.
LEMMA RecordIntervals ==
  ASSUME TypeOK, IntervalsInv, NEW packet \in Sent, NEW rx \in RxTimes,
         Record(packet, rx)
  PROVE  IntervalsInv'
<1> DEFINE log == Kept(packet)
           acked == [seq |-> packet.seq, tx |-> packet.tx,
                     size |-> packet.size, owd |-> rx - packet.tx]
           longer == Append(log, acked)
           il == InterLossBefore(packet.seq, log)
<1>1. log \in Seq(Acked)
  BY DEF Kept, TypeOK
<1>2. acked \in Acked /\ acked.seq = packet.seq
  BY InputsAssumption DEF Sent, Acked
<1>3. longer \in Seq(Acked)
  BY <1>1, <1>2, AppendProperties
<1>4. ilState' = InterLossAfter(packet.seq, il)
  BY DEF Record
<1>5. ilState' \in InterLoss /\ Len(ilState'.intervals) \in 1 .. MaxIntervals
  <2>1. rx \in Int
    BY InputsAssumption
  <2> QED
    BY <2>1, RecordTyped
<1>6. PICK k \in 0 .. Len(longer) - 1 : history' = SubSeq(longer, k + 1, Len(longer))
  BY DEF Record, TrimHistory
<1>7. Tells(ilState', longer)
  <2>1. CASE log = <<>>
    <3>1. il = [FreshInterLoss EXCEPT !.expectedSeq = acked.seq]
      BY <1>2, <2>1 DEF InterLossBefore
    <3>2. longer = Append(<<>>, acked)
      BY <2>1
    <3> HIDE DEF acked, il, longer
    <3> QED
      BY <1>2, <1>4, <3>1, <3>2, TellsFirst
  <2>2. CASE log # <<>>
    <3>1. log = history /\ history # <<>>
      BY <2>2 DEF Kept
    <3>2. il = ilState /\ Tells(ilState, log)
      BY <2>2, <3>1 DEF InterLossBefore, IntervalsInv
    <3>3. ilState \in InterLoss /\ Len(ilState.intervals) \in 1 .. MaxIntervals
      BY DEF TypeOK, InterLoss
    <3> HIDE DEF acked, il, log
    <3> QED
      BY <1>1, <1>2, <1>4, <2>2, <3>2, <3>3, TellsAppend
  <2> QED
    BY <2>1, <2>2
<1> HIDE DEF longer
<1>8. Tells(ilState', SubSeq(longer, k + 1, Len(longer)))
  BY <1>3, <1>5, <1>7, TellsSuffix
<1>9. Tells(ilState', history')
  BY <1>6, <1>8
<1>10. Tells(ilState', history') = Tells(ilState, history)'
  BY DEF Tells, GapsOf
<1> QED
  BY <1>9, <1>10 DEF IntervalsInv

\* The loss intervals agree with the gaps of the log for any caller: whatever
\* numbers are confirmed, whatever ages out of the log, and across resets.
THEOREM IntervalsTheorem == Spec => []IntervalsMatchLog
<1>1. Init => IntervalsInv
  BY DEF Init, Fresh, IntervalsInv
<1>2. TypeOK /\ IntervalsInv /\ [Next]_vars => IntervalsInv'
  <2> SUFFICES ASSUME TypeOK, IntervalsInv, [Next]_vars PROVE IntervalsInv'
    OBVIOUS
  <2>1. CASE UNCHANGED historyVars
    BY <2>1 DEF historyVars, IntervalsInv, Tells, GapsOf
  <2>2. CASE Reset
    BY <2>2 DEF Reset, IntervalsInv
  <2>3. ASSUME NEW seq \in SeqNr, NEW rx \in RxTimes, FeedbackRecorded(seq, rx)
        PROVE IntervalsInv'
    <3>1. PICK n \in 0 .. Len(inTransit) - 1 : Record(inTransit[n + 1], rx)
      BY <2>3 DEF FeedbackRecorded
    <3>2. inTransit[n + 1] \in Sent
      BY RestTyped DEF TypeOK
    <3> QED
      BY <3>1, <3>2, RecordIntervals
  <2> QED
    BY <2>1, <2>2, <2>3, LogKept
<1> QED
  BY <1>1, <1>2, TellsMatches, TypeCorrect, PTL DEF Spec
=============================================================================
