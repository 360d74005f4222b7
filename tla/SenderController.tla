-------------------------- MODULE SenderController --------------------------
(***************************************************************************)
(* rmcat::SenderBasedController: the bookkeeping of sent packets and of    *)
(* the feedback about them on which the NADA rate computation rests.       *)
(*                                                                         *)
(* One action per way out of each call; a failed assert aborts the whole   *)
(* process (NDEBUG is not defined by the build), which is the variable     *)
(* aborted.  Time is in ticks and far from 2^64 microseconds, so the wrap- *)
(* ping comparisons of times are ordinary ones and a one-way delay is the  *)
(* signed difference of the two clocks.  The round-trip time a log entry   *)
(* also carries is left out: it scales a rate increase and decides nothing.*)
(*                                                                         *)
(* An operator that stands just before the one it resembles and differs    *)
(* from it by a slip (ForgetToPop and Rest, say) is never used by the      *)
(* specification: it is a wrong variant some property must be able to tell *)
(* from the code.                                                          *)
(***************************************************************************)
EXTENDS SeqArith, Sequences, SequencesExt

CONSTANTS
  MaxInterPacketTime,  \* MAX_INTER_PACKET_TIME_US
  InTransitWindow,     \* 10 * MAX_INTER_PACKET_TIME_US
  HistoryLength,       \* DEFAULT_HISTORY_LENGTH_US
  MaxIntervals,        \* loss intervals kept (9 in the code)
  StartSeqs,           \* numbers the first packet may carry
  Sizes,               \* packet sizes
  RxTimes,             \* times a receiver may report
  MaxTime              \* bound on the clock, for TLC only

ASSUME TimesAssumption ==
  /\ MaxInterPacketTime \in Nat /\ InTransitWindow \in Nat
  /\ HistoryLength \in Nat \ {0} /\ HistoryLength <= MaxInterPacketTime
  /\ MaxTime \in Nat
ASSUME IntervalsAssumption == MaxIntervals \in Nat /\ MaxIntervals >= 2
ASSUME InputsAssumption ==
  /\ StartSeqs \subseteq SeqNr /\ Sizes \subseteq Nat /\ RxTimes \subseteq Int

VARIABLES
  firstSend, lastSequence, baseDelay,
  inTransit,     \* m_inTransitPackets, oldest first: [seq, tx, size]
  history,       \* m_packetHistory, oldest first: [seq, tx, size, owd]
  pktSizeSum,
  ilState,       \* m_ilState: [intervals, expectedSeq, initialized]
  now,           \* the wall clock of the sending host
  aborted        \* the assert that ended the process, or "no"

sendVars == <<firstSend, lastSequence>>
historyVars == <<history, baseDelay, pktSizeSum, ilState>>
vars == <<sendVars, inTransit, historyVars, now, aborted>>

Sent == [seq : SeqNr, tx : Int, size : Nat]
Acked == [seq : SeqNr, tx : Int, size : Nat, owd : Int]

\* InterLossState::InterLossState
FreshInterLoss == [intervals |-> <<0>>, expectedSeq |-> 0, initialized |-> FALSE]

-----------------------------------------------------------------------------
Fresh ==
  /\ firstSend = TRUE /\ lastSequence = 0 /\ baseDelay = 0
  /\ inTransit = <<>> /\ history = <<>> /\ pktSizeSum = 0
  /\ ilState = FreshInterLoss

Init == Fresh /\ now = 0 /\ aborted = "no"

\* SenderBasedController::reset
Reset ==
  /\ firstSend' = TRUE /\ lastSequence' = 0 /\ baseDelay' = 0
  /\ inTransit' = <<>> /\ history' = <<>> /\ pktSizeSum' = 0
  /\ ilState' = FreshInterLoss
  /\ UNCHANGED <<now, aborted>>

-----------------------------------------------------------------------------
\* processSendPacket.  The number is checked after ++m_lastSequence, so a
\* rejected call has moved m_lastSequence as well.
NextSequence(seq) == IF firstSend THEN seq ELSE Succ(lastSequence)

\* The entries sent before now - InTransitWindow leave from the front.
TrimInTransit(sent) ==
  \E k \in 0 .. Len(sent) - 1 :
     /\ \A i \in 1 .. k : sent[i].tx + InTransitWindow < now
     /\ ~(sent[k + 1].tx + InTransitWindow < now)
     /\ inTransit' = SubSeq(sent, k + 1, Len(sent))

SendAccepted(seq, size) ==
  /\ seq = NextSequence(seq)
  /\ firstSend' = FALSE /\ lastSequence' = seq
  /\ TrimInTransit(Append(inTransit, [seq |-> seq, tx |-> now, size |-> size]))
  /\ UNCHANGED <<historyVars, now, aborted>>

SendRejected(seq) ==
  /\ seq # NextSequence(seq)
  /\ lastSequence' = NextSequence(seq)
  /\ UNCHANGED <<firstSend, inTransit, historyVars, now, aborted>>

-----------------------------------------------------------------------------
\* processFeedback
FromFuture(seq) == lessThan(lastSequence, seq)

BackIsLast == Last(inTransit).seq = lastSequence

\* The first n entries are older than seq and are dropped by the while loop.
StalePrefix(n, seq) ==
  /\ n \in 0 .. Len(inTransit) - 1
  /\ \A i \in 1 .. n : lessThan(inTransit[i].seq, seq)
  /\ ~lessThan(inTransit[n + 1].seq, seq)

\* What the list holds once n entries have left its front.
EraseOnlyMatch(n) == IF n = 0 THEN inTransit ELSE RemoveAt(inTransit, n)
ForgetToPop(n) == SubSeq(inTransit, IF n = 0 THEN 1 ELSE n, Len(inTransit))
Rest(n) == SubSeq(inTransit, n + 1, Len(inTransit))

FeedbackFromFuture(seq) == FromFuture(seq) /\ UNCHANGED vars

FeedbackNothingInTransit(seq) ==
  ~FromFuture(seq) /\ inTransit = <<>> /\ UNCHANGED vars

\* assert(m_inTransitPackets.back().sequence == m_lastSequence)
AbortBackNotLast(seq) ==
  /\ ~FromFuture(seq) /\ inTransit # <<>> /\ ~BackIsLast
  /\ aborted' = "back_not_last"
  /\ UNCHANGED <<sendVars, inTransit, historyVars, now>>

Searched(seq) == ~FromFuture(seq) /\ inTransit # <<>> /\ BackIsLast

FeedbackOutOfOrder(seq) ==
  /\ Searched(seq)
  /\ \E n \in 0 .. Len(inTransit) - 1 :
       /\ StalePrefix(n, seq)
       /\ lessThan(seq, inTransit[n + 1].seq)
       /\ inTransit' = Rest(n)
  /\ UNCHANGED <<sendVars, historyVars, now, aborted>>

\* The entry taken from the list for seq: neither older nor newer than seq.
Taken(n, seq) == StalePrefix(n, seq) /\ ~lessThan(seq, inTransit[n + 1].seq)

\* assert(sequence == packet.sequence) when the two are half the space apart
AbortHalfSpace(seq) ==
  /\ Searched(seq)
  /\ \E n \in 0 .. Len(inTransit) - 1 :
       /\ Taken(n, seq) /\ inTransit[n + 1].seq # seq
       /\ inTransit' = Rest(n + 1)
  /\ aborted' = "half_space"
  /\ UNCHANGED <<sendVars, historyVars, now>>

Matches(n, seq) == Taken(n, seq) /\ inTransit[n + 1].seq = seq

AnyOrder(packet) == FALSE
GoesBack(packet) == history # <<>> /\ packet.tx < Last(history).tx

FeedbackDecreasing(seq) ==
  /\ Searched(seq)
  /\ \E n \in 0 .. Len(inTransit) - 1 :
       /\ Matches(n, seq) /\ GoesBack(inTransit[n + 1])
       /\ inTransit' = Rest(n + 1)
  /\ UNCHANGED <<sendVars, historyVars, now, aborted>>

\* No feedback for longer than MAX_INTER_PACKET_TIME_US: the log is obsolete.
Obsolete(packet) ==
  history # <<>> /\ Last(history).tx + MaxInterPacketTime < packet.tx

Kept(packet) == IF Obsolete(packet) THEN <<>> ELSE history

\* updateInterLossData, with the log it looks at
NoInterLossReset(seq, log) == ilState
InterLossBefore(seq, log) ==
  IF log = <<>> THEN [FreshInterLoss EXCEPT !.expectedSeq = seq] ELSE ilState

InterLossInOrder(seq, il) == seq = il.expectedSeq \/ lessThan(il.expectedSeq, seq)

UnboundedIntervals(seq, il) ==
  IF seq = il.expectedSeq
  THEN [il EXCEPT !.intervals[1] = @ + 1, !.expectedSeq = Succ(seq)]
  ELSE [intervals |-> <<1>> \o il.intervals,
        expectedSeq |-> Succ(seq), initialized |-> TRUE]
NoNewInterval(seq, il) ==
  [il EXCEPT !.intervals[1] = @ + 1, !.expectedSeq = Succ(seq)]
InterLossAfter(seq, il) ==
  IF seq = il.expectedSeq
  THEN [il EXCEPT !.intervals[1] = @ + 1, !.expectedSeq = Succ(seq)]
  ELSE [intervals |-> IF Len(il.intervals) < MaxIntervals
                      THEN <<1>> \o il.intervals
                      ELSE <<1>> \o SubSeq(il.intervals, 1, MaxIntervals - 1),
        expectedSeq |-> Succ(seq), initialized |-> TRUE]

\* What of the old sum the log still accounts for, and what leaves the log.
SumNotCleared(packet) == pktSizeSum
SizeBefore(packet) == IF Obsolete(packet) THEN 0 ELSE pktSizeSum
SizeOf(log) == FoldLeft(LAMBDA sum, p : sum + p.size, 0, log)

\* Is packet p of the log recent enough, seen from the newest one?
RecentByOneMore(p, newest) == newest.tx <= p.tx + HistoryLength
Recent(p, newest) == newest.tx < p.tx + HistoryLength

\* Garbage collection: the entries a HistoryLength or more older than the
\* newest one leave from the front.
TrimHistory(log, sum) ==
  \E k \in 0 .. Len(log) - 1 :
     /\ \A i \in 1 .. k : ~Recent(log[i], Last(log))
     /\ Recent(log[k + 1], Last(log))
     /\ history' = SubSeq(log, k + 1, Len(log))
     /\ pktSizeSum' = sum - SizeOf(SubSeq(log, 1, k))

BaseDelayOfFirst(log, owd) == IF log = <<>> THEN owd ELSE baseDelay
BaseDelayAfter(log, owd) ==
  IF log = <<>> \/ owd < baseDelay THEN owd ELSE baseDelay

Record(packet, rx) ==
  LET log == Kept(packet)
      owd == rx - packet.tx
  IN  /\ baseDelay' = BaseDelayAfter(log, owd)
      /\ ilState' = InterLossAfter(packet.seq, InterLossBefore(packet.seq, log))
      /\ TrimHistory(Append(log, [seq |-> packet.seq, tx |-> packet.tx,
                                  size |-> packet.size, owd |-> owd]),
                     SizeBefore(packet) + packet.size)

InLossOrder(packet) ==
  InterLossInOrder(packet.seq, InterLossBefore(packet.seq, Kept(packet)))

FeedbackRecorded(seq, rx) ==
  /\ Searched(seq)
  /\ \E n \in 0 .. Len(inTransit) - 1 :
       /\ Matches(n, seq)
       /\ ~GoesBack(inTransit[n + 1]) /\ InLossOrder(inTransit[n + 1])
       /\ inTransit' = Rest(n + 1)
       /\ Record(inTransit[n + 1], rx)
  /\ UNCHANGED <<sendVars, now, aborted>>

\* assert(lessThan(m_ilState.expectedSeq, sequence)): the packet is behind
\* the log.  The size sum and the base delay no longer matter.
AbortInterLoss(seq) ==
  /\ Searched(seq)
  /\ \E n \in 0 .. Len(inTransit) - 1 :
       /\ Matches(n, seq)
       /\ ~GoesBack(inTransit[n + 1]) /\ ~InLossOrder(inTransit[n + 1])
       /\ inTransit' = Rest(n + 1)
  /\ aborted' = "inter_loss"
  /\ UNCHANGED <<sendVars, historyVars, now>>

-----------------------------------------------------------------------------
\* The three ends of a call.
FeedbackTrue(seq, rx) ==
  \/ FeedbackNothingInTransit(seq)
  \/ FeedbackOutOfOrder(seq)
  \/ FeedbackRecorded(seq, rx)

FeedbackFalse(seq) == FeedbackFromFuture(seq) \/ FeedbackDecreasing(seq)

FeedbackAborts(seq) ==
  AbortBackNotLast(seq) \/ AbortHalfSpace(seq) \/ AbortInterLoss(seq)

Feedback(seq, rx) ==
  FeedbackTrue(seq, rx) \/ FeedbackFalse(seq) \/ FeedbackAborts(seq)

Unchanged == <<sendVars, inTransit, historyVars, aborted>>

Tick == now < MaxTime /\ now' = now + 1 /\ UNCHANGED Unchanged

\* SystemTime is a wall clock: it can be set back.
ClockSetBack == now > 0 /\ now' = now - 1 /\ UNCHANGED Unchanged

Alive == aborted = "no"

\* A caller that may pass any number.
Next ==
  /\ Alive
  /\ \/ \E seq \in SeqNr, size \in Sizes :
          (firstSend => seq \in StartSeqs) /\ SendAccepted(seq, size)
     \/ \E seq \in SeqNr : SendRejected(seq)
     \/ \E seq \in SeqNr, rx \in RxTimes : Feedback(seq, rx)
     \/ Reset
     \/ Tick
     \/ ClockSetBack

Spec == Init /\ [][Next]_vars

-----------------------------------------------------------------------------
(***************************************************************************)
(* A caller that keeps to the header: packets are numbered consecutively,  *)
(* feedback is about packets (duplicated, late and future numbers remain   *)
(* possible, only the number half the space away from the newest, which    *)
(* the wrapping order cannot place, is excluded), and less than half the   *)
(* number space is in use within the windows the class keeps.              *)
(***************************************************************************)
HalfSpace(n) == 2 * n < SeqModulus

RoomToSend ==
  /\ HalfSpace(Len(inTransit) + 1)
  /\ \A i \in 1 .. Len(history) :
       now <= history[i].tx + MaxInterPacketTime
         => HalfSpace(Minus(lastSequence, history[i].seq) + 1)

ContractSend(seq, size) ==
  /\ firstSend => seq \in StartSeqs
  /\ RoomToSend
  /\ SendAccepted(seq, size)

ContractFeedback(seq, rx) ==
  /\ 2 * Minus(lastSequence, seq) # SeqModulus
  /\ Feedback(seq, rx)

ContractNext ==
  /\ Alive
  /\ \/ \E seq \in SeqNr, size \in Sizes : ContractSend(seq, size)
     \/ \E seq \in SeqNr, rx \in RxTimes : ContractFeedback(seq, rx)
     \/ Reset
     \/ Tick

ContractSpec == Init /\ [][ContractNext]_vars
-----------------------------------------------------------------------------
(* Properties *)

\* Every variable has its type.  (pktSizeSum is the subject of SizeSumExact.)
TypeOK ==
  /\ firstSend \in BOOLEAN /\ lastSequence \in SeqNr /\ baseDelay \in Int
  /\ inTransit \in Seq(Sent) /\ history \in Seq(Acked)
  /\ ilState \in [intervals : Seq(Nat), expectedSeq : SeqNr, initialized : BOOLEAN]
  /\ Len(ilState.intervals) \in 1 .. MaxIntervals
  /\ now \in Int
  /\ aborted \in {"no", "back_not_last", "half_space", "inter_loss"}

\* The in-transit list is a contiguous run of numbers ending at the last one
\* sent, whatever feedback and aging removed: what the assert in
\* processFeedback on back().sequence relies on.
InTransitIsTail ==
  \A i \in 1 .. Len(inTransit) :
     Minus(lastSequence, inTransit[i].seq) = Len(inTransit) - i

\* The log is in sending order, and what is still in transit comes after all
\* of the log it can be compared with, so no packet is counted twice and the
\* sequence span of getPktLossInfo is never shorter than the log.
NumbersInOrder ==
  /\ \A i, j \in 1 .. Len(history) :
       i < j => lessThan(history[i].seq, history[j].seq)
  /\ \A i \in 1 .. Len(history), j \in 1 .. Len(inTransit) :
       inTransit[j].tx <= history[i].tx + MaxInterPacketTime
         => lessThan(history[i].seq, inTransit[j].seq)

\* None of the asserts of processFeedback and updateInterLossData fires.
NoAbort == aborted = "no"

\* The log covers less than HistoryLength of sending time, in order: the
\* assert in the garbage collection, and what "recent" means for the rate.
LogWithinWindow ==
  /\ \A i, j \in 1 .. Len(history) : i < j => history[i].tx <= history[j].tx
  /\ history # <<>> => Last(history).tx < Head(history).tx + HistoryLength

\* The running byte count equals the sizes of the logged packets, through
\* aging and the clearing of an obsolete log: the two asserts on m_pktSizeSum.
SizeSumExact == pktSizeSum = SizeOf(history)

\* No logged delay lies below the base delay, so that the queuing delay
\* owdUs - m_baseDelayUs, an unsigned subtraction, never wraps.
BaseDelayIsLeast == \A i \in 1 .. Len(history) : baseDelay <= history[i].owd

\* The run of consecutive numbers at the end of the log.
TrailingRun ==
  CHOOSE r \in 1 .. Len(history) :
    /\ \A i \in Len(history) - r + 1 .. Len(history) - 1 :
         history[i + 1].seq = Succ(history[i].seq)
    /\ r < Len(history) =>
         history[Len(history) - r + 1].seq # Succ(history[Len(history) - r].seq)

Gaps == {i \in 1 .. Len(history) - 1 : history[i + 1].seq # Succ(history[i].seq)}

\* The loss intervals tell the same story as the log: the current interval is
\* the run since the last gap, there is an older interval for every gap still
\* logged (up to the limit), and the next number expected follows the log.
IntervalsMatchLog ==
  history # <<>> =>
    /\ ilState.expectedSeq = Succ(Last(history).seq)
    /\ IF Gaps = {} THEN ilState.intervals[1] >= TrailingRun
                    ELSE ilState.intervals[1] = TrailingRun
    /\ Len(ilState.intervals) > Cardinality(Gaps)
         \/ Len(ilState.intervals) = MaxIntervals
    /\ ilState.initialized <=> Len(ilState.intervals) >= 2

\* A step that logs a packet takes it, with the time it was sent, from the
\* in-transit list and discards everything older there: a packet overtaken
\* by later feedback is never counted as received afterwards.
LogGrowsInOrder ==
  [][(history' # <<>> /\ history' # history) =>
       \E j \in 1 .. Len(inTransit) :
          /\ Last(history').seq = inTransit[j].seq
          /\ Last(history').tx = inTransit[j].tx
          /\ inTransit' = SubSeq(inTransit, j + 1, Len(inTransit))]_vars
=============================================================================
