----------------------------- MODULE TxFeedback -----------------------------
(***************************************************************************)
(* The two streaming threads of nadatx on the one controller, which no     *)
(* lock protects: sink_chain numbers the packets and calls OnPacket,       *)
(* rtcp_sink_chain parses a transport-wide feedback message (parse_twcc)   *)
(* and calls OnFeedback for each packet of it.                             *)
(*                                                                         *)
(* Packets carry consecutive transport-wide numbers, given out by the RTP  *)
(* session upstream; any message about packets sent may arrive, any number *)
(* of times and in any order.  OnPacket is two steps, as far apart as      *)
(* processSendPacket moves m_lastSequence and appends to the list; a feed- *)
(* back call is one step, so the runs hold for the mildest outcomes of the *)
(* data race.  A panic in a pad function makes the element refuse all      *)
(* later calls, not those under way; overflowChecks tells the debug build  *)
(* from the release one.                                                   *)
(*                                                                         *)
(* An operator that stands just before the one it resembles and differs    *)
(* from it by a slip is never used by the specification.                   *)
(***************************************************************************)
EXTENDS SenderController

CONSTANTS
  StartTwcc,   \* transport-wide numbers the first packet may carry
  MaxBatch,    \* most packets one message reports
  MaxSent      \* bound on the packets sent, for TLC only

ASSUME TwccAssumption == StartTwcc \subseteq SeqNr /\ MaxBatch \in Nat

VARIABLES
  firstTwcc,      \* the number the first packet carries
  sentCount,      \* packets numbered so far
  offset,         \* start_offset_for_rtcp; 0 stands for "not known yet"
  sending,        \* <<entry>> between the two steps of OnPacket, else <<>>
  lastBase,       \* last_base
  batch,          \* what rtcp_sink_chain has still to pass on: [seq, rx]
  overflowChecks,
  panicked

senderVars == vars
threadVars == <<offset, sending, lastBase, batch, panicked>>
txVars == <<senderVars, firstTwcc, sentCount, threadVars, overflowChecks>>

PlusWide(n, k) == n + k
Plus(n, k) == (n + k) % SeqModulus
Twcc == Plus(firstTwcc, sentCount)   \* the number of the next packet

TxInit ==
  /\ Init
  /\ firstTwcc \in StartTwcc /\ sentCount = 0
  /\ offset = 0 /\ sending = <<>> /\ lastBase = 0 /\ batch = <<>>
  /\ overflowChecks \in BOOLEAN /\ panicked = FALSE

-----------------------------------------------------------------------------
(* sink_chain *)

Passed == IF offset = 0 THEN 0 ELSE Minus(Twcc, offset)

OffsetOfLast == Twcc
OffsetAfter == IF offset = 0 THEN Twcc ELSE offset

UnderflowsSwapped == overflowChecks /\ offset # 0 /\ offset < Twcc
Underflows == overflowChecks /\ offset # 0 /\ Twcc < offset

\* The number is computed and processSendPacket checks it: m_lastSequence
\* moves whether or not the number is the expected one.
SendNumber(size) ==
  /\ ~panicked /\ sending = <<>> /\ sentCount < MaxSent /\ ~Underflows
  /\ sentCount' = sentCount + 1
  /\ offset' = OffsetAfter
  /\ firstSend' = FALSE /\ lastSequence' = NextSequence(Passed)
  /\ sending' = IF Passed = NextSequence(Passed)
                THEN <<[seq |-> Passed, tx |-> now, size |-> size]>> ELSE <<>>
  /\ UNCHANGED <<inTransit, historyVars, now, aborted, firstTwcc, lastBase,
                 batch, overflowChecks, panicked>>

SendStore ==
  /\ sending # <<>>
  /\ TrimInTransit(inTransit \o sending)
  /\ sending' = <<>>
  /\ UNCHANGED <<sendVars, historyVars, now, aborted, firstTwcc, sentCount,
                 offset, lastBase, batch, overflowChecks, panicked>>

\* u16::from_be_bytes(..) - offset below zero, checked
SendPanics ==
  /\ ~panicked /\ sending = <<>> /\ sentCount < MaxSent /\ Underflows
  /\ panicked' = TRUE
  /\ UNCHANGED <<senderVars, firstTwcc, sentCount, offset, sending, lastBase,
                 batch, overflowChecks>>

-----------------------------------------------------------------------------
(* rtcp_sink_chain *)

\* A message about n packets from the i-th one sent on: when each came, or 0
\* for one the receiver does not have.
Items(i, n) ==
  {[k \in 1 .. n |-> [seq |-> Plus(firstTwcc, i + k - 1), rx |-> rx[k]]] :
     rx \in [1 .. n -> RxTimes \union {0}]}

\* base_seq + packets_parsed + i beyond 65535, checked
Overflows(base, n) == overflowChecks /\ base + n > SeqModulus

\* A base equal to the last one is taken for a repetition and ignored.
RtcpParse(i, n) ==
  LET base == Plus(firstTwcc, i)
  IN  /\ ~panicked /\ batch = <<>> /\ i + n <= sentCount
      /\ base # lastBase /\ ~Overflows(base, n)
      /\ lastBase' = base
      /\ \E items \in Items(i, n) : batch' = items
      /\ UNCHANGED <<senderVars, firstTwcc, sentCount, offset, sending,
                     overflowChecks, panicked>>

RtcpPanics(i, n) ==
  /\ ~panicked /\ batch = <<>> /\ i + n <= sentCount
  /\ Plus(firstTwcc, i) # lastBase /\ Overflows(Plus(firstTwcc, i), n)
  /\ panicked' = TRUE
  /\ UNCHANGED <<senderVars, firstTwcc, sentCount, offset, sending, lastBase,
                 batch, overflowChecks>>

\* OnFeedback, with the number as the message gives it and, for a packet the
\* receiver does not have, the time 0.
RtcpFeedback ==
  /\ batch # <<>>
  /\ Feedback(Head(batch).seq, Head(batch).rx)
  /\ batch' = Tail(batch)
  /\ UNCHANGED <<firstTwcc, sentCount, offset, sending, lastBase,
                 overflowChecks, panicked>>

-----------------------------------------------------------------------------
\* OnPacket takes less than a tick.
TxTick ==
  /\ sending = <<>> /\ Tick
  /\ UNCHANGED <<firstTwcc, sentCount, threadVars, overflowChecks>>

TxNext ==
  /\ Alive
  /\ \/ \E size \in Sizes : SendNumber(size)
     \/ SendStore \/ SendPanics
     \/ \E i \in 0 .. MaxSent - 1, n \in 1 .. MaxBatch :
          RtcpParse(i, n) \/ RtcpPanics(i, n)
     \/ RtcpFeedback
     \/ TxTick

TxSpec == TxInit /\ [][TxNext]_txVars

-----------------------------------------------------------------------------
(* Properties *)

\* Every variable has its type; above all, what sink_chain passes on is a
\* 16-bit number in both builds.
TxTypeOK ==
  /\ TypeOK
  /\ firstTwcc \in SeqNr /\ sentCount \in Nat
  /\ offset \in SeqNr /\ lastBase \in SeqNr
  /\ sending \in Seq(Sent) /\ Len(sending) <= 1
  /\ batch \in Seq([seq : SeqNr, rx : Int])
  /\ overflowChecks \in BOOLEAN /\ panicked \in BOOLEAN

\* The first packet carries the number 0, which sink_chain takes for "not
\* known yet" and so learns the offset from the second packet: one too late.
StartMistaken == firstTwcc = 0 /\ sentCount > 1

\* The controller's newest number and the transport-wide number of the newest
\* packet stay one fixed distance apart, through the wrap of the numbers: the
\* offset, or after a first number of 0 one less, and every call but the first
\* is then refused.
NumbersFollowTwcc ==
  /\ sentCount > 0 =>
       lastSequence = Minus(Plus(firstTwcc, sentCount - 1),
                            IF StartMistaken THEN 0 ELSE offset)
  /\ (sentCount > 0 /\ sending # <<>>) => ~StartMistaken

\* Between two calls of sink_chain the in-transit list ends in a contiguous
\* run up to the last number, whatever the other thread fed back meanwhile,
\* unless calls are refused because the first number was mistaken.
TailBetweenSends ==
  (sending = <<>> /\ Alive /\ ~StartMistaken) => InTransitIsTail

\* The header says that a bad number makes a call return false.  OnFeedback
\* fails its assert on the end of the list only while OnPacket is under way in
\* the other thread, or once a first number of 0 made OnPacket refuse packets.
AbortIsExplained == aborted = "back_not_last" => sending # <<>> \/ StartMistaken

\* The unchecked subtraction of sink_chain and the unchecked addition of
\* parse_twcc panic in the debug build only, and not before the numbers wrap,
\* wherever they start and whatever messages arrive.
PanicsOnlyAtWrap ==
  panicked => overflowChecks /\ firstTwcc + sentCount >= SeqModulus

Logs == history' # history /\ history' # <<>>

\* "unsafe impl Sync for NadaController": threads may share the controller.
\* Calls of the two threads that overlap must not end the process.
UnlockedCallsAreSafe == aborted # "back_not_last"

\* The header: sequence is "the sequence number of the media packet that this
\* feedback refers to".  The packet logged is the one the message names.
FeedbackNamesItsPacket ==
  [][Logs => Last(history').seq = Minus(Head(batch).seq, offset)]_txVars
=============================================================================
