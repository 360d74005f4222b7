------------------------------- MODULE NadaRx -------------------------------
(***************************************************************************)
(* The receiver side: NadaRx records when each packet of each stream came  *)
(* and, on a packet, on a marker or from the periodic clock callback,      *)
(* sends a feedback message with one block per stream that is due.  Both   *)
(* threads work under the element's lib_data mutex, so each call is a step.*)
(*                                                                         *)
(* Times are ages in ticks and stop counting at AgeCap, as the field of    *)
(* the report does; no u32 of NTP time wraps.  The packets of the network  *)
(* have absolute numbers, of which the code sees the low bits; net         *)
(* remembers them, for the properties only.                                *)
(*                                                                         *)
(* An operator that stands just before the one it resembles and differs    *)
(* from it by a slip is never used by the specification.                   *)
(***************************************************************************)
EXTENDS Integers, FiniteSets, FiniteSetsExt

CONSTANTS
  Streams,      \* source SSRCs
  SeqModulus,   \* 2^16
  HistorySize,  \* kRxHistorySize
  Reported,     \* nReportedRtpPackets
  AckDiff,      \* ackDiff
  PacketsDue,   \* min(8, ackDiff)
  StreamDue,    \* 655: 10 ms
  Intervals,    \* rtcpFbInterval_ntp: 2 to 100 ms
  PerMessage,   \* blocks that fit in kMaxRtcpSize
  AgeCap,       \* ages stop here
  Starts,       \* absolute numbers each stream may begin with
  MaxGap,       \* most packets lost in a row
  MaxLate,      \* how far behind the newest one a packet may come
  MaxRecv,      \* bound on the packets of each stream, for TLC only
  LastNumber    \* bound on the absolute numbers, for TLC only

Numbers == 0 .. LastNumber

\* An ackDiff of 1 is a special case of the code, which kReportedRtpPackets
\* excludes.
ASSUME RxAssumption ==
  /\ {SeqModulus, HistorySize, Reported, PacketsDue, PerMessage} \subseteq Nat \ {0}
  /\ AckDiff \in Nat /\ AckDiff >= 2
  /\ SeqModulus % HistorySize = 0 /\ Reported <= HistorySize
  /\ AgeCap \in Nat /\ {StreamDue} \union Intervals \subseteq 0 .. AgeCap - 1
  /\ IsFiniteSet(Streams)

\* What the network does stays well within the number space and the history:
\* beyond that the code cannot tell late packets from new ones.
ASSUME NetworkAssumption ==
  /\ LastNumber \in Nat /\ Starts \in [Streams -> SUBSET Numbers]
  /\ {MaxGap, MaxLate} \subseteq Nat /\ MaxLate < HistorySize
  /\ MaxLate <= SeqModulus \div 4 /\ MaxGap + 1 <= SeqModulus \div 4

VARIABLES
  stream,        \* the map of streams: a record each, or NoStream
  fbInterval,    \* rtcpFbInterval_ntp
  feedbackAge,   \* since lastFeedbackT_ntp of the session
  uptime,        \* age of the time origin t0
  message,       \* the blocks the last step sent
  panicked,      \* a thread panicked under lib_data: all later ones do
  net            \* per stream, what came: arrived, the age of each absolute
                 \* number; waiting, those no block has covered; reportedTo,
                 \* the newest one when it was last reported

vars == <<stream, fbInterval, feedbackAge, uptime, message, panicked, net>>

Never == -1
NoStream == [known |-> FALSE]
Known == {s \in Streams : stream[s].known}
SeqNr == 0 .. SeqModulus - 1
Slot(nr) == nr % HistorySize
Older(age) == IF age \in {Never, AgeCap} THEN age ELSE age + 1

Newest(seen) == Max({n \in Numbers : seen.arrived[n] # Never})

Init ==
  /\ stream = [s \in Streams |-> NoStream]
  /\ fbInterval \in Intervals
  /\ feedbackAge = 0 /\ uptime = 0
  /\ message = {} /\ panicked = FALSE
  /\ net = [s \in Streams |-> [arrived |-> [n \in Numbers |-> Never],
                              waiting |-> {}, reportedTo |-> 0]]

-----------------------------------------------------------------------------
(* Stream *)

NextNoWrap(nr) == nr + 1
NextNr(nr) == (nr + 1) % SeqModulus

\* Stream::new and the initialisation on its first packet: the slots hold a
\* number that has not come.
FreshAt(nr) ==
  [known |-> TRUE, highest |-> (nr - 1) % SeqModulus, highestTx |-> 0,
   pending |-> 0, fbAge |-> uptime, received |-> 0, reported |-> FALSE,
   later |-> {t \in Known : stream[t].reported},
   hist |-> [i \in 0 .. HistorySize - 1 |->
               [nr |-> NextNr(nr), age |-> Never]]]

\* seqNrExt >= highestSeqNrExt: a distance beyond a quarter of the number
\* space means that one of the two has wrapped.
NotBehind(nr, highest) ==
  LET Ext(a, b) == IF a < b /\ b - a > SeqModulus \div 4
                   THEN a + SeqModulus ELSE a
  IN  Ext(nr, highest) >= Ext(highest, nr)

\* Stream::receive
Take(it, nr) ==
  [it EXCEPT !.received = @ + 1, !.pending = @ + 1,
             !.hist[Slot(nr)] = [nr |-> nr, age |-> 0],
             !.highest = IF NotBehind(nr, @) THEN nr ELSE @]

\* Stream::checkIfFlushAck: both numbers as plain integers
AckDueLate(it) == it.known /\ it.highest - it.highestTx > AckDiff
AckDue(it) == it.known /\ it.highest - it.highestTx >= AckDiff

\* The report element of one number: how long ago it came, or Never.  An
\* empty slot may hold the very number, hence the second condition.
ElementByNumber(it, nr) ==
  LET slot == it.hist[Slot(nr)]
  IN  IF slot.nr = nr THEN IF slot.age = Never THEN AgeCap ELSE slot.age
      ELSE Never
Element(it, nr) ==
  LET slot == it.hist[Slot(nr)]
  IN  IF slot.nr = nr /\ slot.age # Never THEN slot.age ELSE Never

\* getStandardizedFeedback: the last Reported numbers up to the highest one
Block(s, it) ==
  LET begin == (it.highest - (Reported - 1)) % SeqModulus
  IN  [ssrc |-> s, begin |-> begin,
       elements |-> [k \in 0 .. Reported - 1 |->
                       Element(it, (begin + k) % SeqModulus)]]

-----------------------------------------------------------------------------
(* createStandardizedFeedback *)

\* Streams worth a block; streams is the map of streams of the moment.
DueNow(streams, isMark) ==
  {s \in Streams :
     /\ streams[s].known
     /\ \/ streams[s].pending >= PacketsDue
        \/ streams[s].fbAge > StreamDue
        \/ isMark /\ streams[s].pending > 0}

\* A stream remembers which others were reported later than it was; no stream
\* has been reported before it is new.
ReportedBefore(streams, t, s) == s \in streams[t].later

\* The loop takes the stream reported longest ago until the message is full;
\* a stream it took is not due any more.  Ties follow the hash map's order.
LongestAgo(streams, isMark) ==
  LET due == DueNow(streams, isMark)
  IN  {c \in SUBSET due :
         /\ Cardinality(c) = Min({PerMessage, Cardinality(due)})
         /\ \A s \in c, t \in due \ c : ~ReportedBefore(streams, t, s)}

MarkReported(it) ==
  [it EXCEPT !.fbAge = 0, !.pending = 0, !.highestTx = it.highest,
             !.reported = TRUE, !.later = {}]

\* Reports of the same tick may have the same time.
PassOver(it, chosen) ==
  IF it.known /\ (it.fbAge > 0 \/ ~it.reported)
  THEN [it EXCEPT !.later = @ \union chosen] ELSE it

\* What a block for the stream makes of net; a loss is held against the code
\* if the numbers did not wrap meanwhile.
Wrapped(seen) == Newest(seen) \div SeqModulus # seen.reportedTo \div SeqModulus
OutOfReach(seen) == {n \in seen.waiting : n < Newest(seen) - (Reported - 1)}
Cover(seen) ==
  [seen EXCEPT !.waiting = IF Wrapped(seen) THEN {} ELSE OutOfReach(seen),
               !.reportedTo = Newest(seen)]

\* The message and its push, on the streams (and packets seen) of the
\* moment; a push that downstream refuses is unwrapped and panics.
SendFeedback(streams, seen, isMark) ==
  \E chosen \in LongestAgo(streams, isMark) :
    /\ message' = {Block(s, streams[s]) : s \in chosen}
    /\ stream' = [s \in Streams |-> IF s \in chosen THEN MarkReported(streams[s])
                                    ELSE PassOver(streams[s], chosen)]
    /\ feedbackAge' = IF chosen = {} THEN feedbackAge ELSE 0
    /\ panicked' \in IF chosen = {} THEN {FALSE} ELSE BOOLEAN
    /\ net' = [s \in Streams |-> IF s \in chosen THEN Cover(seen[s]) ELSE seen[s]]

-----------------------------------------------------------------------------
(* ScreamReceiver *)

\* What the network may deliver next of a stream; it may repeat packets.
Deliverable(s) ==
  IF s \notin Known THEN Starts[s]
  ELSE IF stream[s].received = MaxRecv[s] THEN {}
  ELSE LET newest == Newest(net[s])
       IN  Numbers \intersect (newest - MaxLate .. newest + MaxGap + 1)

\* The interval follows the media rate, which packets of the last 100 ms
\* decide: after any packet it may be another one.
MeasureRate == fbInterval' \in Intervals

\* A packet is recorded, then all streams are looked at.
ScreamReceiver(s, n, marker) ==
  LET nr == n % SeqModulus
      before == IF s \in Known THEN stream[s] ELSE FreshAt(nr)
      streams == [stream EXCEPT ![s] = Take(before, nr)]
      seen == [net EXCEPT ![s] = [arrived |-> [@.arrived EXCEPT ![n] = 0],
                                  waiting |-> @.waiting \union {n},
                                  reportedTo |-> IF s \in Known THEN @.reportedTo
                                                 ELSE n]]
  IN  /\ ~panicked
      /\ MeasureRate
      /\ IF marker \/ \E t \in Streams : AckDue(streams[t])
         THEN SendFeedback(streams, seen, marker)
         ELSE /\ stream' = streams /\ message' = {} /\ net' = seen
              /\ UNCHANGED <<feedbackAge, panicked>>
      /\ UNCHANGED uptime

\* highestSeqNr - 1 or seqNr + 1 on the first packet, where the build checks
\* them: the stream is not inserted.
FirstPacketPanics(s, n) ==
  /\ ~panicked /\ s \notin Known
  /\ n % SeqModulus \in {0, SeqModulus - 1}
  /\ panicked' = TRUE /\ message' = {}
  /\ MeasureRate
  /\ UNCHANGED <<stream, feedbackAge, uptime, net>>

-----------------------------------------------------------------------------
(* The clock callback, and time *)

IsFeedbackFromTwo == \E s \in Known : stream[s].pending > 1
IsFeedback == \E s \in Known : stream[s].pending >= 1

PeriodicFlush ==
  /\ ~panicked /\ IsFeedback
  /\ (\E s \in Streams : AckDue(stream[s])) \/ feedbackAge > fbInterval
  /\ SendFeedback(stream, net, TRUE)
  /\ UNCHANGED <<fbInterval, uptime>>

OlderSlot(slot) == [slot EXCEPT !.age = Older(@)]
OlderStream(it) ==
  [it EXCEPT !.fbAge = Older(@), !.hist = [i \in DOMAIN @ |-> OlderSlot(@[i])]]

Tick ==
  /\ ~panicked
  /\ stream' = [s \in Streams |-> IF s \in Known THEN OlderStream(stream[s]) ELSE NoStream]
  /\ net' = [s \in Streams |->
       [net[s] EXCEPT !.arrived = [n \in Numbers |-> Older(@[n])]]]
  /\ feedbackAge' = Older(feedbackAge) /\ uptime' = Older(uptime)
  /\ message' = {}
  /\ UNCHANGED <<fbInterval, panicked>>

Next ==
  \/ \E s \in Streams : \E n \in Deliverable(s) :
       \/ \E marker \in BOOLEAN : ScreamReceiver(s, n, marker)
       \/ FirstPacketPanics(s, n)
  \/ PeriodicFlush
  \/ Tick

RxSpec == Init /\ [][Next]_vars

\* The clock calls back every 500 us and the thread it calls runs.
FairRxSpec == RxSpec /\ WF_vars(PeriodicFlush) /\ WF_vars(Tick)

-----------------------------------------------------------------------------
(* Properties *)

Ages == Never .. AgeCap

\* Every variable has its type, and no number leaves its 16 bits.
RxTypeOK ==
  /\ \A s \in Known :
       /\ {stream[s].highest, stream[s].highestTx} \subseteq SeqNr
       /\ stream[s].pending \in 0 .. stream[s].received
       /\ stream[s].fbAge \in 0 .. AgeCap
       /\ stream[s].reported \in BOOLEAN /\ stream[s].later \subseteq Known
       /\ stream[s].hist \in [0 .. HistorySize - 1 -> [nr : SeqNr, age : Ages]]
  /\ fbInterval \in Intervals
  /\ {feedbackAge, uptime} \subseteq 0 .. AgeCap
  /\ panicked \in BOOLEAN
  /\ net \in [Streams -> [arrived : [Numbers -> Ages], waiting : SUBSET Numbers,
                          reportedTo : Numbers]]

\* A block tells the truth about every packet it covers: it covers the last
\* Reported numbers up to the newest packet of the stream, each element says
\* "received" exactly if that packet came, and when it came last: through the
\* wrap of the numbers, repeated, late and lost packets, and slots never used
\* or used by older packets.
BlocksAreTrue ==
  \A b \in message :
    LET newest == Newest(net[b.ssrc])
        Absolute(k) == newest - (Reported - 1) + k
    IN  /\ b.begin = Absolute(0) % SeqModulus
        /\ \A k \in 0 .. Reported - 1 :
             b.elements[k] = IF Absolute(k) \in Numbers
                             THEN net[b.ssrc].arrived[Absolute(k)] ELSE Never

\* A packet no block has covered yet is still within reach of the next block,
\* unless the numbers wrapped since the last one.  It holds only if packets
\* are due soon enough for the holes of the network, see HolesTheorem.
HolesAreCovered ==
  \A s \in Known : Wrapped(net[s]) \/ OutOfReach(net[s]) = {}

\* What keeps a report that ackDiff asks for from being sent: fewer packets
\* than PacketsDue, or blocks of other streams.
HeldBack(s) ==
  /\ AckDue(stream[s])
  /\ stream[s].pending < PacketsDue \/ Cardinality(Known) > PerMessage

\* "Check to ensure that ACKs can cover also large holes": a packet falls out
\* of reach of every later block before one has covered it only after the
\* check for holes has asked for a report that createStandardizedFeedback did
\* not grant the stream, or if the numbers wrapped since its last report (the
\* check compares them as plain integers, and is then silent until the
\* interval is over).
HoleLossIsExplained ==
  [][\A s \in Known :
       OutOfReach(net'[s]) \subseteq OutOfReach(net[s])
       \/ HeldBack(s) \/ Wrapped(net[s])]_vars

Waits(s) == IF s \in Known THEN stream[s].pending > 0 ELSE FALSE

\* Packets that wait for a report get one even if no packet follows, unless
\* the element has panicked.
PendingIsReported == \A s \in Streams : Waits(s) ~> (panicked \/ ~Waits(s))
=============================================================================
