------------------------ MODULE NadaController_proofs ------------------------
(***************************************************************************)
(* The bandwidth estimate stays within the bounds in force, whatever the   *)
(* rates a computation yields, the windows, and the numbers fed in.        *)
(***************************************************************************)
EXTENDS NadaController, SenderController_proofs, FiniteSetTheorems

\* The bounds in force are the glue's or, after a reset, the defaults, and
\* both enclose the initial bandwidth a reset returns to.
BoundsInv ==
  /\ initBw = DefaultBw
  /\ minBw \in Nat /\ maxBw \in Nat /\ currBw \in Nat
  /\ minBw <= DefaultBw /\ DefaultBw <= maxBw
  /\ BandwidthInRange

\* A clipped rate lies between the bounds.
LEMMA ClipInRange ==
  ASSUME BoundsInv, NEW rate \in Nat
  PROVE  Clip(rate) \in Nat /\ minBw <= Clip(rate) /\ Clip(rate) <= maxBw
<1>1. /\ DefaultBw \in Nat /\ minBw \in Nat /\ maxBw \in Nat
      /\ minBw <= DefaultBw /\ DefaultBw <= maxBw
  BY RatesAssumption DEF BoundsInv
<1> QED
  BY <1>1 DEF Clip, AtMostMax

\* An update keeps the bounds and clips the rate, in either mode.
LEMMA RecalculateInRange ==
  ASSUME BoundsInv, NEW log, NEW base, Recalculate(log, base)
  PROVE  BoundsInv'
<1>1. UNCHANGED <<initBw, minBw, maxBw>>
  BY DEF Recalculate, boundVars
<1>2. PICK rate \in Rates : currBw' = Clip(NeverDown(rate)) \/ currBw' = Clip(rate)
  BY DEF Recalculate, GradualRates
<1>3. rate \in Nat /\ NeverDown(rate) \in Nat
  BY RatesAssumption DEF NeverDown, BoundsInv
<1>4. currBw' \in Nat /\ minBw <= currBw' /\ currBw' <= maxBw
  BY <1>2, <1>3, ClipInRange
<1> QED
  BY <1>1, <1>4 DEF BoundsInv, BandwidthInRange

\* Every step keeps the bounds.
LEMMA StepInRange == BoundsInv /\ [NadaNext]_allVars => BoundsInv'
<1> SUFFICES ASSUME BoundsInv, [NadaNext]_allVars PROVE BoundsInv'
  OBVIOUS
<1>1. CASE UNCHANGED <<currBw, initBw, minBw, maxBw>>
  BY <1>1 DEF BoundsInv, BandwidthInRange
<1>2. CASE NadaReset
  <2>1. /\ currBw' = DefaultBw /\ initBw' = DefaultBw
        /\ minBw' = DefaultMinBw /\ maxBw' = DefaultMaxBw
    BY <1>2 DEF NadaReset, BoundsInv
  <2> QED
    BY <2>1, RatesAssumption DEF BoundsInv, BandwidthInRange
<1>3. ASSUME NEW seq \in SeqNr, NEW rx \in RxTimes, NadaFeedback(seq, rx)
      PROVE BoundsInv'
  <2>1. CASE Update
    BY <2>1, RecalculateInRange DEF Update
  <2>2. CASE ~Update
    <3>1. UNCHANGED <<currBw, initBw, minBw, maxBw>>
      BY <1>3, <2>2 DEF NadaFeedback, FirstFeedback, AbortClock, NotYetDue,
           AbortRxOrder, nadaVars, calcVars, boundVars
    <3> QED
      BY <1>1, <3>1
  <2> QED
    BY <2>1, <2>2
<1>4. ASSUME NEW seq \in SeqNr, NEW size \in Sizes, NadaSend(seq, size)
      PROVE BoundsInv'
  BY <1>1, <1>4 DEF NadaSend, boundVars
<1>5. CASE NadaTick \/ NadaClockSetBack \/ UNCHANGED allVars
  BY <1>1, <1>5 DEF NadaTick, NadaClockSetBack, allVars, nadaVars, calcVars, boundVars
<1> QED
  BY <1>2, <1>3, <1>4, <1>5 DEF NadaNext

\* What getBandwidth returns is within the bounds in force at all times.
THEOREM BandwidthTheorem == NadaSpec => []BandwidthInRange
<1>1. NadaInit => BoundsInv
  BY RatesAssumption DEF NadaInit, BoundsInv, BandwidthInRange
<1>2. BoundsInv => BandwidthInRange
  BY DEF BoundsInv
<1> QED
  BY <1>1, <1>2, StepInRange, PTL DEF NadaSpec

-----------------------------------------------------------------------------
(* This class as a caller of its superclass *)

\* A step of this class is a step of the contract, or sets the clock back.
LEMMA NadaSteps ==
  ASSUME [NadaNext]_allVars
  PROVE  [ContractNext]_vars \/ (Alive /\ ClockSetBack)
<1>1. ASSUME NEW seq \in SeqNr, NEW rx \in RxTimes, NadaFeedback(seq, rx)
      PROVE ContractFeedback(seq, rx)
  BY <1>1 DEF NadaFeedback, ContractFeedback, Feedback
<1>2. CASE UNCHANGED allVars
  BY <1>2 DEF allVars
<1>3. CASE NadaNext
  BY <1>1, <1>3
     DEF NadaNext, NadaAlive, NadaSend, NadaReset, NadaTick, NadaClockSetBack, ContractNext
<1> QED
  BY <1>2, <1>3

\* Setting the clock back does not touch what the invariant speaks of.
LEMMA ClockNumbering ==
  ASSUME NumberingInv, ClockSetBack
  PROVE  NumberingInv'
<1>1. UNCHANGED <<firstSend, lastSequence, inTransit, history, ilState, aborted>>
  BY DEF ClockSetBack, Unchanged, sendVars, historyVars
<1> QED
  BY <1>1 DEF NumberingInv, InTransitIsTail, HalfSpace, FirstSendInv, LogInv,
              TransitInv, ExpectedInv, NoAbort, Ahead, Minus

\* The superclass's types, window and numbering hold under this class, whose
\* clock may be set back.
LEMMA NadaKeepsNumbering ==
  NadaSpec => [](TypeOK /\ LogWithinWindow /\ NumberingInv)
<1>1. NadaInit => Init
  BY DEF NadaInit
<1>2. [NadaNext]_allVars => [Next]_vars
  <2>1. Alive /\ ClockSetBack => Next
    BY DEF Next
  <2> QED
    BY <2>1, NadaSteps, ContractIsNext
<1>3. TypeOK /\ LogWithinWindow /\ NumberingInv /\ [NadaNext]_allVars => NumberingInv'
  BY NadaSteps, ContractNumbering, ClockNumbering
<1>4. NadaSpec => Spec
  BY <1>1, <1>2, PTL DEF NadaSpec, Spec
<1>5. NadaSpec => [](TypeOK /\ LogWithinWindow)
  BY <1>4, TypeCorrect, LogWindow, PTL
<1> QED
  BY <1>1, <1>3, <1>5, InitNumbering, PTL DEF NadaSpec

-----------------------------------------------------------------------------
(* What the log spans *)

\* Natural numbers that grow with their index are as far apart as their
\* indices, at least.
LEMMA Spread ==
  ASSUME NEW n \in Nat, NEW g \in [1 .. n -> Nat],
         \A i, j \in 1 .. n : i < j => g[i] < g[j],
         NEW a \in 1 .. n, NEW b \in 1 .. n, a <= b
  PROVE  b - a <= g[b] - g[a]
<1> DEFINE f == [i \in a .. b |-> g[i]]
<1>1. a .. b \subseteq 1 .. n
  OBVIOUS
<1>2. ASSUME NEW i \in a .. b PROVE g[i] \in g[a] .. g[b]
  <2>1. i \in 1 .. n /\ g[i] \in Nat /\ g[a] \in Nat /\ g[b] \in Nat
    BY <1>1
  <2>2. a = i \/ g[a] < g[i]
    BY <2>1
  <2>3. i = b \/ g[i] < g[b]
    BY <2>1
  <2> QED
    BY <2>1, <2>2, <2>3
<1>3. f \in [a .. b -> g[a] .. g[b]]
  BY <1>2
<1>4. ASSUME NEW i \in a .. b, NEW j \in a .. b, f[i] = f[j] PROVE i = j
  <2>1. i \in 1 .. n /\ j \in 1 .. n /\ g[i] = g[j] /\ g[i] \in Nat
    BY <1>1, <1>4
  <2>2. ~(i < j) /\ ~(j < i)
    BY <2>1
  <2> QED
    BY <2>1, <2>2
<1>5. f \in Injection(a .. b, g[a] .. g[b])
  BY <1>3, <1>4 DEF Injection, IsInjective
<1>6. g[a] \in Int /\ g[b] \in Int /\ a \in Int /\ b \in Int
  OBVIOUS
<1>7. /\ IsFiniteSet(g[a] .. g[b])
      /\ Cardinality(a .. b) = b - a + 1
      /\ Cardinality(g[a] .. g[b]) = IF g[a] > g[b] THEN 0 ELSE g[b] - g[a] + 1
  <2>1. Cardinality(a .. b) = IF a > b THEN 0 ELSE b - a + 1
    BY <1>6, FS_Interval
  <2>2. ~(a > b)
    BY <1>6
  <2>3. Cardinality(a .. b) = b - a + 1
    BY <2>1, <2>2
  <2>4. /\ IsFiniteSet(g[a] .. g[b])
        /\ Cardinality(g[a] .. g[b]) = IF g[a] > g[b] THEN 0 ELSE g[b] - g[a] + 1
    BY <1>6, FS_Interval
  <2> QED
    BY <2>3, <2>4
<1> HIDE DEF f
<1>8. Cardinality(a .. b) <= Cardinality(g[a] .. g[b])
  BY <1>5, <1>7, FS_Injection
<1>9. b - a + 1 <= g[b] - g[a] + 1
  <2>1. PICK x \in Int : x = g[a]
    BY <1>6
  <2>2. PICK y \in Int : y = g[b]
    BY <1>6
  <2>3. b - a + 1 <= IF x > y THEN 0 ELSE y - x + 1
    BY <1>7, <1>8, <2>1, <2>2
  <2>4. b - a + 1 <= y - x + 1
    BY <2>3
  <2> QED
    BY <2>1, <2>2, <2>4
<1> QED
  BY <1>6, <1>9

\* How far each packet of a log is from the first one, in the number space.
FromHead(log) == [i \in 1 .. Len(log) |-> Minus(log[i].seq, log[1].seq)]

\* Of two numbers ahead of a third, the one ahead of the other is farther.
LEMMA FartherAhead ==
  ASSUME NEW a \in SeqNr, NEW b \in SeqNr, NEW c \in SeqNr,
         a = c \/ Ahead(a, c), Ahead(b, c), Ahead(b, a)
  PROVE  Minus(a, c) < Minus(b, c)
BY SeqModulusAssumption DEF SeqNr, Ahead, HalfSpace, Minus

\* The number one farther from a third is the next one.
LEMMA NextByDistance ==
  ASSUME NEW a \in SeqNr, NEW b \in SeqNr, NEW c \in SeqNr,
         Minus(b, c) = Minus(a, c) + 1
  PROVE  b = Succ(a)
BY SeqModulusAssumption DEF SeqNr, Minus, Succ

\* A log in order spans at least as many numbers as it has entries; if it
\* spans no more, the numbers are consecutive.
LEMMA LogSpans ==
  ASSUME NEW log \in Seq(Acked), log # <<>>,
         \A i, j \in 1 .. Len(log) : i < j => Ahead(log[j].seq, log[i].seq)
  PROVE  /\ Losses(log) \in Nat
         /\ Losses(log) = 0 =>
              \A i \in 1 .. Len(log) - 1 : log[i + 1].seq = Succ(log[i].seq)
<1>1. PICK n \in Nat \ {0} : n = Len(log)
  BY EmptySeq
<1>2. \A i \in 1 .. n : log[i].seq \in SeqNr
  <2> SUFFICES ASSUME NEW i \in 1 .. n PROVE log[i].seq \in SeqNr
    OBVIOUS
  <2>1. log[i] \in Acked
    BY <1>1, ElementOfSeq
  <2> QED
    BY <2>1 DEF Acked
<1>3. 1 \in 1 .. n /\ n \in 1 .. n
  BY <1>1
<1> DEFINE g == FromHead(log)
<1>4. /\ g \in [1 .. n -> Nat]
      /\ \A i \in 1 .. n : g[i] = Minus(log[i].seq, log[1].seq)
  <2>1. \A i \in 1 .. n : Minus(log[i].seq, log[1].seq) \in Nat
    <3>1. SeqNr \subseteq Nat
      BY SeqModulusAssumption DEF SeqNr
    <3>2. \A i \in 1 .. n : Minus(log[i].seq, log[1].seq) \in SeqNr
      BY <1>2, <1>3, MinusProperties
    <3> QED
      BY <3>1, <3>2
  <2> QED
    BY <1>1, <2>1 DEF FromHead
<1> HIDE DEF g
<1>5. g[1] = 0
  BY <1>2, <1>3, <1>4, MinusProperties
<1>6. \A i, j \in 1 .. n : i < j => g[i] < g[j]
  <2> SUFFICES ASSUME NEW i \in 1 .. n, NEW j \in 1 .. n, i < j PROVE g[i] < g[j]
    OBVIOUS
  <2>1. Ahead(log[j].seq, log[i].seq)
    BY <1>1
  <2>2. i = 1 \/ Ahead(log[i].seq, log[1].seq)
    BY <1>1, <1>3
  <2>3. Ahead(log[j].seq, log[1].seq)
    BY <1>1, <1>3
  <2>4. Minus(log[i].seq, log[1].seq) < Minus(log[j].seq, log[1].seq)
    BY <1>2, <1>3, <2>1, <2>2, <2>3, FartherAhead
  <2> QED
    BY <1>4, <2>4
<1>7. Losses(log) = g[n] + 1 - n
  <2>1. Last(log) = log[n] /\ Head(log) = log[1]
    BY <1>1 DEF Last
  <2> QED
    BY <1>1, <1>3, <1>4, <2>1 DEF Losses, Span
<1>8. \A a, b \in 1 .. n : a <= b => b - a <= g[b] - g[a]
  <2>1. n \in Nat
    BY <1>1
  <2> QED
    BY <1>4, <1>6, <2>1, Spread
<1>9. Losses(log) \in Nat
  <2>1. PICK z \in Nat : z = g[n]
    BY <1>3, <1>4
  <2>2. n - 1 <= z - 0
    BY <1>1, <1>3, <1>5, <1>8, <2>1
  <2>3. Losses(log) = z + 1 - n
    BY <1>7, <2>1
  <2> QED
    BY <1>1, <2>2, <2>3
<1>10. ASSUME Losses(log) = 0, NEW i \in 1 .. n - 1
       PROVE  log[i + 1].seq = Succ(log[i].seq)
  <2>1. i \in 1 .. n /\ i + 1 \in 1 .. n /\ 1 <= i /\ i <= i + 1 /\ i + 1 <= n
    BY <1>1
  <2>2. PICK x \in Nat : x = g[i]
    BY <1>4, <2>1
  <2>3. PICK y \in Nat : y = g[i + 1]
    BY <1>4, <2>1
  <2>4. PICK z \in Nat : z = g[n]
    BY <1>3, <1>4
  <2>6. i - 1 <= x - 0
    BY <1>3, <1>5, <1>8, <2>1, <2>2
  <2>7. n - (i + 1) <= z - y
    BY <1>3, <1>8, <2>1, <2>3, <2>4
  <2>8. x < y
    <3>1. i < i + 1
      BY <2>1
    <3> QED
      BY <1>6, <2>1, <2>2, <2>3, <3>1
  <2>9. z + 1 - n = 0
    BY <1>7, <1>10, <2>4
  <2>10. y = x + 1
    BY <1>1, <2>1, <2>6, <2>7, <2>8, <2>9
  <2>5. Minus(log[i + 1].seq, log[1].seq) = Minus(log[i].seq, log[1].seq) + 1
    BY <1>4, <2>1, <2>2, <2>3, <2>10
  <2> QED
    BY <1>2, <1>3, <2>1, <2>5, NextByDistance
<1> QED
  BY <1>1, <1>9, <1>10

\* The log after a step spans at least as many numbers as it has entries.
LEMMA LogSpansNext ==
  ASSUME TypeOK', NumberingInv', LongEnough(history')
  PROVE  /\ Losses(history') \in Nat
         /\ Losses(history') = 0 =>
              \A i \in 1 .. Len(history') - 1 :
                 history'[i + 1].seq = Succ(history'[i].seq)
<1>1. history' \in Seq(Acked)
  BY DEF TypeOK
<1>2. history' # <<>>
  <2>1. CASE history' = <<>>
    <3>1. Len(history') = 0
      BY <2>1
    <3> QED
      BY <3>1, RatesAssumption DEF LongEnough
  <2> QED
    BY <2>1
<1>3. \A i, j \in 1 .. Len(history') : i < j => Ahead(history'[j].seq, history'[i].seq)
  BY DEF NumberingInv, LogInv, Ahead, Minus, HalfSpace
<1> QED
  BY <1>1, <1>2, <1>3, LogSpans

-----------------------------------------------------------------------------
(* Types *)

\* An update leaves a natural number of losses, on the log it was made of.
LEMMA UpdateTyped ==
  ASSUME TypeOK, TypeOK', NumberingInv', NadaTypeOK, BoundsInv', Update
  PROVE  NadaTypeOK'
<1>1. ploss' \in Nat
  <2>1. CASE LongEnough(history')
    <3>1. ploss' = Losses(history')
      BY <2>1 DEF Update, Recalculate
    <3> QED
      BY <2>1, <3>1, LogSpansNext
  <2>2. CASE ~LongEnough(history')
    <3>1. ploss' = ploss
      BY <2>2 DEF Update, Recalculate
    <3> QED
      BY <3>1 DEF NadaTypeOK
  <2> QED
    BY <2>1, <2>2
<1>2. /\ lastTimeCalc' = now /\ lastTimeCalcValid' = lastTimeCalcValid
      /\ rateAbort' = rateAbort /\ mode' \in {"ramp_up", "gradual"}
  BY DEF Update, Recalculate
<1>3. now \in Int
  BY DEF TypeOK
<1>4. currBw' \in Nat /\ initBw' \in Nat /\ minBw' \in Nat /\ maxBw' \in Nat
  BY RatesAssumption DEF BoundsInv
<1> QED
  BY <1>1, <1>2, <1>3, <1>4 DEF NadaTypeOK

\* Every step keeps the types of this class.
LEMMA NadaNextTyped ==
  ASSUME TypeOK, TypeOK', NumberingInv', NadaTypeOK, BoundsInv, BoundsInv',
         [NadaNext]_allVars
  PROVE  NadaTypeOK'
<1>0. now \in Int
  BY DEF TypeOK
<1>1. ASSUME NEW seq \in SeqNr, NEW size \in Sizes, NadaSend(seq, size)
      PROVE NadaTypeOK'
  BY <1>0, <1>1 DEF NadaSend, NadaTypeOK, boundVars
<1>2. ASSUME NEW seq \in SeqNr, NEW rx \in RxTimes, NadaFeedback(seq, rx)
      PROVE NadaTypeOK'
  <2>1. CASE Update
    BY <2>1, UpdateTyped
  <2>2. CASE FirstFeedback
    BY <1>0, <2>2 DEF FirstFeedback, NadaTypeOK, boundVars
  <2>3. CASE AbortClock \/ AbortRxOrder
    BY <2>3 DEF AbortClock, AbortRxOrder, NadaTypeOK, boundVars, calcVars
  <2>4. CASE UNCHANGED nadaVars
    BY <2>4 DEF nadaVars, boundVars, calcVars, NadaTypeOK
  <2> QED
    BY <1>2, <2>1, <2>2, <2>3, <2>4 DEF NadaFeedback, NotYetDue
<1>3. CASE NadaReset
  <2>1. /\ lastTimeCalc' = 0 /\ lastTimeCalcValid' = FALSE /\ ploss' = 0
        /\ mode' = "none" /\ rateAbort' = rateAbort
    BY <1>3 DEF NadaReset
  <2>2. currBw' \in Nat /\ initBw' \in Nat /\ minBw' \in Nat /\ maxBw' \in Nat
    BY RatesAssumption DEF BoundsInv
  <2>3. lastTimeCalc' \in Int /\ ploss' \in Nat
    BY <2>1
  <2>4. lastTimeCalcValid' \in BOOLEAN /\ mode' \in {"none", "ramp_up", "gradual"}
    BY <2>1
  <2>5. rateAbort' \in {"no", "clock", "rx_order"}
    BY <2>1 DEF NadaTypeOK
  <2> QED
    BY <2>2, <2>3, <2>4, <2>5 DEF NadaTypeOK
<1>4. CASE NadaTick \/ NadaClockSetBack \/ UNCHANGED allVars
  BY <1>4 DEF NadaTick, NadaClockSetBack, allVars, nadaVars, boundVars, calcVars, NadaTypeOK
<1> QED
  BY <1>1, <1>2, <1>3, <1>4 DEF NadaNext

\* What the superclass keeps and the bounds, together.
LEMMA NadaInvariant ==
  NadaSpec => [](TypeOK /\ NumberingInv /\ BoundsInv)
<1>1. NadaInit => BoundsInv
  BY RatesAssumption DEF NadaInit, BoundsInv, BandwidthInRange
<1> QED
  BY <1>1, NadaKeepsNumbering, StepInRange, PTL DEF NadaSpec

\* The state of the class keeps its types; the number of lost packets is never
\* negative, because the log's numbers are in order and none is twice in it.
THEOREM NadaTypeCorrect == NadaSpec => []NadaTypeOK
<1>1. NadaInit => NadaTypeOK
  <2> SUFFICES ASSUME NadaInit PROVE NadaTypeOK
    OBVIOUS
  <2>1. currBw \in Nat /\ initBw \in Nat /\ minBw \in Nat /\ maxBw \in Nat
    BY RatesAssumption DEF NadaInit
  <2>2. lastTimeCalc \in Int /\ ploss \in Nat
    BY DEF NadaInit
  <2>3. lastTimeCalcValid \in BOOLEAN /\ mode \in {"none", "ramp_up", "gradual"}
    BY DEF NadaInit
  <2>4. rateAbort \in {"no", "clock", "rx_order"}
    BY DEF NadaInit
  <2> QED
    BY <2>1, <2>2, <2>3, <2>4 DEF NadaTypeOK
<1>2. /\ TypeOK /\ NumberingInv /\ BoundsInv /\ NadaTypeOK
      /\ (TypeOK /\ NumberingInv /\ BoundsInv)' /\ [NadaNext]_allVars
      => NadaTypeOK'
  BY NadaNextTyped
<1> QED
  BY <1>1, <1>2, NadaInvariant, PTL DEF NadaSpec

-----------------------------------------------------------------------------
(* When the estimate moves *)

\* Before the first packet or feedback after a start there is no mode.
ModeInv == lastTimeCalcValid = FALSE => mode = "none"

LEMMA ModeNext ==
  ASSUME ModeInv, [NadaNext]_allVars
  PROVE  ModeInv'
BY DEF ModeInv, NadaNext, NadaSend, NadaFeedback, NadaReset, NadaTick,
   NadaClockSetBack, FirstFeedback, AbortClock, NotYetDue, Update, Recalculate,
   AbortRxOrder, InTime, allVars, nadaVars, calcVars, boundVars

\* A step that moves the time of the last computation with a mode in force is
\* an update.
LEMMA RecalculatedIsUpdate ==
  ASSUME NadaTypeOK, ModeInv, [NadaNext]_allVars, Recalculated
  PROVE  Update
<1>1. ASSUME NEW seq \in SeqNr, NEW rx \in RxTimes, NadaFeedback(seq, rx)
      PROVE Update
  BY <1>1 DEF NadaFeedback, FirstFeedback, AbortClock, NotYetDue, AbortRxOrder,
     Recalculated, ModeInv, NadaTypeOK, nadaVars, calcVars
<1>2. ~UNCHANGED <<lastTimeCalc, mode>> /\ mode' # "none"
  BY DEF Recalculated
<1> QED
  BY <1>1, <1>2 DEF NadaNext, NadaSend, NadaReset, NadaTick, NadaClockSetBack,
     Recalculated, ModeInv, NadaTypeOK, allVars, nadaVars, calcVars

\* A ramp-up is decided on the log that includes the newest feedback: no delay
\* above the threshold, no gap in a log long enough to be judged, and the
\* estimate does not go down.
LEMMA RampUpStep ==
  ASSUME TypeOK', NumberingInv', BoundsInv, NadaTypeOK, ModeInv,
         [NadaNext]_allVars, Recalculated, mode' = "ramp_up"
  PROVE  /\ currBw' >= currBw
         /\ \A i \in 1 .. Len(history') : history'[i].owd <= baseDelay' + QEps
         /\ LongEnough(history') =>
              \A i \in 1 .. Len(history') - 1 :
                 history'[i + 1].seq = Succ(history'[i].seq)
<1>1. Recalculate(history', baseDelay')
  BY RecalculatedIsUpdate DEF Update
<1>2. RampUpMode(ploss', history', baseDelay')
  BY <1>1 DEF Recalculate
<1>3. currBw' >= currBw
  <2>1. PICK received \in Rates : currBw' = Clip(NeverDown(received))
    BY <1>1, <1>2 DEF Recalculate
  <2>2. /\ received \in Nat /\ currBw \in Nat /\ minBw \in Nat /\ maxBw \in Nat
        /\ minBw <= currBw /\ currBw <= maxBw
    BY RatesAssumption DEF BoundsInv, BandwidthInRange
  <2>3. NeverDown(received) \in Nat /\ NeverDown(received) >= currBw
    BY <2>2 DEF NeverDown
  <2> QED
    BY <2>1, <2>2, <2>3 DEF Clip, AtMostMax
<1>4. ASSUME NEW i \in 1 .. Len(history')
      PROVE  history'[i].owd <= baseDelay' + QEps
  <2>1. history'[i].owd - baseDelay' <= QEps
    BY <1>2 DEF RampUpMode, NoDelayBuildUp
  <2>2. history'[i] \in Acked /\ baseDelay' \in Int
    BY ElementOfSeq DEF TypeOK
  <2>3. history'[i].owd \in Int /\ QEps \in Int
    BY <2>2, RatesAssumption DEF Acked
  <2> QED
    BY <2>1, <2>2, <2>3
<1>5. ASSUME LongEnough(history')
      PROVE  \A i \in 1 .. Len(history') - 1 :
                history'[i + 1].seq = Succ(history'[i].seq)
  <2>1. ploss' = 0
    BY <1>2 DEF RampUpMode
  <2>2. ploss' = Losses(history')
    BY <1>1, <1>5 DEF Recalculate
  <2> QED
    BY <1>5, <2>1, <2>2, LogSpansNext
<1> QED
  BY <1>3, <1>4, <1>5

\* The invariant of this class and its superclass under NadaSpec.
LEMMA NadaAll ==
  NadaSpec => [](TypeOK /\ NumberingInv /\ BoundsInv /\ NadaTypeOK /\ ModeInv)
<1>1. NadaInit => ModeInv
  BY DEF NadaInit, ModeInv
<1>2. ModeInv /\ [NadaNext]_allVars => ModeInv'
  BY ModeNext
<1> QED
  BY <1>1, <1>2, NadaInvariant, NadaTypeCorrect, PTL DEF NadaSpec

\* Accelerated ramp-up happens only on a clean log, at any rate, window,
\* threshold and number width.
THEOREM RampUpTheorem == NadaSpec => RampUpOnCleanLog
<1> DEFINE Clean ==
      (Recalculated /\ mode' = "ramp_up") =>
         /\ currBw' >= currBw
         /\ \A i \in 1 .. Len(history') : history'[i].owd <= baseDelay' + QEps
         /\ LongEnough(history') =>
              \A i \in 1 .. Len(history') - 1 :
                 history'[i + 1].seq = Succ(history'[i].seq)
<1>1. /\ TypeOK /\ NumberingInv /\ BoundsInv /\ NadaTypeOK /\ ModeInv
      /\ (TypeOK /\ NumberingInv /\ BoundsInv /\ NadaTypeOK /\ ModeInv)'
      /\ [NadaNext]_allVars
      => [Clean]_allVars
  BY RampUpStep
<1> QED
  BY <1>1, NadaAll, PTL DEF NadaSpec, RampUpOnCleanLog

\* The estimate moves only by a reset or by an update at least Delta after the
\* one before; the log never grows while an update is overdue.
LEMMA PacedStep ==
  ASSUME TypeOK, NadaTypeOK, [NadaNext]_allVars
  PROVE  /\ currBw' # currBw =>
              NadaReset \/ (lastTimeCalc' = now /\ now - lastTimeCalc >= Delta)
         /\ (history' # history /\ history' # <<>> /\ rateAbort' = "no") =>
              lastTimeCalcValid' /\ now - lastTimeCalc' < Delta
<1> DEFINE Paced ==
      /\ currBw' # currBw =>
           NadaReset \/ (lastTimeCalc' = now /\ now - lastTimeCalc >= Delta)
      /\ (history' # history /\ history' # <<>> /\ rateAbort' = "no") =>
           lastTimeCalcValid' /\ now - lastTimeCalc' < Delta
<1>0. now \in Int /\ Delta \in Int /\ 0 < Delta /\ lastTimeCalc \in Int
  BY RatesAssumption DEF TypeOK, NadaTypeOK
<1>1. CASE NadaReset
  BY <1>1 DEF NadaReset, Reset
<1>2. CASE UNCHANGED <<currBw, history>>
  BY <1>2
<1>3. ASSUME NEW seq \in SeqNr, NEW rx \in RxTimes, NadaFeedback(seq, rx)
      PROVE  Paced
  <2>1. CASE FirstFeedback
    <3>1. currBw' = currBw /\ lastTimeCalc' = now
      BY <2>1 DEF FirstFeedback
    <3>2. lastTimeCalcValid'
      BY <2>1 DEF FirstFeedback
    <3>3. now - lastTimeCalc' < Delta
      BY <1>0, <3>1
    <3> QED
      BY <3>1, <3>2, <3>3
  <2>2. CASE AbortClock \/ AbortRxOrder
    <3>1. currBw' = currBw /\ rateAbort' # "no"
      BY <2>2 DEF AbortClock, AbortRxOrder, calcVars
    <3> QED
      BY <3>1
  <2>3. CASE NotYetDue
    <3>1. currBw' = currBw /\ lastTimeCalc' = lastTimeCalc
      BY <2>3 DEF NotYetDue, nadaVars, calcVars
    <3>2. lastTimeCalcValid'
      BY <2>3 DEF NotYetDue, InTime, nadaVars, calcVars
    <3>3. now - lastTimeCalc' < Delta
      BY <1>0, <2>3, <3>1 DEF NotYetDue, Due
    <3> QED
      BY <3>1, <3>2, <3>3
  <2>4. CASE Update
    <3>1. lastTimeCalc' = now
      BY <2>4 DEF Update, Recalculate
    <3>2. lastTimeCalcValid'
      BY <2>4 DEF Update, Recalculate, InTime
    <3>3. now - lastTimeCalc' < Delta /\ now - lastTimeCalc >= Delta
      BY <1>0, <2>4, <3>1 DEF Update, Due
    <3> QED
      BY <3>1, <3>2, <3>3
  <2>5. CASE (FeedbackFalse(seq) \/ FeedbackAborts(seq)) /\ UNCHANGED nadaVars
    <3>1. UNCHANGED <<currBw, history>>
      BY <2>5 DEF FeedbackFalse, FeedbackAborts, FeedbackFromFuture, FeedbackDecreasing,
         AbortBackNotLast, AbortHalfSpace, AbortInterLoss, vars, historyVars, nadaVars, calcVars
    <3> QED
      BY <1>2, <3>1
  <2> QED
    BY <1>3, <2>1, <2>2, <2>3, <2>4, <2>5 DEF NadaFeedback
<1>4. ASSUME NEW seq \in SeqNr, NEW size \in Sizes, NadaSend(seq, size)
      PROVE  UNCHANGED <<currBw, history>>
  BY <1>4 DEF NadaSend, ContractSend, SendAccepted, historyVars
<1>5. CASE NadaTick \/ NadaClockSetBack \/ UNCHANGED allVars
  BY <1>2, <1>5 DEF NadaTick, NadaClockSetBack, Tick, ClockSetBack, Unchanged, allVars,
     nadaVars, calcVars, vars, historyVars
<1> HIDE DEF Paced
<1>6. Paced
  BY <1>1, <1>2, <1>3, <1>4, <1>5 DEF NadaNext, Paced
<1> QED
  BY <1>6 DEF Paced

\* The estimate is paced, whatever the clock does.
THEOREM PacedTheorem == NadaSpec => RateIsPaced
<1>1. TypeOK /\ NadaTypeOK /\ [NadaNext]_allVars =>
        [/\ currBw' # currBw =>
              NadaReset \/ (lastTimeCalc' = now /\ now - lastTimeCalc >= Delta)
         /\ (history' # history /\ history' # <<>> /\ rateAbort' = "no") =>
              lastTimeCalcValid' /\ now - lastTimeCalc' < Delta]_allVars
  BY PacedStep
<1> QED
  BY <1>1, NadaAll, PTL DEF NadaSpec, RateIsPaced
-----------------------------------------------------------------------------
(* No assert fails *)

\* What the receive times of the log would have to be for getCurrentRecvRate.
ReceivedInOrder ==
  \A i, j \in 1 .. Len(history) : i < j => RxTime(history[i]) <= RxTime(history[j])

Quiet == rateAbort = "no" /\ (lastTimeCalcValid => lastTimeCalc <= now)

LEMMA OrderedNotDisordered ==
  ASSUME TypeOK, ReceivedInOrder PROVE ~RxDisordered(history)
<1> SUFFICES ASSUME LongEnough(history), RxTime(Head(history)) > RxTime(Last(history))
             PROVE  FALSE
  BY DEF RxDisordered
<1>1. history \in Seq(Acked) /\ Len(history) \in Nat
  BY DEF TypeOK
<1>2. 1 <= Len(history)
  BY <1>1, RatesAssumption DEF LongEnough
<1>3. PICK n \in Nat : n = Len(history) /\ 1 \in 1 .. n /\ n \in 1 .. n
  BY <1>1, <1>2
<1>4. Head(history) = history[1] /\ Last(history) = history[n]
  BY <1>1, <1>2, <1>3 DEF Last
<1>5. history[1] \in Acked /\ history[n] \in Acked
  BY <1>1, <1>3
<1>6. RxTime(history[1]) \in Int /\ RxTime(history[n]) \in Int
  BY <1>5 DEF RxTime, Acked, Sent
<1>7. RxTime(history[1]) <= RxTime(history[n])
  <2>1. CASE n = 1
    BY <1>6, <2>1
  <2>2. CASE 1 < n
    BY <1>3, <2>2 DEF ReceivedInOrder
  <2> QED
    BY <1>3, <2>1, <2>2
<1> QED
  BY <1>4, <1>6, <1>7

LEMMA QuietStep ==
  ASSUME TypeOK, TypeOK', NadaTypeOK, Quiet, [NadaNext]_allVars, [now' >= now]_now,
         ReceivedInOrder'
  PROVE  Quiet'
<1>0. now \in Int /\ now' \in Int /\ lastTimeCalc \in Int /\ now <= now'
  BY DEF TypeOK, NadaTypeOK
<1>1. ASSUME UNCHANGED <<rateAbort, lastTimeCalc, lastTimeCalcValid>> PROVE Quiet'
  BY <1>0, <1>1 DEF Quiet
<1>2. CASE NadaReset
  BY <1>2 DEF NadaReset, Quiet
<1>3. ASSUME NEW seq \in SeqNr, NEW size \in Sizes, NadaSend(seq, size) PROVE Quiet'
  <2>1. /\ rateAbort' = rateAbort
        /\ lastTimeCalc' = IF lastTimeCalcValid THEN lastTimeCalc ELSE now
    BY <1>3 DEF NadaSend
  <2>2. lastTimeCalc' <= now'
    BY <1>0, <2>1 DEF Quiet
  <2> QED
    BY <2>1, <2>2 DEF Quiet
<1>4. ASSUME NEW seq \in SeqNr, NEW rx \in RxTimes, NadaFeedback(seq, rx) PROVE Quiet'
  <2>1. CASE UNCHANGED nadaVars
    BY <1>1, <2>1 DEF nadaVars, calcVars
  <2>2. CASE FirstFeedback
    BY <1>0, <2>2 DEF FirstFeedback, Quiet
  <2>3. CASE AbortClock
    BY <1>0, <2>3 DEF AbortClock, Quiet
  <2>4. CASE NotYetDue
    BY <2>1, <2>4 DEF NotYetDue
  <2>5. CASE Update
    BY <1>0, <2>5 DEF Update, Recalculate, Quiet
  <2>6. ~AbortRxOrder
    <3>1. ~RxDisordered(history)'
      <4>1. TypeOK' /\ ReceivedInOrder' => ~RxDisordered(history)'
        BY OrderedNotDisordered, PTL
      <4> QED
        BY <4>1
    <3> QED
      BY <3>1 DEF AbortRxOrder, RxDisordered, LongEnough, RxTime, Last
  <2> QED
    BY <1>4, <2>1, <2>2, <2>3, <2>4, <2>5, <2>6 DEF NadaFeedback
<1>5. CASE NadaTick \/ NadaClockSetBack \/ UNCHANGED allVars
  BY <1>1, <1>5 DEF NadaTick, NadaClockSetBack, allVars, nadaVars, calcVars
<1> QED
  BY <1>2, <1>3, <1>4, <1>5 DEF NadaNext

\* No assert of either class ends the process as long as the wall clock is not
\* set back and packets are received in the order in which they were sent:
\* NoAbort for the whole controller, and the only causes of its other two
\* asserts (processFeedback, getCurrentRecvRate).
THEOREM NoAssertFails ==
  NadaSpec /\ [][now' >= now]_now /\ []ReceivedInOrder => [](NoAbort /\ rateAbort = "no")
<1>1. NadaInit => Quiet
  BY DEF NadaInit, Quiet
<1>2. /\ TypeOK /\ NadaTypeOK /\ Quiet /\ TypeOK' /\ ReceivedInOrder'
      /\ [NadaNext]_allVars /\ [now' >= now]_now
      => Quiet'
  BY QuietStep
<1>3. NumberingInv => NoAbort
  BY DEF NumberingInv, NoAbort
<1>4. Quiet => rateAbort = "no"
  BY DEF Quiet
<1> QED
  BY <1>1, <1>2, <1>3, <1>4, NadaAll, PTL DEF NadaSpec
=============================================================================
