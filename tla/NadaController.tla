--------------------------- MODULE NadaController ---------------------------
(***************************************************************************)
(* rmcat::NadaController on top of SenderController: when the bandwidth    *)
(* estimate is recomputed, in which mode, and within which bounds.         *)
(*                                                                         *)
(* The congestion signal (delay warping, smoothed loss ratio, loss inter-  *)
(* val average) is real-valued and only scales the gradual update, so a    *)
(* gradual update may yield any rate and a ramp-up any received rate; the  *)
(* choice of the mode, the clipping and every assert are kept.             *)
(***************************************************************************)
EXTENDS SenderController

CONSTANTS
  Delta,           \* NADA_PARAM_DELTA_US
  QEps,            \* NADA_PARAM_QEPS_US
  MinPacketLog,    \* MIN_PACKET_LOGLEN
  Rates,           \* the rates a computation may yield before clipping
  DefaultBw, DefaultMinBw, DefaultMaxBw,  \* RMCAT_CC_DEFAULT_RINIT, RMIN, RMAX
  GlueMinBw, GlueMaxBw                    \* arguments of NewController

ASSUME RatesAssumption ==
  /\ Delta \in Nat \ {0} /\ QEps \in Nat /\ MinPacketLog \in Nat \ {0}
  /\ Rates \subseteq Nat
  /\ DefaultBw \in Nat /\ DefaultMinBw \in Nat /\ DefaultMaxBw \in Nat
  /\ GlueMinBw \in Nat /\ GlueMaxBw \in Nat
  /\ DefaultMinBw <= DefaultBw /\ DefaultBw <= DefaultMaxBw
  /\ GlueMinBw <= DefaultBw /\ DefaultBw <= GlueMaxBw

VARIABLES
  lastTimeCalc, lastTimeCalcValid,
  ploss,                   \* m_ploss, packets lost within the log
  currBw, initBw, minBw, maxBw,
  mode,                    \* of the last update: "none", "ramp_up", "gradual"
  rateAbort                \* the assert of this class that ended the process

boundVars == <<initBw, minBw, maxBw>>
calcVars == <<lastTimeCalc, lastTimeCalcValid, ploss, currBw, mode>>
nadaVars == <<calcVars, boundVars, rateAbort>>
allVars == <<vars, nadaVars>>

\* The object as NewController hands it out.
NadaInit ==
  /\ Init
  /\ lastTimeCalc = 0 /\ lastTimeCalcValid = FALSE /\ ploss = 0
  /\ currBw = DefaultBw /\ initBw = DefaultBw
  /\ minBw = GlueMinBw /\ maxBw = GlueMaxBw
  /\ mode = "none" /\ rateAbort = "no"

\* NadaController::reset.  The estimate takes the initial bandwidth before
\* the superclass restores its default.
NadaReset ==
  /\ Reset
  /\ lastTimeCalc' = 0 /\ lastTimeCalcValid' = FALSE /\ ploss' = 0
  /\ currBw' = initBw
  /\ initBw' = DefaultBw /\ minBw' = DefaultMinBw /\ maxBw' = DefaultMaxBw
  /\ mode' = "none" /\ UNCHANGED rateAbort

-----------------------------------------------------------------------------
\* NadaController::processSendPacket: the first packet starts the interval.
NadaSend(seq, size) ==
  /\ ContractSend(seq, size)
  /\ lastTimeCalcValid' = TRUE
  /\ lastTimeCalc' = IF lastTimeCalcValid THEN lastTimeCalc ELSE now
  /\ UNCHANGED <<ploss, currBw, mode, boundVars, rateAbort>>

-----------------------------------------------------------------------------
\* getPktLossInfo on a log: the numbers it spans that are not in it.
LossesWithoutLast(log) == Minus(Last(log).seq, Head(log).seq) - Len(log)
Span(log) == Minus(Last(log).seq, Head(log).seq) + 1
Losses(log) == Span(log) - Len(log)

LongEnough(log) == Len(log) >= MinPacketLog

\* assert(lessThan(firstRxUs, lastRxUs + 1)) of getCurrentRecvRate
RxTime(p) == p.tx + p.owd
RxDisordered(log) == LongEnough(log) /\ RxTime(Head(log)) > RxTime(Last(log))

\* getRampUpMode
DelayAtLastOnly(log, base) == log = <<>> \/ Last(log).owd - base <= QEps
NoDelayBuildUp(log, base) == \A i \in 1 .. Len(log) : log[i].owd - base <= QEps

RampUpMode(losses, log, base) == losses = 0 /\ NoDelayBuildUp(log, base)

\* updateBw: the new rate clipped, first from above and then from below.
AtMostMax(rate) == IF rate > maxBw THEN maxBw ELSE rate
ClipAboveOnly(rate) == AtMostMax(rate)
Clip(rate) == IF AtMostMax(rate) < minBw THEN minBw ELSE AtMostMax(rate)

\* calcGradualRateUpdate weighs the congestion signal of calcDtilde and
\* updateXcurr, real-valued all three: it may yield any rate.
GradualRates == Rates

\* calcAcceleratedRampUp keeps the larger of the estimate and the new rate.
NeverDown(rate) == IF currBw < rate THEN rate ELSE currBw

Recalculate(log, base) ==
  /\ ~RxDisordered(log)
  /\ ploss' = IF LongEnough(log) THEN Losses(log) ELSE ploss
  /\ IF RampUpMode(ploss', log, base)
     THEN /\ mode' = "ramp_up"
          /\ \E received \in Rates : currBw' = Clip(NeverDown(received))
     ELSE /\ mode' = "gradual"
          /\ \E rate \in GradualRates : currBw' = Clip(rate)
  /\ lastTimeCalc' = now
  /\ UNCHANGED <<lastTimeCalcValid, boundVars, rateAbort>>

\* NadaController::processFeedback after the superclass returned true.
FirstFeedback ==
  /\ ~lastTimeCalcValid
  /\ lastTimeCalc' = now /\ lastTimeCalcValid' = TRUE
  /\ UNCHANGED <<ploss, currBw, mode, boundVars, rateAbort>>

\* assert(lessThan(m_lastTimeCalcUs, nowUs + 1))
AbortClock ==
  /\ lastTimeCalcValid /\ lastTimeCalc > now
  /\ rateAbort' = "clock" /\ UNCHANGED <<calcVars, boundVars>>

DueAtOnce == TRUE
Due == now - lastTimeCalc >= Delta

InTime == lastTimeCalcValid /\ lastTimeCalc <= now

NotYetDue == InTime /\ ~Due /\ UNCHANGED nadaVars

Update == InTime /\ Due /\ Recalculate(history', baseDelay')

AbortRxOrder ==
  /\ InTime /\ Due /\ RxDisordered(history')
  /\ rateAbort' = "rx_order" /\ UNCHANGED <<calcVars, boundVars>>

NadaFeedback(seq, rx) ==
  /\ 2 * Minus(lastSequence, seq) # SeqModulus
  /\ \/ (FeedbackFalse(seq) \/ FeedbackAborts(seq)) /\ UNCHANGED nadaVars
     \/ /\ FeedbackTrue(seq, rx)
        /\ FirstFeedback \/ AbortClock \/ NotYetDue \/ Update \/ AbortRxOrder

NadaTick == Tick /\ UNCHANGED nadaVars
NadaClockSetBack == ClockSetBack /\ UNCHANGED nadaVars

NadaAlive == Alive /\ rateAbort = "no"

NadaNext ==
  /\ NadaAlive
  /\ \/ \E seq \in SeqNr, size \in Sizes : NadaSend(seq, size)
     \/ \E seq \in SeqNr, rx \in RxTimes : NadaFeedback(seq, rx)
     \/ NadaReset
     \/ NadaTick
     \/ NadaClockSetBack

NadaSpec == NadaInit /\ [][NadaNext]_allVars

-----------------------------------------------------------------------------
(* Properties *)

\* Every variable of this class has its type; ploss is a natural number
\* because the log never spans fewer numbers than it has entries, which is
\* what getPktLossInfo asserts.
NadaTypeOK ==
  /\ lastTimeCalc \in Int /\ lastTimeCalcValid \in BOOLEAN
  /\ ploss \in Nat
  /\ currBw \in Nat /\ initBw \in Nat /\ minBw \in Nat /\ maxBw \in Nat
  /\ mode \in {"none", "ramp_up", "gradual"}
  /\ rateAbort \in {"no", "clock", "rx_order"}

\* What getBandwidth returns lies between the bounds in force, before the
\* first update, after every update and after a reset: the promise of
\* setMinBw and setMaxBw.
BandwidthInRange == minBw <= currBw /\ currBw <= maxBw

Recalculated == mode' # "none" /\ lastTimeCalc' # lastTimeCalc

\* A ramp-up is decided on the log that includes the newest feedback: when the
\* log is long enough to be judged, it has no gap and no delay above the
\* threshold, and the estimate does not go down.
RampUpOnCleanLog ==
  [][(Recalculated /\ mode' = "ramp_up") =>
       /\ currBw' >= currBw
       /\ \A i \in 1 .. Len(history') : history'[i].owd <= baseDelay' + QEps
       /\ LongEnough(history') =>
            \A i \in 1 .. Len(history') - 1 :
               history'[i + 1].seq = Succ(history'[i].seq)]_allVars

\* The estimate moves only by an update at least Delta after the one before
\* (or by a reset), and the log never grows while an update is overdue.
RateIsPaced ==
  [][/\ currBw' # currBw =>
          NadaReset \/ (lastTimeCalc' = now /\ now - lastTimeCalc >= Delta)
     /\ (history' # history /\ history' # <<>> /\ rateAbort' = "no") =>
          lastTimeCalcValid' /\ now - lastTimeCalc' < Delta]_allVars

\* The comment of getRampUpMode: accelerated ramp-up requires "No recent
\* packet losses within the observation window LOGWIN".
NoRampUpAfterLoss ==
  [][(Recalculated /\ mode' = "ramp_up") =>
       \A i \in 1 .. Len(history') - 1 :
          history'[i + 1].seq = Succ(history'[i].seq)]_allVars

\* The header: an assert means a bug in the function's logic.  Receive times
\* that do not follow the sending order must not end the process.
ReorderingNeverAborts == rateAbort # "rx_order"
=============================================================================
