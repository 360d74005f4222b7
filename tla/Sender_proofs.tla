---------------------------- MODULE Sender_proofs ----------------------------
(***************************************************************************)
(* Sender and ScreamTxBw for any set of threads, rates and bounds.         *)
(***************************************************************************)
EXTENDS Sender, SequenceTheorems, TLAPS

RateRange == 0 .. RateModulus - 1
SetterState == [pc : SetterPlaces, rate : RateRange, at : Nat]

-----------------------------------------------------------------------------
(* Types, and the discipline of the encoder's settings mutex *)

MutexOK == \A s \in Setters : lockedBy = s <=> setter[s].pc = "set"

LEMMA ProductTyped ==
  ASSUME NEW rate \in RateRange
  PROVE  Product(rate) \in RateRange
<1>1. PICK p \in Nat : p = rate * Multiply
  BY RatesAssumption DEF RateRange
<1>2. p % RateModulus \in RateRange
  BY <1>1, RatesAssumption DEF RateRange
<1> QED  BY <1>1, <1>2 DEF Product

LEMMA InitSenderTyped == Init => SenderTypeOK
<1> SUFFICES ASSUME Init PROVE SenderTypeOK
  OBVIOUS
<1>1. EncoderTypeOK
  BY DefaultAssumption DEF Init, EncoderInit, EncoderTypeOK
<1>2. 0 \in RateRange
  BY RatesAssumption DEF RateRange
<1>3. /\ setter \in [Setters -> SetterState]
      /\ info \in [rate : RateRange, st : Nat] /\ bitrate \in RateRange
      /\ \A s \in Setters : setter[s].pc = "idle"
  BY <1>2 DEF Init, SetterState, SetterPlaces
<1>4. MutexOK
  BY <1>3, SettersAssumption DEF Init, EncoderInit, MutexOK
<1>5. bus \in Seq({"eos", "error"})
  BY DEF Init
<1> QED
  BY <1>1, <1>3, <1>4, <1>5
     DEF Init, SenderTypeOK, MainPlaces, MutexOK, RateRange, SetterState

\* The types apart from those of the main thread and its bus.
SettersOK ==
  /\ lockedBy \in Setters \union {NoSetter}
  /\ encoderRate \in Nat /\ target \in Nat \union {Untold}
  /\ bitrate \in RateRange /\ heard \in BOOLEAN /\ crossed \in BOOLEAN
  /\ setter \in [Setters -> SetterState]
  /\ info \in [rate : RateRange, st : Nat]
  /\ changes \in Nat
  /\ MutexOK

PadsOK ==
  /\ started \in BOOLEAN /\ cb \in {"idle", "open"}
  /\ encoderEos \in BOOLEAN /\ encoderFlushing \in BOOLEAN
  /\ encoderPanicked \in BOOLEAN /\ refused \in BOOLEAN
  /\ aborted \in {"none", "push", "overflow", "clock"}

MainOK ==
  /\ program \in {"sender", "receiver"} /\ named \in BOOLEAN
  /\ overflowChecks \in BOOLEAN
  /\ main \in MainPlaces /\ bus \in Seq({"eos", "error"})
  /\ posted \in BOOLEAN /\ errors \in Nat
  /\ poll \in {"none", "polling", "dead"} /\ connected \in BOOLEAN

ClockOK == clock \in Nat /\ setBack \in BOOLEAN

LEMMA TypeParts ==
  /\ SenderTypeOK <=> SettersOK /\ PadsOK /\ MainOK /\ ClockOK
  /\ SenderTypeOK' <=> SettersOK' /\ PadsOK' /\ MainOK' /\ ClockOK'
BY DEF SenderTypeOK, EncoderTypeOK, SettersOK, PadsOK, MainOK, ClockOK, MutexOK,
       RateRange, SetterState

\* Steps that leave the setters and the encoder's rate alone.
Aside ==
  \/ MainStep \/ PollPanics \/ PostEos \/ PostError \/ EncoderStep \/ Tick
  \/ SetClockBack

LEMMA AsideFrame ==
  ASSUME Aside
  PROVE  UNCHANGED <<rateVars, notifyVars>>
BY DEF Aside, MainStep, Launch, Play, Connect, Run, Dispatch, StopPads, StopDone,
       Exit, PollPanics, PostEos, PostError, EncoderStep, Tick, SetClockBack,
       InitLibrary, EncoderStops, CallbackTest, CallbackPush, CallbackAborts,
       EncoderEos, EncoderPanics, DownstreamRefuses, encoderVars

LEMMA AsideTyped ==
  ASSUME SenderTypeOK, Aside
  PROVE  SenderTypeOK'
<1>1. SettersOK /\ PadsOK /\ MainOK /\ ClockOK
  BY TypeParts
<1>2. SettersOK'
  BY <1>1, AsideFrame DEF SettersOK, MutexOK, rateVars, notifyVars
<1>3. PadsOK'
  BY <1>1
     DEF Aside, MainStep, Launch, Play, Connect, Run, Dispatch, StopPads, StopDone,
         Exit, PollPanics, PostEos, PostError, EncoderStep, Tick, SetClockBack,
         InitLibrary, EncoderStops, CallbackTest, CallbackPush, CallbackAborts,
         EncoderEos, EncoderPanics, DownstreamRefuses, encoderVars, padVars,
         otherFlags, PadsOK
<1>4. ClockOK'
  <2>1. CASE Tick \/ SetClockBack
    <3>1. clock' \in Nat
      BY <1>1, <2>1 DEF Tick, SetClockBack, ClockOK
    <3>2. setBack' \in BOOLEAN
      BY <1>1, <2>1, Zenon DEF Tick, SetClockBack, ClockOK
    <3> QED  BY <3>1, <3>2 DEF ClockOK
  <2>2. CASE MainStep \/ PollPanics \/ PostEos \/ PostError \/ EncoderStep
    <3>1. UNCHANGED clockVars
      BY <2>2
         DEF MainStep, Launch, Play, Connect, Run, Dispatch, StopPads, StopDone,
             Exit, PollPanics, PostEos, PostError, EncoderStep
    <3> QED  BY <1>1, <3>1 DEF clockVars, ClockOK
  <2> QED  BY <2>1, <2>2 DEF Aside
<1>5. MainOK'
  <2>1. CASE Launch \/ Play \/ Connect \/ Run \/ StopPads \/ StopDone \/ Exit
    BY <1>1, <2>1
       DEF Launch, Play, Connect, Run, StopPads, StopDone, Exit, MainOK,
           MainPlaces, settled
  <2>2. CASE Dispatch
    <3>1. bus' \in Seq({"eos", "error"})
      BY <1>1, <2>2 DEF Dispatch, BusAfter, MainOK
    <3> QED  BY <1>1, <2>2, <3>1 DEF Dispatch, MainOK, MainPlaces, settled
  <2>3. CASE PollPanics
    BY <1>1, <2>3 DEF PollPanics, MainOK, settled
  <2>4. CASE PostEos \/ PostError
    <3>1. bus \in Seq({"eos", "error"}) /\ errors \in Nat
      BY <1>1 DEF MainOK
    <3>2. bus' = Append(bus, "eos") \/ bus' = Append(bus, "error")
      BY <2>4 DEF PostEos, PostError
    <3>3. bus' \in Seq({"eos", "error"})
      BY <3>1, <3>2, AppendProperties
    <3>4. errors' \in Nat
      BY <2>4, <3>1 DEF PostEos, PostError
    <3>5. /\ posted' \in BOOLEAN
          /\ UNCHANGED <<settled, main, poll, connected>>
      BY <1>1, <2>4, Zenon DEF PostEos, PostError, MainOK
    <3> QED  BY <1>1, <3>3, <3>4, <3>5 DEF MainOK, settled
  <2>5. CASE EncoderStep \/ Tick \/ SetClockBack
    BY <1>1, <2>5 DEF EncoderStep, Tick, SetClockBack, MainOK, settled, mainVars
  <2> QED  BY <2>1, <2>2, <2>3, <2>4, <2>5 DEF Aside, MainStep
<1> QED  BY <1>2, <1>3, <1>4, <1>5, TypeParts

\* What a setter's step makes of the setters' states.
LEMMA SetterUpdates ==
  ASSUME SettersOK, NEW s \in Setters, NEW pc \in SetterPlaces,
         NEW rate \in RateRange, NEW at \in Nat
  PROVE  /\ [setter EXCEPT ![s].pc = pc] \in [Setters -> SetterState]
         /\ [setter EXCEPT ![s].pc = pc, ![s].rate = rate] \in [Setters -> SetterState]
         /\ [setter EXCEPT ![s].pc = pc, ![s].at = at] \in [Setters -> SetterState]
BY DEF SettersOK, SetterState

Setting ==
  \/ \E rate \in Rates : StreamStore(rate)
  \/ \E s \in Setters, rate \in Rates : ApplicationStore(s, rate)
  \/ \E s \in Setters : SetterStep(s)

LEMMA SettingFrame ==
  ASSUME Setting
  PROVE  UNCHANGED <<settled, mainVars, clockVars, padVars>>
BY DEF Setting, StreamStore, ApplicationStore, SetterStep, NotifyUnheard,
       HandlerReads, HandlerOverflows, HandlerStores, HandlerTells, HandlerCounts,
       HandlerUnderflows, StoreRate, TellLibrary, encoderVars

\* A setter that is not inside the encoder's set_property stays outside of
\* it, or enters it when the mutex is free, or leaves it.
LEMMA SettingTyped ==
  ASSUME SenderTypeOK, Setting
  PROVE  SenderTypeOK'
<1>1. SettersOK /\ PadsOK /\ MainOK /\ ClockOK
  BY TypeParts
<1>2. MainOK' /\ ClockOK'
  BY <1>1, SettingFrame DEF MainOK, ClockOK, settled, mainVars, clockVars
<1>3. PadsOK'
  <2>1. aborted' \in {"none", "push", "overflow", "clock"}
    BY <1>1
       DEF PadsOK, Setting, StreamStore, ApplicationStore, SetterStep, NotifyUnheard,
           HandlerReads, HandlerOverflows, HandlerStores, HandlerTells, HandlerCounts,
           HandlerUnderflows, StoreRate, TellLibrary, encoderVars
  <2> QED  BY <1>1, <2>1, SettingFrame DEF PadsOK, padVars
<1>4. Rates \subseteq RateRange /\ RateRange \subseteq Nat
      /\ {"idle", "notify", "read", "set", "told"} = SetterPlaces
  BY RatesAssumption DEF RateRange, SetterPlaces, InHandler
<1>5. SettersOK'
  <2>1. ASSUME NEW s \in Setters, NEW rate \in Rates,
               \/ s = Stream /\ StreamStore(rate)
               \/ ApplicationStore(s, rate)
        PROVE  SettersOK'
    <3>1. PICK pc \in {"notify", "idle"} : setter' = [setter EXCEPT ![s].pc = pc]
      BY <2>1 DEF StreamStore, ApplicationStore
    <3>2. setter[s].pc = "idle" /\ bitrate' = rate /\ changes' = changes + 1
          /\ UNCHANGED <<rateVars, heard, crossed, info>>
      BY <2>1 DEF StreamStore, ApplicationStore, encoderVars
    <3>3. setter' \in [Setters -> SetterState]
      BY <1>1, <1>4, <3>1, SetterUpdates DEF SettersOK
    <3>4. MutexOK'
      BY <1>1, <3>1, <3>2 DEF SettersOK, MutexOK, SetterState, rateVars
    <3>5. changes' \in Nat /\ bitrate' \in RateRange
      BY <1>1, <1>4, <3>2 DEF SettersOK
    <3> QED  BY <1>1, <3>2, <3>3, <3>4, <3>5 DEF SettersOK, rateVars
  <2>2. ASSUME NEW s \in Setters, NotifyUnheard(s)
        PROVE  SettersOK'
    <3>1. setter' \in [Setters -> SetterState]
      BY <1>1, <1>4, <2>2, SetterUpdates DEF NotifyUnheard, SettersOK
    <3>2. MutexOK'
      BY <1>1, <2>2 DEF NotifyUnheard, SettersOK, MutexOK, SetterState, rateVars, encoderVars
    <3> QED  BY <1>1, <2>2, <3>1, <3>2 DEF NotifyUnheard, SettersOK, rateVars, encoderVars
  <2>3. ASSUME NEW s \in Setters, HandlerReads(s)
        PROVE  SettersOK'
    <3>1. setter' \in [Setters -> SetterState]
      BY <1>1, <1>4, <2>3, SetterUpdates DEF HandlerReads, SettersOK
    <3>2. MutexOK'
      BY <1>1, <2>3 DEF HandlerReads, SettersOK, MutexOK, SetterState, rateVars, encoderVars
    <3>3. heard' \in BOOLEAN /\ crossed' \in BOOLEAN
      BY <1>1, <2>3, Zenon DEF HandlerReads
    <3> QED  BY <1>1, <2>3, <3>1, <3>2, <3>3 DEF HandlerReads, SettersOK, rateVars, encoderVars
  <2>4. ASSUME NEW s \in Setters, HandlerOverflows(s) \/ HandlerUnderflows(s)
        PROVE  SettersOK'
    BY <1>1, <2>4 DEF HandlerOverflows, HandlerUnderflows, SettersOK, MutexOK,
                      rateVars, notifyVars
  <2>5. ASSUME NEW s \in Setters, HandlerStores(s)
        PROVE  SettersOK'
    <3>1. setter[s].rate \in RateRange
      BY <1>1 DEF SettersOK, SetterState
    <3>2. Product(setter[s].rate) \in RateRange /\ Product(setter[s].rate) \in Nat
      BY <1>4, <3>1, ProductTyped
    <3>3. setter' \in [Setters -> SetterState]
      BY <1>1, <1>4, <2>5, <3>2, SetterUpdates DEF HandlerStores, SettersOK
    <3>4. MutexOK'
      BY <1>1, <2>5, SettersAssumption
         DEF HandlerStores, StoreRate, Held, SettersOK, MutexOK, SetterState
    <3> QED
      BY <1>1, <2>5, <3>2, <3>3, <3>4 DEF HandlerStores, StoreRate, Held, SettersOK
  <2>6. ASSUME NEW s \in Setters, HandlerTells(s)
        PROVE  SettersOK'
    <3>1. setter[s].rate \in Nat
      BY <1>1, <1>4 DEF SettersOK, SetterState
    <3>2. setter' \in [Setters -> SetterState]
      BY <1>1, <1>4, <2>6, SetterUpdates DEF HandlerTells, SettersOK, ClockOK
    <3>3. lockedBy = s
      BY <1>1, <2>6 DEF HandlerTells, SettersOK, MutexOK
    <3>4. MutexOK'
      BY <1>1, <2>6, <3>3, SettersAssumption
         DEF HandlerTells, TellLibrary, SettersOK, MutexOK, SetterState
    <3> QED  BY <1>1, <2>6, <3>1, <3>2, <3>4 DEF HandlerTells, TellLibrary, SettersOK
  <2>7. ASSUME NEW s \in Setters, HandlerCounts(s)
        PROVE  SettersOK'
    <3>1. setter' \in [Setters -> SetterState]
      BY <1>1, <1>4, <2>7, SetterUpdates DEF HandlerCounts, SettersOK
    <3>2. info' \in [rate : RateRange, st : Nat]
      BY <1>1, <2>7 DEF HandlerCounts, SettersOK, SetterState
    <3>3. MutexOK'
      BY <1>1, <2>7 DEF HandlerCounts, SettersOK, MutexOK, SetterState, rateVars, encoderVars
    <3> QED  BY <1>1, <2>7, <3>1, <3>2, <3>3 DEF HandlerCounts, SettersOK, rateVars, encoderVars
  <2> QED
    BY <2>1, <2>2, <2>3, <2>4, <2>5, <2>6, <2>7, StreamAssumption DEF Setting, SetterStep
<1> QED  BY <1>2, <1>3, <1>5, TypeParts

LEMMA NextCases ==
  ASSUME [Next]_vars
  PROVE  Aside \/ Setting \/ UNCHANGED vars
BY DEF Next, Aside, Setting

LEMMA TypeStep == SenderTypeOK /\ [Next]_vars => SenderTypeOK'
<1> SUFFICES ASSUME SenderTypeOK, [Next]_vars PROVE SenderTypeOK'
  OBVIOUS
<1>1. CASE Aside    BY <1>1, AsideTyped
<1>2. CASE Setting  BY <1>2, SettingTyped
<1>3. CASE UNCHANGED vars
  BY <1>3
     DEF vars, encoderVars, rateVars, padVars, settled, mainVars, notifyVars,
         clockVars, SenderTypeOK, EncoderTypeOK
<1> QED  BY <1>1, <1>2, <1>3, NextCases

\* A thread holds the encoder's settings mutex exactly while it is inside
\* set_property, and all rates fit 32 bits.
THEOREM SenderTypeCorrect == Spec => []SenderTypeOK
  BY InitSenderTyped, TypeStep, PTL DEF Spec

-----------------------------------------------------------------------------
(* How the setters move *)

Moves(s, from, to) ==
  /\ setter[s].pc = from /\ setter'[s].pc = to
  /\ \A o \in Setters \ {s} : setter'[o] = setter[o]

KeepsRate(s) == setter'[s].rate = setter[s].rate
KeepsTime(s) == setter'[s].at = setter[s].at

Stores(s) ==
  \E rate \in Rates : (s = Stream /\ StreamStore(rate)) \/ ApplicationStore(s, rate)

\* The step a setter takes, seen from its own state.
LEMMA StoreMoves ==
  ASSUME SettersOK, NEW s \in Setters, Stores(s)
  PROVE  /\ Moves(s, "idle", "notify") \/ (Moves(s, "idle", "idle") /\ bitrate' = bitrate)
         /\ KeepsRate(s) /\ KeepsTime(s)
         /\ UNCHANGED <<rateVars, heard, crossed, info, aborted>>
<1>1. /\ setter[s].pc = "idle" /\ UNCHANGED <<rateVars, heard, crossed, info, aborted>>
      /\ \/ setter' = [setter EXCEPT ![s].pc = "notify"]
         \/ setter' = [setter EXCEPT ![s].pc = "idle"] /\ bitrate' = bitrate
  <2>0. PICK rate \in Rates :
          (s = Stream /\ StreamStore(rate)) \/ ApplicationStore(s, rate)
    BY DEF Stores
  <2>1. CASE s = Stream /\ StreamStore(rate)
    <3>1. CASE Differs(rate)
      BY <2>1, <3>1 DEF StreamStore, encoderVars
    <3>2. CASE ~Differs(rate)
      BY <2>1, <3>2 DEF StreamStore, Differs, encoderVars
    <3> QED  BY <3>1, <3>2
  <2>2. CASE ApplicationStore(s, rate)
    BY <2>2 DEF ApplicationStore, encoderVars
  <2> QED  BY <2>0, <2>1, <2>2
<1>2. setter' = [setter EXCEPT ![s].pc = "notify"]
        => Moves(s, "idle", "notify") /\ KeepsRate(s) /\ KeepsTime(s)
  BY <1>1 DEF Moves, KeepsRate, KeepsTime, SettersOK, SetterState
<1>3. setter' = [setter EXCEPT ![s].pc = "idle"]
        => Moves(s, "idle", "idle") /\ KeepsRate(s) /\ KeepsTime(s)
  BY <1>1 DEF Moves, KeepsRate, KeepsTime, SettersOK, SetterState
<1> QED  BY <1>1, <1>2, <1>3, Zenon

LEMMA UnheardMoves ==
  ASSUME SettersOK, NEW s \in Setters, NotifyUnheard(s)
  PROVE  /\ Moves(s, "notify", "idle") /\ KeepsRate(s) /\ KeepsTime(s)
         /\ UNCHANGED <<rateVars, bitrate, heard, crossed, info, aborted>>
BY DEF NotifyUnheard, Moves, KeepsRate, KeepsTime, SettersOK, SetterState, encoderVars

LEMMA ReadMoves ==
  ASSUME SettersOK, NEW s \in Setters, HandlerReads(s)
  PROVE  /\ Moves(s, "notify", "read") /\ KeepsTime(s) /\ setter'[s].rate = bitrate
         /\ UNCHANGED <<rateVars, bitrate, info, aborted>> /\ heard'
         /\ ~crossed' => \A o \in Setters \ {s} : setter[o].pc \notin InHandler
<1>1. ~crossed' => \A o \in Setters \ {s} : setter[o].pc \notin InHandler
  BY DEF HandlerReads, Others
<1> QED
  BY <1>1 DEF HandlerReads, Moves, KeepsTime, SettersOK, SetterState, encoderVars

LEMMA StopMoves ==
  ASSUME NEW s \in Setters, HandlerOverflows(s) \/ HandlerUnderflows(s)
  PROVE  UNCHANGED <<rateVars, notifyVars>>
BY DEF HandlerOverflows, HandlerUnderflows

LEMMA StoresMoves ==
  ASSUME SettersOK, NEW s \in Setters, HandlerStores(s)
  PROVE  /\ Moves(s, "read", "set") /\ KeepsTime(s)
         /\ setter'[s].rate = Product(setter[s].rate)
         /\ lockedBy = NoSetter /\ lockedBy' = s
         /\ encoderRate' = Product(setter[s].rate)
         /\ UNCHANGED <<target, bitrate, heard, crossed, info, aborted>>
BY DEF HandlerStores, StoreRate, Held, Moves, KeepsTime, SettersOK, SetterState

LEMMA TellsMoves ==
  ASSUME SettersOK, NEW s \in Setters, HandlerTells(s)
  PROVE  /\ Moves(s, "set", "told") /\ KeepsRate(s) /\ setter'[s].at = clock
         /\ target' = setter[s].rate
         /\ UNCHANGED <<encoderRate, bitrate, heard, crossed, info, aborted>>
BY DEF HandlerTells, TellLibrary, Moves, KeepsRate, SettersOK, SetterState

LEMMA CountsMoves ==
  ASSUME SettersOK, NEW s \in Setters, HandlerCounts(s)
  PROVE  /\ Moves(s, "told", "idle") /\ KeepsRate(s) /\ KeepsTime(s)
         /\ info'.st = info.st \/ info'.st = setter[s].at
         /\ UNCHANGED <<rateVars, bitrate, heard, crossed, aborted>>
BY DEF HandlerCounts, Moves, KeepsRate, KeepsTime, SettersOK, SetterState, encoderVars

\* Case analysis over the steps of the setters.
LEMMA SettingCases ==
  ASSUME Setting
  PROVE  \E s \in Setters : Stores(s) \/ SetterStep(s)
BY StreamAssumption DEF Setting, Stores

-----------------------------------------------------------------------------
(* The library and the property of the encoder *)

TargetInv ==
  /\ TargetFollowsSetting
  /\ \A s \in Setters : setter[s].pc = "set" => encoderRate = setter[s].rate

\* When the mutex is free the library runs at the rate of the property,
\* whoever sets it and however the calls overlap.
THEOREM TargetTheorem == Spec => []TargetFollowsSetting
<1>1. Init => TargetInv
  BY DEF Init, EncoderInit, TargetInv, TargetFollowsSetting
<1>2. SenderTypeOK /\ TargetInv /\ [Next]_vars => TargetInv'
  <2> SUFFICES ASSUME SenderTypeOK, TargetInv, [Next]_vars PROVE TargetInv'
    OBVIOUS
  <2>0. SettersOK
    BY TypeParts
  <2>1. CASE Aside \/ UNCHANGED vars
    <3>1. UNCHANGED <<rateVars, notifyVars>>
      BY <2>1, AsideFrame DEF vars, encoderVars
    <3> QED  BY <3>1 DEF TargetInv, TargetFollowsSetting, rateVars, notifyVars
  <2>2. CASE Setting
    <3>0. PICK s \in Setters : Stores(s) \/ SetterStep(s)
      BY <2>2, SettingCases
    <3>1. CASE HandlerStores(s)
      <4>1. lockedBy' # NoSetter
        BY <2>0, <3>1, StoresMoves, SettersAssumption
      <4>2. \A o \in Setters : setter[o].pc # "set"
        BY <2>0, <3>1, StoresMoves, SettersAssumption DEF SettersOK, MutexOK
      <4> QED
        BY <2>0, <3>1, <4>1, <4>2, StoresMoves DEF TargetInv, TargetFollowsSetting, Moves
    <3>2. CASE HandlerTells(s)
      <4>1. target' \in Nat /\ target' # Untold
        BY <2>0, <3>2, TellsMoves, DefaultAssumption, RatesAssumption
           DEF SettersOK, SetterState, RateRange
      <4>2. setter[s].pc = "set"
        BY <2>0, <3>2, TellsMoves DEF Moves
      <4> QED
        BY <2>0, <3>2, <4>1, <4>2, TellsMoves DEF TargetInv, TargetFollowsSetting, Moves
    <3>3. ASSUME UNCHANGED rateVars, NEW from, NEW to, to # "set" /\ Moves(s, from, to)
          PROVE  TargetInv'
      BY <3>3 DEF TargetInv, TargetFollowsSetting, Moves, rateVars
    <3>4. CASE Stores(s)
      BY <2>0, <3>3, <3>4, StoreMoves
    <3>5. CASE NotifyUnheard(s)
      BY <2>0, <3>3, <3>5, UnheardMoves
    <3>6. CASE HandlerReads(s)
      BY <2>0, <3>3, <3>6, ReadMoves
    <3>7. CASE HandlerCounts(s)
      BY <2>0, <3>3, <3>7, CountsMoves
    <3>8. CASE HandlerOverflows(s) \/ HandlerUnderflows(s)
      BY <3>8, StopMoves DEF TargetInv, TargetFollowsSetting, rateVars, notifyVars
    <3> QED  BY <3>0, <3>1, <3>2, <3>4, <3>5, <3>6, <3>7, <3>8 DEF SetterStep
  <2> QED  BY <2>1, <2>2, NextCases
<1>3. TargetInv => TargetFollowsSetting
  BY DEF TargetInv
<1> QED  BY <1>1, <1>2, <1>3, SenderTypeCorrect, PTL DEF Spec

-----------------------------------------------------------------------------
(* The handler *)

OneInside ==
  ~crossed =>
    \A s, o \in Setters :
      setter[s].pc \in InHandler /\ setter[o].pc \in InHandler => s = o

LEMMA OneInsideStep ==
  ASSUME SenderTypeOK, OneInside, [Next]_vars
  PROVE  OneInside'
<1>0. SettersOK
  BY TypeParts
<1>1. CASE Aside \/ UNCHANGED vars
  <2>1. UNCHANGED <<setter, crossed>>
    BY <1>1, AsideFrame DEF vars, notifyVars
  <2> QED  BY <2>1 DEF OneInside
<1>2. CASE Setting
  <2>0. PICK s \in Setters : Stores(s) \/ SetterStep(s)
    BY <1>2, SettingCases
  <2>1. ASSUME crossed' = crossed, NEW from, NEW to, Moves(s, from, to),
               to \in InHandler => from \in InHandler
        PROVE  OneInside'
    BY <2>1 DEF OneInside, Moves
  <2>2. CASE Stores(s)
    BY <1>0, <2>1, <2>2, StoreMoves DEF InHandler
  <2>3. CASE NotifyUnheard(s)
    BY <1>0, <2>1, <2>3, UnheardMoves DEF InHandler
  <2>4. CASE HandlerReads(s)
    <3>1. ~crossed' => \A o \in Setters \ {s} : setter[o].pc \notin InHandler
      BY <1>0, <2>4, ReadMoves
    <3>2. \A o \in Setters \ {s} : setter'[o].pc = setter[o].pc
      BY <1>0, <2>4, ReadMoves DEF Moves
    <3> QED  BY <3>1, <3>2 DEF OneInside
  <2>5. CASE HandlerOverflows(s) \/ HandlerUnderflows(s)
    BY <2>5, StopMoves DEF OneInside, notifyVars
  <2>6. CASE HandlerStores(s)
    BY <1>0, <2>1, <2>6, StoresMoves DEF InHandler
  <2>7. CASE HandlerTells(s)
    BY <1>0, <2>1, <2>7, TellsMoves DEF InHandler
  <2>8. CASE HandlerCounts(s)
    BY <1>0, <2>1, <2>8, CountsMoves DEF InHandler
  <2> QED  BY <2>0, <2>2, <2>3, <2>4, <2>5, <2>6, <2>7, <2>8 DEF SetterStep
<1> QED  BY <1>1, <1>2, NextCases

-----------------------------------------------------------------------------
(* The clock of the statistics *)

ClockInv ==
  /\ OneInside
  /\ ClockPanicIsExplained
  /\ ~setBack => /\ info.st <= clock
                 /\ \A s \in Setters : setter[s].at <= clock
  /\ ~setBack /\ ~crossed =>
       \A s \in Setters : setter[s].pc = "told" => info.st <= setter[s].at

\* The handler reads the clock before it takes the lock of its statistics,
\* but as long as the clock is not set back and the last call did not begin
\* within another, the difference is never negative.
THEOREM ClockTheorem == Spec => []ClockPanicIsExplained
<1>1. Init => ClockInv
  BY DEF Init, EncoderInit, ClockInv, OneInside, ClockPanicIsExplained, InHandler
<1>2. SenderTypeOK /\ ClockInv /\ [Next]_vars => ClockInv'
  <2> SUFFICES ASSUME SenderTypeOK, ClockInv, [Next]_vars PROVE ClockInv'
    OBVIOUS
  <2>0. SettersOK /\ ClockOK /\ OneInside
    BY TypeParts DEF ClockInv
  <2>1. OneInside'
    BY <2>0, OneInsideStep
  <2>2. clock \in Nat /\ info.st \in Nat /\ \A s \in Setters : setter[s].at \in Nat
    BY <2>0 DEF SettersOK, ClockOK, SetterState
  <2>3. CASE Aside \/ UNCHANGED vars
    <3>1. UNCHANGED <<setter, info, crossed>>
      BY <2>3, AsideFrame DEF vars, notifyVars
    <3>2. aborted' = "clock" => aborted = "clock"
      BY <2>3
         DEF Aside, MainStep, Launch, Play, Connect, Run, Dispatch, StopPads,
             StopDone, Exit, PollPanics, PostEos, PostError, EncoderStep, Tick,
             SetClockBack, InitLibrary, EncoderStops, CallbackTest, CallbackPush,
             CallbackAborts, EncoderEos, EncoderPanics, DownstreamRefuses,
             encoderVars, vars
    <3>3. (clock' >= clock /\ setBack' = setBack) \/ setBack'
      <4>1. CASE Tick
        BY <2>2, <4>1 DEF Tick
      <4>2. CASE SetClockBack
        BY <4>2 DEF SetClockBack
      <4>3. CASE \/ MainStep \/ PollPanics \/ PostEos \/ PostError \/ EncoderStep
                 \/ UNCHANGED vars
        <5>1. UNCHANGED clockVars
          BY <4>3
             DEF MainStep, Launch, Play, Connect, Run, Dispatch, StopPads, StopDone,
                 Exit, PollPanics, PostEos, PostError, EncoderStep, vars
        <5> QED  BY <2>2, <5>1 DEF clockVars
      <4> QED  BY <2>3, <4>1, <4>2, <4>3 DEF Aside
    <3>4. clock' \in Int
      <4>1. CASE Tick \/ SetClockBack
        BY <2>2, <4>1 DEF Tick, SetClockBack
      <4>2. CASE \/ MainStep \/ PollPanics \/ PostEos \/ PostError \/ EncoderStep
                 \/ UNCHANGED vars
        <5>1. UNCHANGED clockVars
          BY <4>2
             DEF MainStep, Launch, Play, Connect, Run, Dispatch, StopPads, StopDone,
                 Exit, PollPanics, PostEos, PostError, EncoderStep, vars
        <5> QED  BY <2>2, <5>1 DEF clockVars
      <4> QED  BY <2>3, <4>1, <4>2 DEF Aside
    <3>5. (setBack => setBack') /\ (~setBack' => ~setBack /\ clock' >= clock)
      BY <2>3, <3>3
         DEF Aside, MainStep, Launch, Play, Connect, Run, Dispatch, StopPads,
             StopDone, Exit, PollPanics, PostEos, PostError, EncoderStep, Tick,
             SetClockBack, clockVars, vars
    <3>6. ~setBack' => info'.st <= clock' /\ \A s \in Setters : setter'[s].at <= clock'
      BY <2>2, <3>1, <3>4, <3>5 DEF ClockInv
    <3> QED
      BY <2>1, <3>1, <3>2, <3>5, <3>6 DEF ClockInv, ClockPanicIsExplained
  <2>4. CASE Setting
    <3>1. UNCHANGED <<clock, setBack>>
      BY <2>4, SettingFrame DEF clockVars
    <3>2. PICK s \in Setters : Stores(s) \/ SetterStep(s)
      BY <2>4, SettingCases
    <3>3. ASSUME UNCHANGED <<info, crossed, aborted>>, NEW from, NEW to, to # "told",
                 Moves(s, from, to), KeepsTime(s)
          PROVE  ClockInv'
      BY <2>1, <3>1, <3>3 DEF ClockInv, ClockPanicIsExplained, Moves, KeepsTime
    <3>4. CASE Stores(s)
      BY <2>0, <3>3, <3>4, StoreMoves
    <3>5. CASE NotifyUnheard(s)
      BY <2>0, <3>3, <3>5, UnheardMoves
    <3>6. CASE HandlerReads(s)
      <4>1. /\ Moves(s, "notify", "read") /\ KeepsTime(s) /\ UNCHANGED <<info, aborted>>
            /\ ~crossed' => \A o \in Setters \ {s} : setter[o].pc \notin InHandler
        BY <2>0, <3>6, ReadMoves
      <4>2. aborted = "none" \/ UNCHANGED vars
        BY DEF Next
      <4>3. aborted # "clock"
        BY <4>1, <4>2 DEF Moves, vars, notifyVars
      <4>4. ~crossed' => \A o \in Setters : setter'[o].pc # "told"
        BY <4>1 DEF Moves, InHandler
      <4> QED
        BY <2>1, <3>1, <4>1, <4>3, <4>4
           DEF ClockInv, ClockPanicIsExplained, Moves, KeepsTime
    <3>7. CASE HandlerStores(s)
      BY <2>0, <3>3, <3>7, StoresMoves
    <3>8. CASE HandlerOverflows(s)
      <4>1. UNCHANGED <<info, setter, crossed>> /\ aborted' # "clock"
        BY <3>8 DEF HandlerOverflows, notifyVars
      <4> QED  BY <2>1, <3>1, <4>1 DEF ClockInv, ClockPanicIsExplained
    <3>9. CASE HandlerTells(s)
      <4>1. /\ UNCHANGED <<info, crossed, aborted>> /\ setter'[s].at = clock
            /\ \A o \in Setters \ {s} : setter'[o] = setter[o]
        BY <2>0, <3>9, TellsMoves DEF Moves
      <4>2. \A o \in Setters : setter'[o].at = clock \/ setter'[o] = setter[o]
        BY <4>1
      <4>3. ~setBack => info.st <= clock /\ \A o \in Setters : setter'[o].at <= clock
        BY <2>2, <4>2 DEF ClockInv
      <4>4. ~setBack /\ ~crossed =>
              \A o \in Setters : setter'[o].pc = "told" => info.st <= setter'[o].at
        BY <4>1, <4>2, <4>3 DEF ClockInv
      <4> QED
        BY <2>1, <3>1, <4>1, <4>3, <4>4 DEF ClockInv, ClockPanicIsExplained
    <3>10. CASE HandlerCounts(s)
      <4>1. /\ UNCHANGED <<crossed, aborted>> /\ setter[s].pc = "told"
            /\ setter'[s].pc = "idle" /\ setter'[s].at = setter[s].at
            /\ info'.st = info.st \/ info'.st = setter[s].at
            /\ \A o \in Setters \ {s} : setter'[o] = setter[o]
        BY <2>0, <3>10, CountsMoves DEF Moves, KeepsTime
      <4>2. ~crossed => \A o \in Setters : setter'[o].pc # "told"
        BY <2>0, <4>1 DEF OneInside, InHandler
      <4>3. ~setBack => info'.st <= clock /\ \A o \in Setters : setter'[o].at <= clock
        BY <4>1 DEF ClockInv
      <4> QED
        BY <2>1, <3>1, <4>1, <4>2, <4>3 DEF ClockInv, ClockPanicIsExplained
    <3>11. CASE HandlerUnderflows(s)
      <4>1. UNCHANGED <<info, setter, crossed>>
        BY <3>11 DEF HandlerUnderflows, notifyVars
      <4>2. setter[s].pc = "told" /\ setter[s].at < info.st
        BY <2>2, <3>11 DEF HandlerUnderflows, ClockUnderflows, Diff
      <4>3. setBack \/ crossed
        BY <2>2, <4>2 DEF ClockInv
      <4> QED
        BY <2>1, <3>1, <4>1, <4>3 DEF ClockInv, ClockPanicIsExplained
    <3> QED
      BY <3>2, <3>4, <3>5, <3>6, <3>7, <3>8, <3>9, <3>10, <3>11 DEF SetterStep
  <2> QED  BY <2>3, <2>4, NextCases
<1>3. ClockInv => ClockPanicIsExplained
  BY DEF ClockInv
<1> QED  BY <1>1, <1>2, <1>3, SenderTypeCorrect, PTL DEF Spec

-----------------------------------------------------------------------------
(* The encoder and the property of nadatx *)

\* A notification is heard only once the handler is connected, which happens
\* once, after the pipeline was set to Playing.
ConnectInv ==
  /\ heard => connected
  /\ connected => main \notin {"launch", "ready", "playing"}

LEMMA ConnectStep ==
  ASSUME ConnectInv, [Next]_vars
  PROVE  ConnectInv'
<1>1. CASE Aside \/ UNCHANGED vars
  <2>1. heard' = heard
    BY <1>1, AsideFrame DEF vars, notifyVars
  <2>2. CASE MainStep
    <3>1. connected => connected'
      BY <2>2 DEF ConnectInv, MainStep, Launch, Play, Connect, Run, Dispatch, StopPads,
                  StopDone, Exit
    <3>2. connected' => main' \notin {"launch", "ready", "playing"}
      BY <2>2 DEF ConnectInv, MainStep, Launch, Play, Connect, Run, Dispatch, StopPads,
                  StopDone, Exit
    <3> QED  BY <2>1, <3>1, <3>2 DEF ConnectInv
  <2>3. CASE (Aside /\ ~MainStep) \/ UNCHANGED vars
    <3>1. UNCHANGED <<main, connected>>
      BY <2>3
         DEF Aside, PollPanics, PostEos, PostError, EncoderStep, Tick, SetClockBack,
             mainVars, vars
    <3> QED  BY <2>1, <3>1 DEF ConnectInv
  <2> QED  BY <1>1, <2>2, <2>3
<1>2. CASE Setting
  <2>1. UNCHANGED <<main, connected>>
    BY <1>2, SettingFrame DEF mainVars
  <2>2. heard' => heard \/ connected
    BY <1>2
       DEF Setting, StreamStore, ApplicationStore, SetterStep, NotifyUnheard,
           HandlerReads, HandlerOverflows, HandlerStores, HandlerTells,
           HandlerCounts, HandlerUnderflows, notifyVars
  <2> QED  BY <2>1, <2>2 DEF ConnectInv
<1> QED  BY <1>1, <1>2, NextCases

\* What the one thread in the handler carries while no notification waits.
Follows ==
  /\ \A s \in Setters :
       /\ setter[s].pc = "read" => setter[s].rate = bitrate
       /\ setter[s].pc = "set" => setter[s].rate = Product(bitrate)
  /\ (\A s \in Setters : setter[s].pc \notin {"read", "set"}) => target = Product(bitrate)

NoneWaits == \A s \in Setters : setter[s].pc # "notify"

FollowInv ==
  /\ OneInside
  /\ ConnectInv
  /\ heard /\ ~crossed /\ NoneWaits => Follows

\* At rest, once a notification was heard, the encoder runs at the product of
\* the bitrate of nadatx, unless the last one began within another.
THEOREM FollowTheorem == Spec => []EncoderFollowsRate
<1>1. Init => FollowInv
  BY DEF Init, FollowInv, OneInside, ConnectInv, InHandler
<1>2. SenderTypeOK /\ FollowInv /\ [Next]_vars => FollowInv'
  <2> SUFFICES ASSUME SenderTypeOK, FollowInv, [Next]_vars PROVE FollowInv'
    OBVIOUS
  <2>0. SettersOK /\ OneInside /\ ConnectInv
    BY TypeParts DEF FollowInv
  <2>1. OneInside' /\ ConnectInv'
    BY <2>0, OneInsideStep, ConnectStep
  <2>2. SUFFICES ASSUME heard', ~crossed', NoneWaits' PROVE Follows'
    BY <2>1 DEF FollowInv
  <2>3. CASE Aside \/ UNCHANGED vars
    <3>1. UNCHANGED <<rateVars, notifyVars>>
      BY <2>3, AsideFrame DEF vars, encoderVars
    <3> QED
      BY <2>2, <3>1 DEF FollowInv, Follows, NoneWaits, Product, rateVars, notifyVars
  <2>4. CASE Setting
    <3>0. PICK s \in Setters : Stores(s) \/ SetterStep(s)
      BY <2>4, SettingCases
    <3>1. CASE Stores(s)
      <4>1. /\ Moves(s, "idle", "notify") \/ (Moves(s, "idle", "idle") /\ bitrate' = bitrate)
            /\ UNCHANGED <<target, heard, crossed>>
        BY <2>0, <3>1, StoreMoves DEF rateVars
      <4>2. Moves(s, "idle", "idle") /\ bitrate' = bitrate
        BY <2>2, <4>1 DEF NoneWaits, Moves
      <4> QED
        BY <2>2, <4>1, <4>2 DEF FollowInv, Follows, NoneWaits, Moves, Product
    <3>2. CASE NotifyUnheard(s)
      <4>1. heard' = heard /\ ~connected
        BY <3>2 DEF NotifyUnheard
      <4> QED  BY <2>0, <2>2, <4>1 DEF ConnectInv
    <3>3. CASE HandlerReads(s)
      <4>1. /\ setter'[s].pc = "read" /\ setter'[s].rate = bitrate /\ bitrate' = bitrate
            /\ \A o \in Setters \ {s} : setter'[o] = setter[o]
        BY <2>0, <3>3, ReadMoves DEF Moves
      <4>2. \A o \in Setters \ {s} : setter[o].pc \notin InHandler
        BY <2>0, <2>2, <3>3, ReadMoves
      <4> QED  BY <4>1, <4>2 DEF Follows, InHandler
    <3>4. CASE HandlerOverflows(s) \/ HandlerUnderflows(s)
      BY <2>2, <3>4, StopMoves
         DEF FollowInv, Follows, NoneWaits, Product, rateVars, notifyVars
    <3>5. CASE HandlerStores(s)
      <4>1. /\ Moves(s, "read", "set") /\ setter'[s].rate = Product(setter[s].rate)
            /\ UNCHANGED <<target, bitrate, heard, crossed>>
        BY <2>0, <3>5, StoresMoves
      <4>2. Follows
        BY <2>2, <4>1 DEF FollowInv, NoneWaits, Moves
      <4>3. \A o \in Setters \ {s} : setter[o].pc \notin InHandler
        BY <2>0, <2>2, <4>1 DEF OneInside, Moves, InHandler
      <4> QED  BY <4>1, <4>2, <4>3 DEF Follows, Moves, InHandler, Product
    <3>6. CASE HandlerTells(s)
      <4>1. /\ Moves(s, "set", "told") /\ target' = setter[s].rate
            /\ UNCHANGED <<bitrate, heard, crossed>>
        BY <2>0, <3>6, TellsMoves
      <4>2. Follows
        BY <2>2, <4>1 DEF FollowInv, NoneWaits, Moves
      <4>3. \A o \in Setters \ {s} : setter[o].pc \notin InHandler
        BY <2>0, <2>2, <4>1 DEF OneInside, Moves, InHandler
      <4> QED  BY <4>1, <4>2, <4>3 DEF Follows, Moves, InHandler, Product
    <3>7. CASE HandlerCounts(s)
      <4>1. /\ Moves(s, "told", "idle")
            /\ UNCHANGED <<target, bitrate, heard, crossed>>
        BY <2>0, <3>7, CountsMoves DEF rateVars
      <4> QED
        BY <2>2, <4>1 DEF FollowInv, Follows, NoneWaits, Moves, Product
    <3> QED  BY <3>0, <3>1, <3>2, <3>3, <3>4, <3>5, <3>6, <3>7 DEF SetterStep
  <2> QED  BY <2>3, <2>4, NextCases
<1>3. FollowInv => EncoderFollowsRate
  <2> SUFFICES ASSUME FollowInv, heard, ~crossed,
                      \A s \in Setters : setter[s].pc \in {"idle", "told"}
               PROVE  target = Product(bitrate)
    BY DEF EncoderFollowsRate
  <2>1. Follows
    BY DEF FollowInv, NoneWaits
  <2> QED  BY <2>1 DEF Follows
<1> QED  BY <1>1, <1>2, <1>3, SenderTypeCorrect, PTL DEF Spec

-----------------------------------------------------------------------------
(* The element and the polling thread *)

PollInv ==
  /\ program \in {"sender", "receiver"}
  /\ program = "sender" /\ main \in {"run", "quit", "stopping", "returned", "exited"}
       => poll # "none"
  /\ poll \in {"none", "polling", "dead"}

\* While the timer threads of a running sender point to the element, the
\* polling thread or the handler keeps it, unless the polling thread died of
\* a pipeline without the name it looks for.
THEOREM FreedTheorem == Spec => []FreedOnlyIfUnnamed
<1>1. Init => PollInv
  BY DEF Init, PollInv
<1>2. PollInv /\ [Next]_vars => PollInv'
  <2> SUFFICES ASSUME PollInv, [Next]_vars PROVE PollInv'
    OBVIOUS
  <2>1. CASE MainStep
    BY <2>1
       DEF PollInv, MainStep, Launch, Play, Connect, Run, Dispatch, StopPads,
           StopDone, Exit, settled
  <2>2. CASE PollPanics
    BY <2>2 DEF PollInv, PollPanics, settled
  <2>3. CASE (Aside /\ ~MainStep /\ ~PollPanics) \/ UNCHANGED vars
    <3>1. UNCHANGED <<settled, main, poll>>
      BY <2>3
         DEF Aside, PostEos, PostError, EncoderStep, Tick, SetClockBack, mainVars, vars
    <3> QED  BY <3>1 DEF PollInv, settled
  <2>4. CASE Setting
    BY <2>4, SettingFrame DEF PollInv, settled, mainVars
  <2> QED  BY <2>1, <2>2, <2>3, <2>4, NextCases
<1>3. PollInv => FreedOnlyIfUnnamed
  BY DEF PollInv, FreedOnlyIfUnnamed, ElementHeld, PollHolds
<1> QED  BY <1>1, <1>2, <1>3, PTL DEF Spec
=============================================================================
