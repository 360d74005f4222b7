------------------------- MODULE TwccParser_proofs -------------------------
(***************************************************************************)
(* TwccParser for every length of the number space and the symbol vectors, *)
(* and every set of messages.                                              *)
(***************************************************************************)
EXTENDS TwccParser, SequenceTheorems, TLAPS

Numbers == 0 .. SeqModulus - 1
Entry == [seq : Numbers, ecn : 0 .. 3, ts : Nat]

-----------------------------------------------------------------------------
(* Remainders *)

\* Quotients and remainders of a positive divisor.
LEMMA DivModInt ==
  ASSUME NEW D \in Nat \ {0}, NEW d \in Int
  PROVE  d \div D \in Int /\ d % D \in 0 .. D - 1
<1>1. d \div D \in Int
  OBVIOUS
<1>2. d % D \in 0 .. D - 1
  OBVIOUS
<1> QED  BY <1>1, <1>2

LEMMA DivModParts ==
  ASSUME NEW D \in Nat \ {0}, NEW d \in Int, NEW q \in Int, q = d \div D, NEW r \in Int, r = d % D
  PROVE  d = D * q + r
BY SMTT(60)

LEMMA MulMod ==
  ASSUME NEW D \in Nat \ {0}, NEW q \in Int
  PROVE  (D * q) % D = 0
OBVIOUS

Multiple(x) == x % DeltaModulus = 0

\* A multiple of the size of a byte stays one when a number is taken from it
\* and its low byte added.
LEMMA MultipleStays ==
  ASSUME NEW x \in Int, Multiple(x), NEW delta \in Int,
         NEW y \in Int, y = x + LowByte(delta) - delta
  PROVE  Multiple(y)
<1>0. DeltaModulus \in Nat \ {0}
  BY WidthAssumption
<1>1. PICK p \in Int : p = x \div DeltaModulus
  BY <1>0, DivModInt
<1>2. PICK q \in Int : q = delta \div DeltaModulus
  BY <1>0, DivModInt
<1>3. PICK r \in 0 .. DeltaModulus - 1 : r = delta % DeltaModulus
  BY <1>0, DivModInt, Zenon
<1>4. delta = DeltaModulus * q + r
  BY <1>0, <1>2, <1>3, DivModParts
<1>5. x = DeltaModulus * p + 0
  BY <1>0, <1>1, DivModParts DEF Multiple
<1>6. PICK a \in Int, b \in Int, c \in Int :
        /\ a = DeltaModulus * p /\ b = DeltaModulus * q
        /\ c = DeltaModulus * (p - q)
  BY <1>0
<1>7. c = a - b
  <2>1. DeltaModulus * (p - q) = DeltaModulus * p - DeltaModulus * q
    BY <1>0
  <2> QED  BY <1>6, <2>1
<1>8. delta = b + r /\ x = a + 0
  BY <1>4, <1>5, <1>6, Zenon
<1>9. y = x + r - delta
  BY <1>3, Zenon DEF LowByte
<1>10. Multiple(c)
  <2>1. p - q \in Int
    OBVIOUS
  <2> QED  BY <1>0, <1>6, <2>1, MulMod DEF Multiple
<1>11. y = c
  BY <1>0, <1>7, <1>8, <1>9
<1> QED  BY <1>10, <1>11

-----------------------------------------------------------------------------
(* What a chunk adds *)

\* The symbols of a chunk, whatever its kind, are no more than are missing.
LEMMA ConstantFits ==
  ASSUME ParserTypeOK, AtChunk, NEW symbol \in 0 .. 3, NEW run \in Runs
  PROVE  /\ Constant(symbol, RunTaken(run)) \in Seq(0 .. 3)
         /\ Len(Constant(symbol, RunTaken(run))) = RunTaken(run)
         /\ RunTaken(run) \in 0 .. count - Len(entries)
<1>1. Len(entries) \in Nat /\ count \in Nat /\ Len(entries) < count
  BY LenProperties DEF ParserTypeOK, AtChunk, Parsed
<1>2. RunTaken(run) \in 0 .. count - Len(entries)
  BY <1>1, MessageAssumption DEF RunTaken, Least, Remaining, Parsed
<1>3. RunTaken(run) \in Nat
  BY <1>1, <1>2
<1>4. Constant(symbol, RunTaken(run)) \in [1 .. RunTaken(run) -> 0 .. 3]
  BY DEF Constant
<1> QED  BY <1>2, <1>3, <1>4, SeqDef, LenProperties

LEMMA VectorFits ==
  ASSUME ParserTypeOK, AtChunk, NEW size \in {1, 2}, NEW symbols \in Symbols(size)
  PROVE  /\ symbols \in Seq(0 .. 3)
         /\ Len(symbols) = VectorTaken(size)
         /\ VectorTaken(size) \in 0 .. count - Len(entries)
<1>1. Len(entries) \in Nat /\ count \in Nat /\ Len(entries) < count
  BY LenProperties DEF ParserTypeOK, AtChunk, Parsed
<1>2. VectorBits \div size \in Nat
  BY WidthAssumption
<1>3. VectorTaken(size) \in 0 .. count - Len(entries)
  BY <1>1, <1>2 DEF VectorTaken, Least, Remaining, Parsed
<1>4. VectorTaken(size) \in Nat
  BY <1>1, <1>3
<1>5. symbols \in [1 .. VectorTaken(size) -> 0 .. 3]
  BY DEF Symbols
<1> QED  BY <1>3, <1>4, <1>5, SeqDef, LenProperties

\* The entries of a chunk have the numbers that follow those before it.
LEMMA PushedProperties ==
  ASSUME ParserTypeOK, NEW symbols \in Seq(0 .. 3)
  PROVE  /\ Pushed(symbols) \in Seq(Entry)
         /\ Len(Pushed(symbols)) = Len(symbols)
         /\ \A i \in 1 .. Len(symbols) :
              Pushed(symbols)[i].seq = (base + Len(entries) + i - 1) % SeqModulus
<1>1. Len(entries) \in Nat /\ base \in Nat /\ Len(symbols) \in Nat
  BY LenProperties, WidthAssumption DEF ParserTypeOK
<1>2. ASSUME NEW i \in 1 .. Len(symbols)
      PROVE  /\ Number(i - 1) = (base + Len(entries) + i - 1) % SeqModulus
             /\ [seq |-> Number(i - 1), ecn |-> symbols[i], ts |-> 0] \in Entry
  <2>1. symbols[i] \in 0 .. 3
    BY ElementOfSeq
  <2>2. base + Len(entries) + (i - 1) = base + Len(entries) + i - 1
    BY <1>1
  <2>3. Number(i - 1) \in Numbers
    BY <1>1, WidthAssumption DEF Number, Numbers, Parsed
  <2> QED  BY <2>1, <2>2, <2>3 DEF Number, Parsed, Entry
<1>3. Pushed(symbols) \in [1 .. Len(symbols) -> Entry]
  BY <1>2 DEF Pushed
<1> QED  BY <1>1, <1>2, <1>3, SeqDef, LenProperties DEF Pushed

\* What Take makes of the entries.
LEMMA TakeProperties ==
  ASSUME ParserTypeOK, NEW bits \in Nat, NEW symbols \in Seq(0 .. 3), Take(bits, symbols)
  PROVE  /\ entries' \in Seq(Entry)
         /\ Len(entries') = Len(entries) + Len(symbols)
         /\ \A k \in 1 .. Len(entries) : entries'[k] = entries[k]
         /\ \A k \in Len(entries) + 1 .. Len(entries') :
              entries'[k].seq = (base + k - 1) % SeqModulus
         /\ position' \in Nat /\ position' <= length
<1>1. entries \in Seq(Entry)
  BY DEF ParserTypeOK, Entry, Numbers
<1> DEFINE pushed == Pushed(symbols)
<1>2. pushed \in Seq(Entry) /\ Len(pushed) = Len(symbols)
  BY PushedProperties
<1>3. entries' = entries \o pushed
  BY DEF Take
<1> HIDE DEF pushed
<1>4. Len(entries) \in Nat /\ Len(symbols) \in Nat /\ base \in Nat
  BY <1>1, LenProperties, WidthAssumption DEF ParserTypeOK
<1>5. /\ entries' \in Seq(Entry)
      /\ Len(entries') = Len(entries) + Len(symbols)
      /\ \A k \in 1 .. Len(entries) + Len(symbols) :
           entries'[k] = IF k <= Len(entries) THEN entries[k] ELSE pushed[k - Len(entries)]
  <2>1. /\ entries \o pushed \in Seq(Entry)
        /\ Len(entries \o pushed) = Len(entries) + Len(pushed)
        /\ \A k \in 1 .. Len(entries) + Len(pushed) :
             (entries \o pushed)[k] =
               IF k <= Len(entries) THEN entries[k] ELSE pushed[k - Len(entries)]
    BY <1>1, <1>2, ConcatProperties
  <2> QED  BY <1>2, <1>3, <2>1
<1>6. ASSUME NEW k \in Len(entries) + 1 .. Len(entries')
      PROVE  entries'[k].seq = (base + k - 1) % SeqModulus
  <2>1. entries'[k] = pushed[k - Len(entries)] /\ k - Len(entries) \in 1 .. Len(symbols)
    BY <1>4, <1>5
  <2>2. base + Len(entries) + (k - Len(entries)) - 1 = base + k - 1
    BY <1>4
  <2> QED  BY <2>1, <2>2, PushedProperties DEF pushed
<1>7. position' \in Nat /\ position' <= length
  BY DEF Take, CanRead, ParserTypeOK
<1> QED  BY <1>4, <1>5, <1>6, <1>7

\* A chunk is a Take of no more symbols than are missing.
LEMMA ChunkProperties ==
  ASSUME ParserTypeOK,
         \/ \E symbol \in 0 .. 3, run \in Runs : ReadRun(symbol, run)
         \/ \E size \in {1, 2} : \E symbols \in Symbols(size) : ReadVector(size, symbols)
  PROVE  \E bits \in Nat, symbols \in Seq(0 .. 3) :
           /\ Take(bits, symbols) /\ AtChunk
           /\ Len(symbols) <= count - Len(entries)
<1>1. ASSUME NEW symbol \in 0 .. 3, NEW run \in Runs, ReadRun(symbol, run)
      PROVE  \E bits \in Nat, symbols \in Seq(0 .. 3) :
               /\ Take(bits, symbols) /\ AtChunk
               /\ Len(symbols) <= count - Len(entries)
  <2>1. AtChunk /\ Take(16, Constant(symbol, RunTaken(run)))
    BY <1>1 DEF ReadRun
  <2>2. Len(Constant(symbol, RunTaken(run))) <= count - Len(entries)
    BY <2>1, ConstantFits
  <2> QED  BY <2>1, <2>2, ConstantFits
<1>2. ASSUME NEW size \in {1, 2}, NEW symbols \in Symbols(size), ReadVector(size, symbols)
      PROVE  \E bits \in Nat, s \in Seq(0 .. 3) :
               /\ Take(bits, s) /\ AtChunk
               /\ Len(s) <= count - Len(entries)
  <2>1. AtChunk /\ Take(16 + size * VectorTaken(size), symbols)
    BY <1>2 DEF ReadVector
  <2>2. /\ Len(symbols) <= count - Len(entries) /\ symbols \in Seq(0 .. 3)
        /\ VectorTaken(size) \in Nat
    BY <2>1, VectorFits, LenProperties
  <2>3. 16 + size * VectorTaken(size) \in Nat
    BY <2>2
  <2> QED  BY <2>1, <2>2, <2>3
<1> QED  BY <1>1, <1>2

\* What the reading of a delta makes of the entries.
LEMMA StampProperties ==
  ASSUME ParserTypeOK, AtDelta, NEW bits \in Nat, NEW delta \in Nat, NEW told \in Int,
         Stamp(bits, delta, told), Told \in Int
  PROVE  /\ entries' \in Seq(Entry) /\ Len(entries') = Len(entries)
         /\ \A k \in 1 .. Len(entries) :
              /\ entries'[k].seq = entries[k].seq /\ entries'[k].ecn = entries[k].ecn
              /\ entries'[k].ts = IF k = Index THEN tsRounded + delta ELSE entries[k].ts
         /\ tsRounded' = tsRounded + delta
         /\ arrivals' = Append(arrivals, Told + told) /\ arrivals' \in Seq(Int)
         /\ Index \in 1 .. Len(entries)
         /\ position' \in Nat /\ position' <= length
<1>1. entries \in Seq(Entry) /\ tsRounded \in Nat /\ arrivals \in Seq(Int)
  BY DEF ParserTypeOK, Entry, Numbers
<1>2. /\ Len(entries) \in Nat /\ Len(arrivals) \in Nat
      /\ Len(arrivals) < Len(entries)
  BY <1>1, LenProperties DEF AtDelta, Parsed
<1>3. Index \in 1 .. Len(entries)
  BY <1>2 DEF Index
<1>4. entries[Index] \in Entry
  BY <1>1, <1>3, ElementOfSeq
<1> DEFINE e == [entries[Index] EXCEPT !.ts = tsRounded + delta]
<1>5. e \in Entry
  <2>1. tsRounded + delta \in Nat
    BY <1>1
  <2> QED  BY <1>4, <2>1 DEF Entry
<1>6. entries' = [entries EXCEPT ![Index] = e]
  BY DEF Stamp
<1>7. /\ entries' \in Seq(Entry) /\ Len(entries') = Len(entries)
      /\ \A k \in 1 .. Len(entries) : entries'[k] = IF k = Index THEN e ELSE entries[k]
  BY <1>1, <1>3, <1>5, <1>6, ExceptSeq
<1>8. e.seq = entries[Index].seq /\ e.ecn = entries[Index].ecn /\ e.ts = tsRounded + delta
  BY <1>4 DEF Entry
<1>9. arrivals' = Append(arrivals, Told + told) /\ arrivals' \in Seq(Int)
  BY <1>1, AppendProperties DEF Stamp
<1>10. position' \in Nat /\ position' <= length
  BY DEF Stamp, CanRead, ParserTypeOK
<1> HIDE DEF e
<1> QED  BY <1>3, <1>7, <1>8, <1>9, <1>10 DEF Stamp

-----------------------------------------------------------------------------
(* Types *)

LEMMA ToldTyped ==
  ASSUME ParserTypeOK
  PROVE  Told \in Int
<1>1. arrivals \in Seq(Int) /\ refTime \in Int
  BY DEF ParserTypeOK
<1>2. CASE arrivals = <<>>
  BY <1>1, <1>2 DEF Told
<1>3. CASE arrivals # <<>>
  <2>1. Len(arrivals) \in 1 .. Len(arrivals)
    BY <1>1, <1>3, EmptySeq
  <2> QED  BY <1>1, <1>3, <2>1, ElementOfSeq DEF Told
<1> QED  BY <1>2, <1>3

\* The three ways of reading a delta, as what they add to the time kept and
\* to the time told.
LEMMA DeltaCases ==
  ASSUME ParserTypeOK, ReadSmallDelta \/ ReadLargeDelta \/ StampReserved
  PROVE  /\ AtDelta
         /\ entries[Index].ecn # 0
         /\ \E bits \in Nat, delta \in Nat, told \in Int :
              /\ Stamp(bits, delta, told)
              /\ delta = told \/ delta = LowByte(told)
              /\ entries[Index].ecn # 2 => delta = told
<1>1. CASE ReadSmallDelta
  <2>1. PICK delta \in SmallDeltas : Stamp(8, delta, delta)
    BY <1>1 DEF ReadSmallDelta
  <2>2. delta \in Nat /\ delta \in Int
    BY MessageAssumption, WidthAssumption
  <2> QED  BY <1>1, <2>1, <2>2 DEF ReadSmallDelta
<1>2. CASE ReadLargeDelta
  <2>1. PICK delta \in LargeDeltas : Stamp(16, LowByte(delta), delta)
    BY <1>2 DEF ReadLargeDelta
  <2>2. delta \in Int
    BY MessageAssumption
  <2>3. LowByte(delta) \in Nat
    BY <2>2, WidthAssumption, DivModInt DEF LowByte
  <2> QED  BY <1>2, <2>1, <2>2, <2>3 DEF ReadLargeDelta
<1>3. CASE StampReserved
  BY <1>3 DEF StampReserved
<1> QED  BY <1>1, <1>2, <1>3

LEMMA TypedByChunk ==
  ASSUME ParserTypeOK,
         \/ \E symbol \in 0 .. 3, run \in Runs : ReadRun(symbol, run)
         \/ \E size \in {1, 2} : \E symbols \in Symbols(size) : ReadVector(size, symbols)
  PROVE  ParserTypeOK'
<1>1. PICK bits \in Nat, symbols \in Seq(0 .. 3) : Take(bits, symbols)
  BY ChunkProperties
<1>2. entries' \in Seq(Entry) /\ position' \in Nat
  BY <1>1, TakeProperties
<1> QED  BY <1>1, <1>2 DEF ParserTypeOK, Take, message, Entry, Numbers

LEMMA TypedByDelta ==
  ASSUME ParserTypeOK, ReadSmallDelta \/ ReadLargeDelta \/ StampReserved
  PROVE  ParserTypeOK'
<1>1. PICK bits \in Nat, delta \in Nat, told \in Int : Stamp(bits, delta, told)
  BY DeltaCases
<1>2. /\ entries' \in Seq(Entry) /\ position' \in Nat
      /\ tsRounded' \in Nat /\ arrivals' \in Seq(Int)
  <2>1. tsRounded \in Nat
    BY DEF ParserTypeOK
  <2> QED  BY <1>1, <2>1, DeltaCases, ToldTyped, StampProperties
<1> QED  BY <1>1, <1>2 DEF ParserTypeOK, Stamp, message, Entry, Numbers

\* However a message is made up, every variable keeps its type and numbers
\* stay within 16 bits in both builds.
THEOREM ParserTypeCorrect == Spec => []ParserTypeOK
<1>1. Init => ParserTypeOK
  <2> SUFFICES ASSUME Init PROVE ParserTypeOK
    OBVIOUS
  <2>1. length \in Nat
    BY MessageAssumption DEF Init
  <2>2. base \in 0 .. SeqModulus - 1 /\ lastBase \in 0 .. SeqModulus - 1
    BY MessageAssumption, WidthAssumption DEF Init
  <2>3. /\ entries \in Seq([seq : 0 .. SeqModulus - 1, ecn : 0 .. 3, ts : Nat])
        /\ arrivals \in Seq(Int)
    BY EmptySeq DEF Init
  <2>4. count \in 0 .. SeqModulus - 1
    BY WidthAssumption DEF Init
  <2> QED  BY <2>1, <2>2, <2>3, <2>4 DEF Init, ParserTypeOK
<1>2. ParserTypeOK /\ [Next]_vars => ParserTypeOK'
  <2> SUFFICES ASSUME ParserTypeOK, [Next]_vars PROVE ParserTypeOK'
    OBVIOUS
  <2>1. CASE ReadBase
    <3>1. base' \in 0 .. SeqModulus - 1
      BY <2>1, MessageAssumption DEF ReadBase
    <3> QED  BY <2>1, <3>1 DEF ParserTypeOK, ReadBase, message
  <2>2. CASE ReadHeader
    <3>1. count' \in 0 .. SeqModulus - 1 /\ refTime' \in Nat
      BY <2>2, MessageAssumption DEF ReadHeader
    <3> QED  BY <2>2, <3>1 DEF ParserTypeOK, ReadHeader, message
  <2>3. CASE \E symbol \in 0 .. 3, run \in Runs : ReadRun(symbol, run)
    BY <2>3, TypedByChunk
  <2>4. CASE \E size \in {1, 2} : \E symbols \in Symbols(size) : ReadVector(size, symbols)
    BY <2>4, TypedByChunk
  <2>5. CASE ReadSmallDelta \/ ReadLargeDelta \/ StampReserved
    BY <2>5, TypedByDelta
  <2>6. CASE SkipLost
    <3>1. arrivals' \in Seq(Int)
      BY <2>6, ToldTyped, AppendProperties DEF SkipLost, ParserTypeOK
    <3> QED  BY <2>6, <3>1 DEF ParserTypeOK, SkipLost, message
  <2>7. CASE Finish \/ Fail \/ Panic
    BY <2>7 DEF Finish, Fail, Panic, ReadsOnwards, ParserTypeOK, message
  <2>8. CASE UNCHANGED vars
    BY <2>8 DEF vars, message, ParserTypeOK
  <2> QED  BY <2>1, <2>2, <2>3, <2>4, <2>5, <2>6, <2>7, <2>8 DEF Next
<1> QED  BY <1>1, <1>2, PTL DEF Spec

-----------------------------------------------------------------------------
(* The report *)

ReportInv ==
  /\ ReportIsContiguous
  /\ phase \in {"base", "header"} => entries = <<>>

\* The entries of a message are for the packets from its base on, each once
\* and in order, for every way of splitting it into chunks.
THEOREM ReportTheorem == Spec => []ReportIsContiguous
<1>1. Init => ReportInv
  <2> SUFFICES ASSUME Init PROVE ReportInv
    OBVIOUS
  <2>1. length \in Nat
    BY MessageAssumption DEF Init
  <2> QED  BY <2>1 DEF Init, ReportInv, ReportIsContiguous, Parsed
<1>2. ParserTypeOK /\ ReportInv /\ [Next]_vars => ReportInv'
  <2> SUFFICES ASSUME ParserTypeOK, ReportInv, [Next]_vars PROVE ReportInv'
    OBVIOUS
  <2>0. /\ Len(entries) \in Nat /\ position \in Nat /\ length \in Nat
        /\ count \in Nat
    BY LenProperties DEF ParserTypeOK
  <2>1. CASE ReadBase
    BY <2>0, <2>1 DEF ReadBase, CanRead, ReportInv, ReportIsContiguous, Parsed, message
  <2>2. CASE ReadHeader
    <3>1. entries = <<>> /\ Len(entries) = 0 /\ count' \in Nat
      BY <2>2, MessageAssumption DEF ReadHeader, ReportInv
    <3> QED
      BY <2>0, <2>2, <3>1
         DEF ReadHeader, CanRead, ReportInv, ReportIsContiguous, Parsed, message
  <2>3. CASE \/ \E symbol \in 0 .. 3, run \in Runs : ReadRun(symbol, run)
             \/ \E size \in {1, 2} : \E symbols \in Symbols(size) : ReadVector(size, symbols)
    <3>1. PICK bits \in Nat, symbols \in Seq(0 .. 3) :
            Take(bits, symbols) /\ AtChunk /\ Len(symbols) <= count - Len(entries)
      BY <2>3, ChunkProperties
    <3>2. Len(symbols) \in Nat
      BY LenProperties
    <3>3. Len(entries') <= count
      BY <2>0, <3>1, <3>2, TakeProperties
    <3>4. \A k \in 1 .. Len(entries') : entries'[k].seq = (base + k - 1) % SeqModulus
      <4> TAKE k \in 1 .. Len(entries')
      <4>1. CASE k <= Len(entries)
        <5>1. k \in 1 .. Len(entries)
          BY <2>0, <4>1
        <5> QED
          BY <3>1, <5>1, TakeProperties DEF ReportInv, ReportIsContiguous, Parsed
      <4>2. CASE ~(k <= Len(entries))
        BY <2>0, <3>1, <4>2, TakeProperties
      <4> QED  BY <4>1, <4>2
    <3>5. phase = "chunks" /\ UNCHANGED <<phase, base, count, message>>
      BY <3>1 DEF AtChunk, Take
    <3>6. position' <= length'
      BY <3>1, <3>5, TakeProperties DEF message
    <3> QED  BY <3>3, <3>4, <3>5, <3>6 DEF ReportInv, ReportIsContiguous, Parsed
  <2>4. CASE ReadSmallDelta \/ ReadLargeDelta \/ StampReserved
    <3>1. PICK bits \in Nat, delta \in Nat, told \in Int : Stamp(bits, delta, told)
      BY <2>4, DeltaCases
    <3>2. /\ Len(entries') = Len(entries) /\ position' <= length
          /\ \A k \in 1 .. Len(entries) : entries'[k].seq = entries[k].seq
      BY <2>4, <3>1, DeltaCases, ToldTyped, StampProperties
    <3>3. phase = "chunks" /\ UNCHANGED <<phase, base, count, message>>
      BY <2>4, <3>1, DeltaCases DEF AtDelta, Stamp
    <3> QED  BY <3>2, <3>3 DEF ReportInv, ReportIsContiguous, Parsed, message
  <2>5. CASE SkipLost
    BY <2>5 DEF SkipLost, ReportInv, ReportIsContiguous, Parsed, message
  <2>6. CASE Finish
    BY <2>0, <2>6
       DEF Finish, ReadsOnwards, ReportInv, ReportIsContiguous, Parsed, message
  <2>7. CASE Fail \/ Panic
    BY <2>7 DEF Fail, Panic, ReadsOnwards, ReportInv, ReportIsContiguous, Parsed, message
  <2>8. CASE UNCHANGED vars
    BY <2>8 DEF vars, message, ReportInv, ReportIsContiguous, Parsed
  <2> QED  BY <2>1, <2>2, <2>3, <2>4, <2>5, <2>6, <2>7, <2>8 DEF Next
<1>3. ReportInv => ReportIsContiguous
  BY DEF ReportInv
<1> QED  BY <1>1, <1>2, <1>3, ParserTypeCorrect, PTL DEF Spec

\* Only a message that reports packets on both sides of the wrap panics, and
\* only in the debug build.
THEOREM PanicTheorem == Spec => []PanicOnlyAcrossWrap
<1>1. Init => PanicOnlyAcrossWrap
  BY DEF Init, PanicOnlyAcrossWrap
<1>2. ParserTypeOK /\ PanicOnlyAcrossWrap /\ [Next]_vars => PanicOnlyAcrossWrap'
  <2> SUFFICES ASSUME ParserTypeOK, PanicOnlyAcrossWrap, [Next]_vars
               PROVE  PanicOnlyAcrossWrap'
    OBVIOUS
  <2>1. CASE Panic
    <3>1. AtChunk /\ UNCHANGED <<base, count, overflowChecks>>
      BY <2>1 DEF Panic, NumberOverflows, ReadsOnwards, message
    <3>2. /\ Len(entries) \in Nat /\ base \in Nat /\ count \in Nat
          /\ Len(entries) < count
      BY <3>1, LenProperties DEF ParserTypeOK, AtChunk, Parsed
    <3>3. PICK i \in 0 .. count - Len(entries) - 1 : Overflows(i)
      <4>1. CASE Overflows(0)
        BY <3>2, <4>1
      <4>2. ASSUME NEW run \in Runs, NEW i \in 1 .. RunTaken(run), Overflows(i - 1)
            PROVE  \E j \in 0 .. count - Len(entries) - 1 : Overflows(j)
        <5>1. RunTaken(run) \in 0 .. count - Len(entries)
          BY <3>1, ConstantFits
        <5>2. i - 1 \in 0 .. count - Len(entries) - 1
          BY <3>2, <5>1
        <5> QED  BY <4>2, <5>2
      <4>3. ASSUME NEW size \in {1, 2}, NEW i \in 1 .. VectorTaken(size), Overflows(i - 1)
            PROVE  \E j \in 0 .. count - Len(entries) - 1 : Overflows(j)
        <5>1. VectorTaken(size) \in 0 .. count - Len(entries)
          <6>1. VectorBits \div size \in Nat
            BY WidthAssumption
          <6> QED  BY <3>2, <6>1 DEF VectorTaken, Least, Remaining, Parsed
        <5>2. i - 1 \in 0 .. count - Len(entries) - 1
          BY <3>2, <5>1
        <5> QED  BY <4>3, <5>2
      <4> QED  BY <2>1, <4>1, <4>2, <4>3 DEF Panic, NumberOverflows
    <3>4. overflowChecks /\ base + Len(entries) + i >= SeqModulus
      BY <3>3 DEF Overflows, Parsed
    <3> QED  BY <3>1, <3>2, <3>4, WidthAssumption DEF PanicOnlyAcrossWrap
  <2>2. CASE ~Panic
    <3>1. phase' = "panic" => phase = "panic" /\ UNCHANGED vars
      BY <2>2
         DEF Next, vars, ReadBase, ReadHeader, ReadRun, ReadVector, Take, AtChunk,
             ReadSmallDelta, ReadLargeDelta, StampReserved, Stamp, AtDelta,
             SkipLost, Finish, Fail
    <3> QED  BY <3>1 DEF PanicOnlyAcrossWrap, vars, message
  <2> QED  BY <2>1, <2>2
<1> QED  BY <1>1, <1>2, ParserTypeCorrect, PTL DEF Spec

-----------------------------------------------------------------------------
(* The times *)

NoLargeDelta(k) == \A j \in 1 .. k : entries[j].ecn # 2

\* The time kept is congruent to the last time told, not behind any time
\* given out, and the same as long as no 2-byte delta was read.
TimesInv ==
  /\ TimesAreCongruent
  /\ phase \in {"base", "header"} => arrivals = <<>>
  /\ Len(arrivals) <= Len(entries)
  /\ arrivals # <<>> => Len(entries) >= count
  /\ (tsRounded - Told) % DeltaModulus = 0
  /\ NoLargeDelta(Len(arrivals)) => tsRounded = Told
  /\ \A k \in 1 .. Len(arrivals) : Received(k) => entries[k].ts <= tsRounded

\* After one more time is told, it is the last one.
LEMMA ToldNext ==
  ASSUME ParserTypeOK, NEW time \in Int, arrivals' = Append(arrivals, time)
  PROVE  /\ Len(arrivals') = Index /\ Index = Len(arrivals) + 1
         /\ Len(arrivals) \in Nat
         /\ arrivals' # <<>>
         /\ \A k \in 1 .. Len(arrivals) : arrivals'[k] = arrivals[k]
         /\ arrivals'[Index] = time
         /\ Told' = time
<1>1. arrivals \in Seq(Int)
  BY DEF ParserTypeOK
<1>2. /\ Append(arrivals, time) # <<>>
      /\ Len(Append(arrivals, time)) = Len(arrivals) + 1
      /\ \A k \in 1 .. Len(arrivals) : Append(arrivals, time)[k] = arrivals[k]
      /\ Append(arrivals, time)[Len(arrivals) + 1] = time
  BY <1>1, AppendProperties
<1>3. Len(arrivals) \in Nat
  BY <1>1, LenProperties
<1> QED  BY <1>2, <1>3 DEF Index, Told

\* Steps that tell no time and change no entry there was before.
LEMMA TimesKept ==
  ASSUME ParserTypeOK, TimesInv, UNCHANGED <<tsRounded, arrivals, refTime, count>>,
         Len(entries') \in Nat, Len(entries') >= Len(entries),
         \A k \in 1 .. Len(entries) : entries'[k] = entries[k],
         phase' \in {"base", "header"} => phase \in {"base", "header"}
  PROVE  TimesInv'
<1>1. Len(entries) \in Nat /\ Len(arrivals) \in Nat /\ count \in Nat
  BY LenProperties DEF ParserTypeOK
<1>2. \A k \in 1 .. Len(arrivals) : k \in 1 .. Len(entries)
  BY <1>1 DEF TimesInv
<1>3. \A k \in 1 .. Len(arrivals) : entries'[k] = entries[k] /\ Received(k)' = Received(k)
  BY <1>2 DEF Received
<1>4. \A k \in 1 .. Len(arrivals) : \A j \in 1 .. k : j \in 1 .. Len(arrivals)
  BY <1>1
<1>5. TimesAreCongruent'
  <2> SUFFICES ASSUME NEW k \in 1 .. Len(arrivals), Received(k)
               PROVE  /\ (entries[k].ts - arrivals[k]) % DeltaModulus = 0
                      /\ (\A j \in 1 .. k : entries'[j].ecn # 2) => entries[k].ts = arrivals[k]
                      /\ \A j \in 1 .. k : Received(j)' => entries'[j].ts <= entries[k].ts
    BY <1>3 DEF TimesAreCongruent
  <2> QED  BY <1>3, <1>4 DEF TimesInv, TimesAreCongruent
<1>6. Told' = Told
  BY DEF Told
<1>7. NoLargeDelta(Len(arrivals))' => NoLargeDelta(Len(arrivals))
  BY <1>3 DEF NoLargeDelta
<1>8. Len(arrivals)' <= Len(entries)' /\ (arrivals' # <<>> => Len(entries') >= count')
  BY <1>1 DEF TimesInv
<1> QED  BY <1>3, <1>5, <1>6, <1>7, <1>8 DEF TimesInv

\* Reading a delta.
LEMMA TimesByDelta ==
  ASSUME ParserTypeOK, TimesInv, ReadSmallDelta \/ ReadLargeDelta \/ StampReserved
  PROVE  TimesInv'
<1>1. PICK bits \in Nat, delta \in Nat, told \in Int :
        /\ Stamp(bits, delta, told)
        /\ delta = told \/ delta = LowByte(told)
        /\ entries[Index].ecn # 2 => delta = told
  BY DeltaCases
<1>2. AtDelta /\ Told \in Int /\ tsRounded \in Nat /\ delta \in Int
  BY DeltaCases, ToldTyped DEF ParserTypeOK
<1>3. /\ Len(entries') = Len(entries)
      /\ \A k \in 1 .. Len(entries) :
           /\ entries'[k].ecn = entries[k].ecn
           /\ entries'[k].ts = IF k = Index THEN tsRounded + delta ELSE entries[k].ts
      /\ tsRounded' = tsRounded + delta
      /\ arrivals' = Append(arrivals, Told + told)
      /\ Index \in 1 .. Len(entries)
  BY <1>1, <1>2, StampProperties
<1>4. Told + told \in Int /\ Len(entries) \in Nat
  BY <1>1, <1>2, LenProperties DEF ParserTypeOK
<1>5. /\ Len(arrivals') = Index /\ Index = Len(arrivals) + 1
      /\ Len(arrivals) \in Nat
      /\ arrivals' # <<>>
      /\ \A k \in 1 .. Len(arrivals) : arrivals'[k] = arrivals[k]
      /\ arrivals'[Index] = Told + told
      /\ Told' = Told + told
  BY <1>3, <1>4, ToldNext
<1>6. (tsRounded' - Told') % DeltaModulus = 0
  <2>1. (tsRounded - Told) % DeltaModulus = 0 /\ tsRounded \in Int
        /\ DeltaModulus \in Nat \ {0}
    BY <1>2, WidthAssumption DEF TimesInv
  <2>2. CASE delta = told
    <3>1. tsRounded' - Told' = tsRounded - Told
      BY <1>2, <1>3, <1>5, <2>2
    <3> QED  BY <2>1, <3>1
  <2>3. CASE delta = LowByte(told)
    <3>1. PICK x \in Int : x = tsRounded - Told
      BY <1>2, <2>1
    <3>2. Multiple(x)
      BY <2>1, <3>1 DEF Multiple
    <3>3. PICK y \in Int : y = x + delta - told
      BY <1>2, <3>1
    <3>4. Multiple(y)
      BY <2>3, <3>2, <3>3, MultipleStays
    <3>5. y = tsRounded' - Told'
      BY <1>2, <1>3, <1>5, <2>1, <3>1, <3>3
    <3> QED  BY <3>4, <3>5 DEF Multiple
  <2> QED  BY <1>1, <2>2, <2>3
<1>7. \A k \in 1 .. Index : entries'[k].ecn = entries[k].ecn /\ Received(k)' = Received(k)
  <2>1. \A k \in 1 .. Index : k \in 1 .. Len(entries)
    BY <1>3, <1>4, <1>5
  <2> QED  BY <1>3, <2>1 DEF Received
<1>8. ASSUME NEW k \in 1 .. Index, \A j \in 1 .. k : entries'[j].ecn # 2, k = Index
      PROVE  tsRounded + delta = Told + told
  <2>1. \A j \in 1 .. Index : entries[j].ecn # 2
    BY <1>7, <1>8
  <2>2. delta = told
    BY <1>1, <1>5, <2>1
  <2>3. NoLargeDelta(Len(arrivals))
    BY <1>5, <2>1 DEF NoLargeDelta
  <2> QED  BY <2>2, <2>3 DEF TimesInv
<1>9. NoLargeDelta(Len(arrivals))' => tsRounded' = Told'
  BY <1>3, <1>5, <1>8 DEF NoLargeDelta
<1>10. ASSUME NEW k \in 1 .. Index, Received(k)'
       PROVE  IF k = Index THEN entries'[k].ts = tsRounded + delta
              ELSE /\ k \in 1 .. Len(arrivals) /\ Received(k)
                   /\ entries'[k].ts = entries[k].ts /\ arrivals'[k] = arrivals[k]
  <2>1. k \in 1 .. Len(entries) /\ k \in Int
    BY <1>3, <1>4, <1>5
  <2>2. k # Index => k \in 1 .. Len(arrivals)
    BY <1>5
  <2> QED  BY <1>3, <1>5, <1>7, <1>10, <2>1, <2>2
<1>11. ASSUME NEW k \in 1 .. Index, Received(k)'
       PROVE  entries'[k].ts <= tsRounded + delta
  <2>1. CASE k = Index
    BY <1>2, <1>10, <1>11, <2>1
  <2>2. CASE k # Index
    <3>1. k \in 1 .. Len(arrivals) /\ Received(k) /\ entries'[k].ts = entries[k].ts
      BY <1>10, <1>11, <2>2
    <3>2. entries[k].ts <= tsRounded
      BY <3>1 DEF TimesInv
    <3>3. entries[k].ts \in Nat
      <4>1. k \in 1 .. Len(entries)
        BY <1>3, <1>4, <1>5
      <4>2. entries \in Seq(Entry)
        BY DEF ParserTypeOK, Entry, Numbers
      <4>3. entries[k] \in Entry
        BY <4>1, <4>2, ElementOfSeq
      <4> QED  BY <4>3 DEF Entry
    <3> QED  BY <1>1, <1>2, <3>1, <3>2, <3>3
  <2> QED  BY <2>1, <2>2
<1>12. TimesAreCongruent'
  <2> SUFFICES ASSUME NEW k \in 1 .. Index, Received(k)'
               PROVE  /\ (entries'[k].ts - arrivals'[k]) % DeltaModulus = 0
                      /\ (\A j \in 1 .. k : entries'[j].ecn # 2) => entries'[k].ts = arrivals'[k]
                      /\ \A j \in 1 .. k : Received(j)' => entries'[j].ts <= entries'[k].ts
    BY <1>5 DEF TimesAreCongruent
  <2>1. CASE k = Index
    <3>1. entries'[k].ts = tsRounded' /\ arrivals'[k] = Told'
      BY <1>3, <1>5, <1>10, <2>1
    <3>2. (\A j \in 1 .. k : entries'[j].ecn # 2) => entries'[k].ts = arrivals'[k]
      BY <1>3, <1>5, <1>8, <2>1, <3>1
    <3>3. \A j \in 1 .. k : Received(j)' => entries'[j].ts <= entries'[k].ts
      BY <1>3, <1>11, <2>1, <3>1
    <3> QED  BY <1>6, <3>1, <3>2, <3>3
  <2>2. CASE k # Index
    <3>1. /\ k \in 1 .. Len(arrivals) /\ Received(k)
          /\ entries'[k].ts = entries[k].ts /\ arrivals'[k] = arrivals[k]
      BY <1>10, <2>2
    <3>2. \A j \in 1 .. k : j \in 1 .. Len(arrivals) /\ j \in 1 .. Index /\ j # Index
      BY <1>5, <3>1
    <3>3. (\A j \in 1 .. k : entries'[j].ecn # 2) => \A j \in 1 .. k : entries[j].ecn # 2
      BY <1>7, <3>2
    <3>4. \A j \in 1 .. k : Received(j)' => Received(j) /\ entries'[j].ts = entries[j].ts
      BY <1>10, <3>2
    <3> QED  BY <3>1, <3>3, <3>4 DEF TimesInv, TimesAreCongruent
  <2> QED  BY <2>1, <2>2
<1>13. phase' = "chunks" /\ count' = count
  BY <1>1, <1>2 DEF Stamp, AtDelta
<1>14. Len(entries) >= count
  BY <1>2 DEF AtDelta, Parsed
<1>15. Len(arrivals)' <= Len(entries)'
  BY <1>3, <1>4, <1>5
<1> QED
  BY <1>3, <1>5, <1>6, <1>9, <1>11, <1>12, <1>13, <1>14, <1>15 DEF TimesInv

\* Skipping a packet that was not received.
LEMMA TimesBySkip ==
  ASSUME ParserTypeOK, TimesInv, SkipLost
  PROVE  TimesInv'
<1>1. /\ AtDelta /\ entries[Index].ecn = 0
      /\ arrivals' = Append(arrivals, Told) /\ Told \in Int
      /\ UNCHANGED <<phase, count, entries, tsRounded>>
  BY ToldTyped DEF SkipLost
<1>2. /\ Len(arrivals') = Index /\ Index = Len(arrivals) + 1
      /\ Len(arrivals) \in Nat
      /\ arrivals' # <<>>
      /\ \A k \in 1 .. Len(arrivals) : arrivals'[k] = arrivals[k]
      /\ Told' = Told
  BY <1>1, ToldNext
<1>3. Len(arrivals) < Len(entries) /\ Len(entries) >= count /\ phase = "chunks"
      /\ Len(entries) \in Nat /\ count \in Nat
  BY <1>1, LenProperties DEF AtDelta, Parsed, ParserTypeOK
<1>4. ASSUME NEW k \in 1 .. Index, Received(k)'
      PROVE  /\ k \in 1 .. Len(arrivals) /\ Received(k) /\ arrivals'[k] = arrivals[k]
  <2>1. Received(k) /\ k # Index
    BY <1>1, <1>4 DEF Received
  <2> QED  BY <1>2, <2>1
<1>5. TimesAreCongruent'
  <2> SUFFICES ASSUME NEW k \in 1 .. Index, Received(k)'
               PROVE  /\ (entries[k].ts - arrivals'[k]) % DeltaModulus = 0
                      /\ (\A j \in 1 .. k : entries[j].ecn # 2) => entries[k].ts = arrivals'[k]
                      /\ \A j \in 1 .. k : Received(j)' => entries[j].ts <= entries[k].ts
    BY <1>1, <1>2 DEF TimesAreCongruent
  <2>1. k \in 1 .. Len(arrivals) /\ Received(k) /\ arrivals'[k] = arrivals[k]
    BY <1>4
  <2>2. \A j \in 1 .. k : Received(j)' = Received(j)
    BY <1>1 DEF Received
  <2> QED  BY <2>1, <2>2 DEF TimesInv, TimesAreCongruent
<1>6. NoLargeDelta(Len(arrivals))' => NoLargeDelta(Len(arrivals))
  BY <1>1, <1>2 DEF NoLargeDelta
<1>7. \A k \in 1 .. Index : Received(k)' => entries[k].ts <= tsRounded
  BY <1>4 DEF TimesInv
<1>8. Len(arrivals)' <= Len(entries)
  BY <1>2, <1>3
<1> QED  BY <1>1, <1>2, <1>3, <1>5, <1>6, <1>7, <1>8 DEF TimesInv

\* Truncating 2-byte deltas shifts times by whole turns of the byte only, not
\* at all before the first of them, and never backwards.
THEOREM TimesTheorem == Spec => []TimesAreCongruent
<1>1. Init => TimesInv
  <2> SUFFICES ASSUME Init PROVE TimesInv
    OBVIOUS
  <2>1. Len(arrivals) = 0 /\ Len(entries) = 0 /\ tsRounded = 0 /\ Told = 0
    BY DEF Init, Told
  <2>2. (0 - 0) % DeltaModulus = 0
    BY WidthAssumption
  <2> QED  BY <2>1, <2>2 DEF Init, TimesInv, TimesAreCongruent, NoLargeDelta
<1>2. ParserTypeOK /\ TimesInv /\ [Next]_vars => TimesInv'
  <2> SUFFICES ASSUME ParserTypeOK, TimesInv, [Next]_vars PROVE TimesInv'
    OBVIOUS
  <2>0. Len(entries) \in Nat
    BY LenProperties DEF ParserTypeOK
  <2>1. CASE ReadBase
    BY <2>0, <2>1, TimesKept DEF ReadBase
  <2>2. CASE ReadHeader
    <3>1. /\ arrivals' = <<>> /\ phase' = "chunks" /\ entries' = entries
          /\ tsRounded' = refTime' /\ refTime' \in Int /\ Len(arrivals') = 0
      BY <2>2, MessageAssumption DEF ReadHeader, TimesInv
    <3>2. Told' = refTime'
      BY <3>1 DEF Told
    <3>4. tsRounded' - Told' = 0
      <4>1. ASSUME NEW r \in Int PROVE r - r = 0
        OBVIOUS
      <4> QED  BY <3>1, <3>2, <4>1
    <3>3. 0 % DeltaModulus = 0
      BY WidthAssumption
    <3> QED  BY <2>0, <3>1, <3>2, <3>3, <3>4 DEF TimesInv, TimesAreCongruent
  <2>3. CASE \/ \E symbol \in 0 .. 3, run \in Runs : ReadRun(symbol, run)
             \/ \E size \in {1, 2} : \E symbols \in Symbols(size) : ReadVector(size, symbols)
    <3>1. PICK bits \in Nat, symbols \in Seq(0 .. 3) :
            Take(bits, symbols) /\ AtChunk /\ Len(symbols) <= count - Len(entries)
      BY <2>3, ChunkProperties
    <3>2. Len(symbols) \in Nat
      BY LenProperties
    <3>3. /\ Len(entries') = Len(entries) + Len(symbols)
          /\ \A k \in 1 .. Len(entries) : entries'[k] = entries[k]
      BY <3>1, TakeProperties
    <3>4. UNCHANGED <<tsRounded, arrivals, refTime, count, phase>>
      BY <3>1 DEF Take
    <3> QED  BY <2>0, <3>2, <3>3, <3>4, TimesKept
  <2>4. CASE ReadSmallDelta \/ ReadLargeDelta \/ StampReserved
    BY <2>4, TimesByDelta
  <2>5. CASE SkipLost
    BY <2>5, TimesBySkip
  <2>6. CASE Finish \/ Fail \/ Panic
    BY <2>0, <2>6, TimesKept DEF Finish, Fail, Panic, ReadsOnwards
  <2>7. CASE UNCHANGED vars
    BY <2>0, <2>7, TimesKept DEF vars
  <2> QED  BY <2>1, <2>2, <2>3, <2>4, <2>5, <2>6, <2>7 DEF Next
<1>3. TimesInv => TimesAreCongruent
  BY DEF TimesInv
<1> QED  BY <1>1, <1>2, <1>3, ParserTypeCorrect, PTL DEF Spec
=============================================================================
