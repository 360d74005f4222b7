-------------------------- MODULE TxFeedback_proofs --------------------------
(***************************************************************************)
(* Proofs about TxFeedback for every width of the numbers, every bound on  *)
(* packets and messages, and every first number: also 0, which sink_chain  *)
(* takes for "no offset yet".                                              *)
(***************************************************************************)
EXTENDS TxFeedback, SenderController_proofs

\* Adding one to a number before it is reduced is Succ after it.
LEMMA PlusOne ==
  ASSUME NEW x \in Nat
  PROVE  x % SeqModulus \in SeqNr /\ (x + 1) % SeqModulus = Succ(x % SeqModulus)
<1>1. PICK r \in Int : r = x % SeqModulus
  BY SeqModulusAssumption
<1>2. PICK q \in Int : q = x \div SeqModulus
  BY SeqModulusAssumption
<1>3. r \in 0 .. SeqModulus - 1 /\ x = SeqModulus * q + r
  BY SeqModulusAssumption, <1>1, <1>2
<1>4. PICK s \in Int : s = (x + 1) % SeqModulus
  BY SeqModulusAssumption
<1>5. PICK p \in Int : p = (x + 1) \div SeqModulus
  BY SeqModulusAssumption
<1>6. s \in 0 .. SeqModulus - 1 /\ x + 1 = SeqModulus * p + s
  BY SeqModulusAssumption, <1>4, <1>5
<1>7. PICK d \in Int : d = p - q
  OBVIOUS
<1>8. SeqModulus * d = r + 1 - s
  BY <1>3, <1>6, <1>7, SeqModulusAssumption
<1>9. d = 0 \/ d = 1
  <2>1. SeqModulus * d > -SeqModulus /\ SeqModulus * d <= SeqModulus
    BY <1>3, <1>6, <1>8, SeqModulusAssumption
  <2> QED
    BY <2>1, SeqModulusAssumption
<1>10. s = Succ(r)
  <2>1. CASE d = 0
    BY <1>3, <1>6, <1>8, <2>1, SeqModulusAssumption DEF Succ
  <2>2. CASE d = 1
    BY <1>3, <1>6, <1>8, <2>2, SeqModulusAssumption DEF Succ
  <2> QED
    BY <1>9, <2>1, <2>2
<1> QED
  BY <1>1, <1>3, <1>4, <1>10 DEF SeqNr

\* A wrapped distance grows by one with its first argument.
LEMMA MinusOfSucc ==
  ASSUME NEW a \in SeqNr, NEW b \in SeqNr
  PROVE  Minus(Succ(a), b) = Succ(Minus(a, b))
BY SeqModulusAssumption DEF SeqNr, Minus, Succ

\* A number in range is its own remainder.
LEMMA InRange ==
  ASSUME NEW a \in SeqNr
  PROVE  a % SeqModulus = a
<1>0. a \in Int
  BY SeqModulusAssumption DEF SeqNr
<1>1. PICK r \in Int : r = a % SeqModulus
  BY <1>0, SeqModulusAssumption
<1>2. PICK q \in Int : q = a \div SeqModulus
  BY <1>0, SeqModulusAssumption
<1>3. r \in 0 .. SeqModulus - 1 /\ a = SeqModulus * q + r
  BY <1>0, SeqModulusAssumption, <1>1, <1>2
<1>4. SeqModulus * q > -SeqModulus /\ SeqModulus * q < SeqModulus
  BY <1>3, SeqModulusAssumption DEF SeqNr
<1>5. q = 0
  BY <1>4, SeqModulusAssumption
<1> QED
  BY <1>1, <1>3, <1>5, SeqModulusAssumption DEF SeqNr

-----------------------------------------------------------------------------
(* Type correctness *)

Item == [seq : SeqNr, rx : Int]

\* Every number after the first is a number of the space.
LEMMA PlusInRange ==
  ASSUME NEW n \in SeqNr, NEW k \in Nat
  PROVE  Plus(n, k) \in SeqNr
<1>1. n + k \in Nat
  BY SeqModulusAssumption DEF SeqNr
<1> QED
  BY <1>1, PlusOne DEF Plus

\* What sink_chain passes on is a number of the space.
LEMMA PassedInRange ==
  ASSUME TxTypeOK
  PROVE  Passed \in SeqNr /\ Twcc \in SeqNr /\ NextSequence(Passed) \in SeqNr
<1>1. Twcc \in SeqNr
  BY PlusInRange DEF TxTypeOK, Twcc
<1>2. Passed \in SeqNr
  <2>1. CASE offset = 0
    BY <2>1, SeqModulusAssumption DEF Passed, SeqNr
  <2>2. CASE offset # 0
    BY <1>1, <2>2, MinusProperties DEF Passed, TxTypeOK
  <2> QED
    BY <2>1, <2>2
<1>3. NextSequence(Passed) \in SeqNr
  BY <1>2, SuccProperties DEF NextSequence, TxTypeOK, TypeOK
<1> QED
  BY <1>1, <1>2, <1>3

\* The first step of a send keeps the types.
LEMMA SendNumberTyped ==
  ASSUME TxTypeOK, NEW size \in Sizes, SendNumber(size)
  PROVE  TxTypeOK'
<1> DEFINE entry == [seq |-> Passed, tx |-> now, size |-> size]
<1>1. entry \in Sent
  BY PassedInRange, InputsAssumption DEF TxTypeOK, TypeOK, Sent
<1>2. sending' = <<entry>> \/ sending' = <<>>
  BY DEF SendNumber
<1> HIDE DEF entry
<1>3. sending' \in Seq(Sent) /\ Len(sending') <= 1
  <2>1. /\ <<entry>> \in Seq(Sent) /\ Len(<<entry>>) <= 1
        /\ <<>> \in Seq(Sent) /\ Len(<<>>) <= 1
    BY <1>1
  <2> QED
    BY <1>2, <2>1
<1>4. TypeOK'
  BY PassedInRange DEF SendNumber, TxTypeOK, TypeOK, historyVars
<1>5. offset' \in SeqNr /\ sentCount' \in Nat
  BY PassedInRange DEF SendNumber, OffsetAfter, TxTypeOK
<1> QED
  BY <1>3, <1>4, <1>5 DEF SendNumber, TxTypeOK

\* The list once the entry under way is stored: a suffix of the old list with
\* the entry at its end.
LEMMA StoreShape ==
  ASSUME TxTypeOK, SendStore
  PROVE  /\ Len(sending) = 1 /\ sending[1] \in Sent
         /\ inTransit' \in Seq(Sent)
         /\ \E k \in 0 .. Len(inTransit) :
              /\ Len(inTransit') = Len(inTransit) + 1 - k
              /\ \A i \in 1 .. Len(inTransit) - k : inTransit'[i] = inTransit[k + i]
              /\ inTransit'[Len(inTransit')] = sending[1]
<1> DEFINE list == inTransit \o sending
<1>1. /\ inTransit \in Seq(Sent) /\ sending \in Seq(Sent)
      /\ Len(inTransit) \in Nat /\ Len(sending) \in Nat /\ Len(sending) <= 1
  BY LenProperties DEF TxTypeOK, TypeOK
<1>2. Len(sending) = 1
  <2>1. sending # <<>>
    BY DEF SendStore
  <2>2. PICK m \in Nat : m = Len(sending)
    BY <1>1
  <2>3. m # 0
    BY <1>1, <2>1, <2>2, EmptySeq
  <2>4. m <= 1
    BY <1>1, <2>2
  <2>5. m = 1
    BY <2>3, <2>4
  <2> QED
    BY <2>2, <2>5
<1>3. sending[1] \in Sent
  BY <1>1, <1>2, ElementOfSeq
<1>4. /\ list \in Seq(Sent) /\ Len(list) = Len(inTransit) + 1
      /\ \A i \in 1 .. Len(inTransit) : list[i] = inTransit[i]
      /\ list[Len(inTransit) + 1] = sending[1]
  <2>1. /\ list \in Seq(Sent) /\ Len(list) = Len(inTransit) + Len(sending)
        /\ \A i \in 1 .. Len(inTransit) + Len(sending) :
             list[i] = IF i <= Len(inTransit) THEN inTransit[i]
                       ELSE sending[i - Len(inTransit)]
    BY <1>1, ConcatProperties
  <2> HIDE DEF list
  <2>2. Len(list) = Len(inTransit) + 1
    BY <1>2, <2>1
  <2>3. list[Len(inTransit) + 1] = sending[1]
    BY <1>1, <1>2, <2>1
  <2>4. \A i \in 1 .. Len(inTransit) : list[i] = inTransit[i]
    BY <1>1, <1>2, <2>1
  <2> QED
    BY <2>1, <2>2, <2>3, <2>4
<1>5. PICK k \in 0 .. Len(list) - 1 : inTransit' = SubSeq(list, k + 1, Len(list))
  BY DEF SendStore, TrimInTransit
<1> HIDE DEF list
<1>6. k \in 0 .. Len(list) /\ k \in 0 .. Len(inTransit)
  BY <1>1, <1>4
<1>7. /\ inTransit' \in Seq(Sent) /\ Len(inTransit') = Len(list) - k
      /\ \A i \in 1 .. Len(list) - k : inTransit'[i] = list[k + i]
  BY <1>4, <1>5, <1>6, SuffixProperties
<1>8. Len(inTransit') = Len(inTransit) + 1 - k
  BY <1>1, <1>4, <1>6, <1>7
<1>9. inTransit'[Len(inTransit')] = sending[1]
  <2>1. Len(inTransit') \in 1 .. Len(list) - k /\ k + Len(inTransit') = Len(inTransit) + 1
    BY <1>1, <1>4, <1>6, <1>8
  <2> QED
    BY <1>4, <1>7, <2>1
<1>10. ASSUME NEW i \in 1 .. Len(inTransit) - k PROVE inTransit'[i] = inTransit[k + i]
  <2>1. i \in 1 .. Len(list) - k /\ k + i \in 1 .. Len(inTransit)
    BY <1>1, <1>4, <1>6
  <2> QED
    BY <1>4, <1>7, <2>1
<1> QED
  BY <1>2, <1>3, <1>6, <1>7, <1>8, <1>9, <1>10
\* Storing the entry keeps the types.
LEMMA SendStoreTyped ==
  ASSUME TxTypeOK, SendStore
  PROVE  TxTypeOK'
<1>1. TypeOK'
  BY StoreShape DEF SendStore, TxTypeOK, TypeOK, sendVars, historyVars
<1>2. sending' \in Seq(Sent) /\ Len(sending') <= 1
  BY DEF SendStore
<1> QED
  BY <1>1, <1>2 DEF SendStore, TxTypeOK

\* Accepting a message keeps the types.
LEMMA ParseTyped ==
  ASSUME TxTypeOK, NEW i \in 0 .. MaxSent - 1, NEW n \in 1 .. MaxBatch, RtcpParse(i, n)
  PROVE  TxTypeOK'
<1>0. \A x \in RxTimes \union {0} : x \in Int
  BY InputsAssumption
<1>1. i \in Nat /\ n \in Nat
  BY TwccAssumption
<1>2. lastBase' \in SeqNr
  BY <1>1, PlusInRange DEF RtcpParse, TxTypeOK
<1>3. batch' \in Seq(Item)
  <2>1. PICK rx \in [1 .. n -> RxTimes \union {0}] :
          batch' = [k \in 1 .. n |-> [seq |-> Plus(firstTwcc, i + k - 1), rx |-> rx[k]]]
    BY DEF RtcpParse, Items
  <2>2. ASSUME NEW k \in 1 .. n
        PROVE  [seq |-> Plus(firstTwcc, i + k - 1), rx |-> rx[k]] \in Item
    <3>1. i + k - 1 \in Nat
      BY <1>1
    <3>2. Plus(firstTwcc, i + k - 1) \in SeqNr
      BY <3>1, PlusInRange DEF TxTypeOK
    <3>3. rx[k] \in RxTimes \union {0}
      BY <2>1, <2>2
    <3>4. rx[k] \in Int
      BY <1>0, <3>3
    <3> QED
      BY <3>2, <3>4 DEF Item
  <2> QED
    BY <1>1, <2>1, <2>2
<1>4. TypeOK'
  BY DEF RtcpParse, TxTypeOK, TypeOK, senderVars, vars, sendVars, historyVars
<1> QED
  BY <1>2, <1>3, <1>4 DEF RtcpParse, TxTypeOK, Item

\* A feedback call is about a number of the space, and keeps the types.
LEMMA RtcpFeedbackTyped ==
  ASSUME TxTypeOK, RtcpFeedback
  PROVE  /\ Head(batch).seq \in SeqNr /\ Head(batch).rx \in Int
         /\ TxTypeOK'
<1>1. batch \in Seq(Item) /\ batch # <<>>
  BY DEF RtcpFeedback, TxTypeOK, Item
<1>2. Head(batch) \in Item /\ Tail(batch) \in Seq(Item)
  BY <1>1, HeadTailProperties
<1>3. Head(batch).seq \in SeqNr /\ Head(batch).rx \in Int
  BY <1>2 DEF Item
<1>4. Feedback(Head(batch).seq, Head(batch).rx) /\ TypeOK
  BY DEF RtcpFeedback, TxTypeOK
<1>5. TypeOK'
  BY <1>3, <1>4, FeedbackTyped
<1> QED
  BY <1>2, <1>3, <1>5 DEF RtcpFeedback, TxTypeOK, Item

\* The panics and the clock keep the types.
LEMMA OtherTyped ==
  ASSUME TxTypeOK,
         \/ SendPanics \/ TxTick \/ UNCHANGED txVars
         \/ \E i \in 0 .. MaxSent - 1, n \in 1 .. MaxBatch : RtcpPanics(i, n)
  PROVE  TxTypeOK'
<1>1. TypeOK'
  BY DEF SendPanics, TxTick, Tick, Unchanged, RtcpPanics, TxTypeOK, TypeOK,
         txVars, senderVars, vars, sendVars, historyVars
<1>2. /\ UNCHANGED <<firstTwcc, sentCount, offset, sending, lastBase, batch,
                     overflowChecks>>
      /\ panicked' = panicked \/ panicked' = TRUE
  BY DEF SendPanics, TxTick, RtcpPanics, txVars, threadVars
<1> QED
  BY <1>1, <1>2 DEF TxTypeOK

\* Every step keeps the types.
LEMMA TxNextTyped == TxTypeOK /\ [TxNext]_txVars => TxTypeOK'
  BY SendNumberTyped, SendStoreTyped, ParseTyped, RtcpFeedbackTyped, OtherTyped
     DEF TxNext

\* The initial states are well typed.
LEMMA TxInitTyped == TxInit => TxTypeOK
<1> SUFFICES ASSUME TxInit PROVE TxTypeOK
  OBVIOUS
<1>1. TypeOK
  BY InitTyped DEF TxInit
<1>2. 0 \in SeqNr
  BY SeqModulusAssumption DEF SeqNr
<1>3. sending \in Seq(Sent) /\ Len(sending) <= 1 /\ batch \in Seq(Item)
  BY DEF TxInit
<1>4. firstTwcc \in SeqNr
  BY TwccAssumption DEF TxInit
<1>5. sentCount \in Nat /\ offset \in SeqNr /\ lastBase \in SeqNr /\ panicked \in BOOLEAN
  BY <1>2 DEF TxInit
<1>6. overflowChecks \in BOOLEAN
  BY DEF TxInit
<1> QED
  BY <1>1, <1>3, <1>4, <1>5, <1>6 DEF TxTypeOK, Item

\* In both builds, with any message and any overlap of the two threads, the
\* numbers passed to the controller and kept by it stay 16-bit numbers.
THEOREM TxTypeCorrect == TxSpec => []TxTypeOK
  BY TxInitTyped, TxNextTyped, PTL DEF TxSpec

-----------------------------------------------------------------------------
(* The controller's numbers follow the transport-wide ones *)

\* Before the first packet nothing is set; from then on the offset is the first
\* number, or 1 after a first number of 0, and then nothing more is stored.
NumberInv ==
  /\ sentCount = 0 =>
       offset = 0 /\ firstSend = TRUE /\ sending = <<>> /\ inTransit = <<>>
  /\ sentCount > 0 => firstSend = FALSE
  /\ (sentCount > 0 /\ ~StartMistaken) => offset = firstTwcc
  /\ StartMistaken => offset = 1 /\ sending = <<>>
  /\ NumbersFollowTwcc

\* The next packet makes the mistake felt: the first one carried 0.
RefusesNext == firstTwcc = 0 /\ sentCount > 0

\* The first packet: its number becomes the offset.
LEMMA FirstPassed ==
  ASSUME TxTypeOK, NumberInv, sentCount = 0
  PROVE  /\ Twcc = firstTwcc /\ OffsetAfter = firstTwcc
         /\ Passed = 0 /\ NextSequence(Passed) = 0
<1>1. firstTwcc \in SeqNr /\ firstTwcc + 0 = firstTwcc
  BY SeqModulusAssumption DEF TxTypeOK, SeqNr
<1>2. Twcc = firstTwcc
  BY <1>1, InRange DEF Twcc, Plus
<1>3. offset = 0 /\ firstSend = TRUE
  BY DEF NumberInv
<1> QED
  BY <1>2, <1>3 DEF Passed, OffsetAfter, NextSequence

\* Every later number is the successor of the one before it.
LEMMA LaterTwcc ==
  ASSUME TxTypeOK, NumberInv, sentCount > 0
  PROVE  /\ sentCount - 1 \in Nat
         /\ Plus(firstTwcc, sentCount - 1) \in SeqNr
         /\ Twcc = Succ(Plus(firstTwcc, sentCount - 1))
         /\ \A seq \in SeqNr : NextSequence(seq) = Succ(lastSequence)
<1>1. firstTwcc \in Nat /\ sentCount \in Nat /\ sentCount - 1 \in Nat
  BY SeqModulusAssumption DEF TxTypeOK, SeqNr
<1>2. PICK x \in Nat : x = firstTwcc + (sentCount - 1)
  BY <1>1
<1>3. x + 1 = firstTwcc + sentCount
  BY <1>1, <1>2
<1>4. firstSend = FALSE
  BY DEF NumberInv
<1> QED
  BY <1>1, <1>2, <1>3, <1>4, PlusOne DEF Plus, Twcc, NextSequence

\* Unless the first number was 0, the number sink_chain passes on is the one
\* processSendPacket expects.
LEMMA PassedIsNext ==
  ASSUME TxTypeOK, NumberInv, ~RefusesNext
  PROVE  /\ Passed = NextSequence(Passed)
         /\ OffsetAfter = firstTwcc
         /\ NextSequence(Passed) = Minus(Plus(firstTwcc, sentCount), OffsetAfter)
         /\ sentCount > 0 => NextSequence(Passed) = Succ(lastSequence)
<1>1. firstTwcc \in SeqNr /\ sentCount \in Nat
  BY DEF TxTypeOK
<1>2. CASE sentCount = 0
  <2>1. Minus(firstTwcc, firstTwcc) = 0
    BY <1>1, MinusProperties
  <2> QED
    BY <1>2, <2>1, FirstPassed DEF Twcc
<1>3. CASE sentCount # 0
  <2>1. sentCount > 0 /\ firstTwcc # 0 /\ ~StartMistaken
    BY <1>1, <1>3 DEF RefusesNext, StartMistaken
  <2>2. offset = firstTwcc
    BY <2>1 DEF NumberInv
  <2>3. lastSequence = Minus(Plus(firstTwcc, sentCount - 1), firstTwcc)
    BY <2>1, <2>2 DEF NumberInv, NumbersFollowTwcc
  <2>4. Minus(Twcc, firstTwcc) = Succ(lastSequence)
    BY <1>1, <2>1, <2>3, LaterTwcc, MinusOfSucc
  <2>5. Passed = Succ(lastSequence) /\ OffsetAfter = firstTwcc
    BY <2>1, <2>2, <2>4 DEF Passed, OffsetAfter
  <2>6. NextSequence(Passed) = Succ(lastSequence)
    BY <2>1, LaterTwcc, PassedInRange
  <2> QED
    BY <2>4, <2>5, <2>6 DEF Twcc
<1> QED
  BY <1>2, <1>3

\* After a first number of 0 every later number is passed on one too low, and
\* the call is refused.
LEMMA PassedIsLate ==
  ASSUME TxTypeOK, NumberInv, RefusesNext
  PROVE  /\ Passed # NextSequence(Passed)
         /\ OffsetAfter = 1
         /\ NextSequence(Passed) = Minus(Twcc, 0)
<1>1. firstTwcc = 0 /\ sentCount > 0 /\ sentCount \in Nat
  BY DEF RefusesNext, TxTypeOK
<1>2. 0 \in SeqNr /\ 1 \in SeqNr /\ lastSequence \in SeqNr /\ Twcc \in SeqNr
  BY SeqModulusAssumption, PassedInRange DEF SeqNr, TxTypeOK, TypeOK
<1>3. \A n \in SeqNr : Minus(n, 0) = n
  BY DEF Minus, SeqNr
<1>4. NextSequence(Passed) = Succ(lastSequence)
  BY <1>1, LaterTwcc, PassedInRange
<1>5. CASE sentCount = 1
  <2>1. ~StartMistaken /\ offset = 0
    BY <1>1, <1>5 DEF NumberInv, StartMistaken
  <2>2. Plus(firstTwcc, sentCount - 1) = 0
    BY <1>1, <1>2, <1>5, InRange DEF Plus
  <2>3. lastSequence = 0
    BY <1>1, <1>2, <1>3, <2>1, <2>2 DEF NumberInv, NumbersFollowTwcc
  <2>4. Succ(0) = 1
    BY SeqModulusAssumption DEF Succ
  <2>5. Twcc = 1
    BY <1>1, <2>2, <2>4, LaterTwcc
  <2>6. Passed = 0 /\ OffsetAfter = 1
    BY <2>1, <2>5 DEF Passed, OffsetAfter
  <2> QED
    BY <1>2, <1>3, <1>4, <2>3, <2>4, <2>5, <2>6
<1>6. CASE sentCount # 1
  <2>1. StartMistaken /\ offset = 1
    BY <1>1, <1>6 DEF NumberInv, StartMistaken
  <2>2. Plus(firstTwcc, sentCount - 1) \in SeqNr
    BY <1>1, LaterTwcc
  <2>3. lastSequence = Plus(firstTwcc, sentCount - 1)
    BY <1>1, <1>3, <2>1, <2>2 DEF NumberInv, NumbersFollowTwcc
  <2>4. Twcc = Succ(lastSequence)
    BY <1>1, <2>3, LaterTwcc
  <2>5. Passed = Minus(Twcc, 1) /\ OffsetAfter = 1
    BY <2>1 DEF Passed, OffsetAfter
  <2>6. Minus(Twcc, 1) # Twcc
    BY <1>2, SeqModulusAssumption DEF Minus, SeqNr
  <2> QED
    BY <1>2, <1>3, <1>4, <2>4, <2>5, <2>6
<1> QED
  BY <1>5, <1>6

\* Numbering a packet keeps the invariant.
LEMMA SendNumberNumbers ==
  ASSUME TxTypeOK, NumberInv, NEW size \in Sizes, SendNumber(size)
  PROVE  NumberInv'
<1>1. sentCount \in Nat
  BY DEF TxTypeOK
<1>2. /\ sentCount' = sentCount + 1 /\ offset' = OffsetAfter
      /\ firstSend' = FALSE /\ lastSequence' = NextSequence(Passed)
      /\ firstTwcc' = firstTwcc
      /\ Passed # NextSequence(Passed) => sending' = <<>>
  BY DEF SendNumber
<1>3. sentCount' > 0 /\ sentCount' # 0 /\ sentCount' - 1 = sentCount
  BY <1>1, <1>2
<1>4. StartMistaken' <=> RefusesNext
  BY <1>1, <1>2 DEF StartMistaken, RefusesNext
<1>5. CASE RefusesNext
  <2>1. NumbersFollowTwcc'
    BY <1>2, <1>3, <1>4, <1>5, PassedIsLate DEF NumbersFollowTwcc, Twcc
  <2> QED
    BY <1>2, <1>3, <1>4, <1>5, <2>1, PassedIsLate DEF NumberInv
<1>6. CASE ~RefusesNext
  <2>1. NumbersFollowTwcc'
    BY <1>2, <1>3, <1>4, <1>6, PassedIsNext DEF NumbersFollowTwcc
  <2> QED
    BY <1>2, <1>3, <1>4, <1>6, <2>1, PassedIsNext DEF NumberInv
<1> QED
  BY <1>5, <1>6

\* A feedback call leaves the numbers of sending alone; what it leaves of the
\* in-transit list is a suffix; and it fails on the end of the list only if
\* the last entry is not the last packet sent.
LEMMA FeedbackShape ==
  ASSUME TypeOK, NEW seq, NEW rx, Feedback(seq, rx)
  PROVE  /\ firstSend' = firstSend /\ lastSequence' = lastSequence
         /\ \/ inTransit' = inTransit
            \/ \E n \in 0 .. Len(inTransit) : inTransit' = Rest(n)
         /\ aborted' = "back_not_last" =>
              aborted = "back_not_last" \/ (inTransit # <<>> /\ ~BackIsLast)
<1>0. Len(inTransit) \in Nat
  BY LenProperties DEF TypeOK
<1>1. CASE FeedbackFromFuture(seq) \/ FeedbackNothingInTransit(seq)
  BY <1>1 DEF FeedbackFromFuture, FeedbackNothingInTransit, vars, sendVars
<1>2. CASE AbortBackNotLast(seq)
  BY <1>2 DEF AbortBackNotLast, sendVars
<1>3. CASE FeedbackOutOfOrder(seq)
  <2>1. PICK n \in 0 .. Len(inTransit) - 1 : inTransit' = Rest(n)
    BY <1>3 DEF FeedbackOutOfOrder
  <2>2. n \in 0 .. Len(inTransit)
    BY <1>0
  <2> QED
    BY <1>3, <2>1, <2>2 DEF FeedbackOutOfOrder, sendVars
<1>4. CASE \/ AbortHalfSpace(seq) \/ FeedbackDecreasing(seq)
           \/ AbortInterLoss(seq) \/ FeedbackRecorded(seq, rx)
  <2>1. PICK n \in 0 .. Len(inTransit) - 1 : inTransit' = Rest(n + 1)
    BY <1>4 DEF AbortHalfSpace, FeedbackDecreasing, AbortInterLoss, FeedbackRecorded
  <2>2. n + 1 \in 0 .. Len(inTransit)
    BY <1>0
  <2>3. UNCHANGED sendVars /\ aborted' \in {aborted, "half_space", "inter_loss"}
    BY <1>4 DEF AbortHalfSpace, FeedbackDecreasing, AbortInterLoss, FeedbackRecorded
  <2> QED
    BY <2>1, <2>2, <2>3 DEF sendVars
<1> QED
  BY <1>1, <1>2, <1>3, <1>4 DEF Feedback, FeedbackTrue, FeedbackFalse, FeedbackAborts
\* The list after a feedback call: a suffix of the one before.
LEMMA FeedbackSuffix ==
  ASSUME TxTypeOK, RtcpFeedback
  PROVE  \E n \in 0 .. Len(inTransit) :
           /\ Len(inTransit') = Len(inTransit) - n
           /\ \A i \in 1 .. Len(inTransit) - n : inTransit'[i] = inTransit[n + i]
<1>1. TypeOK /\ Feedback(Head(batch).seq, Head(batch).rx)
  BY DEF TxTypeOK, RtcpFeedback
<1>2. inTransit \in Seq(Sent) /\ Len(inTransit) \in Nat
  BY LenProperties DEF TxTypeOK, TypeOK
<1>3. CASE inTransit' = inTransit
  <2>1. 0 \in 0 .. Len(inTransit) /\ Len(inTransit) = Len(inTransit) - 0
    BY <1>2
  <2>2. \A i \in 1 .. Len(inTransit) - 0 : i = 0 + i
    BY <1>2
  <2> QED
    BY <1>3, <2>1, <2>2
<1>4. ASSUME NEW n \in 0 .. Len(inTransit), inTransit' = Rest(n)
      PROVE  /\ Len(inTransit') = Len(inTransit) - n
             /\ \A i \in 1 .. Len(inTransit) - n : inTransit'[i] = inTransit[n + i]
  BY <1>2, <1>4, SuffixProperties DEF Rest
<1> QED
  BY <1>1, <1>3, <1>4, FeedbackShape

\* A feedback call keeps the invariant: it leaves an empty list empty.
LEMMA RtcpFeedbackNumbers ==
  ASSUME TxTypeOK, NumberInv, RtcpFeedback
  PROVE  NumberInv'
<1>1. UNCHANGED <<firstTwcc, sentCount, offset, sending>>
  BY DEF RtcpFeedback
<1>2. firstSend' = firstSend /\ lastSequence' = lastSequence
  BY FeedbackShape DEF TxTypeOK, RtcpFeedback
<1>3. NumbersFollowTwcc' /\ (StartMistaken' <=> StartMistaken)
  BY <1>1, <1>2 DEF NumberInv, NumbersFollowTwcc, StartMistaken
<1>4. ASSUME inTransit = <<>> PROVE inTransit' = <<>>
  <2>1. inTransit' \in Seq(Sent)
    BY RtcpFeedbackTyped DEF TxTypeOK, TypeOK
  <2>2. PICK n \in 0 .. Len(inTransit) : Len(inTransit') = Len(inTransit) - n
    BY FeedbackSuffix
  <2>3. Len(inTransit) = 0
    BY <1>4
  <2>4. n = 0
    BY <2>2, <2>3
  <2>5. Len(inTransit') = 0
    BY <2>2, <2>3, <2>4
  <2> QED
    BY <2>1, <2>5, EmptySeq
<1> QED
  BY <1>1, <1>2, <1>3, <1>4 DEF NumberInv

\* Every step keeps the invariant.
LEMMA NumbersNext == TxTypeOK /\ NumberInv /\ [TxNext]_txVars => NumberInv'
<1> SUFFICES ASSUME TxTypeOK, NumberInv, [TxNext]_txVars PROVE NumberInv'
  OBVIOUS
<1>1. CASE SendStore
  <2>1. UNCHANGED <<firstSend, lastSequence, firstTwcc, sentCount, offset>>
    BY <1>1 DEF SendStore, sendVars
  <2>2. sentCount # 0
    BY <1>1 DEF SendStore, NumberInv
  <2>3. sending' = <<>> /\ (StartMistaken' <=> StartMistaken)
    BY <1>1, <2>1 DEF SendStore, StartMistaken
  <2>4. NumbersFollowTwcc'
    BY <2>1, <2>3 DEF NumberInv, NumbersFollowTwcc
  <2> QED
    BY <2>1, <2>2, <2>3, <2>4 DEF NumberInv
<1>2. CASE \/ SendPanics \/ TxTick \/ UNCHANGED txVars
           \/ \E i \in 0 .. MaxSent - 1, n \in 1 .. MaxBatch :
                RtcpParse(i, n) \/ RtcpPanics(i, n)
  <2>1. UNCHANGED <<firstSend, lastSequence, inTransit, firstTwcc, sentCount, offset, sending>>
    BY <1>2 DEF SendPanics, TxTick, Tick, Unchanged, RtcpParse, RtcpPanics, txVars,
         threadVars, senderVars, vars, sendVars
  <2>2. StartMistaken' <=> StartMistaken
    BY <2>1 DEF StartMistaken
  <2>3. NumbersFollowTwcc'
    BY <2>1, <2>2 DEF NumberInv, NumbersFollowTwcc
  <2> QED
    BY <2>1, <2>2, <2>3 DEF NumberInv
<1> QED
  BY <1>1, <1>2, SendNumberNumbers, RtcpFeedbackNumbers DEF TxNext

\* It holds at first.
LEMMA NumbersInit == TxInit => NumberInv
<1> SUFFICES ASSUME TxInit PROVE NumberInv
  OBVIOUS
<1>1. sentCount = 0 /\ offset = 0 /\ sending = <<>>
  BY DEF TxInit
<1>2. firstSend = TRUE /\ inTransit = <<>>
  BY DEF TxInit, Init, Fresh
<1>3. ~StartMistaken
  BY <1>1 DEF StartMistaken
<1> QED
  BY <1>1, <1>2, <1>3 DEF NumberInv, NumbersFollowTwcc

\* Whatever messages arrive, the controller's newest number and the transport-
\* wide number of the newest packet stay a fixed distance apart, through every
\* wrap: the offset, or after a first number of 0 one less, with every later
\* call refused.
THEOREM NumbersTheorem == TxSpec => []NumbersFollowTwcc
<1>1. TxInit => TxTypeOK /\ NumberInv
  BY TxInitTyped, NumbersInit
<1>2. (TxTypeOK /\ NumberInv) /\ [TxNext]_txVars => (TxTypeOK /\ NumberInv)'
  BY TxNextTyped, NumbersNext
<1>3. NumberInv => NumbersFollowTwcc
  BY DEF NumberInv
<1> QED
  BY <1>1, <1>2, <1>3, PTL DEF TxSpec

-----------------------------------------------------------------------------
(* The end of the in-transit list *)

\* Counting the entry under way, the list ends at the last number; every entry
\* is as far from it, in the number space, as from the end of the list.
EndsAtLast ==
  /\ \A i \in 1 .. Len(inTransit) :
       Minus(lastSequence, inTransit[i].seq)
         = (Len(inTransit) + Len(sending) - i) % SeqModulus
  /\ sending # <<>> => sending[1].seq = lastSequence
  /\ sending = <<>> => aborted # "back_not_last"

\* So it is until a first number of 0 makes OnPacket refuse packets.
TailInv == ~StartMistaken => EndsAtLast

\* With nothing under way the last entry is the last packet sent.
LEMMA TailGivesBack ==
  ASSUME TxTypeOK, EndsAtLast, sending = <<>>
  PROVE  inTransit # <<>> => BackIsLast
<1> SUFFICES ASSUME inTransit # <<>> PROVE BackIsLast
  OBVIOUS
<1>1. inTransit \in Seq(Sent) /\ lastSequence \in SeqNr
  BY DEF TxTypeOK, TypeOK
<1>2. PICK m \in Nat \ {0} : m = Len(inTransit)
  BY <1>1, EmptySeq
<1>3. m \in 1 .. Len(inTransit) /\ inTransit[m].seq \in SeqNr
  BY <1>2, ListElements DEF TxTypeOK
<1>4. Len(sending) = 0
  OBVIOUS
<1>5. m + 0 - m = 0
  BY <1>2
<1>6. 0 % SeqModulus = 0
  BY InRange, SeqModulusAssumption DEF SeqNr
<1>7. Minus(lastSequence, inTransit[m].seq) = 0
  BY <1>2, <1>3, <1>4, <1>5, <1>6 DEF EndsAtLast
<1>8. inTransit[m].seq = lastSequence
  BY <1>1, <1>3, <1>7, MinusProperties
<1> QED
  BY <1>2, <1>8 DEF BackIsLast, Last
\* Numbering a packet moves the last number one further from every entry.
LEMMA SendNumberTail ==
  ASSUME TxTypeOK, NumberInv, EndsAtLast, ~RefusesNext,
         NEW size \in Sizes, SendNumber(size)
  PROVE  EndsAtLast'
<1>1. /\ lastSequence' = NextSequence(Passed) /\ inTransit' = inTransit
      /\ sending = <<>>
      /\ sending' = <<[seq |-> Passed, tx |-> now, size |-> size]>>
  BY PassedIsNext DEF SendNumber
<1>2. Len(sending) = 0 /\ Len(sending') = 1 /\ sending' # <<>>
      /\ sending'[1].seq = Passed
  BY <1>1
<1>3. Len(inTransit) \in Nat /\ lastSequence \in SeqNr
  BY LenProperties DEF TxTypeOK, TypeOK
<1>4. ASSUME NEW i \in 1 .. Len(inTransit')
      PROVE  Minus(lastSequence', inTransit'[i].seq)
               = (Len(inTransit') + Len(sending') - i) % SeqModulus
  <2>1. i \in 1 .. Len(inTransit) /\ inTransit'[i] = inTransit[i]
    BY <1>1
  <2>2. sentCount > 0
    <3>1. inTransit # <<>>
      BY <1>3, <2>1
    <3> QED
      BY <3>1 DEF NumberInv, TxTypeOK
  <2>3. lastSequence' = Succ(lastSequence)
    BY <1>1, <2>2, PassedIsNext
  <2>4. PICK x \in Nat : x = Len(inTransit) - i
    BY <1>3, <2>1
  <2>5. Len(inTransit) + 0 - i = x /\ Len(inTransit) + 1 - i = x + 1
    BY <1>3, <2>1, <2>4
  <2>6. Minus(lastSequence, inTransit[i].seq) = x % SeqModulus
    BY <1>2, <2>1, <2>5 DEF EndsAtLast
  <2>7. inTransit[i].seq \in SeqNr
    BY <2>1, ListElements DEF TxTypeOK
  <2>8. Minus(Succ(lastSequence), inTransit[i].seq) = Succ(x % SeqModulus)
    BY <1>3, <2>6, <2>7, MinusOfSucc
  <2>9. Succ(x % SeqModulus) = (x + 1) % SeqModulus
    BY <2>4, PlusOne
  <2> QED
    BY <1>1, <1>2, <2>1, <2>3, <2>5, <2>8, <2>9
<1> QED
  BY <1>1, <1>2, <1>4, PassedIsNext DEF EndsAtLast

\* Storing the entry makes it the end of the list.
LEMMA SendStoreTail ==
  ASSUME TxTypeOK, NumberInv, EndsAtLast, Alive, SendStore
  PROVE  EndsAtLast'
<1>1. /\ sending # <<>> /\ sending' = <<>> /\ lastSequence' = lastSequence
      /\ aborted' # "back_not_last"
  BY DEF SendStore, sendVars, Alive
<1>2. PICK k \in 0 .. Len(inTransit) :
        /\ Len(inTransit') = Len(inTransit) + 1 - k
        /\ \A i \in 1 .. Len(inTransit) - k : inTransit'[i] = inTransit[k + i]
        /\ inTransit'[Len(inTransit')] = sending[1]
  BY StoreShape
<1>3. Len(sending) = 1 /\ Len(sending') = 0
  BY <1>1, StoreShape
<1>4. Len(inTransit) \in Nat /\ lastSequence \in SeqNr
  BY LenProperties DEF TxTypeOK, TypeOK
<1>5. ASSUME NEW i \in 1 .. Len(inTransit')
      PROVE  Minus(lastSequence', inTransit'[i].seq)
               = (Len(inTransit') + Len(sending') - i) % SeqModulus
  <2>1. CASE i = Len(inTransit')
    <3>1. inTransit'[i].seq = lastSequence
      BY <1>1, <1>2, <2>1 DEF EndsAtLast
    <3>2. Minus(lastSequence, lastSequence) = 0
      BY <1>4, MinusProperties
    <3>3. Len(inTransit') + 0 - i = 0
      BY <1>2, <1>4, <2>1
    <3>4. 0 % SeqModulus = 0
      BY InRange, SeqModulusAssumption DEF SeqNr
    <3> QED
      BY <1>1, <1>3, <3>1, <3>2, <3>3, <3>4
  <2>2. CASE i # Len(inTransit')
    <3>1. i \in 1 .. Len(inTransit) - k /\ k + i \in 1 .. Len(inTransit)
      BY <1>2, <1>4, <2>2
    <3>2. inTransit'[i] = inTransit[k + i]
      BY <1>2, <3>1
    <3>3. Minus(lastSequence, inTransit[k + i].seq)
            = (Len(inTransit) + 1 - (k + i)) % SeqModulus
      BY <1>3, <3>1 DEF EndsAtLast
    <3>4. Len(inTransit) + 1 - (k + i) = Len(inTransit') + 0 - i
      BY <1>2, <1>4, <3>1
    <3> QED
      BY <1>1, <1>3, <3>2, <3>3, <3>4
  <2> QED
    BY <2>1, <2>2
<1> QED
  BY <1>1, <1>5 DEF EndsAtLast

\* A feedback call removes entries from the front only.
LEMMA RtcpFeedbackTail ==
  ASSUME TxTypeOK, NumberInv, EndsAtLast, Alive, RtcpFeedback
  PROVE  EndsAtLast'
<1>1. sending' = sending /\ lastSequence' = lastSequence
  BY FeedbackShape DEF TxTypeOK, RtcpFeedback
<1>2. PICK n \in 0 .. Len(inTransit) :
        /\ Len(inTransit') = Len(inTransit) - n
        /\ \A i \in 1 .. Len(inTransit) - n : inTransit'[i] = inTransit[n + i]
  BY FeedbackSuffix
<1>3. Len(inTransit) \in Nat /\ Len(sending) \in Nat
  BY LenProperties DEF TxTypeOK, TypeOK
<1>4. ASSUME NEW i \in 1 .. Len(inTransit')
      PROVE  Minus(lastSequence', inTransit'[i].seq)
               = (Len(inTransit') + Len(sending') - i) % SeqModulus
  <2>1. i \in 1 .. Len(inTransit) - n /\ n + i \in 1 .. Len(inTransit)
    BY <1>2, <1>3
  <2>2. inTransit'[i] = inTransit[n + i]
    BY <1>2, <2>1
  <2>3. Minus(lastSequence, inTransit[n + i].seq)
          = (Len(inTransit) + Len(sending) - (n + i)) % SeqModulus
    BY <2>1 DEF EndsAtLast
  <2>4. Len(inTransit) + Len(sending) - (n + i) = Len(inTransit') + Len(sending) - i
    BY <1>2, <1>3, <2>1
  <2> QED
    BY <1>1, <2>2, <2>3, <2>4
<1>5. sending = <<>> => aborted' # "back_not_last"
  <2>1. aborted' = "back_not_last" => inTransit # <<>> /\ ~BackIsLast
    BY FeedbackShape DEF TxTypeOK, RtcpFeedback, Alive
  <2> QED
    BY <2>1, TailGivesBack
<1> QED
  BY <1>1, <1>4, <1>5 DEF EndsAtLast

\* Every step keeps the invariant.
LEMMA TailNext == TxTypeOK /\ NumberInv /\ TailInv /\ [TxNext]_txVars => TailInv'
<1> SUFFICES ASSUME TxTypeOK, NumberInv, TailInv, [TxNext]_txVars, ~StartMistaken'
             PROVE  EndsAtLast'
  BY DEF TailInv
<1>1. ASSUME UNCHANGED <<firstTwcc, sentCount>>
      PROVE  EndsAtLast
  BY <1>1 DEF TailInv, StartMistaken
<1>2. CASE \/ SendPanics \/ TxTick \/ UNCHANGED txVars
           \/ \E i \in 0 .. MaxSent - 1, n \in 1 .. MaxBatch :
                RtcpParse(i, n) \/ RtcpPanics(i, n)
  <2>1. UNCHANGED <<lastSequence, inTransit, sending, aborted, firstTwcc, sentCount>>
    BY <1>2 DEF SendPanics, TxTick, Tick, Unchanged, RtcpParse, RtcpPanics, txVars,
         threadVars, senderVars, vars, sendVars
  <2> QED
    BY <1>1, <2>1 DEF EndsAtLast
<1>3. ASSUME Alive, NEW size \in Sizes, SendNumber(size) PROVE EndsAtLast'
  <2>1. firstTwcc' = firstTwcc /\ sentCount' = sentCount + 1 /\ sentCount \in Nat
    BY <1>3 DEF SendNumber, TxTypeOK
  <2>2. ~RefusesNext /\ ~StartMistaken
    BY <2>1 DEF RefusesNext, StartMistaken
  <2> QED
    BY <1>3, <2>2, SendNumberTail DEF TailInv
<1>4. CASE Alive /\ (SendStore \/ RtcpFeedback)
  <2>1. EndsAtLast
    BY <1>1, <1>4 DEF SendStore, RtcpFeedback
  <2> QED
    BY <1>4, <2>1, SendStoreTail, RtcpFeedbackTail
<1> QED
  BY <1>2, <1>3, <1>4 DEF TxNext

LEMMA TailInit == TxInit => TailInv
<1> SUFFICES ASSUME TxInit PROVE EndsAtLast
  BY DEF TailInv
<1>1. inTransit = <<>> /\ sending = <<>> /\ aborted = "no"
  BY DEF TxInit, Init, Fresh
<1>2. Len(inTransit) = 0
  BY <1>1
<1>3. 1 .. Len(inTransit) = {}
  BY <1>2
<1> QED
  BY <1>1, <1>3 DEF EndsAtLast

\* The specification keeps all three invariants.
LEMMA TxInvariant == TxSpec => [](TxTypeOK /\ NumberInv /\ TailInv)
<1>1. TxInit => TxTypeOK /\ NumberInv /\ TailInv
  BY TxInitTyped, NumbersInit, TailInit
<1>2. (TxTypeOK /\ NumberInv /\ TailInv) /\ [TxNext]_txVars
        => (TxTypeOK /\ NumberInv /\ TailInv)'
  BY TxNextTyped, NumbersNext, TailNext
<1> QED
  BY <1>1, <1>2, PTL DEF TxSpec

\* Whatever the receiver's messages say and wherever they fall between calls
\* of sink_chain, OnFeedback trips over the end of the list only while
\* OnPacket is under way in the other thread, or after a first number of 0.
THEOREM AbortTheorem == TxSpec => []AbortIsExplained
<1>1. TailInv => AbortIsExplained
  BY DEF TailInv, EndsAtLast, AbortIsExplained
<1> QED
  BY <1>1, TxInvariant, PTL

\* Between calls of sink_chain, while none is refused, the list is a contiguous
\* run up to the last number, as long as it is not longer than the number space.
THEOREM TailBetweenTheorem ==
  TxSpec => [](Len(inTransit) <= SeqModulus => TailBetweenSends)
<1>1. TxTypeOK /\ TailInv => (Len(inTransit) <= SeqModulus => TailBetweenSends)
  <2> SUFFICES ASSUME TxTypeOK, EndsAtLast, Len(inTransit) <= SeqModulus, sending = <<>>,
                      NEW i \in 1 .. Len(inTransit)
               PROVE  Minus(lastSequence, inTransit[i].seq) = Len(inTransit) - i
    BY DEF TailBetweenSends, InTransitIsTail, TailInv
  <2>1. Len(inTransit) \in Nat /\ Len(sending) = 0
    BY LenProperties DEF TxTypeOK, TypeOK
  <2>2. Len(inTransit) + 0 - i = Len(inTransit) - i
    BY <2>1
  <2>3. Len(inTransit) - i \in SeqNr
    BY <2>1, SeqModulusAssumption DEF SeqNr
  <2>4. Minus(lastSequence, inTransit[i].seq) = (Len(inTransit) - i) % SeqModulus
    BY <2>1, <2>2 DEF EndsAtLast
  <2> QED
    BY <2>3, <2>4, InRange
<1> QED
  BY <1>1, TxInvariant, PTL

-----------------------------------------------------------------------------
(* The panics of the debug build *)

\* Numbers that have not reached the end of the space are not reduced.
LEMMA NotWrapped ==
  ASSUME NEW n \in Nat, NEW k \in Nat, n + k < SeqModulus
  PROVE  Plus(n, k) = n + k
<1>1. n + k \in SeqNr
  BY SeqModulusAssumption DEF SeqNr
<1> QED
  BY <1>1, InRange DEF Plus

\* Before the wrap no number of a packet is below the offset.
LEMMA SendPanicsLate ==
  ASSUME TxTypeOK, NumberInv, SendPanics
  PROVE  overflowChecks /\ firstTwcc + sentCount >= SeqModulus
<1>1. overflowChecks /\ offset # 0 /\ Twcc < offset
  BY DEF SendPanics, Underflows
<1>2. firstTwcc \in Nat /\ sentCount \in Nat /\ offset \in Nat
  BY SeqModulusAssumption DEF TxTypeOK, SeqNr
<1>3. sentCount > 0
  BY <1>1, <1>2 DEF NumberInv
<1>4. offset <= firstTwcc + sentCount
  BY <1>2, <1>3 DEF NumberInv, StartMistaken
<1>5. firstTwcc + sentCount < SeqModulus => Twcc = firstTwcc + sentCount
  BY <1>2, NotWrapped DEF Twcc
<1>6. firstTwcc + sentCount >= SeqModulus
  BY <1>1, <1>2, <1>4, <1>5, SeqModulusAssumption
<1> QED
  BY <1>1, <1>6

\* Before the wrap no message reaches beyond the numbers.
LEMMA RtcpPanicsLate ==
  ASSUME TxTypeOK, NEW i \in 0 .. MaxSent - 1, NEW n \in 1 .. MaxBatch, RtcpPanics(i, n)
  PROVE  overflowChecks /\ firstTwcc + sentCount >= SeqModulus
<1>1. /\ overflowChecks /\ Plus(firstTwcc, i) + n > SeqModulus
      /\ i + n <= sentCount
  BY DEF RtcpPanics, Overflows
<1>2. firstTwcc \in Nat /\ sentCount \in Nat /\ i \in Nat /\ n \in Nat
  BY SeqModulusAssumption, TwccAssumption DEF TxTypeOK, SeqNr
<1>3. firstTwcc + i < SeqModulus => Plus(firstTwcc, i) = firstTwcc + i
  BY <1>2, NotWrapped
<1>4. firstTwcc + sentCount >= SeqModulus
  BY <1>1, <1>2, <1>3, SeqModulusAssumption
<1> QED
  BY <1>1, <1>4

\* Every step keeps the explanation of a panic.
LEMMA PanicsNext ==
  TxTypeOK /\ NumberInv /\ PanicsOnlyAtWrap /\ [TxNext]_txVars => PanicsOnlyAtWrap'
<1> SUFFICES ASSUME TxTypeOK, NumberInv, PanicsOnlyAtWrap, [TxNext]_txVars
             PROVE  PanicsOnlyAtWrap'
  OBVIOUS
<1>1. firstTwcc \in Nat /\ sentCount \in Nat
  BY SeqModulusAssumption DEF TxTypeOK, SeqNr
<1>2. CASE \/ SendPanics
           \/ \E i \in 0 .. MaxSent - 1, n \in 1 .. MaxBatch : RtcpPanics(i, n)
  <2>1. overflowChecks /\ firstTwcc + sentCount >= SeqModulus
    BY <1>2, SendPanicsLate, RtcpPanicsLate
  <2>2. UNCHANGED <<overflowChecks, firstTwcc, sentCount>>
    BY <1>2 DEF SendPanics, RtcpPanics
  <2> QED
    BY <2>1, <2>2 DEF PanicsOnlyAtWrap
<1>3. CASE \/ SendStore \/ RtcpFeedback \/ TxTick \/ UNCHANGED txVars
           \/ \E i \in 0 .. MaxSent - 1, n \in 1 .. MaxBatch : RtcpParse(i, n)
  <2>1. UNCHANGED <<panicked, overflowChecks, firstTwcc, sentCount>>
    BY <1>3 DEF SendStore, RtcpFeedback, TxTick, RtcpParse, txVars, threadVars
  <2> QED
    BY <2>1 DEF PanicsOnlyAtWrap
<1>4. ASSUME NEW size \in Sizes, SendNumber(size) PROVE PanicsOnlyAtWrap'
  <2>1. UNCHANGED <<panicked, overflowChecks, firstTwcc>> /\ sentCount' = sentCount + 1
    BY <1>4 DEF SendNumber
  <2> QED
    BY <1>1, <2>1, SeqModulusAssumption DEF PanicsOnlyAtWrap
<1> QED
  BY <1>2, <1>3, <1>4 DEF TxNext

\* The arithmetic of the two pad functions panics in the debug build only, and
\* only once the transport-wide numbers have come to their wrap.
THEOREM PanicTheorem == TxSpec => []PanicsOnlyAtWrap
<1>1. TxInit => PanicsOnlyAtWrap
  BY DEF TxInit, PanicsOnlyAtWrap
<1> QED
  BY <1>1, PanicsNext, TxInvariant, PTL DEF TxSpec
=============================================================================
