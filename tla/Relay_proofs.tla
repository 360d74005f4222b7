---------------------------- MODULE Relay_proofs ----------------------------
(***************************************************************************)
(* The promise of Relay is what its name says: first in, first out.        *)
(***************************************************************************)
EXTENDS Relay, SequenceTheorems, TLAPS

RelayTyped == accepted \in Nat /\ pipe \in Seq(1 .. accepted) /\ out \in Seq(1 .. accepted)

RelayInv == RelayTyped /\ InOrder

LEMMA AcceptKeeps == RelayInv /\ Accept => RelayInv'
<1> SUFFICES ASSUME RelayInv, Accept PROVE RelayInv'
  OBVIOUS
<1>1. accepted \in Nat /\ accepted' = accepted + 1 /\ out' = out
      /\ pipe' = Append(pipe, accepted')
  BY DEF RelayInv, RelayTyped, Accept
<1>2. 1 .. accepted \subseteq 1 .. accepted' /\ accepted' \in 1 .. accepted'
  BY <1>1
<1>3. pipe \in Seq(1 .. accepted') /\ out \in Seq(1 .. accepted')
  BY <1>2 DEF RelayInv, RelayTyped
<1>4. RelayTyped'
  BY <1>1, <1>2, <1>3 DEF RelayTyped
<1>5. /\ Len(pipe') = Len(pipe) + 1 /\ pipe'[Len(pipe) + 1] = accepted + 1
      /\ \A i \in 1 .. Len(pipe) : pipe'[i] = pipe[i] /\ pipe[i] \in 1 .. accepted
      /\ \A i \in 1 .. Len(out) : out[i] \in 1 .. accepted
  <2>1. accepted' \in Nat /\ pipe \in Seq(Nat) /\ pipe \in Seq(1 .. accepted)
        /\ out \in Seq(1 .. accepted)
    BY <1>1 DEF RelayInv, RelayTyped
  <2>2. Len(pipe') = Len(pipe) + 1 /\ pipe'[Len(pipe) + 1] = accepted'
        /\ \A i \in 1 .. Len(pipe) : pipe'[i] = pipe[i]
    BY <1>1, <2>1
  <2>3. /\ \A i \in 1 .. Len(pipe) : pipe[i] \in 1 .. accepted
        /\ \A i \in 1 .. Len(out) : out[i] \in 1 .. accepted
    BY <2>1, ElementOfSeq
  <2> QED
    BY <1>1, <2>2, <2>3
<1>6. Len(pipe) \in Nat /\ InOrder
  BY DEF RelayInv, RelayTyped
<1>7. \A i, j \in 1 .. Len(pipe') : i < j => pipe'[i] < pipe'[j]
  <2> SUFFICES ASSUME NEW i \in 1 .. Len(pipe'), NEW j \in 1 .. Len(pipe'), i < j
               PROVE  pipe'[i] < pipe'[j]
    OBVIOUS
  <2>1. i \in 1 .. Len(pipe)
    BY <1>5, <1>6
  <2>2. CASE j \in 1 .. Len(pipe)
    BY <1>5, <1>6, <2>1, <2>2 DEF InOrder
  <2>3. CASE j = Len(pipe) + 1
    BY <1>1, <1>5, <2>1, <2>3
  <2>4. j \in 1 .. Len(pipe) \/ j = Len(pipe) + 1
    BY <1>5, <1>6
  <2> QED  BY <2>2, <2>3, <2>4
<1>8. \A i \in 1 .. Len(out'), j \in 1 .. Len(pipe') : out'[i] < pipe'[j]
  <2> SUFFICES ASSUME NEW i \in 1 .. Len(out'), NEW j \in 1 .. Len(pipe')
               PROVE  out'[i] < pipe'[j]
    OBVIOUS
  <2>0. i \in 1 .. Len(out) /\ out'[i] = out[i]
    BY <1>1
  <2>1. CASE j \in 1 .. Len(pipe)
    <3>1. out[i] < pipe[j]
      BY <2>0, <1>6, <2>1 DEF InOrder
    <3> QED  BY <3>1, <2>0, <1>5, <2>1
  <2>2. CASE j = Len(pipe) + 1
    <3>1. out[i] \in 1 .. accepted /\ pipe'[j] = accepted + 1
      BY <2>0, <1>5, <2>2
    <3> QED  BY <3>1, <2>0, <1>1
  <2>3. j \in 1 .. Len(pipe) \/ j = Len(pipe) + 1
    BY <1>5, <1>6
  <2> QED  BY <2>1, <2>2, <2>3
<1> QED  BY <1>1, <1>4, <1>6, <1>7, <1>8 DEF RelayInv, InOrder

\* The front of the pipe comes before the rest of it.
LEMMA TailKeeps ==
  ASSUME RelayInv, pipe # <<>>
  PROVE  /\ Tail(pipe) \in Seq(1 .. accepted) /\ Head(pipe) = pipe[1]
         /\ Len(Tail(pipe)) = Len(pipe) - 1 /\ Len(pipe) \in Nat \ {0}
         /\ \A i \in 1 .. Len(Tail(pipe)) : Tail(pipe)[i] = pipe[i + 1]
BY DEF RelayInv, RelayTyped

LEMMA ForwardKeeps == RelayInv /\ Forward => RelayInv'
<1> SUFFICES ASSUME RelayInv, Forward PROVE RelayInv'
  OBVIOUS
<1>1. /\ accepted' = accepted /\ pipe' = Tail(pipe) /\ out' = Append(out, Head(pipe))
      /\ pipe # <<>>
  BY DEF Forward
<1>2. /\ Tail(pipe) \in Seq(1 .. accepted) /\ Head(pipe) = pipe[1]
      /\ Len(Tail(pipe)) = Len(pipe) - 1 /\ Len(pipe) \in Nat \ {0}
      /\ \A i \in 1 .. Len(Tail(pipe)) : Tail(pipe)[i] = pipe[i + 1]
  BY <1>1, TailKeeps
<1>3. /\ accepted \in Nat /\ pipe \in Seq(1 .. accepted) /\ out \in Seq(1 .. accepted)
      /\ pipe[1] \in 1 .. accepted
  BY <1>2 DEF RelayInv, RelayTyped
<1>4. /\ out' \in Seq(1 .. accepted) /\ Len(out') = Len(out) + 1
      /\ out'[Len(out) + 1] = pipe[1]
      /\ \A i \in 1 .. Len(out) : out'[i] = out[i]
  BY <1>1, <1>2, <1>3
<1>5. RelayTyped'
  BY <1>1, <1>2, <1>3, <1>4 DEF RelayTyped
<1>6. InOrder
  BY DEF RelayInv
<1>7. \A i, j \in 1 .. Len(pipe') : i < j => pipe'[i] < pipe'[j]
  BY <1>1, <1>2, <1>3, <1>6 DEF InOrder
<1>8. \A i, j \in 1 .. Len(out') : i < j => out'[i] < out'[j]
  <2> SUFFICES ASSUME NEW i \in 1 .. Len(out'), NEW j \in 1 .. Len(out'), i < j
               PROVE  out'[i] < out'[j]
    OBVIOUS
  <2>1. Len(out) \in Nat /\ i \in 1 .. Len(out) /\ 1 \in 1 .. Len(pipe)
    BY <1>2, <1>3, <1>4
  <2>2. CASE j \in 1 .. Len(out)
    BY <1>4, <1>6, <2>1, <2>2 DEF InOrder
  <2>3. CASE j = Len(out) + 1
    BY <1>4, <1>6, <2>1, <2>3 DEF InOrder
  <2>4. j \in 1 .. Len(out) \/ j = Len(out) + 1
    BY <1>4, <2>1
  <2> QED  BY <2>2, <2>3, <2>4
<1>9. \A i \in 1 .. Len(out'), j \in 1 .. Len(pipe') : out'[i] < pipe'[j]
  <2> SUFFICES ASSUME NEW i \in 1 .. Len(out'), NEW j \in 1 .. Len(pipe')
               PROVE  out'[i] < pipe'[j]
    OBVIOUS
  <2>1. /\ pipe'[j] = pipe[j + 1] /\ j + 1 \in 1 .. Len(pipe) /\ 1 < j + 1
        /\ 1 \in 1 .. Len(pipe) /\ Len(out) \in Nat
    BY <1>1, <1>2, <1>3
  <2>2. CASE i \in 1 .. Len(out)
    BY <1>4, <1>6, <2>1, <2>2 DEF InOrder
  <2>3. CASE i = Len(out) + 1
    BY <1>4, <1>6, <2>1, <2>3 DEF InOrder
  <2>4. i \in 1 .. Len(out) \/ i = Len(out) + 1
    BY <1>4, <2>1
  <2> QED  BY <2>2, <2>3, <2>4
<1> QED  BY <1>5, <1>7, <1>8, <1>9 DEF RelayInv, InOrder

LEMMA DiscardKeeps == RelayInv /\ Discard => RelayInv'
<1> SUFFICES ASSUME RelayInv, Discard PROVE RelayInv'
  OBVIOUS
<1>1. /\ accepted' = accepted /\ pipe' = Tail(pipe) /\ out' = out /\ pipe # <<>>
  BY DEF Discard
<1>2. /\ Tail(pipe) \in Seq(1 .. accepted)
      /\ Len(Tail(pipe)) = Len(pipe) - 1 /\ Len(pipe) \in Nat \ {0}
      /\ \A i \in 1 .. Len(Tail(pipe)) : Tail(pipe)[i] = pipe[i + 1]
  BY <1>1, TailKeeps
<1>3. RelayTyped'
  BY <1>1, <1>2 DEF RelayInv, RelayTyped
<1>4. \A j \in 1 .. Len(pipe') : pipe'[j] = pipe[j + 1] /\ j + 1 \in 1 .. Len(pipe)
  BY <1>1, <1>2
<1>5. InOrder'
  BY <1>1, <1>2, <1>4 DEF RelayInv, InOrder
<1> QED  BY <1>3, <1>5 DEF RelayInv

\* A relay forwards in the order of acceptance, each buffer once.
THEOREM Ordered == Spec => []InOrder
<1>1. Init => RelayInv
  BY DEF Init, RelayInv, RelayTyped, InOrder
<1>2. RelayInv /\ [Next]_relayVars => RelayInv'
  <2>1. RelayInv /\ UNCHANGED relayVars => RelayInv'
    BY DEF RelayInv, RelayTyped, InOrder, relayVars
  <2> QED  BY <2>1, AcceptKeeps, ForwardKeeps, DiscardKeeps DEF Next
<1>3. RelayInv => InOrder
  BY DEF RelayInv
<1> QED  BY <1>1, <1>2, <1>3, PTL DEF Spec
=============================================================================
