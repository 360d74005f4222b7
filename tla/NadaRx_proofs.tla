---------------------------- MODULE NadaRx_proofs ----------------------------
(***************************************************************************)
(* Proofs about NadaRx for every number of streams, every width of the     *)
(* numbers, every size of the history and of a report, and every bound on  *)
(* what the network loses and delays within NetworkAssumption.             *)
(***************************************************************************)
EXTENDS NadaRx, FiniteSetTheorems, WellFoundedInduction, TLAPS

-----------------------------------------------------------------------------
(* The greatest of a bounded set of numbers *)

\* The theorems of the library that take a predicate as a parameter cannot be
\* used; that "less than" is well founded can, and gives a least element.
LessThan == {p \in Nat \X Nat : p[1] < p[2]}

LEMMA LeastNatural ==
  ASSUME NEW T, T \subseteq Nat, T # {}
  PROVE  \E x \in T : \A y \in T : x <= y
<1>1. IsWellFoundedOn(LessThan, Nat)
  <2>1. IsWellFoundedOn({p \in Nat \X Nat : p[1] < p[2]}, Nat)
    BY NatLessThanWellFounded DEF OpToRel
  <2> QED
    BY <2>1 DEF LessThan
<1>2. PICK x \in T : \A y \in T : ~(<<y, x>> \in LessThan)
  BY <1>1, WFMin
<1>3. ASSUME NEW y \in T PROVE x <= y
  <2>1. <<y, x>> \in Nat \X Nat /\ <<y, x>>[1] = y /\ <<y, x>>[2] = x
    OBVIOUS
  <2> QED
    BY <1>2, <2>1 DEF LessThan
<1> QED
  BY <1>3

\* A set of naturals with an upper bound has a greatest element.
LEMMA GreatestNatural ==
  ASSUME NEW T, T \subseteq Nat, T # {}, NEW m \in Nat, \A y \in T : y <= m
  PROVE  \E x \in T : \A y \in T : y <= x
<1> DEFINE U == {m - y : y \in T}
<1>0. U \subseteq Nat /\ U # {}
  <2>1. ASSUME NEW y \in T PROVE m - y \in Nat
    <3>1. y \in Nat /\ y <= m
      OBVIOUS
    <3> QED
      BY <3>1
  <2> QED
    BY <2>1
<1> HIDE DEF U
<1>1. PICK x \in U : \A y \in U : x <= y
  BY <1>0, LeastNatural
<1> USE DEF U
<1>2. PICK z \in T : x = m - z
  BY <1>1
<1>3. ASSUME NEW y \in T PROVE y <= z
  <2>1. y \in Nat /\ z \in Nat /\ m - y \in U
    OBVIOUS
  <2>2. m - z <= m - y
    BY <2>1, <1>1, <1>2
  <2> QED
    BY <2>1, <2>2
<1> QED
  BY <1>3

-----------------------------------------------------------------------------
(* Quotients and remainders *)

\* Multiplying by a natural number keeps the order.
LEMMA TimesMono ==
  ASSUME NEW m \in Nat \ {0}, NEW a \in Int, NEW b \in Int, a < b
  PROVE  m * a \in Int /\ m * b \in Int /\ m * a + m <= m * b
<1>1. m * (b - a) = m * b - m * a
  OBVIOUS
<1>2. m * (b - a) >= m
  <2>1. PICK d \in Nat : d = (b - a) - 1
    OBVIOUS
  <2>2. m * (d + 1) = m * d + m /\ m * d >= 0
    OBVIOUS
  <2> QED
    BY <2>1, <2>2
<1> QED
  BY <1>1, <1>2

\* a is q times m and r more.
Parts(a, m, q, r) == q \in Int /\ r \in 0 .. m - 1 /\ m * q \in Int /\ a = m * q + r

LEMMA DivMod ==
  ASSUME NEW m \in Nat \ {0}, NEW a \in Int
  PROVE  Parts(a, m, a \div m, a % m)
BY DEF Parts

LEMMA DivModParts ==
  ASSUME NEW m \in Nat \ {0}, NEW a \in Int, NEW q, NEW r, Parts(a, m, q, r),
         NEW p, NEW t, Parts(a, m, p, t)
  PROVE  p = q /\ t = r
<1>1. /\ q \in Int /\ r \in 0 .. m - 1 /\ m * q \in Int /\ a = m * q + r
      /\ p \in Int /\ t \in 0 .. m - 1 /\ m * p \in Int /\ a = m * p + t
  BY DEF Parts
<1>2. ~(p < q)
  <2> SUFFICES ASSUME p < q PROVE FALSE
    OBVIOUS
  <2>1. m * p + m <= m * q
    BY <1>1, TimesMono
  <2> QED
    BY <1>1, <2>1
<1>3. ~(q < p)
  <2> SUFFICES ASSUME q < p PROVE FALSE
    OBVIOUS
  <2>1. m * q + m <= m * p
    BY <1>1, TimesMono
  <2> QED
    BY <1>1, <2>1
<1>4. p = q
  BY <1>1, <1>2, <1>3
<1> QED
  BY <1>1, <1>4

\* Quotient and remainder are determined by the sum they make up.
LEMMA DivModUnique ==
  ASSUME NEW m \in Nat \ {0}, NEW a \in Int, NEW q, NEW r, Parts(a, m, q, r)
  PROVE  a % m = r /\ a \div m = q
<1> DEFINE p == a \div m
           t == a % m
<1>1. Parts(a, m, p, t)
  BY DivMod
<1> HIDE DEF p, t
<1>2. p = q /\ t = r
  BY <1>1, DivModParts
<1> QED
  BY <1>2 DEF p, t

LEMMA PartsExist ==
  ASSUME NEW m \in Nat \ {0}, NEW a \in Int
  PROVE  \E q \in Int, r \in 0 .. m - 1 : Parts(a, m, q, r)
<1>1. a \div m \in Int /\ a % m \in 0 .. m - 1
  OBVIOUS
<1> QED
  BY <1>1, DivMod

\* The slot of a number is that of its low bits.
LEMMA ModOfMod ==
  ASSUME NEW m \in Nat \ {0}, NEW h \in Nat \ {0}, m % h = 0, NEW a \in Int
  PROVE  (a % m) % h = a % h
<1>1. PICK k \in Int : m = h * k
  <2>1. PICK k \in Int, z \in 0 .. h - 1 : Parts(m, h, k, z)
    BY PartsExist
  <2>2. z = 0
    BY <2>1, DivModUnique
  <2>3. m = h * k
    BY <2>1, <2>2 DEF Parts
  <2> QED
    BY <2>3
<1>2. PICK q \in Int, r \in 0 .. m - 1 : Parts(a, m, q, r)
  BY PartsExist
<1>3. r \in Int
  OBVIOUS
<1>4. PICK p \in Int, t \in 0 .. h - 1 : Parts(r, h, p, t)
  BY <1>3, PartsExist
<1>5. PICK x \in Int : x = k * q
  OBVIOUS
<1>6. m * q = h * x
  BY <1>1, <1>5
<1>7. PICK y \in Int : y = x + p
  OBVIOUS
<1>8. h * y = h * x + h * p /\ h * x \in Int /\ h * p \in Int /\ h * y \in Int
  BY <1>7
<1>9. a = m * q + r /\ r = h * p + t
  BY <1>2, <1>4 DEF Parts
<1>10. a = h * y + t
  BY <1>6, <1>8, <1>9
<1>11. Parts(a, h, y, t)
  BY <1>8, <1>10 DEF Parts
<1>12. a % h = t /\ r % h = t /\ a % m = r
  BY <1>2, <1>3, <1>4, <1>11, DivModUnique
<1> QED
  BY <1>12, Zenon

\* Adding to a number or to its low bits gives the same low bits.
LEMMA ModOfSum ==
  ASSUME NEW m \in Nat \ {0}, NEW a \in Int, NEW b \in Int
  PROVE  ((a % m) + b) % m = (a + b) % m
<1>1. PICK q \in Int, r \in 0 .. m - 1 : Parts(a, m, q, r)
  BY PartsExist
<1>2. PICK e \in Int : e = r + b
  OBVIOUS
<1>3. PICK p \in Int, t \in 0 .. m - 1 : Parts(e, m, p, t)
  BY PartsExist
<1>4. PICK y \in Int : y = q + p
  OBVIOUS
<1>5. m * y = m * q + m * p /\ m * q \in Int /\ m * p \in Int /\ m * y \in Int
  BY <1>4
<1>6. PICK c \in Int : c = a + b
  OBVIOUS
<1>7. a = m * q + r /\ e = m * p + t
  BY <1>1, <1>3 DEF Parts
<1>8. c = m * y + t
  BY <1>2, <1>5, <1>6, <1>7
<1>9. Parts(c, m, y, t)
  BY <1>5, <1>8 DEF Parts
<1>10. c % m = t /\ e % m = t /\ a % m = r
  BY <1>1, <1>3, <1>9, DivModUnique
<1> QED
  BY <1>2, <1>6, <1>10, Zenon

\* Two numbers with the same low bits are a whole number space apart.
LEMMA SameModApart ==
  ASSUME NEW m \in Nat \ {0}, NEW a \in Int, NEW b \in Int, a % m = b % m, a < b
  PROVE  a + m <= b
<1>1. PICK q \in Int, r \in 0 .. m - 1 : Parts(a, m, q, r)
  BY PartsExist
<1>2. PICK p \in Int, t \in 0 .. m - 1 : Parts(b, m, p, t)
  BY PartsExist
<1>3. t = r
  BY <1>1, <1>2, DivModUnique
<1>4. a = m * q + r /\ b = m * p + r /\ m * q \in Int /\ m * p \in Int
  BY <1>1, <1>2, <1>3 DEF Parts
<1>5. ~(p < q)
  <2> SUFFICES ASSUME p < q PROVE FALSE
    OBVIOUS
  <2>1. m * p + m <= m * q
    BY TimesMono
  <2> QED
    BY <1>4, <2>1
<1>6. p # q
  BY <1>4
<1>7. m * q + m <= m * p
  BY <1>5, <1>6, TimesMono
<1> QED
  BY <1>4, <1>7

\* Later numbers have wrapped at least as often.
LEMMA DivMono ==
  ASSUME NEW m \in Nat \ {0}, NEW a \in Int, NEW b \in Int, a <= b
  PROVE  a \div m \in Int /\ b \div m \in Int /\ a \div m <= b \div m
<1>1. PICK q \in Int, r \in 0 .. m - 1 : Parts(a, m, q, r)
  BY PartsExist
<1>2. PICK p \in Int, t \in 0 .. m - 1 : Parts(b, m, p, t)
  BY PartsExist
<1>3. a = m * q + r /\ b = m * p + t /\ m * q \in Int /\ m * p \in Int
  BY <1>1, <1>2 DEF Parts
<1>4. ~(p < q)
  <2> SUFFICES ASSUME p < q PROVE FALSE
    OBVIOUS
  <2>1. m * p + m <= m * q
    BY TimesMono
  <2> QED
    BY <1>3, <2>1
<1>5. a \div m = q /\ b \div m = p
  BY <1>1, <1>2, DivModUnique
<1> QED
  BY <1>4, <1>5

\* Between wraps the low bits are as far apart as the numbers.
LEMMA SameDivApart ==
  ASSUME NEW m \in Nat \ {0}, NEW a \in Int, NEW b \in Int, a \div m = b \div m
  PROVE  a - b = (a % m) - (b % m)
<1>1. PICK q \in Int, r \in 0 .. m - 1 : Parts(a, m, q, r)
  BY PartsExist
<1>2. PICK p \in Int, t \in 0 .. m - 1 : Parts(b, m, p, t)
  BY PartsExist
<1>3. p = q /\ a % m = r /\ b % m = t
  BY <1>1, <1>2, DivModUnique
<1>4. a = m * q + r /\ b = m * q + t /\ m * q \in Int
  BY <1>1, <1>2, <1>3 DEF Parts
<1>5. PICK x \in Int : x = m * q
  BY <1>4
<1>6. a - b = r - t
  BY <1>4, <1>5
<1> QED
  BY <1>3, <1>6, Zenon

-----------------------------------------------------------------------------
(* What the element keeps, and what it is true to *)

StreamRec ==
  [known : {TRUE}, highest : SeqNr, highestTx : SeqNr, pending : Nat,
   fbAge : 0 .. AgeCap, received : Nat, reported : BOOLEAN, later : SUBSET Streams,
   hist : [0 .. HistorySize - 1 -> [nr : SeqNr, age : Ages]]]
SeenRec == [arrived : [Numbers -> Ages], waiting : SUBSET Numbers, reportedTo : Numbers]
NothingSeen == [arrived |-> [n \in Numbers |-> Never], waiting |-> {}, reportedTo |-> 0]

Arrived(seen) == {n \in Numbers : seen.arrived[n] # Never}
Class(seen, i) == {n \in Arrived(seen) : n % HistorySize = i}

\* A slot of the history holds the latest packet of those that share it.
Holds(slot, seen, i) ==
  \/ Class(seen, i) = {} /\ slot.age = Never
  \/ \E m \in Class(seen, i) :
       /\ \A n \in Class(seen, i) : n <= m
       /\ slot.nr = m % SeqModulus /\ slot.age = seen.arrived[m]
SlotsTrue(it, seen) == \A i \in 0 .. HistorySize - 1 : Holds(it.hist[i], seen, i)

TrueTo(it, seen) ==
  /\ Arrived(seen) # {} /\ it.highest = Newest(seen) % SeqModulus
  /\ SlotsTrue(it, seen)

\* What of a packet the properties remember, when it has come.
Arrive(seen, n, to) ==
  [arrived |-> [seen.arrived EXCEPT ![n] = 0], waiting |-> seen.waiting \union {n},
   reportedTo |-> to]

LEMMA Constants ==
  /\ SeqModulus \in Nat \ {0} /\ HistorySize \in Nat \ {0} /\ Reported \in Nat \ {0}
  /\ SeqModulus % HistorySize = 0 /\ Reported <= HistorySize
  /\ AgeCap \in Nat /\ Never \in Ages /\ 0 \in Ages /\ Never # 0 /\ Never # AgeCap
  /\ LastNumber \in Nat /\ MaxGap \in Nat /\ MaxLate \in Nat /\ MaxLate < HistorySize
  /\ Numbers \subseteq Nat /\ \A n \in Numbers : n <= LastNumber
BY RxAssumption, NetworkAssumption DEF Numbers, Never, Ages

LEMMA LowBits ==
  ASSUME NEW a \in Int
  PROVE  a % SeqModulus \in SeqNr /\ Slot(a) \in 0 .. HistorySize - 1
         /\ Slot(a % SeqModulus) = Slot(a)
<1>1. SeqModulus \in Nat \ {0} /\ HistorySize \in Nat \ {0} /\ SeqModulus % HistorySize = 0
  BY Constants
<1>2. a % SeqModulus \in 0 .. SeqModulus - 1 /\ a % HistorySize \in 0 .. HistorySize - 1
  BY <1>1
<1>3. (a % SeqModulus) % HistorySize = a % HistorySize
  BY <1>1, ModOfMod
<1> QED
  BY <1>2, <1>3 DEF SeqNr, Slot

\* The newest packet, once there is one.
LEMMA NewestProperties ==
  ASSUME NEW seen, Arrived(seen) # {}
  PROVE  /\ Newest(seen) \in Arrived(seen) /\ Newest(seen) \in Numbers
         /\ \A m \in Arrived(seen) : m <= Newest(seen)
<1> DEFINE S == Arrived(seen)
<1>1. S \subseteq Nat /\ S \subseteq Numbers /\ \A y \in S : y <= LastNumber
  BY Constants DEF Arrived
<1>2. LastNumber \in Nat
  BY Constants
<1> HIDE DEF S
<1>3. PICK x \in S : \A y \in S : y <= x
  BY <1>1, <1>2, GreatestNatural DEF S
<1>4. \A y \in S : x >= y
  BY <1>1, <1>3
<1>5. Newest(seen) = Max(S)
  BY DEF Newest, Arrived, S
<1>6. Max(S) \in S /\ \A y \in S : Max(S) >= y
  BY <1>4 DEF Max
<1>7. \A y \in S : y <= Max(S)
  BY <1>1, <1>6
<1> QED
  BY <1>1, <1>5, <1>6, <1>7 DEF S

LEMMA NewestIs ==
  ASSUME NEW seen, NEW n \in Arrived(seen), \A m \in Arrived(seen) : m <= n
  PROVE  Newest(seen) = n
<1>1. Newest(seen) \in Arrived(seen) /\ n <= Newest(seen)
  BY NewestProperties
<1>2. Newest(seen) <= n
  BY <1>1
<1>3. Newest(seen) \in Nat /\ n \in Nat
  BY <1>1, Constants DEF Arrived
<1> QED
  BY <1>1, <1>2, <1>3

\* A packet that comes joins those of its slot.
LEMMA ArriveProperties ==
  ASSUME NEW seen \in SeenRec, NEW n \in Numbers, NEW to \in Numbers
  PROVE  /\ Arrive(seen, n, to) \in SeenRec
         /\ Arrived(Arrive(seen, n, to)) = Arrived(seen) \union {n}
         /\ \A m \in Numbers : Arrive(seen, n, to).arrived[m] =
                                 IF m = n THEN 0 ELSE seen.arrived[m]
         /\ Arrive(seen, n, to).waiting = seen.waiting \union {n}
         /\ Arrive(seen, n, to).reportedTo = to
<1> DEFINE new == Arrive(seen, n, to)
<1>1. seen.arrived \in [Numbers -> Ages] /\ seen.waiting \in SUBSET Numbers
  BY DEF SeenRec
<1>2. /\ new.arrived = [seen.arrived EXCEPT ![n] = 0]
      /\ new.waiting = seen.waiting \union {n} /\ new.reportedTo = to
  BY DEF Arrive
<1>3. [seen.arrived EXCEPT ![n] = 0] \in [Numbers -> Ages]
  BY <1>1, Constants
<1>4. \A m \in Numbers : new.arrived[m] = IF m = n THEN 0 ELSE seen.arrived[m]
  BY <1>1, <1>2
<1>5. new \in SeenRec
  BY <1>1, <1>3 DEF Arrive, SeenRec
<1> HIDE DEF new
<1>6. Arrived(new) = Arrived(seen) \union {n}
  BY <1>4, Constants DEF Arrived
<1> QED
  BY <1>2, <1>4, <1>5, <1>6 DEF new

\* The comparison with wrap-around puts numbers in the order of the packets,
\* as long as they are at most a quarter of the number space apart.
LEMMA NotBehindMeans ==
  ASSUME NEW n \in Int, NEW h \in Int,
         h - SeqModulus \div 4 <= n, n <= h + SeqModulus \div 4
  PROVE  NotBehind(n % SeqModulus, h % SeqModulus) <=> n >= h
<1> DEFINE M == SeqModulus
<1>0. M \in Nat \ {0}
  BY Constants
<1>1. PICK w \in Nat : w = M \div 4 /\ 4 * w <= M
  BY <1>0
<1>2. PICK q \in Int, r \in 0 .. M - 1 : Parts(n, M, q, r)
  BY <1>0, PartsExist
<1>3. PICK p \in Int, t \in 0 .. M - 1 : Parts(h, M, p, t)
  BY <1>0, PartsExist
<1>4. n % M = r /\ h % M = t
  BY <1>0, <1>2, <1>3, DivModUnique
<1>5. n = M * q + r /\ h = M * p + t
  BY <1>2, <1>3 DEF Parts
<1> DEFINE Ext(a, b) == IF a < b /\ b - a > w THEN a + M ELSE a
<1>6. NotBehind(r, t) <=> Ext(r, t) >= Ext(t, r)
  BY <1>1 DEF NotBehind
<1>7. h - w <= n /\ n <= h + w
  BY <1>1
<1> HIDE DEF M
<1>8. CASE q = p
  <2>1. PICK x \in Int : x = M * q
    BY <1>0
  <2>2. n = x + r /\ h = x + t
    BY <1>5, <1>8, <2>1
  <2> QED
    BY <1>0, <1>4, <1>6, <1>7, <2>2 DEF M
<1>9. CASE q = p + 1
  <2>1. PICK x \in Int : x = M * p
    BY <1>0
  <2>2. n = x + M + r /\ h = x + t
    BY <1>0, <1>5, <1>9, <2>1
  <2> QED
    BY <1>0, <1>1, <1>4, <1>6, <1>7, <2>2 DEF M
<1>10. CASE p = q + 1
  <2>1. PICK x \in Int : x = M * q
    BY <1>0
  <2>2. n = x + r /\ h = x + M + t
    BY <1>0, <1>5, <1>10, <2>1
  <2> QED
    BY <1>0, <1>1, <1>4, <1>6, <1>7, <2>2 DEF M
<1>11. ~(p + 1 < q)
  <2> SUFFICES ASSUME p + 1 < q PROVE FALSE
    OBVIOUS
  <2>1. PICK x \in Int : x = M * p
    BY <1>0
  <2>2. M * (p + 1) = x + M /\ p + 1 \in Int
    BY <1>0, <2>1
  <2>3. M * (p + 1) + M <= M * q /\ M * q \in Int
    BY <1>0, <2>2, TimesMono
  <2>4. PICK y \in Int : y = M * q
    BY <2>3
  <2> QED
    BY <1>0, <1>1, <1>5, <1>7, <2>1, <2>2, <2>3, <2>4
<1>12. ~(q + 1 < p)
  <2> SUFFICES ASSUME q + 1 < p PROVE FALSE
    OBVIOUS
  <2>1. PICK x \in Int : x = M * q
    BY <1>0
  <2>2. M * (q + 1) = x + M /\ q + 1 \in Int
    BY <1>0, <2>1
  <2>3. M * (q + 1) + M <= M * p /\ M * p \in Int
    BY <1>0, <2>2, TimesMono
  <2>4. PICK y \in Int : y = M * p
    BY <2>3
  <2> QED
    BY <1>0, <1>1, <1>5, <1>7, <2>1, <2>2, <2>3, <2>4
<1> QED
  BY <1>8, <1>9, <1>10, <1>11, <1>12

-----------------------------------------------------------------------------
(* Receiving a packet *)

LEMMA StreamRecOf ==
  ASSUME NEW h \in SeqNr, NEW t \in SeqNr, NEW p \in Nat, NEW f \in 0 .. AgeCap,
         NEW r \in Nat, NEW b \in BOOLEAN, NEW l \in SUBSET Streams,
         NEW hist \in [0 .. HistorySize - 1 -> [nr : SeqNr, age : Ages]]
  PROVE  [known |-> TRUE, highest |-> h, highestTx |-> t, pending |-> p, fbAge |-> f,
          received |-> r, reported |-> b, later |-> l, hist |-> hist] \in StreamRec
BY DEF StreamRec

LEMMA TakeTyped ==
  ASSUME NEW it \in StreamRec, NEW nr \in SeqNr
  PROVE  /\ Take(it, nr) \in StreamRec
         /\ Take(it, nr).known = TRUE
         /\ Take(it, nr).received = it.received + 1 /\ Take(it, nr).pending = it.pending + 1
         /\ Take(it, nr).highestTx = it.highestTx
         /\ Take(it, nr).fbAge = it.fbAge /\ Take(it, nr).later = it.later
         /\ Take(it, nr).reported = it.reported
         /\ Take(it, nr).highest = IF NotBehind(nr, it.highest) THEN nr ELSE it.highest
         /\ Take(it, nr).hist = [it.hist EXCEPT ![Slot(nr)] = [nr |-> nr, age |-> 0]]
<1> DEFINE hist == [it.hist EXCEPT ![Slot(nr)] = [nr |-> nr, age |-> 0]]
           highest == IF NotBehind(nr, it.highest) THEN nr ELSE it.highest
<1>1. /\ it.known = TRUE /\ it.highest \in SeqNr /\ it.highestTx \in SeqNr
      /\ it.pending \in Nat /\ it.fbAge \in 0 .. AgeCap /\ it.received \in Nat
      /\ it.reported \in BOOLEAN /\ it.later \in SUBSET Streams
      /\ it.hist \in [0 .. HistorySize - 1 -> [nr : SeqNr, age : Ages]]
  BY DEF StreamRec
<1>2. Take(it, nr) =
        [known |-> TRUE, highest |-> highest, highestTx |-> it.highestTx,
         pending |-> it.pending + 1, fbAge |-> it.fbAge, received |-> it.received + 1,
         reported |-> it.reported, later |-> it.later, hist |-> hist]
  <2>1. Take(it, nr) = [it EXCEPT !.received = it.received + 1, !.pending = it.pending + 1,
                                  !.hist = hist, !.highest = highest]
    BY DEF Take
  <2>2. it = [known |-> it.known, highest |-> it.highest, highestTx |-> it.highestTx,
              pending |-> it.pending, fbAge |-> it.fbAge, received |-> it.received,
              reported |-> it.reported, later |-> it.later, hist |-> it.hist]
    BY DEF StreamRec
  <2> HIDE DEF hist, highest
  <2> QED
    BY <1>1, <2>1, <2>2
<1>3. hist \in [0 .. HistorySize - 1 -> [nr : SeqNr, age : Ages]]
  <2>1. [nr |-> nr, age |-> 0] \in [nr : SeqNr, age : Ages]
    BY Constants
  <2> QED
    BY <1>1, <2>1
<1>4. highest \in SeqNr
  BY <1>1
<1> HIDE DEF hist, highest
<1>5. Take(it, nr) \in StreamRec
  <2> DEFINE t == it.highestTx  p == it.pending + 1  f == it.fbAge
             r == it.received + 1  b == it.reported  l == it.later
  <2>1. p \in Nat /\ r \in Nat /\ t \in SeqNr /\ f \in 0 .. AgeCap
    BY <1>1
  <2>2. b \in BOOLEAN /\ l \in SUBSET Streams
    BY <1>1
  <2>3. Take(it, nr) = [known |-> TRUE, highest |-> highest, highestTx |-> t, pending |-> p,
                        fbAge |-> f, received |-> r, reported |-> b, later |-> l,
                        hist |-> hist]
    BY <1>2
  <2> HIDE DEF t, p, f, r, b, l
  <2>4. [known |-> TRUE, highest |-> highest, highestTx |-> t, pending |-> p, fbAge |-> f,
         received |-> r, reported |-> b, later |-> l, hist |-> hist] \in StreamRec
    BY <1>3, <1>4, <2>1, <2>2, StreamRecOf
  <2> QED
    BY <2>3, <2>4
<1> QED
  BY <1>1, <1>2, <1>5 DEF hist, highest

\* The slot a packet takes has none that is newer: that would be a history's
\* length ahead of it.
LEMMA SlotsTake ==
  ASSUME NEW it \in StreamRec, NEW seen \in SeenRec, NEW n \in Numbers, NEW to \in Numbers,
         SlotsTrue(it, seen), \A m \in Arrived(seen) : m < n + HistorySize
  PROVE  SlotsTrue(Take(it, n % SeqModulus), Arrive(seen, n, to))
<1> DEFINE new == Arrive(seen, n, to)
           nr == n % SeqModulus
           after == Take(it, nr)
<1>1. /\ Arrived(new) = Arrived(seen) \union {n}
      /\ \A m \in Numbers : new.arrived[m] = IF m = n THEN 0 ELSE seen.arrived[m]
  BY ArriveProperties
<1>2. n \in Nat /\ Arrived(seen) \subseteq Numbers /\ Numbers \subseteq Nat
      /\ HistorySize \in Nat \ {0}
  BY Constants DEF Arrived
<1>3. nr \in SeqNr /\ Slot(nr) = n % HistorySize /\ n % HistorySize \in 0 .. HistorySize - 1
  BY <1>2, LowBits DEF Slot
<1>4. after.hist = [it.hist EXCEPT ![Slot(nr)] = [nr |-> nr, age |-> 0]]
  BY <1>3, TakeTyped
<1>5. it.hist \in [0 .. HistorySize - 1 -> [nr : SeqNr, age : Ages]]
  BY DEF StreamRec
<1>6. ASSUME NEW i \in 0 .. HistorySize - 1, i # n % HistorySize
      PROVE Holds(after.hist[i], new, i)
  <2>1. after.hist[i] = it.hist[i]
    BY <1>3, <1>4, <1>5, <1>6
  <2>2. Class(new, i) = Class(seen, i) /\ n \notin Class(seen, i)
    BY <1>1, <1>6 DEF Class
  <2>3. \A m \in Class(seen, i) : new.arrived[m] = seen.arrived[m]
    BY <1>1, <1>2, <2>2 DEF Class
  <2>4. Holds(it.hist[i], seen, i)
    BY DEF SlotsTrue
  <2> HIDE DEF new, after
  <2> QED
    BY <2>1, <2>2, <2>3, <2>4 DEF Holds
<1>7. ASSUME NEW i \in 0 .. HistorySize - 1, i = n % HistorySize
      PROVE Holds(after.hist[i], new, i)
  <2>1. after.hist[i] = [nr |-> nr, age |-> 0]
    BY <1>3, <1>4, <1>5, <1>7
  <2>2. n \in Class(new, i) /\ new.arrived[n] = 0
    BY <1>1, <1>7 DEF Class
  <2>3. ASSUME NEW m \in Class(new, i) PROVE m <= n
    <3>1. m \in Arrived(seen) \union {n} /\ m % HistorySize = n % HistorySize
      BY <1>1, <1>7 DEF Class
    <3>2. m \in Nat /\ m < n + HistorySize
      <4>1. CASE m = n
        BY <1>2, <4>1
      <4>2. CASE m \in Arrived(seen)
        BY <1>2, <4>2
      <4> QED
        BY <3>1, <4>1, <4>2
    <3>3. ~(n < m)
      <4> SUFFICES ASSUME n < m PROVE FALSE
        OBVIOUS
      <4>1. n \in Int /\ m \in Int /\ n % HistorySize = m % HistorySize
        BY <1>2, <3>1, <3>2
      <4>2. n + HistorySize <= m
        BY <1>2, <4>1, SameModApart
      <4> QED
        BY <1>2, <3>2, <4>2
    <3> QED
      BY <1>2, <3>2, <3>3
  <2>4. after.hist[i].nr = n % SeqModulus /\ after.hist[i].age = 0
    BY <2>1
  <2> HIDE DEF new, after
  <2> QED
    BY <2>2, <2>3, <2>4 DEF Holds
<1>8. SlotsTrue(after, new)
  BY <1>6, <1>7 DEF SlotsTrue
<1> QED
  BY <1>8 DEF after, new, nr

\* A packet within the bounds of the network keeps the stream true to what
\* came: the wrapped comparison finds the newest one.
LEMMA TakeTrue ==
  ASSUME NEW it \in StreamRec, NEW seen \in SeenRec, NEW n \in Numbers, NEW to \in Numbers,
         TrueTo(it, seen), Newest(seen) - MaxLate <= n, n <= Newest(seen) + MaxGap + 1
  PROVE  /\ TrueTo(Take(it, n % SeqModulus), Arrive(seen, n, to))
         /\ Newest(Arrive(seen, n, to)) =
              IF n >= Newest(seen) THEN n ELSE Newest(seen)
<1> DEFINE new == Arrive(seen, n, to)
           after == Take(it, n % SeqModulus)
<1>1. PICK h \in Nat : h = Newest(seen) /\ h \in Arrived(seen) /\ \A m \in Arrived(seen) : m <= h
  BY NewestProperties, Constants DEF TrueTo
<1>2. n \in Nat /\ Arrived(seen) \subseteq Nat
  BY Constants DEF Arrived
<1>3. Arrived(new) = Arrived(seen) \union {n}
  BY ArriveProperties
<1>4. n % SeqModulus \in SeqNr
  BY <1>2, LowBits
<1>5. after.highest = IF NotBehind(n % SeqModulus, it.highest) THEN n % SeqModulus
                      ELSE it.highest
  BY <1>4, TakeTyped
<1>6. it.highest = h % SeqModulus
  BY <1>1 DEF TrueTo
<1>7. NotBehind(n % SeqModulus, h % SeqModulus) <=> n >= h
  <2>1. PICK w \in Nat : w = SeqModulus \div 4
    BY Constants
  <2>2. h - w <= n /\ n <= h + w
    <3>1. MaxLate <= w /\ MaxGap + 1 <= w /\ MaxLate \in Nat /\ MaxGap \in Nat
      BY <2>1, NetworkAssumption
    <3>2. h - MaxLate <= n /\ n <= h + MaxGap + 1
      BY <1>1
    <3> QED
      BY <1>2, <3>1, <3>2
  <2> QED
    BY <1>2, <2>1, <2>2, NotBehindMeans
<1>8. SlotsTrue(after, new)
  <2>1. ASSUME NEW m \in Arrived(seen) PROVE m < n + HistorySize
    <3>1. m \in Nat /\ m <= h /\ h - MaxLate <= n
      BY <1>1, <1>2
    <3>2. MaxLate < HistorySize /\ MaxLate \in Nat /\ HistorySize \in Nat
      BY Constants
    <3> QED
      BY <1>2, <3>1, <3>2
  <2> HIDE DEF after, new
  <2> QED
    BY <2>1, SlotsTake DEF TrueTo, after, new
<1> HIDE DEF new, after
<1>9. CASE n >= h
  <2>1. n \in Arrived(new) /\ \A m \in Arrived(new) : m <= n
    BY <1>1, <1>2, <1>3, <1>9
  <2>2. Newest(new) = n
    BY <2>1, NewestIs
  <2>3. after.highest = n % SeqModulus
    BY <1>5, <1>6, <1>7, <1>9, Zenon
  <2> QED
    BY <1>1, <1>8, <1>9, <2>1, <2>2, <2>3 DEF TrueTo, new, after
<1>10. CASE ~(n >= h)
  <2>1. h \in Arrived(new) /\ \A m \in Arrived(new) : m <= h
    BY <1>1, <1>2, <1>3, <1>10
  <2>2. Newest(new) = h
    BY <2>1, NewestIs
  <2>3. after.highest = h % SeqModulus
    BY <1>5, <1>6, <1>7, <1>10, Zenon
  <2> QED
    BY <1>1, <1>8, <1>10, <2>1, <2>2, <2>3 DEF TrueTo, new, after
<1> QED
  BY <1>9, <1>10

\* The first packet of a stream: the slots were filled with a number that has
\* not come, and no report has been sent.
LEMMA FreshTyped ==
  ASSUME NEW nr \in SeqNr, uptime \in 0 .. AgeCap
  PROVE  /\ FreshAt(nr) \in StreamRec
         /\ FreshAt(nr).highest = (nr - 1) % SeqModulus /\ FreshAt(nr).highestTx = 0
         /\ FreshAt(nr).pending = 0 /\ FreshAt(nr).received = 0
         /\ FreshAt(nr).later \subseteq Known
         /\ \A i \in 0 .. HistorySize - 1 : FreshAt(nr).hist[i].age = Never
<1>1. (nr - 1) % SeqModulus \in SeqNr /\ NextNr(nr) \in SeqNr /\ 0 \in SeqNr
  BY LowBits, Constants DEF NextNr, SeqNr
<1>2. {t \in Known : stream[t].reported} \in SUBSET Streams
  BY DEF Known
<1> DEFINE hist == [i \in 0 .. HistorySize - 1 |-> [nr |-> NextNr(nr), age |-> Never]]
<1>3. hist \in [0 .. HistorySize - 1 -> [nr : SeqNr, age : Ages]]
  BY <1>1, Constants
<1>4. \A i \in 0 .. HistorySize - 1 : hist[i].age = Never
  OBVIOUS
<1>5. FreshAt(nr) =
        [known |-> TRUE, highest |-> (nr - 1) % SeqModulus, highestTx |-> 0,
         pending |-> 0, fbAge |-> uptime, received |-> 0, reported |-> FALSE,
         later |-> {t \in Known : stream[t].reported}, hist |-> hist]
  BY DEF FreshAt
<1> HIDE DEF hist
<1>6. FreshAt(nr) \in StreamRec
  BY <1>1, <1>2, <1>3, <1>5, Constants DEF StreamRec
<1> QED
  BY <1>4, <1>5, <1>6

LEMMA FirstTrue ==
  ASSUME NEW n \in Numbers, uptime \in 0 .. AgeCap
  PROVE  /\ TrueTo(Take(FreshAt(n % SeqModulus), n % SeqModulus),
                   Arrive(NothingSeen, n, n))
         /\ Newest(Arrive(NothingSeen, n, n)) = n
<1> DEFINE new == Arrive(NothingSeen, n, n)
           nr == n % SeqModulus
           fresh == FreshAt(nr)
           after == Take(fresh, nr)
<1>1. n \in Nat /\ n - 1 \in Int
  BY Constants
<1>2. nr \in SeqNr
  BY <1>1, LowBits
<1>3. NothingSeen \in SeenRec /\ Arrived(NothingSeen) = {}
  BY Constants DEF NothingSeen, SeenRec, Arrived, Numbers
<1>4. /\ fresh \in StreamRec /\ fresh.highest = (nr - 1) % SeqModulus
      /\ \A i \in 0 .. HistorySize - 1 : fresh.hist[i].age = Never
  BY <1>2, FreshTyped
<1> HIDE DEF fresh
<1>5. Arrived(new) = {n}
  BY <1>3, ArriveProperties
<1>6. Newest(new) = n
  <2> HIDE DEF new
  <2> QED
    BY <1>1, <1>5, NewestIs
<1>7. SlotsTrue(fresh, NothingSeen)
  BY <1>3, <1>4 DEF SlotsTrue, Holds, Class
<1>8. SlotsTrue(after, new)
  BY <1>3, <1>4, <1>7, SlotsTake
<1>9. (nr - 1) % SeqModulus = (n - 1) % SeqModulus
  <2>1. PICK b \in Int : b = -1
    OBVIOUS
  <2>2. nr \in Int /\ SeqModulus \in Nat \ {0}
    BY <1>2, Constants DEF SeqNr
  <2> HIDE DEF nr
  <2>3. nr + b = nr - 1 /\ n + b = n - 1
    BY <1>1, <2>1, <2>2
  <2> USE DEF nr
  <2>4. ((n % SeqModulus) + b) % SeqModulus = (n + b) % SeqModulus
    <3>1. n \in Int
      BY <1>1
    <3> HIDE DEF nr
    <3> QED
      BY <2>2, <3>1, ModOfSum
  <2> QED
    BY <2>3, <2>4, Zenon
<1>10. NotBehind(nr, (n - 1) % SeqModulus)
  <2>1. PICK w \in Nat : w = SeqModulus \div 4
    BY Constants
  <2>2. 1 <= w
    <3>1. MaxGap + 1 <= w /\ MaxGap \in Nat
      BY <2>1, NetworkAssumption
    <3> QED
      BY <3>1
  <2>3. (n - 1) - w <= n /\ n <= (n - 1) + w /\ n >= n - 1
    BY <1>1, <2>2
  <2> QED
    BY <1>1, <2>1, <2>3, NotBehindMeans
<1>11. after.highest = nr
  <2>1. after.highest = IF NotBehind(nr, fresh.highest) THEN nr ELSE fresh.highest
    BY <1>2, <1>4, TakeTyped
  <2>2. NotBehind(nr, fresh.highest)
    BY <1>4, <1>9, <1>10, Zenon
  <2> QED
    BY <2>1, <2>2, Zenon
<1> HIDE DEF after, new
<1>12. TrueTo(after, new)
  BY <1>5, <1>6, <1>8, <1>11 DEF TrueTo, nr
<1> QED
  BY <1>6, <1>12 DEF after, new, fresh, nr

-----------------------------------------------------------------------------
(* The invariant, and reports *)

\* Streams that are known are true to what came of them; of the others nothing
\* has come.
Tracked(streams, seen) ==
  /\ streams \in [Streams -> StreamRec \union {NoStream}]
  /\ seen \in [Streams -> SeenRec]
  /\ \A s \in Streams :
       IF streams[s].known
       THEN /\ TrueTo(streams[s], seen[s])
            /\ streams[s].pending <= streams[s].received
            /\ \A t \in streams[s].later : streams[t].known
       ELSE seen[s] = NothingSeen

MessageTrue ==
  \A b \in message : \E s \in Streams : stream[s].known /\ b = Block(s, stream[s])

RxInv ==
  /\ Tracked(stream, net) /\ MessageTrue
  /\ fbInterval \in Intervals /\ feedbackAge \in 0 .. AgeCap /\ uptime \in 0 .. AgeCap
  /\ panicked \in BOOLEAN

LEMMA KnownOrNot ==
  ASSUME NEW it \in StreamRec \union {NoStream}
  PROVE  /\ it.known => it \in StreamRec
         /\ ~it.known => it = NoStream
         /\ it.known \in BOOLEAN
<1>1. CASE it \in StreamRec
  <2>1. it.known = TRUE
    BY <1>1 DEF StreamRec
  <2> QED
    BY <1>1, <2>1
<1>2. CASE it = NoStream
  <2>1. it.known = FALSE
    BY <1>2 DEF NoStream
  <2> QED
    BY <1>2, <2>1
<1> QED
  BY <1>1, <1>2

LEMMA MarkReportedProperties ==
  ASSUME NEW it \in StreamRec
  PROVE  /\ MarkReported(it) \in StreamRec /\ MarkReported(it).known = TRUE
         /\ MarkReported(it).highest = it.highest /\ MarkReported(it).hist = it.hist
         /\ MarkReported(it).received = it.received
         /\ MarkReported(it).pending = 0 /\ MarkReported(it).later = {}
         /\ MarkReported(it).highestTx = it.highest
<1> DEFINE h == it.highest  r == it.received  hist == it.hist
<1>1. /\ h \in SeqNr /\ r \in Nat
      /\ hist \in [0 .. HistorySize - 1 -> [nr : SeqNr, age : Ages]]
  BY DEF StreamRec
<1>2. MarkReported(it) =
        [known |-> TRUE, highest |-> h, highestTx |-> h, pending |-> 0, fbAge |-> 0,
         received |-> r, reported |-> TRUE, later |-> {}, hist |-> hist]
  <2>1. MarkReported(it) = [it EXCEPT !.fbAge = 0, !.pending = 0, !.highestTx = h,
                                      !.reported = TRUE, !.later = {}]
    BY DEF MarkReported
  <2> DEFINE t == it.highestTx  p == it.pending  f == it.fbAge  b == it.reported
             l == it.later
  <2>2. it = [known |-> TRUE, highest |-> h, highestTx |-> t, pending |-> p, fbAge |-> f,
              received |-> r, reported |-> b, later |-> l, hist |-> hist]
    BY DEF StreamRec
  <2> HIDE DEF h, r, hist, t, p, f, b, l
  <2> QED
    BY <2>1, <2>2
<1>3. 0 \in 0 .. AgeCap /\ {} \in SUBSET Streams /\ TRUE \in BOOLEAN /\ 0 \in Nat
  BY Constants
<1> HIDE DEF h, r, hist
<1>4. [known |-> TRUE, highest |-> h, highestTx |-> h, pending |-> 0, fbAge |-> 0,
       received |-> r, reported |-> TRUE, later |-> {}, hist |-> hist] \in StreamRec
  BY <1>1, <1>3, StreamRecOf
<1> QED
  BY <1>2, <1>4 DEF h, r, hist

LEMMA PassOverProperties ==
  ASSUME NEW it \in StreamRec, NEW chosen \in SUBSET Streams
  PROVE  /\ PassOver(it, chosen) \in StreamRec /\ PassOver(it, chosen).known = TRUE
         /\ PassOver(it, chosen).highest = it.highest /\ PassOver(it, chosen).hist = it.hist
         /\ PassOver(it, chosen).received = it.received
         /\ PassOver(it, chosen).pending = it.pending
         /\ PassOver(it, chosen).highestTx = it.highestTx
         /\ PassOver(it, chosen).later \subseteq it.later \union chosen
<1> DEFINE l == it.later \union chosen
           passed == [it EXCEPT !.later = l]
<1>0. it.known = TRUE /\ it.later \in SUBSET Streams
  BY DEF StreamRec
<1>1. l \in SUBSET Streams
  BY <1>0
<1>2. PassOver(it, chosen) = passed \/ PassOver(it, chosen) = it
  BY DEF PassOver
<1> HIDE DEF l
<1>3. /\ passed \in StreamRec /\ passed.known = TRUE
      /\ passed.highest = it.highest /\ passed.hist = it.hist
      /\ passed.received = it.received /\ passed.pending = it.pending
      /\ passed.highestTx = it.highestTx /\ passed.later = l
  BY <1>1 DEF StreamRec
<1> HIDE DEF passed
<1>4. CASE PassOver(it, chosen) = passed
  BY <1>3, <1>4 DEF l
<1>5. CASE PassOver(it, chosen) = it
  BY <1>0, <1>5
<1> QED
  BY <1>2, <1>4, <1>5

\* Being true depends on the history and the highest number only.
LEMMA TrueToSame ==
  ASSUME NEW it, NEW other, NEW seen, NEW more,
         other.highest = it.highest, other.hist = it.hist, more.arrived = seen.arrived
  PROVE  /\ TrueTo(it, seen) => TrueTo(other, more)
         /\ Newest(more) = Newest(seen)
<1>1. Arrived(more) = Arrived(seen) /\ Newest(more) = Newest(seen)
  BY DEF Arrived, Newest
<1>2. \A i : Class(more, i) = Class(seen, i)
  BY <1>1 DEF Class
<1>3. SlotsTrue(it, seen) => SlotsTrue(other, more)
  BY <1>2 DEF SlotsTrue, Holds
<1> QED
  BY <1>1, <1>3 DEF TrueTo

LEMMA CoverProperties ==
  ASSUME NEW seen \in SeenRec, Arrived(seen) # {}
  PROVE  /\ Cover(seen) \in SeenRec /\ Cover(seen).arrived = seen.arrived
         /\ Cover(seen).reportedTo = Newest(seen)
         /\ Cover(seen).waiting = IF Wrapped(seen) THEN {} ELSE OutOfReach(seen)
<1> DEFINE w == IF Wrapped(seen) THEN {} ELSE OutOfReach(seen)
           to == Newest(seen)
<1>1. w \in SUBSET Numbers
  BY DEF OutOfReach, SeenRec
<1>2. to \in Numbers
  BY NewestProperties
<1>3. Cover(seen) = [seen EXCEPT !.waiting = w, !.reportedTo = to]
  BY DEF Cover
<1> HIDE DEF w, to
<1>4. /\ Cover(seen) \in SeenRec /\ Cover(seen).arrived = seen.arrived
      /\ Cover(seen).waiting = w /\ Cover(seen).reportedTo = to
  BY <1>1, <1>2, <1>3 DEF SeenRec
<1> QED
  BY <1>4 DEF w, to

\* What a report does to each stream.
LEMMA SendCases ==
  ASSUME NEW STATE streams, NEW STATE seen, NEW isMark, Tracked(streams, seen),
         SendFeedback(streams, seen, isMark)
  PROVE  \E chosen \in SUBSET Streams :
           /\ chosen \in LongestAgo(streams, isMark)
           /\ \A s \in chosen : streams[s].known
           /\ message' = {Block(s, streams[s]) : s \in chosen}
           /\ stream' = [s \in Streams |-> IF s \in chosen THEN MarkReported(streams[s])
                                           ELSE PassOver(streams[s], chosen)]
           /\ net' = [s \in Streams |-> IF s \in chosen THEN Cover(seen[s]) ELSE seen[s]]
           /\ feedbackAge' \in {feedbackAge, 0} /\ panicked' \in BOOLEAN
<1>1. PICK chosen \in LongestAgo(streams, isMark) :
        /\ message' = {Block(s, streams[s]) : s \in chosen}
        /\ stream' = [s \in Streams |-> IF s \in chosen THEN MarkReported(streams[s])
                                        ELSE PassOver(streams[s], chosen)]
        /\ net' = [s \in Streams |-> IF s \in chosen THEN Cover(seen[s]) ELSE seen[s]]
        /\ feedbackAge' = IF chosen = {} THEN feedbackAge ELSE 0
        /\ panicked' \in IF chosen = {} THEN {FALSE} ELSE BOOLEAN
  BY DEF SendFeedback
<1>2. chosen \subseteq DueNow(streams, isMark)
  BY DEF LongestAgo
<1>3. chosen \subseteq Streams /\ \A s \in chosen : streams[s].known
  BY <1>2 DEF DueNow
<1>4. panicked' \in BOOLEAN
  BY <1>1
<1>5. feedbackAge' \in {feedbackAge, 0}
  BY <1>1
<1> QED
  BY <1>1, <1>3, <1>4, <1>5

LEMMA SendTracked ==
  ASSUME NEW STATE streams, NEW STATE seen, NEW isMark, Tracked(streams, seen),
         SendFeedback(streams, seen, isMark)
  PROVE  Tracked(stream', net') /\ MessageTrue'
<1>1. PICK chosen \in SUBSET Streams :
           /\ \A s \in chosen : streams[s].known
           /\ message' = {Block(s, streams[s]) : s \in chosen}
           /\ stream' = [s \in Streams |-> IF s \in chosen THEN MarkReported(streams[s])
                                           ELSE PassOver(streams[s], chosen)]
           /\ net' = [s \in Streams |-> IF s \in chosen THEN Cover(seen[s]) ELSE seen[s]]
  BY SendCases
<1>2. \A s \in Streams : streams[s] \in StreamRec \union {NoStream} /\ seen[s] \in SeenRec
  BY DEF Tracked
<1>3. ASSUME NEW s \in chosen
      PROVE  /\ stream'[s] \in StreamRec /\ stream'[s].known = TRUE
             /\ stream'[s].highest = streams[s].highest /\ stream'[s].hist = streams[s].hist
             /\ stream'[s].pending <= stream'[s].received /\ stream'[s].later = {}
             /\ TrueTo(stream'[s], net'[s]) /\ net'[s] \in SeenRec
  <2>1. s \in Streams /\ streams[s] \in StreamRec
    BY <1>1, <1>2, KnownOrNot
  <2>2. stream'[s] = MarkReported(streams[s]) /\ net'[s] = Cover(seen[s])
    BY <1>1, <2>1
  <2>3. /\ stream'[s] \in StreamRec /\ stream'[s].known = TRUE
        /\ stream'[s].highest = streams[s].highest /\ stream'[s].hist = streams[s].hist
        /\ stream'[s].later = {}
        /\ stream'[s].pending = 0 /\ stream'[s].received = streams[s].received
    BY <2>1, <2>2, MarkReportedProperties
  <2>4. streams[s].received \in Nat
    BY <2>1 DEF StreamRec
  <2>5. stream'[s].pending <= stream'[s].received
    BY <2>3, <2>4
  <2>6. TrueTo(streams[s], seen[s])
    BY <1>1, <2>1 DEF Tracked
  <2>7. Arrived(seen[s]) # {} /\ seen[s] \in SeenRec
    BY <1>2, <2>1, <2>6 DEF TrueTo
  <2>8. net'[s] \in SeenRec /\ net'[s].arrived = seen[s].arrived
    BY <2>2, <2>7, CoverProperties
  <2>9. TrueTo(stream'[s], net'[s])
    BY <2>3, <2>6, <2>8, TrueToSame
  <2> QED
    BY <2>3, <2>5, <2>8, <2>9
<1>4. ASSUME NEW s \in Streams, s \notin chosen, streams[s].known
      PROVE  /\ stream'[s] \in StreamRec /\ stream'[s].known = TRUE
             /\ stream'[s].pending <= stream'[s].received
             /\ stream'[s].later \subseteq streams[s].later \union chosen
             /\ TrueTo(stream'[s], net'[s]) /\ net'[s] \in SeenRec
  <2>1. streams[s] \in StreamRec /\ seen[s] \in SeenRec
    BY <1>2, <1>4, KnownOrNot
  <2>2. stream'[s] = PassOver(streams[s], chosen) /\ net'[s] = seen[s]
    BY <1>1, <1>4
  <2>3. /\ stream'[s] \in StreamRec /\ stream'[s].known = TRUE
        /\ stream'[s].highest = streams[s].highest /\ stream'[s].hist = streams[s].hist
        /\ stream'[s].later \subseteq streams[s].later \union chosen
        /\ stream'[s].pending = streams[s].pending
        /\ stream'[s].received = streams[s].received
    <3> DEFINE after == PassOver(streams[s], chosen)
    <3>1. after \in StreamRec /\ after.known = TRUE
          /\ after.highest = streams[s].highest /\ after.hist = streams[s].hist
          /\ after.later \subseteq streams[s].later \union chosen
          /\ after.pending = streams[s].pending /\ after.received = streams[s].received
      BY <2>1, PassOverProperties
    <3> HIDE DEF after
    <3> QED
      BY <2>2, <3>1 DEF after
  <2>4. TrueTo(streams[s], seen[s]) /\ streams[s].pending <= streams[s].received
    BY <1>4 DEF Tracked
  <2>5. TrueTo(stream'[s], net'[s])
    BY <2>2, <2>3, <2>4, TrueToSame
  <2> QED
    BY <2>1, <2>2, <2>3, <2>4, <2>5
<1>5. ASSUME NEW s \in Streams, ~streams[s].known
      PROVE  /\ stream'[s] = NoStream /\ net'[s] = NothingSeen /\ net'[s] \in SeenRec
  <2>1. streams[s] = NoStream /\ s \notin chosen /\ seen[s] \in SeenRec
    BY <1>1, <1>2, <1>5, KnownOrNot
  <2>2. stream'[s] = PassOver(NoStream, chosen) /\ net'[s] = seen[s]
    BY <1>1, <2>1
  <2>3. PassOver(NoStream, chosen) = NoStream
    BY DEF PassOver, NoStream
  <2>4. seen[s] = NothingSeen
    BY <1>5 DEF Tracked
  <2> QED
    BY <2>1, <2>2, <2>3, <2>4
<1>6. \A s \in Streams : streams[s].known => stream'[s].known
  BY <1>3, <1>4
<1>7. ASSUME NEW s \in Streams, streams[s].known, NEW t \in stream'[s].later
      PROVE  stream'[t].known
  <2>1. t \in streams[s].later \union chosen
    BY <1>3, <1>4, <1>7
  <2>2. streams[t].known
    BY <1>1, <1>7, <2>1 DEF Tracked
  <2>3. t \in Streams
    <3>1. streams[s] \in StreamRec
      BY <1>2, <1>7, KnownOrNot
    <3> QED
      BY <2>1, <3>1 DEF StreamRec
  <2> QED
    BY <1>6, <2>2, <2>3
<1>8. stream' \in [Streams -> StreamRec \union {NoStream}]
  <2>1. ASSUME NEW s \in Streams PROVE stream'[s] \in StreamRec \union {NoStream}
    BY <1>3, <1>4, <1>5
  <2> QED
    BY <1>1, <2>1
<1>9. net' \in [Streams -> SeenRec]
  <2>1. ASSUME NEW s \in Streams PROVE net'[s] \in SeenRec
    BY <1>3, <1>4, <1>5
  <2> QED
    BY <1>1, <2>1
<1>10. ASSUME NEW s \in Streams
       PROVE IF stream'[s].known
             THEN /\ TrueTo(stream'[s], net'[s])
                  /\ stream'[s].pending <= stream'[s].received
                  /\ \A t \in stream'[s].later : stream'[t].known
             ELSE net'[s] = NothingSeen
  <2>1. CASE streams[s].known
    BY <1>3, <1>4, <1>7, <2>1
  <2>2. CASE ~streams[s].known
    <3>1. stream'[s].known = FALSE
      BY <1>5, <2>2 DEF NoStream
    <3> QED
      BY <1>5, <2>2, <3>1
  <2> QED
    BY <2>1, <2>2
<1>11. Tracked(stream', net')
  BY <1>8, <1>9, <1>10 DEF Tracked
<1>12. MessageTrue'
  <2>1. ASSUME NEW b \in message'
        PROVE \E s \in Streams : stream'[s].known /\ b = Block(s, stream'[s])
    <3>1. PICK s \in chosen : b = Block(s, streams[s])
      BY <1>1
    <3>2. Block(s, stream'[s]) = Block(s, streams[s])
      BY <1>3 DEF Block, Element
    <3> QED
      BY <1>3, <3>1, <3>2
  <2>2. (\A b \in message : \E s \in Streams : stream[s].known /\ b = Block(s, stream[s]))' 
          <=> (\A b \in message' : \E s \in Streams : stream'[s].known /\ b = Block(s, stream'[s]))
    BY DEF Block, Element
  <2> QED
    BY <2>1, <2>2 DEF MessageTrue
<1> QED
  BY <1>11, <1>12

-----------------------------------------------------------------------------
(* The invariant is inductive *)

\* What ScreamReceiver makes of the streams, and of the packets seen, before
\* it looks at them.
ReceivedStreams(s, n) ==
  [stream EXCEPT ![s] = Take(IF s \in Known THEN stream[s] ELSE FreshAt(n % SeqModulus),
                             n % SeqModulus)]
ReceivedNet(s, n) ==
  [net EXCEPT ![s] = Arrive(net[s], n, IF s \in Known THEN net[s].reportedTo ELSE n)]

LEMMA ReceiverCases ==
  ASSUME NEW s \in Streams, NEW n, NEW marker \in BOOLEAN, ScreamReceiver(s, n, marker)
  PROVE  /\ fbInterval' \in Intervals /\ uptime' = uptime
         /\ \/ SendFeedback(ReceivedStreams(s, n), ReceivedNet(s, n), marker)
            \/ /\ stream' = ReceivedStreams(s, n) /\ net' = ReceivedNet(s, n)
               /\ message' = {} /\ feedbackAge' = feedbackAge /\ panicked' = panicked
               /\ \A t \in Streams : ~AckDue(ReceivedStreams(s, n)[t])
<1> DEFINE streams == [stream EXCEPT ![s] = Take(IF s \in Known THEN stream[s]
                                               ELSE FreshAt(n % SeqModulus), n % SeqModulus)]
           seen == [net EXCEPT ![s] = [arrived |-> [net[s].arrived EXCEPT ![n] = 0],
                                       waiting |-> net[s].waiting \union {n},
                                       reportedTo |-> IF s \in Known THEN net[s].reportedTo
                                                      ELSE n]]
<1>1. streams = ReceivedStreams(s, n)
  BY DEF ReceivedStreams
<1>2. seen = ReceivedNet(s, n)
  BY DEF ReceivedNet, Arrive
<1>3. /\ MeasureRate /\ uptime' = uptime
      /\ IF marker \/ \E t \in Streams : AckDue(streams[t])
         THEN SendFeedback(streams, seen, marker)
         ELSE /\ stream' = streams /\ message' = {} /\ net' = seen
              /\ UNCHANGED <<feedbackAge, panicked>>
  BY DEF ScreamReceiver
<1> HIDE DEF streams, seen
<1>4. fbInterval' \in Intervals
  BY <1>3 DEF MeasureRate
<1>5. CASE marker \/ \E t \in Streams : AckDue(streams[t])
  <2>1. SendFeedback(streams, seen, marker)
    BY <1>3, <1>5, Zenon
  <2>2. SendFeedback(ReceivedStreams(s, n), ReceivedNet(s, n), marker)
    BY <1>1, <1>2, <2>1, Zenon
  <2> QED
    BY <1>3, <1>4, <2>2, Zenon
<1>6. CASE ~(marker \/ \E t \in Streams : AckDue(streams[t]))
  <2>1. /\ stream' = streams /\ message' = {} /\ net' = seen
        /\ feedbackAge' = feedbackAge /\ panicked' = panicked
    BY <1>3, <1>6
  <2>2. \A t \in Streams : ~AckDue(ReceivedStreams(s, n)[t])
    BY <1>1, <1>6, Zenon
  <2>3. stream' = ReceivedStreams(s, n) /\ net' = ReceivedNet(s, n)
    BY <1>1, <1>2, <2>1, Zenon
  <2> QED
    BY <1>3, <1>4, <2>1, <2>2, <2>3, Zenon
<1> QED
  BY <1>5, <1>6, Zenon

LEMMA DeliverableNumbers ==
  ASSUME NEW s \in Streams, NEW n \in Deliverable(s)
  PROVE  /\ n \in Numbers
         /\ s \in Known => Newest(net[s]) - MaxLate <= n /\ n <= Newest(net[s]) + MaxGap + 1
<1>1. CASE s \notin Known
  <2>1. n \in Starts[s]
    BY <1>1 DEF Deliverable
  <2> QED
    BY <1>1, <2>1, NetworkAssumption
<1>2. CASE s \in Known
  <2>1. n \in Numbers \intersect (Newest(net[s]) - MaxLate .. Newest(net[s]) + MaxGap + 1)
    BY <1>2 DEF Deliverable
  <2> QED
    BY <2>1
<1> QED
  BY <1>1, <1>2

\* The stream of the packet that came.
LEMMA ReceivedOne ==
  ASSUME RxInv, NEW s \in Streams, NEW n \in Deliverable(s)
  PROVE  LET it == ReceivedStreams(s, n)[s]
             seen == ReceivedNet(s, n)[s]
         IN  /\ it \in StreamRec /\ it.known = TRUE /\ seen \in SeenRec
             /\ TrueTo(it, seen) /\ it.pending <= it.received /\ it.later \subseteq Known
             /\ it = Take(IF s \in Known THEN stream[s] ELSE FreshAt(n % SeqModulus),
                          n % SeqModulus)
             /\ seen = Arrive(net[s], n, IF s \in Known THEN net[s].reportedTo ELSE n)
<1> DEFINE nr == n % SeqModulus
           before == IF s \in Known THEN stream[s] ELSE FreshAt(nr)
           to == IF s \in Known THEN net[s].reportedTo ELSE n
           it == Take(before, nr)
           seen == Arrive(net[s], n, to)
<1>0. /\ stream \in [Streams -> StreamRec \union {NoStream}] /\ net \in [Streams -> SeenRec]
      /\ uptime \in 0 .. AgeCap
  BY DEF RxInv, Tracked
<1>1. ReceivedStreams(s, n)[s] = it /\ ReceivedNet(s, n)[s] = seen
  BY <1>0 DEF ReceivedStreams, ReceivedNet
<1>2. n \in Numbers /\ n \in Int
  <2>1. n \in Numbers
    BY DeliverableNumbers
  <2> QED
    BY <2>1, Constants
<1>3. nr \in SeqNr
  BY <1>2, LowBits
<1>4. net[s] \in SeenRec /\ stream[s] \in StreamRec \union {NoStream}
  BY <1>0
<1>5. to \in Numbers
  BY <1>2, <1>4 DEF SeenRec
<1>6. seen \in SeenRec
  BY <1>2, <1>4, <1>5, ArriveProperties
<1>7. CASE s \in Known
  <2>1. stream[s].known /\ before = stream[s] /\ to = net[s].reportedTo
    BY <1>7 DEF Known
  <2>2. stream[s] \in StreamRec
    BY <1>4, <2>1, KnownOrNot
  <2>3. /\ TrueTo(stream[s], net[s]) /\ stream[s].pending <= stream[s].received
        /\ \A t \in stream[s].later : stream[t].known
    BY <2>1 DEF RxInv, Tracked
  <2>4. stream[s].later \subseteq Known
    BY <2>2, <2>3 DEF StreamRec, Known
  <2>5. /\ it \in StreamRec /\ it.known = TRUE
        /\ it.received = stream[s].received + 1 /\ it.pending = stream[s].pending + 1
        /\ it.later = stream[s].later
    <3>1. it = Take(stream[s], nr)
      BY <2>1
    <3> HIDE DEF it
    <3> QED
      BY <1>3, <2>2, <3>1, TakeTyped
  <2>6. TrueTo(it, seen)
    <3>1. Newest(net[s]) - MaxLate <= n /\ n <= Newest(net[s]) + MaxGap + 1
      BY <1>7, DeliverableNumbers
    <3> HIDE DEF to
    <3>2. TrueTo(Take(stream[s], n % SeqModulus), Arrive(net[s], n, to))
      BY <1>2, <1>4, <1>5, <2>2, <2>3, <3>1, TakeTrue
    <3> QED
      BY <2>1, <3>2
  <2>7. it.pending <= it.received
    <3>1. stream[s].pending \in Nat /\ stream[s].received \in Nat
      BY <2>2 DEF StreamRec
    <3> HIDE DEF it
    <3> QED
      BY <2>3, <2>5, <3>1
  <2> HIDE DEF it, seen
  <2>8. it.later \subseteq Known
    BY <2>4, <2>5
  <2> QED
    BY <1>1, <1>6, <2>5, <2>6, <2>7, <2>8 DEF it, seen
<1>8. CASE s \notin Known
  <2>1. before = FreshAt(nr) /\ to = n
    BY <1>8
  <2>2. ~stream[s].known
    BY <1>8 DEF Known
  <2>3. net[s] = NothingSeen
    BY <2>2 DEF RxInv, Tracked
  <2> DEFINE fresh == FreshAt(nr)
  <2>4. /\ fresh \in StreamRec /\ fresh.pending = 0 /\ fresh.received = 0
        /\ fresh.later \subseteq Known
    BY <1>0, <1>3, FreshTyped
  <2> HIDE DEF fresh
  <2>5. /\ it \in StreamRec /\ it.known = TRUE
        /\ it.received = fresh.received + 1 /\ it.pending = fresh.pending + 1
        /\ it.later = fresh.later
    <3>1. it = Take(fresh, nr)
      BY <2>1 DEF fresh
    <3> HIDE DEF it
    <3> QED
      BY <1>3, <2>4, <3>1, TakeTyped
  <2>6. TrueTo(it, seen)
    <3>1. TrueTo(Take(FreshAt(nr), nr), Arrive(NothingSeen, n, n))
      BY <1>0, <1>2, FirstTrue
    <3> QED
      BY <2>1, <2>3, <3>1
  <2> HIDE DEF it, seen
  <2>7. it.pending <= it.received /\ it.later \subseteq Known
    BY <2>4, <2>5
  <2> QED
    BY <1>1, <1>6, <2>5, <2>6, <2>7 DEF it, seen
<1> QED
  BY <1>7, <1>8

LEMMA ReceivedTracked ==
  ASSUME RxInv, NEW s \in Streams, NEW n \in Deliverable(s)
  PROVE  Tracked(ReceivedStreams(s, n), ReceivedNet(s, n))
<1> DEFINE streams == ReceivedStreams(s, n)
           seen == ReceivedNet(s, n)
<1>0. /\ stream \in [Streams -> StreamRec \union {NoStream}] /\ net \in [Streams -> SeenRec]
  BY DEF RxInv, Tracked
<1>1. /\ streams[s] \in StreamRec /\ streams[s].known = TRUE /\ seen[s] \in SeenRec
      /\ TrueTo(streams[s], seen[s]) /\ streams[s].pending <= streams[s].received
      /\ streams[s].later \subseteq Known
  BY ReceivedOne
<1>2. \A t \in Streams : t # s => streams[t] = stream[t] /\ seen[t] = net[t]
  BY <1>0 DEF ReceivedStreams, ReceivedNet
<1>3. DOMAIN streams = Streams /\ DOMAIN seen = Streams
      /\ streams = [t \in Streams |-> streams[t]] /\ seen = [t \in Streams |-> seen[t]]
  BY <1>0 DEF ReceivedStreams, ReceivedNet
<1> HIDE DEF streams, seen
<1>4. ASSUME NEW t \in Known PROVE streams[t].known
  <2>1. CASE t = s
    BY <1>1, <2>1
  <2>2. CASE t # s
    BY <1>2, <2>2 DEF Known
  <2> QED
    BY <2>1, <2>2
<1>5. ASSUME NEW t \in Streams
      PROVE /\ streams[t] \in StreamRec \union {NoStream} /\ seen[t] \in SeenRec
            /\ IF streams[t].known
               THEN /\ TrueTo(streams[t], seen[t])
                    /\ streams[t].pending <= streams[t].received
                    /\ \A u \in streams[t].later : streams[u].known
               ELSE seen[t] = NothingSeen
  <2>1. CASE t = s
    BY <1>1, <1>4, <2>1
  <2>2. CASE t # s
    <3>1. streams[t] = stream[t] /\ seen[t] = net[t]
      BY <1>2, <2>2
    <3>2. stream[t] \in StreamRec \union {NoStream} /\ net[t] \in SeenRec
      BY <1>0
    <3>3. CASE stream[t].known
      <4>1. /\ TrueTo(stream[t], net[t]) /\ stream[t].pending <= stream[t].received
            /\ \A u \in stream[t].later : stream[u].known
        BY <3>3 DEF RxInv, Tracked
      <4>2. stream[t].later \subseteq Known
        BY <3>2, <3>3, <4>1, KnownOrNot DEF StreamRec, Known
      <4>3. \A u \in streams[t].later : streams[u].known
        BY <1>4, <3>1, <4>2
      <4> QED
        BY <3>1, <3>2, <3>3, <4>1, <4>3
    <3>4. CASE ~stream[t].known
      <4>1. net[t] = NothingSeen
        BY <3>4 DEF RxInv, Tracked
      <4> QED
        BY <3>1, <3>2, <3>4, <4>1
    <3> QED
      BY <3>3, <3>4
  <2> QED
    BY <2>1, <2>2
<1>6. streams \in [Streams -> StreamRec \union {NoStream}] /\ seen \in [Streams -> SeenRec]
  BY <1>3, <1>5
<1>7. Tracked(streams, seen)
  BY <1>5, <1>6 DEF Tracked
<1> QED
  BY <1>7 DEF streams, seen

\* A tick makes everything older; what never was stays so.
OlderSeen(seen) == [seen EXCEPT !.arrived = [n \in Numbers |-> Older(@[n])]]

LEMMA OlderProperties ==
  /\ \A a \in Ages : Older(a) \in Ages /\ (Older(a) = Never <=> a = Never)
  /\ \A a \in 0 .. AgeCap : Older(a) \in 0 .. AgeCap
BY Constants DEF Older, Ages, Never

LEMMA OlderStreamProperties ==
  ASSUME NEW it \in StreamRec
  PROVE  /\ OlderStream(it) \in StreamRec /\ OlderStream(it).known = TRUE
         /\ OlderStream(it).highest = it.highest /\ OlderStream(it).received = it.received
         /\ OlderStream(it).pending = it.pending /\ OlderStream(it).later = it.later
         /\ OlderStream(it).highestTx = it.highestTx
         /\ \A i \in 0 .. HistorySize - 1 :
              OlderStream(it).hist[i].nr = it.hist[i].nr /\ OlderStream(it).hist[i].age = Older(it.hist[i].age)
<1> DEFINE f == Older(it.fbAge)
           hist == [i \in 0 .. HistorySize - 1 |-> OlderSlot(it.hist[i])]
<1>1. /\ it.known = TRUE /\ it.fbAge \in 0 .. AgeCap
      /\ it.hist \in [0 .. HistorySize - 1 -> [nr : SeqNr, age : Ages]]
  BY DEF StreamRec
<1>2. f \in 0 .. AgeCap
  BY <1>1, OlderProperties
<1>3. ASSUME NEW i \in 0 .. HistorySize - 1
      PROVE  /\ hist[i] \in [nr : SeqNr, age : Ages] /\ hist[i].nr = it.hist[i].nr
             /\ hist[i].age = Older(it.hist[i].age)
  <2>1. PICK slot \in [nr : SeqNr, age : Ages] : slot = it.hist[i]
    BY <1>1
  <2>2. PICK a \in Ages : a = Older(slot.age)
    BY OlderProperties
  <2>3. hist[i] = [slot EXCEPT !.age = a]
    BY <2>1, <2>2 DEF OlderSlot
  <2> HIDE DEF hist
  <2> QED
    BY <2>1, <2>2, <2>3
<1>4. hist \in [0 .. HistorySize - 1 -> [nr : SeqNr, age : Ages]]
  BY <1>3
<1>5. OlderStream(it) = [it EXCEPT !.fbAge = f, !.hist = hist]
  <2>1. DOMAIN it.hist = 0 .. HistorySize - 1
    BY <1>1
  <2>2. [i \in DOMAIN it.hist |-> OlderSlot(it.hist[i])] = hist
    BY <2>1
  <2> QED
    BY <2>2, Zenon DEF OlderStream
<1> HIDE DEF f, hist
<1>6. /\ OlderStream(it) \in StreamRec
      /\ OlderStream(it).highest = it.highest /\ OlderStream(it).received = it.received
      /\ OlderStream(it).pending = it.pending /\ OlderStream(it).later = it.later
      /\ OlderStream(it).highestTx = it.highestTx /\ OlderStream(it).hist = hist
      /\ OlderStream(it).known = it.known
  BY <1>2, <1>4, <1>5 DEF StreamRec
<1> QED
  BY <1>1, <1>3, <1>6

LEMMA OlderSeenProperties ==
  ASSUME NEW seen \in SeenRec
  PROVE  /\ OlderSeen(seen) \in SeenRec /\ Arrived(OlderSeen(seen)) = Arrived(seen)
         /\ Newest(OlderSeen(seen)) = Newest(seen)
         /\ \A n \in Numbers : OlderSeen(seen).arrived[n] = Older(seen.arrived[n])
         /\ OlderSeen(seen).waiting = seen.waiting
         /\ OlderSeen(seen).reportedTo = seen.reportedTo
<1> DEFINE arrived == [n \in Numbers |-> Older(seen.arrived[n])]
<1>1. seen.arrived \in [Numbers -> Ages]
  BY DEF SeenRec
<1>2. arrived \in [Numbers -> Ages] /\ \A n \in Numbers : arrived[n] = Older(seen.arrived[n])
  BY <1>1, OlderProperties
<1>3. OlderSeen(seen) = [seen EXCEPT !.arrived = arrived]
  BY DEF OlderSeen
<1> HIDE DEF arrived
<1>4. /\ OlderSeen(seen) \in SeenRec /\ OlderSeen(seen).arrived = arrived
      /\ OlderSeen(seen).waiting = seen.waiting /\ OlderSeen(seen).reportedTo = seen.reportedTo
  BY <1>2, <1>3 DEF SeenRec
<1>5. \A n \in Numbers : OlderSeen(seen).arrived[n] = Never <=> seen.arrived[n] = Never
  BY <1>1, <1>2, <1>4, OlderProperties
<1>6. Arrived(OlderSeen(seen)) = Arrived(seen)
  BY <1>5 DEF Arrived
<1>7. Newest(OlderSeen(seen)) = Newest(seen)
  BY <1>6 DEF Newest, Arrived
<1> QED
  BY <1>2, <1>4, <1>6, <1>7

LEMMA OlderTrue ==
  ASSUME NEW it \in StreamRec, NEW seen \in SeenRec, TrueTo(it, seen)
  PROVE  TrueTo(OlderStream(it), OlderSeen(seen))
<1> DEFINE after == OlderStream(it)
           new == OlderSeen(seen)
<1>1. /\ after.highest = it.highest
      /\ \A i \in 0 .. HistorySize - 1 :
           after.hist[i].nr = it.hist[i].nr /\ after.hist[i].age = Older(it.hist[i].age)
  BY OlderStreamProperties
<1>2. /\ Arrived(new) = Arrived(seen) /\ Newest(new) = Newest(seen)
      /\ \A n \in Numbers : new.arrived[n] = Older(seen.arrived[n])
  BY OlderSeenProperties
<1> HIDE DEF after, new
<1>3. ASSUME NEW i \in 0 .. HistorySize - 1 PROVE Holds(after.hist[i], new, i)
  <2>1. Class(new, i) = Class(seen, i)
    BY <1>2 DEF Class
  <2>2. Holds(it.hist[i], seen, i)
    BY DEF TrueTo, SlotsTrue
  <2>3. CASE Class(seen, i) = {} /\ it.hist[i].age = Never
    <3>1. after.hist[i].age = Never
      BY <1>1, <2>3, OlderProperties, Constants
    <3> QED
      BY <2>1, <2>3, <3>1 DEF Holds
  <2>4. CASE \E m \in Class(seen, i) :
               /\ \A n \in Class(seen, i) : n <= m
               /\ it.hist[i].nr = m % SeqModulus /\ it.hist[i].age = seen.arrived[m]
    <3>1. PICK m \in Class(seen, i) :
               /\ \A n \in Class(seen, i) : n <= m
               /\ it.hist[i].nr = m % SeqModulus /\ it.hist[i].age = seen.arrived[m]
      BY <2>4
    <3>2. m \in Numbers
      BY <3>1 DEF Class, Arrived
    <3>3. after.hist[i].nr = m % SeqModulus /\ after.hist[i].age = new.arrived[m]
      BY <1>1, <1>2, <3>1, <3>2
    <3> QED
      BY <2>1, <3>1, <3>3 DEF Holds
  <2> QED
    BY <2>2, <2>3, <2>4 DEF Holds
<1>4. TrueTo(after, new)
  BY <1>1, <1>2, <1>3 DEF TrueTo, SlotsTrue
<1> QED
  BY <1>4 DEF after, new

LEMMA TickTracked ==
  ASSUME RxInv, Tick
  PROVE  Tracked(stream', net')
<1>0. /\ stream \in [Streams -> StreamRec \union {NoStream}] /\ net \in [Streams -> SeenRec]
  BY DEF RxInv, Tracked
<1>1. /\ stream' = [s \in Streams |-> IF s \in Known THEN OlderStream(stream[s]) ELSE NoStream]
      /\ net' = [s \in Streams |-> OlderSeen(net[s])]
  BY DEF Tick, OlderSeen
<1>2. ASSUME NEW s \in Streams, stream[s].known
      PROVE  /\ stream'[s] \in StreamRec /\ stream'[s].known = TRUE /\ net'[s] \in SeenRec
             /\ TrueTo(stream'[s], net'[s]) /\ stream'[s].pending <= stream'[s].received
             /\ stream'[s].later = stream[s].later
  <2>1. stream'[s] = OlderStream(stream[s]) /\ net'[s] = OlderSeen(net[s])
    BY <1>1, <1>2 DEF Known
  <2>2. stream[s] \in StreamRec /\ net[s] \in SeenRec
    BY <1>0, <1>2, KnownOrNot
  <2>3. TrueTo(stream[s], net[s]) /\ stream[s].pending <= stream[s].received
    BY <1>2 DEF RxInv, Tracked
  <2>4. /\ OlderStream(stream[s]) \in StreamRec /\ OlderStream(stream[s]).known = TRUE
        /\ OlderStream(stream[s]).received = stream[s].received
        /\ OlderStream(stream[s]).pending = stream[s].pending
        /\ OlderStream(stream[s]).later = stream[s].later
    BY <2>2, OlderStreamProperties
  <2>5. OlderSeen(net[s]) \in SeenRec /\ TrueTo(OlderStream(stream[s]), OlderSeen(net[s]))
    BY <2>2, <2>3, OlderSeenProperties, OlderTrue
  <2> QED
    BY <2>1, <2>3, <2>4, <2>5
<1>3. ASSUME NEW s \in Streams, ~stream[s].known
      PROVE  stream'[s] = NoStream /\ net'[s] = NothingSeen /\ net'[s] \in SeenRec
  <2>1. stream'[s] = NoStream /\ net'[s] = OlderSeen(net[s])
    BY <1>1, <1>3 DEF Known
  <2>2. net[s] = NothingSeen /\ net[s] \in SeenRec
    BY <1>0, <1>3 DEF RxInv, Tracked
  <2>3. OlderSeen(NothingSeen) = NothingSeen
    <3>1. [n \in Numbers |-> Older(NothingSeen.arrived[n])] = [n \in Numbers |-> Never]
      BY DEF NothingSeen, Older
    <3> DEFINE none == [n \in Numbers |-> Never]
    <3>2. NothingSeen = [arrived |-> none, waiting |-> {}, reportedTo |-> 0]
      BY DEF NothingSeen
    <3>3. OlderSeen(NothingSeen) = [NothingSeen EXCEPT !.arrived = none]
      BY <3>1 DEF OlderSeen
    <3> HIDE DEF none
    <3> QED
      BY <3>2, <3>3
  <2> QED
    BY <2>1, <2>2, <2>3
<1>4. \A s \in Streams : stream[s].known => stream'[s].known
  BY <1>2
<1>5. ASSUME NEW s \in Streams
      PROVE /\ stream'[s] \in StreamRec \union {NoStream} /\ net'[s] \in SeenRec
            /\ IF stream'[s].known
               THEN /\ TrueTo(stream'[s], net'[s])
                    /\ stream'[s].pending <= stream'[s].received
                    /\ \A t \in stream'[s].later : stream'[t].known
               ELSE net'[s] = NothingSeen
  <2>1. CASE stream[s].known
    <3>1. \A t \in stream[s].later : stream[t].known /\ t \in Streams
      BY <1>0, <2>1, KnownOrNot DEF RxInv, Tracked, StreamRec
    <3> QED
      BY <1>2, <1>4, <2>1, <3>1
  <2>2. CASE ~stream[s].known
    <3>1. stream'[s].known = FALSE
      BY <1>3, <2>2 DEF NoStream
    <3> QED
      BY <1>3, <2>2, <3>1
  <2> QED
    BY <2>1, <2>2
<1>6. stream' \in [Streams -> StreamRec \union {NoStream}] /\ net' \in [Streams -> SeenRec]
  BY <1>1, <1>5
<1> QED
  BY <1>5, <1>6 DEF Tracked

LEMMA RxInvInit == Init => RxInv
<1> SUFFICES ASSUME Init PROVE RxInv
  OBVIOUS
<1>1. NothingSeen \in SeenRec
  BY Constants DEF NothingSeen, SeenRec, Numbers
<1>2. stream = [s \in Streams |-> NoStream] /\ net = [s \in Streams |-> NothingSeen]
  BY DEF Init, NothingSeen
<1>3. \A s \in Streams : stream[s] = NoStream /\ stream[s].known = FALSE /\ net[s] = NothingSeen
  BY <1>2 DEF NoStream
<1>4. stream \in [Streams -> StreamRec \union {NoStream}] /\ net \in [Streams -> SeenRec]
  BY <1>1, <1>2
<1>5. Tracked(stream, net)
  BY <1>3, <1>4 DEF Tracked
<1>6. MessageTrue
  BY DEF Init, MessageTrue
<1>7. feedbackAge = 0 /\ uptime = 0 /\ panicked = FALSE /\ fbInterval \in Intervals
  BY DEF Init
<1>8. 0 \in 0 .. AgeCap
  BY Constants
<1> QED
  BY <1>5, <1>6, <1>7, <1>8 DEF RxInv

LEMMA RxInvNext == RxInv /\ [Next]_vars => RxInv'
<1> SUFFICES ASSUME RxInv, [Next]_vars PROVE RxInv'
  OBVIOUS
<1>0. /\ Tracked(stream, net) /\ MessageTrue /\ fbInterval \in Intervals
      /\ feedbackAge \in 0 .. AgeCap /\ uptime \in 0 .. AgeCap /\ panicked \in BOOLEAN
      /\ 0 \in 0 .. AgeCap
  BY Constants DEF RxInv
<1>1. ASSUME NEW s \in Streams, NEW n \in Deliverable(s), NEW marker \in BOOLEAN,
             ScreamReceiver(s, n, marker)
      PROVE RxInv'
  <2>1. fbInterval' \in Intervals /\ uptime' = uptime
    BY <1>1, ReceiverCases
  <2>2. Tracked(ReceivedStreams(s, n), ReceivedNet(s, n))
    BY ReceivedTracked
  <2>3. CASE SendFeedback(ReceivedStreams(s, n), ReceivedNet(s, n), marker)
    <3>1. Tracked(stream', net') /\ MessageTrue'
      BY <2>2, <2>3, SendTracked
    <3>2. feedbackAge' \in {feedbackAge, 0} /\ panicked' \in BOOLEAN
      BY <2>2, <2>3, SendCases
    <3> QED
      BY <1>0, <2>1, <3>1, <3>2 DEF RxInv
  <2>4. CASE /\ stream' = ReceivedStreams(s, n) /\ net' = ReceivedNet(s, n)
             /\ message' = {} /\ feedbackAge' = feedbackAge /\ panicked' = panicked
    <3>1. MessageTrue'
      BY <2>4 DEF MessageTrue
    <3>2. Tracked(stream', net')
      BY <2>2, <2>4
    <3> QED
      BY <1>0, <2>1, <2>4, <3>1, <3>2 DEF RxInv
  <2> QED
    BY <1>1, <2>3, <2>4, ReceiverCases
<1>2. ASSUME NEW s \in Streams, NEW n, FirstPacketPanics(s, n)
      PROVE RxInv'
  <2>1. /\ stream' = stream /\ net' = net /\ feedbackAge' = feedbackAge /\ uptime' = uptime
        /\ panicked' = TRUE /\ message' = {} /\ fbInterval' \in Intervals
    BY <1>2 DEF FirstPacketPanics, MeasureRate
  <2>2. MessageTrue'
    BY <2>1 DEF MessageTrue
  <2> QED
    BY <1>0, <2>1, <2>2 DEF RxInv
<1>3. ASSUME PeriodicFlush PROVE RxInv'
  <2>1. SendFeedback(stream, net, TRUE) /\ fbInterval' = fbInterval /\ uptime' = uptime
    BY <1>3 DEF PeriodicFlush
  <2>2. Tracked(stream', net') /\ MessageTrue'
    BY <1>0, <2>1, SendTracked
  <2>3. feedbackAge' \in {feedbackAge, 0} /\ panicked' \in BOOLEAN
    BY <1>0, <2>1, SendCases
  <2> QED
    BY <1>0, <2>1, <2>2, <2>3 DEF RxInv
<1>4. ASSUME Tick PROVE RxInv'
  <2>1. Tracked(stream', net')
    BY <1>4, TickTracked
  <2>2. /\ feedbackAge' = Older(feedbackAge) /\ uptime' = Older(uptime)
        /\ message' = {} /\ fbInterval' = fbInterval /\ panicked' = panicked
    BY <1>4 DEF Tick
  <2>3. feedbackAge' \in 0 .. AgeCap /\ uptime' \in 0 .. AgeCap
    BY <1>0, <2>2, OlderProperties
  <2>4. MessageTrue'
    BY <2>2 DEF MessageTrue
  <2> QED
    BY <1>0, <2>1, <2>2, <2>3, <2>4 DEF RxInv
<1>5. ASSUME UNCHANGED vars PROVE RxInv'
  <2>1. /\ stream' = stream /\ net' = net /\ message' = message /\ fbInterval' = fbInterval
        /\ feedbackAge' = feedbackAge /\ uptime' = uptime /\ panicked' = panicked
    BY <1>5 DEF vars
  <2>2. MessageTrue'
    BY <1>0, <2>1 DEF MessageTrue, Block, Element
  <2> QED
    BY <1>0, <2>1, <2>2 DEF RxInv
<1> QED
  BY <1>1, <1>2, <1>3, <1>4, <1>5 DEF Next

LEMMA RxInvAlways == RxSpec => []RxInv
BY RxInvInit, RxInvNext, PTL DEF RxSpec

LEMMA RxInvTypes == RxInv => RxTypeOK
<1> SUFFICES ASSUME RxInv PROVE RxTypeOK
  OBVIOUS
<1>1. Tracked(stream, net)
  BY DEF RxInv
<1>2. ASSUME NEW s \in Known
      PROVE /\ {stream[s].highest, stream[s].highestTx} \subseteq SeqNr
            /\ stream[s].pending \in 0 .. stream[s].received
            /\ stream[s].fbAge \in 0 .. AgeCap
            /\ stream[s].reported \in BOOLEAN /\ stream[s].later \subseteq Known
            /\ stream[s].hist \in [0 .. HistorySize - 1 -> [nr : SeqNr, age : Ages]]
  <2>1. s \in Streams /\ stream[s].known
    BY DEF Known
  <2>2. stream[s] \in StreamRec
    BY <1>1, <2>1, KnownOrNot DEF Tracked
  <2>3. stream[s].pending <= stream[s].received /\ \A t \in stream[s].later : stream[t].known
    BY <1>1, <2>1 DEF Tracked
  <2>4. /\ stream[s].highest \in SeqNr /\ stream[s].highestTx \in SeqNr
        /\ stream[s].pending \in Nat /\ stream[s].received \in Nat
        /\ stream[s].fbAge \in 0 .. AgeCap /\ stream[s].reported \in BOOLEAN
        /\ stream[s].later \subseteq Streams
        /\ stream[s].hist \in [0 .. HistorySize - 1 -> [nr : SeqNr, age : Ages]]
    BY <2>2 DEF StreamRec
  <2> QED
    BY <2>3, <2>4 DEF Known
<1>3. net \in [Streams -> [arrived : [Numbers -> Ages], waiting : SUBSET Numbers,
                           reportedTo : Numbers]]
  BY <1>1 DEF Tracked, SeenRec
<1>4. /\ fbInterval \in Intervals /\ {feedbackAge, uptime} \subseteq 0 .. AgeCap
      /\ panicked \in BOOLEAN
  BY DEF RxInv
<1> QED
  BY <1>2, <1>3, <1>4 DEF RxTypeOK

\* RxTypeOK: whatever the network does within its bounds, the numbers of each
\* stream stay in their 16 bits, its counters agree and its history is one
\* (NadaRx, Stream).
THEOREM RxTypeCorrect == RxSpec => []RxTypeOK
BY RxInvAlways, RxInvTypes, PTL

-----------------------------------------------------------------------------
(* Blocks *)

\* No slot of a stream's history has been left alone for a whole number space:
\* otherwise the packet in it would pass for the one that has its number now.
Reused(seen) ==
  \A m \in Arrived(seen) :
    m + SeqModulus <= Newest(seen) =>
      \E n \in Arrived(seen) : m < n /\ n % HistorySize = m % HistorySize
SlotsReused == \A s \in Known : Reused(net[s])

LEMMA ElementTrue ==
  ASSUME NEW it \in StreamRec, NEW seen \in SeenRec, TrueTo(it, seen), Reused(seen),
         NEW a \in Int, a <= Newest(seen), Newest(seen) - HistorySize < a
  PROVE  Element(it, a % SeqModulus) = IF a \in Numbers THEN seen.arrived[a] ELSE Never
<1>1. PICK newest \in Nat : newest = Newest(seen) /\ \A m \in Arrived(seen) : m <= newest
  BY NewestProperties, Constants DEF TrueTo
<1>2. HistorySize \in Nat \ {0} /\ SeqModulus \in Nat \ {0}
  BY Constants
<1>3. PICK i \in 0 .. HistorySize - 1 : i = Slot(a % SeqModulus) /\ i = a % HistorySize
  BY LowBits DEF Slot
<1>4. PICK slot : slot = it.hist[i]
  OBVIOUS
<1>5. Element(it, a % SeqModulus) =
        IF slot.nr = a % SeqModulus /\ slot.age # Never THEN slot.age ELSE Never
  BY <1>3, <1>4 DEF Element
<1>6. Holds(slot, seen, i)
  BY <1>4 DEF TrueTo, SlotsTrue
<1>7. a \in Arrived(seen) => a \in Class(seen, i)
  BY <1>3 DEF Class
<1>8. a \notin Arrived(seen) => (IF a \in Numbers THEN seen.arrived[a] ELSE Never) = Never
  BY DEF Arrived
<1>9. CASE Class(seen, i) = {} /\ slot.age = Never
  BY <1>5, <1>7, <1>8, <1>9
<1>10. CASE \E m \in Class(seen, i) :
              /\ \A n \in Class(seen, i) : n <= m
              /\ slot.nr = m % SeqModulus /\ slot.age = seen.arrived[m]
  <2>1. PICK m \in Class(seen, i) :
              /\ \A n \in Class(seen, i) : n <= m
              /\ slot.nr = m % SeqModulus /\ slot.age = seen.arrived[m]
    BY <1>10
  <2>2. /\ m \in Arrived(seen) /\ m \in Numbers /\ seen.arrived[m] # Never
        /\ m % HistorySize = a % HistorySize
    BY <1>3, <2>1 DEF Class, Arrived
  <2>3. m \in Nat /\ m \in Int /\ m <= newest
    BY <1>1, <2>2, Constants
  <2>4. CASE m = a
    BY <1>5, <2>1, <2>2, <2>4
  <2>5. ~(a < m)
    <3> SUFFICES ASSUME a < m PROVE FALSE
      OBVIOUS
    <3>1. a + HistorySize <= m
      BY <1>2, <2>2, <2>3, SameModApart
    <3> QED
      BY <1>1, <1>2, <2>3, <3>1
  <2>6. CASE m < a
    <3>1. a \notin Class(seen, i)
      BY <2>1, <2>3, <2>6
    <3>2. m % SeqModulus # a % SeqModulus
      <4> SUFFICES ASSUME m % SeqModulus = a % SeqModulus PROVE FALSE
        OBVIOUS
      <4>1. m + SeqModulus <= a
        BY <1>2, <2>3, <2>6, SameModApart
      <4>2. m + SeqModulus <= Newest(seen)
        BY <1>1, <1>2, <2>3, <4>1
      <4>3. PICK n \in Arrived(seen) : m < n /\ n % HistorySize = m % HistorySize
        BY <2>2, <4>2 DEF Reused
      <4>4. n \in Class(seen, i) /\ n \in Nat
        BY <1>3, <2>2, <4>3, Constants DEF Class, Arrived
      <4>5. n <= m
        BY <2>1, <4>4
      <4> QED
        BY <2>3, <4>3, <4>4, <4>5
    <3> QED
      BY <1>5, <1>7, <1>8, <2>1, <3>1, <3>2
  <2> QED
    BY <2>3, <2>4, <2>5, <2>6
<1> QED
  BY <1>6, <1>9, <1>10 DEF Holds

LEMMA BlockTrue ==
  ASSUME NEW s, NEW it \in StreamRec, NEW seen \in SeenRec, TrueTo(it, seen), Reused(seen)
  PROVE  LET first == Newest(seen) - (Reported - 1)
         IN  /\ Block(s, it).ssrc = s
             /\ Block(s, it).begin = first % SeqModulus
             /\ \A k \in 0 .. Reported - 1 :
                  Block(s, it).elements[k] =
                    IF first + k \in Numbers THEN seen.arrived[first + k] ELSE Never
<1>1. PICK newest \in Nat : newest = Newest(seen)
  BY NewestProperties, Constants DEF TrueTo
<1>2. /\ SeqModulus \in Nat \ {0} /\ HistorySize \in Nat \ {0} /\ Reported \in Nat \ {0}
      /\ Reported <= HistorySize
  BY Constants
<1>3. PICK first \in Int : first = newest - (Reported - 1)
  BY <1>2
<1>4. PICK back \in Int : back = 0 - (Reported - 1)
  BY <1>2
<1>5. PICK h \in Int : h = it.highest /\ h = newest % SeqModulus
  BY <1>1, <1>2 DEF TrueTo
<1>6. h - (Reported - 1) = h + back /\ first = newest + back
  BY <1>2, <1>3, <1>4
<1>7. (h + back) % SeqModulus = (newest + back) % SeqModulus
  <2>0. SeqModulus \in Nat \ {0} /\ newest \in Int /\ back \in Int
    BY <1>2
  <2>1. ((newest % SeqModulus) + back) % SeqModulus = (newest + back) % SeqModulus
    BY <2>0, ModOfSum
  <2> QED
    BY <1>5, <2>1, Zenon
<1>8. PICK begin \in Int : begin = first % SeqModulus
  BY <1>2
<1>9. (h - (Reported - 1)) % SeqModulus = begin
  BY <1>6, <1>7, <1>8, Zenon
<1>10. Block(s, it) = [ssrc |-> s, begin |-> begin,
                       elements |-> [k \in 0 .. Reported - 1 |->
                                       Element(it, (begin + k) % SeqModulus)]]
  BY <1>5, <1>9, Zenon DEF Block
<1>11. ASSUME NEW k \in 0 .. Reported - 1
       PROVE Block(s, it).elements[k] =
               IF first + k \in Numbers THEN seen.arrived[first + k] ELSE Never
  <2>1. Block(s, it).elements[k] = Element(it, (begin + k) % SeqModulus)
    BY <1>10
  <2>2. (begin + k) % SeqModulus = (first + k) % SeqModulus
    <3>0. SeqModulus \in Nat \ {0} /\ first \in Int /\ k \in Int
      BY <1>2
    <3>1. ((first % SeqModulus) + k) % SeqModulus = (first + k) % SeqModulus
      BY <3>0, ModOfSum
    <3> QED
      BY <1>8, <3>1, Zenon
  <2>3. PICK a \in Int : a = first + k
    OBVIOUS
  <2>4. a <= Newest(seen) /\ Newest(seen) - HistorySize < a
    BY <1>1, <1>2, <1>3, <2>3
  <2>5. Element(it, a % SeqModulus) = IF a \in Numbers THEN seen.arrived[a] ELSE Never
    BY <2>4, ElementTrue
  <2> QED
    BY <2>1, <2>2, <2>3, <2>5, Zenon
<1>12. Block(s, it).ssrc = s /\ Block(s, it).begin = begin
  BY <1>10
<1> QED
  BY <1>1, <1>3, <1>8, <1>11, <1>12

LEMMA RxInvBlocks == RxInv /\ SlotsReused => BlocksAreTrue
<1> SUFFICES ASSUME RxInv, SlotsReused, NEW b \in message
             PROVE  LET newest == Newest(net[b.ssrc])
                        Absolute(k) == newest - (Reported - 1) + k
                    IN  /\ b.begin = Absolute(0) % SeqModulus
                        /\ \A k \in 0 .. Reported - 1 :
                             b.elements[k] = IF Absolute(k) \in Numbers
                                             THEN net[b.ssrc].arrived[Absolute(k)] ELSE Never
  BY DEF BlocksAreTrue
<1>1. PICK s \in Streams : stream[s].known /\ b = Block(s, stream[s])
  BY DEF RxInv, MessageTrue
<1>2. /\ stream[s] \in StreamRec /\ net[s] \in SeenRec /\ TrueTo(stream[s], net[s])
      /\ Reused(net[s])
  BY <1>1, KnownOrNot DEF RxInv, Tracked, SlotsReused, Known
<1>3. PICK first : first = Newest(net[s]) - (Reported - 1)
  OBVIOUS
<1>4. /\ b.ssrc = s /\ b.begin = first % SeqModulus
      /\ \A k \in 0 .. Reported - 1 :
           b.elements[k] = IF first + k \in Numbers THEN net[s].arrived[first + k] ELSE Never
  BY <1>1, <1>2, <1>3, BlockTrue
<1>5. first \in Int
  BY <1>2, <1>3, NewestProperties, Constants DEF TrueTo
<1>6. first + 0 = first
  BY <1>5
<1> QED
  BY <1>3, <1>4, <1>6

\* BlocksAreTrue: as long as no slot is left alone for a whole number space, a
\* block says of every packet it covers whether and how long ago it came,
\* whatever is lost, late or repeated and however often the numbers wrap
\* (Stream::receive, Stream::getStandardizedFeedback).
THEOREM BlocksTheorem == RxSpec => [](SlotsReused => BlocksAreTrue)
BY RxInvAlways, RxInvBlocks, PTL

-----------------------------------------------------------------------------
(* Holes *)

\* Each message has room for all streams, and the packets that may come until
\* a report is due are fewer than a report covers.
RoomForAll == Cardinality(Streams) <= PerMessage
DueInTime ==
  /\ AckDiff + MaxGap + MaxLate < Reported
  /\ PacketsDue * (MaxGap + 1) + MaxLate < Reported

\* How far the stream has come since its last report, and that what waits
\* came after that report or was late.
Progress(it, seen) ==
  /\ seen.reportedTo <= Newest(seen)
  /\ it.highestTx <= seen.reportedTo % SeqModulus
  /\ Newest(seen) - seen.reportedTo <= it.pending * (MaxGap + 1)
  /\ \A n \in seen.waiting : seen.reportedTo - MaxLate <= n

\* When a report is sent the stream is within reach of it, and between steps
\* it is not due.
Within(seen) == Wrapped(seen) \/ Newest(seen) - seen.reportedTo + MaxLate < Reported
NotDue(it, seen) ==
  \/ Wrapped(seen) \/ Newest(seen) - seen.reportedTo < AckDiff \/ it.pending < PacketsDue
Reached(streams, seen) ==
  \A s \in Streams : streams[s].known =>
    Progress(streams[s], seen[s]) /\ NotDue(streams[s], seen[s])

LEMMA Times ==
  ASSUME NEW p \in Nat, NEW q \in Nat, p <= q, NEW g \in Nat
  PROVE  p * g \in Nat /\ (p + 1) * g = p * g + g /\ p * g <= q * g
<1>1. PICK d \in Nat : q = p + d
  <2>1. q - p \in Nat /\ q = p + (q - p)
    OBVIOUS
  <2> QED
    BY <2>1
<1>2. (p + d) * g = p * g + d * g
  OBVIOUS
<1>3. p * g \in Nat /\ d * g \in Nat /\ (p + 1) * g = p * g + g
  OBVIOUS
<1>4. PICK x \in Nat, y \in Nat : x = p * g /\ y = d * g
  BY <1>3
<1>5. q * g = x + y
  BY <1>1, <1>2, <1>4
<1> QED
  BY <1>3, <1>4, <1>5

LEMMA RxNumbers ==
  /\ AckDiff \in Nat /\ AckDiff >= 2 /\ PacketsDue \in Nat \ {0} /\ PerMessage \in Nat
  /\ MaxGap \in Nat /\ MaxLate \in Nat /\ Reported \in Nat
  /\ SeqModulus \in Nat \ {0} /\ IsFiniteSet(Streams)
BY RxAssumption, NetworkAssumption

LEMMA SeenNumbers ==
  ASSUME NEW seen \in SeenRec, Arrived(seen) # {}
  PROVE  Newest(seen) \in Nat /\ seen.reportedTo \in Nat /\ seen.waiting \subseteq Nat
<1>1. Newest(seen) \in Numbers
  BY NewestProperties
<1>2. seen.reportedTo \in Numbers /\ seen.waiting \subseteq Numbers
  BY DEF SeenRec
<1> QED
  BY <1>1, <1>2, Constants

\* Nothing that waits is lost while the stream is within reach.
LEMMA WithinCovers ==
  ASSUME NEW it, NEW seen \in SeenRec, Arrived(seen) # {}, Progress(it, seen),
         Within(seen)
  PROVE  Wrapped(seen) \/ OutOfReach(seen) = {}
<1> SUFFICES ASSUME ~Wrapped(seen), NEW n \in OutOfReach(seen) PROVE FALSE
  OBVIOUS
<1>1. PICK h \in Nat, r \in Nat : h = Newest(seen) /\ r = seen.reportedTo
  BY SeenNumbers
<1>2. n \in Nat /\ n < h - (Reported - 1) /\ n \in seen.waiting
  BY <1>1, SeenNumbers DEF OutOfReach
<1>3. r - MaxLate <= n
  BY <1>1, <1>2 DEF Progress
<1>4. h - r + MaxLate < Reported
  BY <1>1 DEF Within
<1>5. Reported \in Nat /\ MaxLate \in Nat
  BY RxNumbers
<1> QED
  BY <1>2, <1>3, <1>4, <1>5

LEMMA NotDueWithin ==
  ASSUME DueInTime, NEW it \in StreamRec, NEW seen \in SeenRec, Arrived(seen) # {},
         Progress(it, seen), NotDue(it, seen)
  PROVE  Within(seen)
<1>1. PICK h \in Nat, r \in Nat : h = Newest(seen) /\ r = seen.reportedTo
  BY SeenNumbers
<1>2. PICK p \in Nat : p = it.pending
  BY DEF StreamRec
<1>3. /\ AckDiff \in Nat /\ PacketsDue \in Nat /\ MaxGap \in Nat /\ MaxLate \in Nat
      /\ Reported \in Nat
  BY RxNumbers
<1>4. h - r <= p * (MaxGap + 1)
  BY <1>1, <1>2 DEF Progress
<1>5. CASE Wrapped(seen)
  BY <1>5 DEF Within
<1>6. CASE h - r < AckDiff
  <2>1. h - r + MaxLate < Reported
    BY <1>3, <1>6 DEF DueInTime
  <2> QED
    BY <1>1, <2>1 DEF Within
<1>7. CASE p < PacketsDue
  <2>1. PICK g \in Nat : g = MaxGap + 1
    BY <1>3
  <2>2. p * g \in Nat /\ p * g <= PacketsDue * g
    BY <1>3, <1>7, Times
  <2>3. PICK x \in Nat : x = p * g
    BY <2>2
  <2>4. PICK y \in Nat : y = PacketsDue * g
    BY <1>3, <2>1
  <2>5. y + MaxLate < Reported
    BY <2>1, <2>4 DEF DueInTime
  <2>6. h - r <= x /\ x <= y
    BY <1>4, <2>1, <2>2, <2>3, <2>4
  <2>7. h - r + MaxLate < Reported
    BY <1>3, <2>5, <2>6
  <2> QED
    BY <1>1, <2>7 DEF Within
<1> QED
  BY <1>1, <1>2, <1>5, <1>6, <1>7 DEF NotDue

\* A packet takes the stream further by at most the widest hole.
LEMMA TakeProgress ==
  ASSUME DueInTime, NEW it \in StreamRec, NEW seen \in SeenRec, NEW n \in Numbers,
         TrueTo(it, seen), Newest(seen) - MaxLate <= n, n <= Newest(seen) + MaxGap + 1,
         Progress(it, seen), NotDue(it, seen)
  PROVE  LET after == Take(it, n % SeqModulus)
             new == Arrive(seen, n, seen.reportedTo)
         IN  Progress(after, new) /\ Within(new)
<1> DEFINE after == Take(it, n % SeqModulus)
           new == Arrive(seen, n, seen.reportedTo)
<1>0. Arrived(seen) # {} /\ seen.reportedTo \in Numbers
  BY DEF TrueTo, SeenRec
<1>1. PICK h \in Nat, r \in Nat : h = Newest(seen) /\ r = seen.reportedTo
  BY <1>0, SeenNumbers
<1>2. PICK p \in Nat : p = it.pending
  BY DEF StreamRec
<1>3. n \in Nat /\ n % SeqModulus \in SeqNr
  <2>1. n \in Nat /\ n \in Int
    BY Constants
  <2> QED
    BY <2>1, LowBits
<1>4. after.pending = p + 1 /\ after.highestTx = it.highestTx
  BY <1>2, <1>3, TakeTyped
<1>5. /\ new.reportedTo = r /\ new.waiting = seen.waiting \union {n}
  BY <1>0, <1>1, ArriveProperties
<1>6. PICK k \in Nat : k = Newest(new) /\ k = IF n >= h THEN n ELSE h
  BY <1>0, <1>1, <1>3, TakeTrue
<1>7. /\ AckDiff \in Nat /\ PacketsDue \in Nat /\ MaxGap \in Nat /\ MaxLate \in Nat
      /\ Reported \in Nat /\ SeqModulus \in Nat \ {0}
  BY RxNumbers
<1>8. h - MaxLate <= n /\ n <= h + MaxGap + 1
  BY <1>1
<1>9. /\ r <= h /\ it.highestTx <= r % SeqModulus /\ h - r <= p * (MaxGap + 1)
      /\ \A m \in seen.waiting : r - MaxLate <= m
  BY <1>1, <1>2 DEF Progress
<1>10. h <= k /\ k <= h + MaxGap + 1
  BY <1>3, <1>6, <1>7, <1>8
<1> HIDE DEF after, new
<1>11. Progress(after, new)
  <2>1. r <= k
    BY <1>9, <1>10
  <2>2. k - r <= (p + 1) * (MaxGap + 1)
    <3>1. PICK g \in Nat : g = MaxGap + 1
      BY <1>7
    <3>2. p * g \in Nat /\ (p + 1) * g = p * g + g
      BY <3>1, Times
    <3>3. PICK x \in Nat : x = p * g
      BY <3>2
    <3>4. h - r <= x /\ k <= h + g
      BY <1>7, <1>9, <1>10, <3>1, <3>3
    <3>5. k - r <= x + g
      BY <3>4
    <3> QED
      BY <3>1, <3>2, <3>3, <3>5
  <2>3. \A m \in new.waiting : r - MaxLate <= m
    <3>1. r - MaxLate <= n
      BY <1>3, <1>7, <1>8, <1>9
    <3> QED
      BY <1>5, <1>9, <3>1
  <2> QED
    BY <1>4, <1>5, <1>6, <1>9, <2>1, <2>2, <2>3 DEF Progress
<1>12. Within(new)
  <2>1. CASE Wrapped(seen)
    <3>1. h \div SeqModulus # r \div SeqModulus
      BY <1>1, <2>1 DEF Wrapped
    <3>2. /\ r \div SeqModulus \in Int /\ h \div SeqModulus \in Int
          /\ k \div SeqModulus \in Int
          /\ r \div SeqModulus <= h \div SeqModulus /\ h \div SeqModulus <= k \div SeqModulus
      BY <1>7, <1>9, <1>10, DivMono
    <3>3. k \div SeqModulus # r \div SeqModulus
      <4>1. PICK x \in Int : x = r \div SeqModulus
        BY <3>2
      <4>2. PICK y \in Int : y = h \div SeqModulus
        BY <3>2
      <4>3. PICK z \in Int : z = k \div SeqModulus
        BY <3>2
      <4>4. x # y /\ x <= y /\ y <= z
        BY <3>1, <3>2, <4>1, <4>2, <4>3, Zenon
      <4>5. x # z
        BY <4>4
      <4> QED
        BY <4>1, <4>3, <4>5, Zenon
    <3> QED
      BY <1>5, <1>6, <3>3 DEF Within, Wrapped
  <2>2. CASE h - r < AckDiff
    <3>1. k - r + MaxLate < Reported
      BY <1>7, <1>10, <2>2 DEF DueInTime
    <3> QED
      BY <1>5, <1>6, <3>1 DEF Within
  <2>3. CASE p < PacketsDue
    <3>1. PICK g \in Nat : g = MaxGap + 1
      BY <1>7
    <3>2. p + 1 \in Nat /\ p + 1 <= PacketsDue
      BY <1>7, <2>3
    <3>3. (p + 1) * g \in Nat /\ (p + 1) * g <= PacketsDue * g
      BY <1>7, <3>2, Times
    <3>4. PICK x \in Nat : x = (p + 1) * g
      BY <3>3
    <3>5. PICK y \in Nat : y = PacketsDue * g
      BY <1>7, <3>1
    <3>6. y + MaxLate < Reported
      BY <3>1, <3>5 DEF DueInTime
    <3>7. k - r <= x
      BY <1>4, <1>5, <1>6, <1>11, <3>1, <3>4 DEF Progress
    <3>8. x <= y
      BY <3>3, <3>4, <3>5
    <3>9. k - r + MaxLate < Reported
      BY <1>7, <3>6, <3>7, <3>8
    <3> QED
      BY <1>5, <1>6, <3>9 DEF Within
  <2> QED
    BY <1>1, <1>2, <2>1, <2>2, <2>3 DEF NotDue
<1> QED
  BY <1>11, <1>12 DEF after, new

\* As long as the numbers do not wrap, their difference is that of the packets.
LEMMA AckSilent ==
  ASSUME NEW it \in StreamRec, NEW seen \in SeenRec, TrueTo(it, seen),
         it.highestTx <= seen.reportedTo % SeqModulus, ~AckDue(it), ~Wrapped(seen)
  PROVE  Newest(seen) - seen.reportedTo < AckDiff
<1>1. PICK h \in Nat, r \in Nat : h = Newest(seen) /\ r = seen.reportedTo
  BY SeenNumbers DEF TrueTo
<1>2. AckDiff \in Nat /\ SeqModulus \in Nat \ {0}
  BY RxNumbers
<1>3. h \div SeqModulus = r \div SeqModulus
  BY <1>1 DEF Wrapped
<1>4. PICK u \in Int : u = h % SeqModulus /\ u = it.highest
  BY <1>1, <1>2 DEF TrueTo
<1>5. PICK v \in Int : v = r % SeqModulus
  BY <1>2
<1>6. h - r = u - v
  <2>1. h \in Int /\ r \in Int
    OBVIOUS
  <2>2. h - r = (h % SeqModulus) - (r % SeqModulus)
    BY <1>2, <1>3, <2>1, SameDivApart
  <2> QED
    BY <1>4, <1>5, <2>2, Zenon
<1>7. PICK t \in Int : t = it.highestTx /\ t <= v
  <2>1. it.highestTx \in Int
    BY <1>2 DEF StreamRec, SeqNr
  <2>2. it.highestTx <= v
    BY <1>1, <1>5
  <2> QED
    BY <2>1, <2>2
<1>8. u - t < AckDiff
  <2>1. it.known = TRUE
    BY DEF StreamRec
  <2> QED
    BY <1>2, <1>4, <1>7, <2>1 DEF AckDue
<1>9. h - r < AckDiff
  BY <1>2, <1>6, <1>7, <1>8
<1> QED
  BY <1>1, <1>9

\* A stream that no report acknowledges is not due.
LEMMA SilentNotDue ==
  ASSUME NEW it \in StreamRec, NEW seen \in SeenRec, TrueTo(it, seen), Progress(it, seen),
         ~AckDue(it)
  PROVE  NotDue(it, seen)
<1>1. it.highestTx <= seen.reportedTo % SeqModulus
  BY DEF Progress
<1>2. ~Wrapped(seen) => Newest(seen) - seen.reportedTo < AckDiff
  BY <1>1, AckSilent
<1> QED
  BY <1>2 DEF NotDue

KnownIn(streams) == {s \in Streams : streams[s].known}

\* With room for all known streams, all that are due are reported.
LEMMA AllDueChosen ==
  ASSUME NEW STATE streams, NEW isMark, NEW STATE chosen,
         Cardinality(KnownIn(streams)) <= PerMessage,
         chosen \in LongestAgo(streams, isMark)
  PROVE  chosen = DueNow(streams, isMark)
<1> DEFINE due == DueNow(streams, isMark)
<1>1. chosen \in SUBSET due /\ Cardinality(chosen) = Min({PerMessage, Cardinality(due)})
  BY DEF LongestAgo
<1> DEFINE all == KnownIn(streams)
<1>2. due \in SUBSET all /\ all \in SUBSET Streams /\ Cardinality(all) <= PerMessage
  BY DEF DueNow, KnownIn
<1> HIDE DEF due, all
<1>2a. IsFiniteSet(all)
  BY <1>2, RxNumbers, FS_Subset
<1>3. IsFiniteSet(due) /\ Cardinality(due) <= Cardinality(all)
  BY <1>2, <1>2a, FS_Subset
<1>4. PICK c \in Nat : c = Cardinality(due)
  BY <1>3, FS_CardinalityType
<1>5. Cardinality(all) \in Nat /\ PerMessage \in Nat
  BY <1>2a, FS_CardinalityType, RxNumbers
<1>6. c <= PerMessage
  BY <1>2, <1>3, <1>4, <1>5
<1>7. Min({PerMessage, c}) = c
  <2>1. c \in {PerMessage, c} /\ \A y \in {PerMessage, c} : c <= y
    BY <1>5, <1>6
  <2>2. \A x \in {PerMessage, c} : (\A y \in {PerMessage, c} : x <= y) => x = c
    BY <1>5, <1>6
  <2>3. PICK m : m = Min({PerMessage, c})
    OBVIOUS
  <2>4. m \in {PerMessage, c} /\ \A y \in {PerMessage, c} : m <= y
    BY <2>1, <2>3 DEF Min
  <2> QED
    BY <2>2, <2>3, <2>4
<1>8. Cardinality(due) = Cardinality(chosen)
  BY <1>1, <1>4, <1>7, Zenon
<1>9. chosen = due
  BY <1>1, <1>3, <1>8, FS_Subset
<1> QED
  BY <1>9 DEF due

LEMMA RoomForKnown ==
  ASSUME RoomForAll, NEW STATE streams
  PROVE  Cardinality(KnownIn(streams)) <= PerMessage
<1>1. KnownIn(streams) \in SUBSET Streams /\ IsFiniteSet(Streams)
  BY RxNumbers DEF KnownIn
<1>2. /\ IsFiniteSet(KnownIn(streams))
      /\ Cardinality(KnownIn(streams)) <= Cardinality(Streams)
  BY <1>1, FS_Subset
<1>3. /\ Cardinality(KnownIn(streams)) \in Nat /\ Cardinality(Streams) \in Nat
      /\ PerMessage \in Nat
  BY <1>1, <1>2, FS_CardinalityType, RxNumbers
<1> QED
  BY <1>2, <1>3 DEF RoomForAll

\* A report starts the streams in it anew, and the others are not due.
LEMMA SendReached ==
  ASSUME RoomForAll, DueInTime, NEW STATE streams, NEW STATE seen, NEW isMark,
         Tracked(streams, seen), SendFeedback(streams, seen, isMark),
         \A s \in Streams : streams[s].known =>
           Progress(streams[s], seen[s]) /\ Within(seen[s])
  PROVE  Reached(stream', net')
<1>1. PICK chosen \in SUBSET Streams :
           /\ chosen \in LongestAgo(streams, isMark)
           /\ \A s \in chosen : streams[s].known
           /\ stream' = [s \in Streams |-> IF s \in chosen THEN MarkReported(streams[s])
                                           ELSE PassOver(streams[s], chosen)]
           /\ net' = [s \in Streams |-> IF s \in chosen THEN Cover(seen[s]) ELSE seen[s]]
  BY SendCases
<1>2. chosen = DueNow(streams, isMark)
  <2>1. chosen \in LongestAgo(streams, isMark)
    BY <1>1
  <2>2. Cardinality(KnownIn(streams)) <= PerMessage
    BY RoomForKnown
  <2> QED
    BY <2>1, <2>2, AllDueChosen
<1>3. \A s \in Streams : streams[s] \in StreamRec \union {NoStream} /\ seen[s] \in SeenRec
  BY DEF Tracked
<1>4. ASSUME NEW s \in chosen
      PROVE  Progress(stream'[s], net'[s]) /\ NotDue(stream'[s], net'[s])
  <2>1. s \in Streams /\ streams[s] \in StreamRec /\ seen[s] \in SeenRec
    BY <1>1, <1>3, KnownOrNot
  <2>2. stream'[s] = MarkReported(streams[s]) /\ net'[s] = Cover(seen[s])
    BY <1>1, <2>1
  <2>3. TrueTo(streams[s], seen[s]) /\ Progress(streams[s], seen[s]) /\ Within(seen[s])
    BY <1>1, <2>1 DEF Tracked
  <2>4. Arrived(seen[s]) # {}
    BY <2>3 DEF TrueTo
  <2>5. PICK h \in Nat : h = Newest(seen[s])
    BY <2>1, <2>4, SeenNumbers
  <2>6. stream'[s].highestTx = h % SeqModulus /\ stream'[s].pending = 0
    <3>1. stream'[s].highestTx = streams[s].highest /\ stream'[s].pending = 0
      BY <2>1, <2>2, MarkReportedProperties
    <3> QED
      BY <2>3, <2>5, <3>1 DEF TrueTo
  <2>7. /\ net'[s].reportedTo = h /\ net'[s].arrived = seen[s].arrived
        /\ net'[s].waiting = IF Wrapped(seen[s]) THEN {} ELSE OutOfReach(seen[s])
    BY <2>1, <2>2, <2>4, <2>5, CoverProperties
  <2>8. net'[s].waiting = {}
    BY <2>1, <2>3, <2>4, <2>7, WithinCovers
  <2>9. Newest(net'[s]) = h
    BY <2>5, <2>7 DEF Newest
  <2>10. h - h = 0 /\ h % SeqModulus \in Int /\ MaxGap + 1 \in Nat /\ AckDiff > 0
    BY RxNumbers
  <2>11. PICK g \in Nat, low \in Int : g = MaxGap + 1 /\ low = h % SeqModulus
    BY <2>10
  <2>12. h <= h /\ low <= low /\ h - h <= 0 * g /\ h - h < AckDiff
    BY <2>10
  <2> QED
    BY <2>6, <2>7, <2>8, <2>9, <2>11, <2>12 DEF Progress, NotDue
<1>5. ASSUME NEW s \in Streams, s \notin chosen, streams[s].known
      PROVE  Progress(stream'[s], net'[s]) /\ NotDue(stream'[s], net'[s])
  <2>1. streams[s] \in StreamRec /\ Progress(streams[s], seen[s])
    BY <1>3, <1>5, KnownOrNot
  <2>2. stream'[s] = PassOver(streams[s], chosen) /\ net'[s] = seen[s]
    BY <1>1, <1>5
  <2>3. /\ stream'[s].highestTx = streams[s].highestTx
        /\ stream'[s].pending = streams[s].pending
    <3> DEFINE after == PassOver(streams[s], chosen)
    <3>1. after.highestTx = streams[s].highestTx /\ after.pending = streams[s].pending
      BY <2>1, PassOverProperties
    <3> HIDE DEF after
    <3> QED
      BY <2>2, <3>1 DEF after
  <2>4. streams[s].pending < PacketsDue
    <3>1. ~(streams[s].pending >= PacketsDue)
      BY <1>2, <1>5 DEF DueNow
    <3>2. streams[s].pending \in Nat /\ PacketsDue \in Nat
      BY <2>1, RxNumbers DEF StreamRec
    <3> QED
      BY <3>1, <3>2
  <2> QED
    BY <2>1, <2>2, <2>3, <2>4 DEF Progress, NotDue
<1>6. ASSUME NEW s \in Streams, ~streams[s].known PROVE ~stream'[s].known
  <2>1. streams[s] = NoStream /\ s \notin chosen
    BY <1>1, <1>3, <1>6, KnownOrNot
  <2>2. stream'[s] = PassOver(NoStream, chosen)
    BY <1>1, <2>1
  <2>3. PassOver(NoStream, chosen) = NoStream /\ NoStream.known = FALSE
    BY DEF PassOver, NoStream
  <2> QED
    BY <2>2, <2>3
<1> QED
  BY <1>4, <1>5, <1>6 DEF Reached

LEMMA ReachedInit == Init => Reached(stream, net)
<1> SUFFICES ASSUME Init PROVE Reached(stream, net)
  OBVIOUS
<1>1. \A s \in Streams : stream[s].known = FALSE
  BY DEF Init, NoStream
<1> QED
  BY <1>1 DEF Reached

\* Between steps every known stream is within reach.
LEMMA ReachedWithin ==
  ASSUME DueInTime, RxInv, Reached(stream, net), NEW s \in Streams, stream[s].known
  PROVE  /\ stream[s] \in StreamRec /\ net[s] \in SeenRec /\ TrueTo(stream[s], net[s])
         /\ Arrived(net[s]) # {} /\ Progress(stream[s], net[s])
         /\ NotDue(stream[s], net[s]) /\ Within(net[s])
<1>1. stream[s] \in StreamRec /\ net[s] \in SeenRec /\ TrueTo(stream[s], net[s])
  BY KnownOrNot DEF RxInv, Tracked
<1>2. Arrived(net[s]) # {}
  BY <1>1 DEF TrueTo
<1>3. Progress(stream[s], net[s]) /\ NotDue(stream[s], net[s])
  BY DEF Reached
<1>4. Within(net[s])
  BY <1>1, <1>2, <1>3, NotDueWithin
<1> QED
  BY <1>1, <1>2, <1>3, <1>4

LEMMA ReceivedProgress ==
  ASSUME DueInTime, RxInv, Reached(stream, net), NEW s \in Streams,
         NEW n \in Deliverable(s), NEW t \in Streams, ReceivedStreams(s, n)[t].known
  PROVE  /\ Progress(ReceivedStreams(s, n)[t], ReceivedNet(s, n)[t])
         /\ Within(ReceivedNet(s, n)[t])
<1> DEFINE it == ReceivedStreams(s, n)[s]
           seen == ReceivedNet(s, n)[s]
<1>0. n \in Numbers /\ uptime \in 0 .. AgeCap
  BY DeliverableNumbers DEF RxInv
<1>1. /\ it = Take(IF s \in Known THEN stream[s] ELSE FreshAt(n % SeqModulus),
                   n % SeqModulus)
      /\ seen = Arrive(net[s], n, IF s \in Known THEN net[s].reportedTo ELSE n)
  BY ReceivedOne
<1> HIDE DEF it, seen
<1>2. ASSUME s \in Known PROVE Progress(it, seen) /\ Within(seen)
  <2>1. stream[s].known
    BY <1>2 DEF Known
  <2>2. /\ stream[s] \in StreamRec /\ net[s] \in SeenRec /\ TrueTo(stream[s], net[s])
        /\ Progress(stream[s], net[s]) /\ NotDue(stream[s], net[s])
    BY <2>1, ReachedWithin
  <2>3. Newest(net[s]) - MaxLate <= n /\ n <= Newest(net[s]) + MaxGap + 1
    BY <1>2, DeliverableNumbers
  <2> DEFINE after == Take(stream[s], n % SeqModulus)
             new == Arrive(net[s], n, net[s].reportedTo)
  <2>4. Progress(after, new) /\ Within(new)
    BY <1>0, <2>2, <2>3, TakeProgress
  <2>5. it = after /\ seen = new
    BY <1>1, <1>2
  <2> HIDE DEF after, new
  <2> QED
    BY <2>4, <2>5
<1>3. ASSUME s \notin Known PROVE Progress(it, seen) /\ Within(seen)
  <2>1. net[s] = NothingSeen
    BY <1>3 DEF RxInv, Tracked, Known
  <2>2. NothingSeen \in SeenRec /\ NothingSeen.waiting = {}
    BY Constants DEF NothingSeen, SeenRec, Numbers
  <2> DEFINE fresh == FreshAt(n % SeqModulus)
             after == Take(fresh, n % SeqModulus)
             new == Arrive(NothingSeen, n, n)
  <2>3. it = after /\ seen = new
    BY <1>1, <1>3, <2>1
  <2>4. n \in Nat /\ n % SeqModulus \in SeqNr
    <3>1. n \in Nat /\ n \in Int
      BY <1>0, Constants
    <3> QED
      BY <3>1, LowBits
  <2>5. fresh \in StreamRec /\ fresh.highestTx = 0 /\ fresh.pending = 0
    BY <1>0, <2>4, FreshTyped
  <2> HIDE DEF fresh
  <2>6. after.highestTx = 0 /\ after.pending = 1
    <3>1. after.highestTx = fresh.highestTx /\ after.pending = fresh.pending + 1
      BY <2>4, <2>5, TakeTyped
    <3> HIDE DEF after
    <3> QED
      BY <2>5, <3>1
  <2>7. new.reportedTo = n /\ new.waiting = {} \union {n}
    BY <1>0, <2>2, ArriveProperties
  <2>8. Newest(new) = n
    BY <1>0, FirstTrue
  <2> HIDE DEF after, new
  <2>9. /\ MaxGap \in Nat /\ MaxLate \in Nat /\ AckDiff >= 2 /\ AckDiff \in Nat
        /\ Reported \in Nat
    BY RxNumbers
  <2>10. 0 <= n % SeqModulus
    BY <2>4, RxNumbers DEF SeqNr
  <2>11. n <= n /\ n - n <= 1 * (MaxGap + 1) /\ n - MaxLate <= n
    BY <2>4, <2>9
  <2>12. Progress(after, new)
    BY <2>6, <2>7, <2>8, <2>10, <2>11 DEF Progress
  <2>13. n - n + MaxLate < Reported
    BY <2>4, <2>9 DEF DueInTime
  <2>14. Within(new)
    BY <2>7, <2>8, <2>13 DEF Within
  <2> QED
    BY <2>3, <2>12, <2>14
<1>4. CASE t = s
  BY <1>2, <1>3, <1>4 DEF it, seen
<1>5. CASE t # s
  <2>1. ReceivedStreams(s, n)[t] = stream[t] /\ ReceivedNet(s, n)[t] = net[t]
    BY <1>5 DEF ReceivedStreams, ReceivedNet, RxInv, Tracked
  <2>2. stream[t].known
    BY <2>1
  <2>3. Progress(stream[t], net[t]) /\ Within(net[t])
    BY <2>2, ReachedWithin
  <2> QED
    BY <2>1, <2>3
<1> QED
  BY <1>4, <1>5

LEMMA ReachedNext ==
  ASSUME RoomForAll, DueInTime, RxInv, Reached(stream, net), [Next]_vars
  PROVE  Reached(stream', net')
<1>1. ASSUME NEW s \in Streams, NEW n \in Deliverable(s), NEW marker \in BOOLEAN,
             ScreamReceiver(s, n, marker)
      PROVE Reached(stream', net')
  <2>1. Tracked(ReceivedStreams(s, n), ReceivedNet(s, n))
    BY ReceivedTracked
  <2>2. \A t \in Streams : ReceivedStreams(s, n)[t].known =>
          /\ Progress(ReceivedStreams(s, n)[t], ReceivedNet(s, n)[t])
          /\ Within(ReceivedNet(s, n)[t])
    BY ReceivedProgress
  <2>3. CASE SendFeedback(ReceivedStreams(s, n), ReceivedNet(s, n), marker)
    BY <2>1, <2>2, <2>3, SendReached
  <2>4. CASE /\ stream' = ReceivedStreams(s, n) /\ net' = ReceivedNet(s, n)
             /\ \A t \in Streams : ~AckDue(ReceivedStreams(s, n)[t])
    <3>1. ASSUME NEW t \in Streams, stream'[t].known
          PROVE  Progress(stream'[t], net'[t]) /\ NotDue(stream'[t], net'[t])
      <4>1. Tracked(stream', net')
        BY <2>1, <2>4
      <4>2. /\ stream'[t] \in StreamRec /\ net'[t] \in SeenRec
            /\ TrueTo(stream'[t], net'[t])
        BY <3>1, <4>1, KnownOrNot DEF Tracked
      <4>3. Progress(stream'[t], net'[t])
        BY <2>2, <2>4, <3>1
      <4>4. ~AckDue(stream'[t])
        BY <2>4
      <4> DEFINE it == stream'[t]
                 seen == net'[t]
      <4> HIDE DEF it, seen
      <4>5. NotDue(it, seen)
        BY <4>2, <4>3, <4>4, SilentNotDue DEF it, seen
      <4> QED
        BY <4>3, <4>5 DEF it, seen
    <3> QED
      BY <3>1 DEF Reached
  <2> QED
    BY <1>1, <2>3, <2>4, ReceiverCases
<1>2. ASSUME NEW s \in Streams, NEW n, FirstPacketPanics(s, n)
      PROVE Reached(stream', net')
  BY <1>2 DEF FirstPacketPanics
<1>3. ASSUME PeriodicFlush PROVE Reached(stream', net')
  <2>1. SendFeedback(stream, net, TRUE) /\ Tracked(stream, net)
    BY <1>3 DEF PeriodicFlush, RxInv
  <2>2. \A s \in Streams : stream[s].known => Progress(stream[s], net[s]) /\ Within(net[s])
    BY ReachedWithin
  <2> QED
    BY <2>1, <2>2, SendReached
<1>4. ASSUME Tick PROVE Reached(stream', net')
  <2>1. /\ stream' = [s \in Streams |-> IF s \in Known THEN OlderStream(stream[s])
                                        ELSE NoStream]
        /\ net' = [s \in Streams |-> OlderSeen(net[s])]
    BY <1>4 DEF Tick, OlderSeen
  <2>2. ASSUME NEW s \in Streams, stream'[s].known
        PROVE  Progress(stream'[s], net'[s]) /\ NotDue(stream'[s], net'[s])
    <3>1. s \in Known /\ stream[s].known
      BY <2>1, <2>2 DEF Known, NoStream
    <3>2. stream'[s] = OlderStream(stream[s]) /\ net'[s] = OlderSeen(net[s])
      BY <2>1, <3>1
    <3>3. /\ stream[s] \in StreamRec /\ net[s] \in SeenRec
          /\ Progress(stream[s], net[s]) /\ NotDue(stream[s], net[s])
      BY <3>1, ReachedWithin
    <3>4. /\ OlderStream(stream[s]).highestTx = stream[s].highestTx
          /\ OlderStream(stream[s]).pending = stream[s].pending
      BY <3>3, OlderStreamProperties
    <3>5. /\ Newest(OlderSeen(net[s])) = Newest(net[s])
          /\ OlderSeen(net[s]).waiting = net[s].waiting
          /\ OlderSeen(net[s]).reportedTo = net[s].reportedTo
      BY <3>3, OlderSeenProperties
    <3> QED
      BY <3>2, <3>3, <3>4, <3>5 DEF Progress, NotDue, Wrapped
  <2> QED
    BY <2>2 DEF Reached
<1>5. ASSUME UNCHANGED vars PROVE Reached(stream', net')
  BY <1>5 DEF vars
<1> QED
  BY <1>1, <1>2, <1>3, <1>4, <1>5 DEF Next

LEMMA ReachedCovers ==
  ASSUME DueInTime, RxInv, Reached(stream, net)
  PROVE  HolesAreCovered
<1> SUFFICES ASSUME NEW s \in Known PROVE Wrapped(net[s]) \/ OutOfReach(net[s]) = {}
  BY DEF HolesAreCovered
<1>1. s \in Streams /\ stream[s].known
  BY DEF Known
<1>2. /\ net[s] \in SeenRec /\ Arrived(net[s]) # {} /\ Progress(stream[s], net[s])
      /\ Within(net[s])
  BY <1>1, ReachedWithin
<1> QED
  BY <1>2, WithinCovers

\* HolesAreCovered: streams that do not compete for room in the message lose
\* no packet to a report that comes too late: one is sent when ackDiff packets
\* have been passed or PacketsDue have come, and covers all since the last
\* (Stream::checkIfFlushAck, NadaRx::createStandardizedFeedback).
THEOREM HolesTheorem ==
  ASSUME RoomForAll, DueInTime
  PROVE  RxSpec => []HolesAreCovered
<1> DEFINE HolesInv == RxInv /\ Reached(stream, net)
<1>1. Init => HolesInv
  BY RxInvInit, ReachedInit
<1>2. HolesInv /\ [Next]_vars => HolesInv'
  <2> SUFFICES ASSUME HolesInv, [Next]_vars PROVE HolesInv'
    OBVIOUS
  <2>1. RxInv'
    BY RxInvNext
  <2>2. Reached(stream', net')
    BY ReachedNext
  <2>3. Reached(stream, net)'
    BY <2>2 DEF Reached, Progress, NotDue, Wrapped, Newest
  <2> QED
    BY <2>1, <2>3
<1>3. HolesInv => HolesAreCovered
  BY ReachedCovers
<1> QED
  BY <1>1, <1>2, <1>3, PTL DEF RxSpec

-----------------------------------------------------------------------------
(* Packets that fall out of reach *)

\* A report that ackDiff asks for covers the widest hole and the latest packet.
HolesInReach == AckDiff + MaxGap + MaxLate < Reported

\* What waits came after the last report or was late, or is lost already.
Kept(it, seen) ==
  /\ seen.reportedTo <= Newest(seen)
  /\ it.highestTx <= seen.reportedTo % SeqModulus
  /\ \A m \in seen.waiting : seen.reportedTo - MaxLate <= m \/ m \in OutOfReach(seen)

\* Between steps a stream the check for holes asks a report for has too few
\* packets for one, or streams compete for room in the message.
Served(streams, s) ==
  \/ ~AckDue(streams[s]) \/ streams[s].pending < PacketsDue
  \/ Cardinality(KnownIn(streams)) > PerMessage
KeptAll(streams, seen) ==
  \A s \in Streams : streams[s].known => Kept(streams[s], seen[s])
ServedAll(streams) == \A s \in Streams : streams[s].known => Served(streams, s)

\* A report loses nothing that was within its reach.
LEMMA CoverReach ==
  ASSUME NEW seen \in SeenRec, Arrived(seen) # {}
  PROVE  /\ OutOfReach(Cover(seen)) \subseteq OutOfReach(seen)
         /\ \A m \in Cover(seen).waiting : m \in OutOfReach(Cover(seen))
<1> DEFINE new == Cover(seen)
<1>1. /\ new.arrived = seen.arrived
      /\ new.waiting = IF Wrapped(seen) THEN {} ELSE OutOfReach(seen)
  BY CoverProperties
<1> HIDE DEF new
<1>2. Newest(new) = Newest(seen)
  BY <1>1 DEF Newest
<1>3. new.waiting \subseteq OutOfReach(seen)
  BY <1>1
<1>4. \A m \in new.waiting : m < Newest(new) - (Reported - 1)
  BY <1>2, <1>3 DEF OutOfReach
<1> QED
  BY <1>2, <1>3, <1>4 DEF OutOfReach, new

\* Nothing falls out of reach by the arrival of a packet before the check for
\* holes has asked for a report, as long as the numbers do not wrap.
LEMMA ArriveReach ==
  ASSUME HolesInReach, NEW it \in StreamRec, NEW seen \in SeenRec, NEW n \in Numbers,
         TrueTo(it, seen), Newest(seen) - MaxLate <= n, n <= Newest(seen) + MaxGap + 1,
         Kept(it, seen), ~AckDue(it), ~Wrapped(seen)
  PROVE  OutOfReach(Arrive(seen, n, seen.reportedTo)) \subseteq OutOfReach(seen)
<1> DEFINE new == Arrive(seen, n, seen.reportedTo)
<1>0. Arrived(seen) # {} /\ seen.reportedTo \in Numbers
  BY DEF TrueTo, SeenRec
<1>1. PICK h \in Nat, r \in Nat : h = Newest(seen) /\ r = seen.reportedTo
  BY <1>0, SeenNumbers
<1>2. /\ AckDiff \in Nat /\ MaxGap \in Nat /\ MaxLate \in Nat /\ Reported \in Nat /\ n \in Nat
  BY RxNumbers, Constants
<1>3. h - r < AckDiff
  <2>1. it.highestTx <= seen.reportedTo % SeqModulus
    BY DEF Kept
  <2> QED
    BY <1>1, <2>1, AckSilent
<1>4. new.waiting = seen.waiting \union {n}
  BY <1>0, ArriveProperties
<1>5. PICK k \in Nat : k = Newest(new) /\ k = IF n >= h THEN n ELSE h
  BY <1>0, <1>1, <1>2, TakeTrue
<1>6. h - MaxLate <= n /\ n <= h + MaxGap + 1
  BY <1>1
<1> HIDE DEF new
<1>7. ASSUME NEW m \in OutOfReach(new) PROVE m \in OutOfReach(seen)
  <2>1. m \in new.waiting /\ m < k - (Reported - 1)
    BY <1>5, <1>7 DEF OutOfReach
  <2>2. m # n
    BY <1>2, <1>5, <1>6, <2>1 DEF HolesInReach
  <2>3. m \in seen.waiting /\ m \in Nat
    BY <1>0, <1>4, <2>1, <2>2, SeenNumbers
  <2>4. ~(r - MaxLate <= m)
    BY <1>2, <1>3, <1>5, <1>6, <2>1, <2>3 DEF HolesInReach
  <2> QED
    BY <1>1, <2>3, <2>4 DEF Kept
<1> QED
  BY <1>7 DEF new

LEMMA TakeKept ==
  ASSUME NEW it \in StreamRec, NEW seen \in SeenRec, NEW n \in Numbers,
         TrueTo(it, seen), Newest(seen) - MaxLate <= n, n <= Newest(seen) + MaxGap + 1,
         Kept(it, seen)
  PROVE  Kept(Take(it, n % SeqModulus), Arrive(seen, n, seen.reportedTo))
<1> DEFINE after == Take(it, n % SeqModulus)
           new == Arrive(seen, n, seen.reportedTo)
<1>0. Arrived(seen) # {} /\ seen.reportedTo \in Numbers
  BY DEF TrueTo, SeenRec
<1>1. PICK h \in Nat, r \in Nat : h = Newest(seen) /\ r = seen.reportedTo
  BY <1>0, SeenNumbers
<1>2. /\ MaxLate \in Nat /\ Reported \in Nat /\ n \in Nat /\ n \in Int
  BY RxNumbers, Constants
<1>3. after.highestTx = it.highestTx
  BY <1>2, LowBits, TakeTyped
<1>4. new.reportedTo = r /\ new.waiting = seen.waiting \union {n}
  BY <1>0, <1>1, ArriveProperties
<1>5. PICK k \in Nat : k = Newest(new) /\ k = IF n >= h THEN n ELSE h
  BY <1>0, <1>1, <1>2, TakeTrue
<1>6. r <= h /\ h <= k /\ it.highestTx <= r % SeqModulus
  BY <1>1, <1>2, <1>5 DEF Kept
<1> HIDE DEF after, new
<1>7. ASSUME NEW m \in new.waiting PROVE r - MaxLate <= m \/ m \in OutOfReach(new)
  <2>1. CASE m = n
    BY <1>1, <1>2, <1>6, <2>1
  <2>2. CASE m # n
    <3>1. m \in seen.waiting /\ m \in Nat
      BY <1>0, <1>4, <1>7, <2>2, SeenNumbers
    <3>2. CASE m \in OutOfReach(seen)
      <4>1. m < h - (Reported - 1)
        BY <1>1, <3>2 DEF OutOfReach
      <4>2. m < k - (Reported - 1)
        BY <1>2, <1>6, <3>1, <4>1
      <4> QED
        BY <1>5, <1>7, <4>2 DEF OutOfReach
    <3> QED
      BY <1>1, <3>1, <3>2 DEF Kept
  <2> QED
    BY <2>1, <2>2
<1> QED
  BY <1>3, <1>4, <1>5, <1>6, <1>7 DEF Kept, after, new

\* What a step changes of a stream that it neither reports nor gives a packet.
LEMMA KeptSame ==
  ASSUME NEW it, NEW seen, NEW after, NEW new, after.highestTx = it.highestTx,
         Newest(new) = Newest(seen), new.waiting = seen.waiting,
         new.reportedTo = seen.reportedTo, Kept(it, seen)
  PROVE  Kept(after, new) /\ OutOfReach(new) = OutOfReach(seen)
BY DEF Kept, OutOfReach

\* The packets that come keep what Kept says; with room in the message, a
\* report serves all that are due.
LEMMA SendKept ==
  ASSUME NEW STATE streams, NEW STATE seen, NEW isMark, Tracked(streams, seen),
         SendFeedback(streams, seen, isMark), KeptAll(streams, seen)
  PROVE  /\ KeptAll(stream', net') /\ ServedAll(stream')
         /\ \A s \in Streams : streams[s].known =>
              OutOfReach(net'[s]) \subseteq OutOfReach(seen[s])
<1>1. PICK chosen \in SUBSET Streams :
           /\ chosen \in LongestAgo(streams, isMark)
           /\ \A s \in chosen : streams[s].known
           /\ stream' = [s \in Streams |-> IF s \in chosen THEN MarkReported(streams[s])
                                           ELSE PassOver(streams[s], chosen)]
           /\ net' = [s \in Streams |-> IF s \in chosen THEN Cover(seen[s]) ELSE seen[s]]
  BY SendCases
<1>2. \A s \in Streams : streams[s] \in StreamRec \union {NoStream} /\ seen[s] \in SeenRec
  BY DEF Tracked
<1>3. ASSUME NEW s \in Streams, ~streams[s].known PROVE ~stream'[s].known
  <2>1. streams[s] = NoStream /\ s \notin chosen
    BY <1>1, <1>2, <1>3, KnownOrNot
  <2>2. stream'[s] = PassOver(NoStream, chosen)
    BY <1>1, <2>1
  <2>3. PassOver(NoStream, chosen) = NoStream /\ NoStream.known = FALSE
    BY DEF PassOver, NoStream
  <2> QED
    BY <2>2, <2>3
<1>4. ASSUME NEW s \in chosen
      PROVE  /\ stream'[s].known /\ Kept(stream'[s], net'[s]) /\ ~AckDue(stream'[s])
             /\ OutOfReach(net'[s]) \subseteq OutOfReach(seen[s])
  <2>1. /\ s \in Streams /\ streams[s] \in StreamRec /\ seen[s] \in SeenRec
        /\ TrueTo(streams[s], seen[s])
    BY <1>1, <1>2, KnownOrNot DEF Tracked
  <2>2. stream'[s] = MarkReported(streams[s]) /\ net'[s] = Cover(seen[s])
    BY <1>1, <2>1
  <2>3. Arrived(seen[s]) # {}
    BY <2>1 DEF TrueTo
  <2>4. PICK h \in Nat : h = Newest(seen[s])
    BY <2>1, <2>3, SeenNumbers
  <2>5. /\ stream'[s].known = TRUE /\ stream'[s].highest = streams[s].highest
        /\ stream'[s].highestTx = streams[s].highest
    BY <2>1, <2>2, MarkReportedProperties
  <2>6. streams[s].highest = h % SeqModulus /\ h % SeqModulus \in Int
    BY <2>1, <2>4, RxNumbers DEF TrueTo
  <2>7. net'[s].reportedTo = h /\ net'[s].arrived = seen[s].arrived
    BY <2>1, <2>2, <2>3, <2>4, CoverProperties
  <2>8. Newest(net'[s]) = h
    BY <2>4, <2>7 DEF Newest
  <2>9. /\ OutOfReach(net'[s]) \subseteq OutOfReach(seen[s])
        /\ \A m \in net'[s].waiting : m \in OutOfReach(net'[s])
    BY <2>1, <2>2, <2>3, CoverReach
  <2>10. PICK low \in Int : low = h % SeqModulus /\ stream'[s].highestTx = low
                            /\ stream'[s].highest = low
    BY <2>5, <2>6
  <2>11. ~AckDue(stream'[s])
    <3>1. low - low < AckDiff /\ ~(low - low >= AckDiff)
      BY RxNumbers
    <3> QED
      BY <2>10, <3>1 DEF AckDue
  <2>12. h <= h /\ low <= low
    OBVIOUS
  <2> QED
    BY <2>5, <2>7, <2>8, <2>9, <2>10, <2>11, <2>12 DEF Kept
<1>5. ASSUME NEW s \in Streams, s \notin chosen, streams[s].known
      PROVE  /\ stream'[s].known /\ Kept(stream'[s], net'[s])
             /\ stream'[s].pending = streams[s].pending /\ net'[s] = seen[s]
  <2>1. streams[s] \in StreamRec /\ Kept(streams[s], seen[s])
    BY <1>2, <1>5, KnownOrNot DEF KeptAll
  <2>2. stream'[s] = PassOver(streams[s], chosen) /\ net'[s] = seen[s]
    BY <1>1, <1>5
  <2> DEFINE after == PassOver(streams[s], chosen)
  <2>3. /\ after.known = TRUE /\ after.highestTx = streams[s].highestTx
        /\ after.pending = streams[s].pending
    BY <2>1, PassOverProperties
  <2> HIDE DEF after
  <2>4. Kept(after, seen[s])
    BY <2>1, <2>3 DEF Kept
  <2> QED
    BY <2>2, <2>3, <2>4 DEF after
<1>6. KnownIn(stream') = KnownIn(streams)
  BY <1>3, <1>4, <1>5 DEF KnownIn
<1>7. ASSUME NEW s \in Streams, stream'[s].known PROVE Served(stream', s)
  <2>1. streams[s].known /\ streams[s] \in StreamRec
    BY <1>2, <1>3, <1>7, KnownOrNot
  <2>2. CASE s \in chosen
    BY <1>4, <2>2 DEF Served
  <2>3. CASE s \notin chosen
    <3>1. Cardinality(KnownIn(streams)) \in Nat /\ PerMessage \in Nat
      <4>1. KnownIn(streams) \in SUBSET Streams /\ IsFiniteSet(Streams)
        BY RxNumbers DEF KnownIn
      <4> QED
        BY <4>1, FS_Subset, FS_CardinalityType, RxNumbers
    <3>2. CASE Cardinality(KnownIn(streams)) <= PerMessage
      <4>1. chosen \in LongestAgo(streams, isMark)
        BY <1>1
      <4>2. chosen = DueNow(streams, isMark)
        BY <3>2, <4>1, AllDueChosen
      <4>3. ~(streams[s].pending >= PacketsDue)
        BY <2>1, <2>3, <4>2 DEF DueNow
      <4>4. streams[s].pending \in Nat /\ PacketsDue \in Nat
        BY <2>1, RxNumbers DEF StreamRec
      <4>5. streams[s].pending < PacketsDue
        BY <4>3, <4>4
      <4> QED
        BY <1>5, <2>1, <2>3, <4>5 DEF Served
    <3>3. CASE Cardinality(KnownIn(streams)) > PerMessage
      BY <1>6, <3>3 DEF Served
    <3> QED
      BY <3>1, <3>2, <3>3
  <2> QED
    BY <2>2, <2>3
<1>8. KeptAll(stream', net')
  BY <1>3, <1>4, <1>5 DEF KeptAll
<1>9. \A s \in Streams : streams[s].known =>
        OutOfReach(net'[s]) \subseteq OutOfReach(seen[s])
  BY <1>4, <1>5
<1> QED
  BY <1>7, <1>8, <1>9 DEF ServedAll

LEMMA ReceivedKept ==
  ASSUME RxInv, KeptAll(stream, net), NEW s \in Streams, NEW n \in Deliverable(s)
  PROVE  KeptAll(ReceivedStreams(s, n), ReceivedNet(s, n))
<1> DEFINE it == ReceivedStreams(s, n)[s]
           seen == ReceivedNet(s, n)[s]
<1>0. n \in Numbers /\ uptime \in 0 .. AgeCap
  BY DeliverableNumbers DEF RxInv
<1>1. /\ it = Take(IF s \in Known THEN stream[s] ELSE FreshAt(n % SeqModulus),
                   n % SeqModulus)
      /\ seen = Arrive(net[s], n, IF s \in Known THEN net[s].reportedTo ELSE n)
  BY ReceivedOne
<1> HIDE DEF it, seen
<1>2. ASSUME s \in Known PROVE Kept(it, seen)
  <2>1. stream[s].known
    BY <1>2 DEF Known
  <2>2. /\ stream[s] \in StreamRec /\ net[s] \in SeenRec /\ TrueTo(stream[s], net[s])
        /\ Kept(stream[s], net[s])
    BY <2>1, KnownOrNot DEF RxInv, Tracked, KeptAll
  <2>3. Newest(net[s]) - MaxLate <= n /\ n <= Newest(net[s]) + MaxGap + 1
    BY <1>2, DeliverableNumbers
  <2> DEFINE after == Take(stream[s], n % SeqModulus)
             new == Arrive(net[s], n, net[s].reportedTo)
  <2>4. Kept(after, new)
    BY <1>0, <2>2, <2>3, TakeKept
  <2>5. it = after /\ seen = new
    BY <1>1, <1>2
  <2> HIDE DEF after, new
  <2> QED
    BY <2>4, <2>5
<1>3. ASSUME s \notin Known PROVE Kept(it, seen)
  <2>1. net[s] = NothingSeen
    BY <1>3 DEF RxInv, Tracked, Known
  <2>2. NothingSeen \in SeenRec /\ NothingSeen.waiting = {}
    BY Constants DEF NothingSeen, SeenRec, Numbers
  <2> DEFINE fresh == FreshAt(n % SeqModulus)
             after == Take(fresh, n % SeqModulus)
             new == Arrive(NothingSeen, n, n)
  <2>3. it = after /\ seen = new
    BY <1>1, <1>3, <2>1
  <2>4. n \in Nat /\ n % SeqModulus \in SeqNr
    <3>1. n \in Nat /\ n \in Int
      BY <1>0, Constants
    <3> QED
      BY <3>1, LowBits
  <2>5. fresh \in StreamRec /\ fresh.highestTx = 0
    BY <1>0, <2>4, FreshTyped
  <2> HIDE DEF fresh
  <2>6. after.highestTx = 0
    <3>1. after.highestTx = fresh.highestTx
      BY <2>4, <2>5, TakeTyped
    <3> HIDE DEF after
    <3> QED
      BY <2>5, <3>1
  <2>7. new.reportedTo = n /\ new.waiting = {} \union {n}
    BY <1>0, <2>2, ArriveProperties
  <2>8. Newest(new) = n
    BY <1>0, FirstTrue
  <2> HIDE DEF after, new
  <2>9. n <= n /\ n - MaxLate <= n
    BY <2>4, RxNumbers
  <2>10. 0 <= n % SeqModulus
    BY <2>4, RxNumbers DEF SeqNr
  <2>11. Kept(after, new)
    BY <2>6, <2>7, <2>8, <2>9, <2>10 DEF Kept
  <2> QED
    BY <2>3, <2>11
<1>4. ASSUME NEW t \in Streams, ReceivedStreams(s, n)[t].known
      PROVE  Kept(ReceivedStreams(s, n)[t], ReceivedNet(s, n)[t])
  <2>1. CASE t = s
    BY <1>2, <1>3, <2>1 DEF it, seen
  <2>2. CASE t # s
    <3>1. ReceivedStreams(s, n)[t] = stream[t] /\ ReceivedNet(s, n)[t] = net[t]
      BY <2>2 DEF ReceivedStreams, ReceivedNet, RxInv, Tracked
    <3> QED
      BY <1>4, <3>1 DEF KeptAll
  <2> QED
    BY <2>1, <2>2
<1> QED
  BY <1>4 DEF KeptAll

\* What the arrival of a packet may push out of reach.
LEMMA ReceivedReach ==
  ASSUME HolesInReach, RxInv, KeptAll(stream, net), ServedAll(stream),
         NEW s \in Streams, NEW n \in Deliverable(s), NEW t \in Known
  PROVE  /\ ReceivedStreams(s, n)[t].known
         /\ \/ OutOfReach(ReceivedNet(s, n)[t]) \subseteq OutOfReach(net[t])
            \/ HeldBack(t) \/ Wrapped(net[t])
<1>1. t \in Streams /\ stream[t].known
  BY DEF Known
<1>2. /\ stream[t] \in StreamRec /\ net[t] \in SeenRec /\ TrueTo(stream[t], net[t])
      /\ Kept(stream[t], net[t]) /\ Served(stream, t)
  BY <1>1, KnownOrNot DEF RxInv, Tracked, KeptAll, ServedAll
<1>3. CASE t # s
  <2>1. ReceivedStreams(s, n)[t] = stream[t] /\ ReceivedNet(s, n)[t] = net[t]
    BY <1>1, <1>3 DEF ReceivedStreams, ReceivedNet, RxInv, Tracked
  <2> QED
    BY <1>1, <2>1
<1>4. CASE t = s
  <2>1. ReceivedStreams(s, n)[t].known = TRUE
    BY <1>4, ReceivedOne
  <2>2. ReceivedNet(s, n)[t] = Arrive(net[t], n, net[t].reportedTo)
    BY <1>4, ReceivedOne
  <2>3. CASE AckDue(stream[t])
    <3>1. Known = KnownIn(stream)
      BY DEF Known, KnownIn
    <3>2. HeldBack(t)
      BY <1>2, <2>3, <3>1 DEF Served, HeldBack
    <3> QED
      BY <2>1, <3>2
  <2>4. CASE ~AckDue(stream[t]) /\ ~Wrapped(net[t])
    <3>1. /\ n \in Numbers /\ Newest(net[t]) - MaxLate <= n
          /\ n <= Newest(net[t]) + MaxGap + 1
      BY <1>4, DeliverableNumbers
    <3>2. OutOfReach(Arrive(net[t], n, net[t].reportedTo)) \subseteq OutOfReach(net[t])
      BY <1>2, <2>4, <3>1, ArriveReach
    <3> QED
      BY <2>1, <2>2, <3>2
  <2> QED
    BY <2>1, <2>3, <2>4
<1> QED
  BY <1>3, <1>4

ReachInv == RxInv /\ KeptAll(stream, net) /\ ServedAll(stream)
ReachKept ==
  \A s \in Known :
    OutOfReach(net'[s]) \subseteq OutOfReach(net[s]) \/ HeldBack(s) \/ Wrapped(net[s])

LEMMA ReachNext ==
  ASSUME HolesInReach, ReachInv, [Next]_vars
  PROVE  KeptAll(stream', net') /\ ServedAll(stream') /\ ReachKept
<1> DEFINE Goal == KeptAll(stream', net') /\ ServedAll(stream') /\ ReachKept
<1>0. RxInv /\ KeptAll(stream, net) /\ ServedAll(stream)
  BY DEF ReachInv
<1>1. ASSUME NEW s \in Streams, NEW n \in Deliverable(s), NEW marker \in BOOLEAN,
             ScreamReceiver(s, n, marker)
      PROVE  Goal
  <2>1. /\ Tracked(ReceivedStreams(s, n), ReceivedNet(s, n))
        /\ KeptAll(ReceivedStreams(s, n), ReceivedNet(s, n))
    BY <1>0, ReceivedTracked, ReceivedKept
  <2>2. \A t \in Known :
          /\ ReceivedStreams(s, n)[t].known
          /\ \/ OutOfReach(ReceivedNet(s, n)[t]) \subseteq OutOfReach(net[t])
             \/ HeldBack(t) \/ Wrapped(net[t])
    BY <1>0, ReceivedReach
  <2>3. CASE SendFeedback(ReceivedStreams(s, n), ReceivedNet(s, n), marker)
    <3>1. /\ KeptAll(stream', net') /\ ServedAll(stream')
          /\ \A t \in Streams : ReceivedStreams(s, n)[t].known =>
               OutOfReach(net'[t]) \subseteq OutOfReach(ReceivedNet(s, n)[t])
      BY <2>1, <2>3, SendKept
    <3>2. ReachKept
      BY <2>2, <3>1 DEF ReachKept, Known
    <3> QED
      BY <3>1, <3>2
  <2>4. CASE /\ stream' = ReceivedStreams(s, n) /\ net' = ReceivedNet(s, n)
             /\ \A t \in Streams : ~AckDue(ReceivedStreams(s, n)[t])
    <3>1. ServedAll(stream')
      BY <2>4 DEF ServedAll, Served
    <3>2. ReachKept
      BY <2>2, <2>4 DEF ReachKept
    <3> QED
      BY <2>1, <2>4, <3>1, <3>2
  <2> QED
    BY <1>1, <2>3, <2>4, ReceiverCases
<1>2. ASSUME UNCHANGED <<stream, net>> PROVE Goal
  BY <1>0, <1>2 DEF ReachKept
<1>3. ASSUME PeriodicFlush PROVE Goal
  <2>1. SendFeedback(stream, net, TRUE) /\ Tracked(stream, net)
    BY <1>0, <1>3 DEF PeriodicFlush, RxInv
  <2>2. /\ KeptAll(stream', net') /\ ServedAll(stream')
        /\ \A t \in Streams : stream[t].known =>
             OutOfReach(net'[t]) \subseteq OutOfReach(net[t])
    BY <1>0, <2>1, SendKept
  <2> QED
    BY <2>2 DEF ReachKept, Known
<1>4. ASSUME Tick PROVE Goal
  <2>1. /\ stream' = [s \in Streams |-> IF s \in Known THEN OlderStream(stream[s])
                                        ELSE NoStream]
        /\ net' = [s \in Streams |-> OlderSeen(net[s])]
    BY <1>4 DEF Tick, OlderSeen
  <2>2. ASSUME NEW s \in Streams, s \notin Known PROVE ~stream'[s].known
    BY <2>1, <2>2 DEF NoStream
  <2>3. ASSUME NEW s \in Known
        PROVE  /\ stream'[s].known = TRUE /\ stream'[s].pending = stream[s].pending
               /\ AckDue(stream'[s]) => AckDue(stream[s])
               /\ Kept(stream'[s], net'[s]) /\ OutOfReach(net'[s]) = OutOfReach(net[s])
    <3>1. s \in Streams /\ stream[s].known
      BY DEF Known
    <3>2. stream'[s] = OlderStream(stream[s]) /\ net'[s] = OlderSeen(net[s])
      BY <2>1, <3>1
    <3>3. stream[s] \in StreamRec /\ net[s] \in SeenRec /\ Kept(stream[s], net[s])
      BY <1>0, <3>1, KnownOrNot DEF RxInv, Tracked, KeptAll
    <3>4. /\ stream'[s].highestTx = stream[s].highestTx
          /\ stream'[s].highest = stream[s].highest
          /\ stream'[s].pending = stream[s].pending /\ stream'[s].known = TRUE
      BY <3>2, <3>3, OlderStreamProperties
    <3>5. /\ Newest(net'[s]) = Newest(net[s]) /\ net'[s].waiting = net[s].waiting
          /\ net'[s].reportedTo = net[s].reportedTo
      BY <3>2, <3>3, OlderSeenProperties
    <3>6. Kept(stream'[s], net'[s]) /\ OutOfReach(net'[s]) = OutOfReach(net[s])
      BY <3>3, <3>4, <3>5, KeptSame
    <3> QED
      BY <3>1, <3>4, <3>6 DEF AckDue
  <2>4. KnownIn(stream') = KnownIn(stream)
    BY <2>2, <2>3 DEF KnownIn, Known
  <2>5. \A s \in Known : Served(stream', s)
    BY <1>0, <2>3, <2>4 DEF ServedAll, Served, Known
  <2>6. KeptAll(stream', net') /\ ServedAll(stream')
    BY <2>2, <2>3, <2>5 DEF KeptAll, ServedAll
  <2>7. ReachKept
    BY <2>3 DEF ReachKept
  <2> QED
    BY <2>6, <2>7
<1>5. ASSUME NEW s \in Streams, NEW n, FirstPacketPanics(s, n) PROVE Goal
  <2>1. UNCHANGED <<stream, net>>
    BY <1>5 DEF FirstPacketPanics
  <2> HIDE DEF Goal
  <2> QED
    BY <1>2, <2>1
<1>6. ASSUME UNCHANGED vars PROVE Goal
  <2>1. UNCHANGED <<stream, net>>
    BY <1>6 DEF vars
  <2> HIDE DEF Goal
  <2> QED
    BY <1>2, <2>1
<1> HIDE DEF Goal
<1>7. Goal
  BY <1>1, <1>3, <1>4, <1>5, <1>6 DEF Next
<1> QED
  BY <1>7 DEF Goal

\* HoleLossIsExplained: where a report that ackDiff asks for in time would
\* reach over the widest hole, packets are lost to the sender's knowledge only
\* after that report was refused, for want of packets or of room, or where the
\* numbers wrapped (Stream::checkIfFlushAck, createStandardizedFeedback).
THEOREM HoleLossTheorem ==
  ASSUME HolesInReach
  PROVE  RxSpec => HoleLossIsExplained
<1>1. Init => ReachInv
  <2> SUFFICES ASSUME Init PROVE ReachInv
    OBVIOUS
  <2>1. \A s \in Streams : stream[s].known = FALSE
    BY DEF Init, NoStream
  <2> QED
    BY <2>1, RxInvInit DEF ReachInv, KeptAll, ServedAll
<1>2. ReachInv /\ [Next]_vars => ReachInv' /\ ReachKept
  <2> SUFFICES ASSUME ReachInv, [Next]_vars PROVE ReachInv' /\ ReachKept
    OBVIOUS
  <2>1. RxInv'
    BY RxInvNext DEF ReachInv
  <2>2. KeptAll(stream', net') /\ ServedAll(stream') /\ ReachKept
    BY ReachNext
  <2>3. KeptAll(stream, net)'
    BY <2>2 DEF KeptAll, Kept, Newest, OutOfReach
  <2>4. ServedAll(stream)'
    BY <2>2 DEF ServedAll, Served, AckDue, KnownIn
  <2> QED
    BY <2>1, <2>2, <2>3, <2>4 DEF ReachInv
<1>3. ReachInv /\ [Next]_vars =>
        [\A s \in Known :
           OutOfReach(net'[s]) \subseteq OutOfReach(net[s])
           \/ HeldBack(s) \/ Wrapped(net[s])]_vars
  BY <1>2 DEF ReachKept
<1> QED
  BY <1>1, <1>2, <1>3, PTL DEF RxSpec, HoleLossIsExplained

=============================================================================
