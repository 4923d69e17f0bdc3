---------------------------- MODULE RxRingProofs ----------------------------
(***************************************************************************)
(* Proofs about module RxRing, for every ring, every set of frame lengths   *)
(* and any number of frames: the driver finds every frame that was stored,  *)
(* its caller reads it unharmed, and the ring is a queue.                   *)
(***************************************************************************)
EXTENDS RxRing, TLAPS

-----------------------------------------------------------------------------
(* Remainders, for a modulus that is not fixed. *)

LEMMA ModType ==
    ASSUME NEW M \in Int, M > 0, NEW x \in Int
    PROVE  x % M \in 0..(M - 1)
  OBVIOUS

LEMMA QuotientType ==
    ASSUME NEW M \in Int, M > 0, NEW x \in Int
    PROVE  x \div M \in Int
  OBVIOUS

LEMMA Division ==
    ASSUME NEW M \in Int, M > 0, NEW x \in Int
    PROVE  x = M * (x \div M) + (x % M)
  OBVIOUS

LEMMA ModUnique ==
    ASSUME NEW M \in Int, M > 0, NEW q \in Int, NEW r \in 0..(M - 1)
    PROVE  (M * q + r) % M = r
  OBVIOUS

(* Numbers below the modulus, and those one round away from that.            *)
LEMMA ModSmall ==
    ASSUME NEW M \in Int, M > 0, NEW x \in 0..(M - 1)
    PROVE  x % M = x
  OBVIOUS

(* Whole rounds do not matter.                                               *)
LEMMA ModShift ==
    ASSUME NEW M \in Int, M > 0, NEW x \in Int, NEW k \in Int
    PROVE  (x + M * k) % M = x % M
  <1> DEFINE q == x \div M
             r == x % M
  <1>1. q \in Int /\ r \in 0..(M - 1) /\ x = M * q + r /\ r = x % M
    BY QuotientType, Division, ModType
  <1> HIDE DEF q, r
  <1>2. x + M * k = M * (q + k) + r
    BY <1>1
  <1>3. (M * (q + k) + r) % M = r
    BY <1>1, ModUnique
  <1> QED
    BY <1>2, <1>3 DEF r

LEMMA ModRound ==
    ASSUME NEW M \in Int, M > 0, NEW x \in Int
    PROVE  (x + M) % M = x % M
  <1> DEFINE q == x \div M
             r == x % M
  <1>1. q \in Int /\ r \in 0..(M - 1) /\ x = M * q + r /\ r = x % M
    BY QuotientType, Division, ModType
  <1> HIDE DEF q, r
  <1>2. x + M = M * (q + 1) + r
    BY <1>1
  <1>3. (M * (q + 1) + r) % M = r
    BY <1>1, ModUnique
  <1> QED
    BY <1>1, <1>2, <1>3

(* A remainder may be taken of a part of a sum first.                        *)
LEMMA ModSum ==
    ASSUME NEW M \in Int, M > 0, NEW x \in Int, NEW y \in Int
    PROVE  ((x % M) + y) % M = (x + y) % M
  <1> DEFINE q == x \div M
             r == x % M
             z == r + y
  <1>1. q \in Int /\ r \in 0..(M - 1) /\ x = M * q + r /\ r = x % M
    BY QuotientType, Division, ModType
  <1> HIDE DEF q, r
  <1>2. z \in Int /\ x + y = z + M * q /\ z = (x % M) + y
    BY <1>1
  <1> HIDE DEF z
  <1>3. (z + M * q) % M = z % M
    BY <1>1, <1>2, ModShift
  <1> QED
    BY <1>2, <1>3

LEMMA ModDifference ==
    ASSUME NEW M \in Int, M > 0, NEW x \in Int, NEW y \in Int
    PROVE  (y - (x % M)) % M = (y - x) % M
  <1> DEFINE q == x \div M
             r == x % M
             z == y - x
  <1>1. q \in Int /\ r \in 0..(M - 1) /\ x = M * q + r /\ r = x % M
    BY QuotientType, Division, ModType
  <1> HIDE DEF q, r
  <1>2. z \in Int /\ y - (x % M) = z + M * q /\ z = y - x
    BY <1>1
  <1> HIDE DEF z
  <1>3. (z + M * q) % M = z % M
    BY <1>1, <1>2, ModShift
  <1> QED
    BY <1>2, <1>3

(* Two numbers less than a round apart with one remainder are one number.    *)
LEMMA ModEqual ==
    ASSUME NEW M \in Int, M > 0, NEW x \in Int, NEW y \in Int,
           x % M = y % M, x <= y, y < x + M
    PROVE  x = y
  <1> DEFINE p == x \div M
             q == y \div M
             r == x % M
  <1>1. p \in Int /\ q \in Int /\ r \in 0..(M - 1) /\ x = M * p + r /\ y = M * q + r
    BY QuotientType, Division, ModType
  <1> HIDE DEF p, q, r
  <1>2. y - x = M * (q - p)
    BY <1>1
  <1>3. \A d \in Int : M * d < M /\ M * d >= 0 => d = 0
    OBVIOUS
  <1>4. q - p = 0
    BY <1>1, <1>2, <1>3
  <1> QED
    BY <1>1, <1>4

(* The remainder of a multiple of d by a multiple of d is a multiple of d.   *)
LEMMA ModMultiple ==
    ASSUME NEW M \in Int, M > 0, NEW x \in Int, M % 4 = 0, x % 4 = 0
    PROVE  (x % M) % 4 = 0
  <1> DEFINE q == x \div M
             r == x % M
             c == M \div 4
  <1>1. q \in Int /\ r \in 0..(M - 1) /\ x = M * q + r
    BY QuotientType, Division, ModType
  <1>2. c \in Int /\ M = 4 * c
    OBVIOUS
  <1> HIDE DEF q, r, c
  <1>3. x = r + 4 * (c * q) /\ c * q \in Int
    BY <1>1, <1>2
  <1>4. r % 4 = x % 4
    BY <1>1, <1>3, ModShift
  <1> QED
    BY <1>1, <1>4

-----------------------------------------------------------------------------
(* The arithmetic of the ring. *)

LEMMA RingType == Ring \in Nat /\ Ring > 16 /\ Ring \in Int /\ Ring > 0 /\ Ring % 4 = 0
  BY RingAssumption

LEMMA LengthType ==
    ASSUME NEW n \in Lengths
    PROVE  n \in 4..MaxLen /\ n \in Nat /\ n + 8 <= Ring
  BY RingAssumption

LEMMA SpanType ==
    ASSUME NEW n \in Nat
    PROVE  Span(n) \in Nat /\ Span(n) >= n + 4 /\ Span(n) % 4 = 0
  BY DEF Span

LEMMA CaprType ==
    ASSUME NEW r \in 0..(Ring - 1)
    PROVE  Capr(r) \in Word16
  BY RingType DEF Capr, Word16

(* The card reads the driver's pointer out of CAPR, whichever it is.          *)
LEMMA CaprRead ==
    ASSUME NEW r \in 0..(Ring - 1)
    PROVE  (Capr(r) + 16) % Ring = r
  <1> DEFINE q == 65536 \div Ring
  <1>0. q \in Int
    BY RingType, QuotientType
  <1>2. q \in Int /\ 65536 = Ring * q
    <2>1. 65536 \in Int
      OBVIOUS
    <2>2. 65536 = Ring * q + (65536 % Ring)
      BY <2>1, RingType, Division
    <2> QED
      BY <2>1, <2>2, RingType, RingAssumption, QuotientType
  <1> HIDE DEF q
  <1>3. CASE r >= 16
    <2>1. Capr(r) = r - 16
      <3>1. Ring <= 65536
        BY <1>2, RingType
      <3> QED
        BY <1>3, <3>1, RingType DEF Capr
    <2> QED
      BY <2>1, RingType, ModSmall
  <1>4. CASE r < 16
    <2>1. Capr(r) = r - 16 + 65536
      BY <1>4, RingType DEF Capr
    <2>2. Capr(r) + 16 = r + Ring * q
      BY <1>2, <2>1, RingType
    <2>3. r \in Int /\ (r + Ring * q) % Ring = r % Ring
      <3>1. r \in Int
        BY RingType
      <3> QED
        BY <1>0, <3>1, RingType, ModShift, Zenon
    <2>4. r % Ring = r
      BY RingType, ModSmall, Zenon
    <2> QED
      BY <2>2, <2>3, <2>4, Zenon
  <1>5. r >= 16 \/ r < 16
    BY RingType
  <1> QED
    BY <1>3, <1>4, <1>5, Zenon

(* Where a byte of a frame lies, seen from where the card writes.             *)
LEMMA DistanceFromWrite ==
    ASSUME NEW w \in Nat, NEW x \in Nat
    PROVE  (((x % Ring) - (w % Ring)) + Ring) % Ring = ((x - w) + Ring) % Ring
  <1> DEFINE a == x % Ring
             b == w % Ring
             c == x + Ring
  <1>1. a \in Int /\ b \in Int /\ c \in Int
    BY RingType, ModType
  <1>2. ((a + Ring) - b) % Ring = ((a + Ring) - w) % Ring
    <2>1. a + Ring \in Int
      BY <1>1, RingType
    <2>2. w \in Int
      OBVIOUS
    <2> QED
      BY <2>1, <2>2, RingType, ModDifference, Zenon
  <1>3. (a + (Ring - w)) % Ring = (x + (Ring - w)) % Ring
    <2>1. Ring - w \in Int
      BY RingType
    <2>2. x \in Int
      OBVIOUS
    <2> QED
      BY <1>1, <2>1, <2>2, RingType, ModSum, Zenon
  <1>4. /\ (a - b) + Ring = (a + Ring) - b
        /\ (a + Ring) - w = a + (Ring - w)
        /\ (x - w) + Ring = x + (Ring - w)
    BY <1>1, RingType
  <1> HIDE DEF a, b, c
  <1>5. ((a - b) + Ring) % Ring = ((x - w) + Ring) % Ring
    BY <1>2, <1>3, <1>4
  <1> QED
    BY <1>5 DEF a, b
-----------------------------------------------------------------------------
(* The inductive invariant.  Both pointers are totals taken modulo the ring:  *)
(* of the bytes the card has written and of those the driver has taken,       *)
(* which are less than a ring apart.                                         *)
Written == starts[Len(accepted) + 1]
Taken == starts[polled + 1]

StartsInv ==
    /\ \A k \in 1..(Len(accepted) + 1) : starts[k] % 4 = 0
    /\ \A k \in 1..Len(accepted) : starts[k + 1] = starts[k] + Span(accepted[k])
    /\ \A j, k \in 1..(Len(accepted) + 1) : j <= k => starts[j] <= starts[k]

PointerInv ==
    /\ wr = Written % Ring
    /\ rd = Taken % Ring
    /\ CardRead = rd
    /\ Written - Taken < Ring

(* A frame that begins less than a ring behind the card is whole.             *)
Whole(k) ==
    \A i \in 0..(accepted[k] + 3) :
        mem[(starts[k] + i) % Ring] = FrameByte(k, accepted[k], i)
MemoryInv ==
    \A k \in 1..Len(accepted) : Written - starts[k] <= Ring => Whole(k)

HeldInv ==
    held # Nothing =>
        /\ held.frame = polled /\ polled # 0
        /\ held.at = (starts[held.frame] % Ring) + 4
        /\ held.len = accepted[held.frame] - 4

RingInv == TypeOK /\ StartsInv /\ PointerInv /\ MemoryInv /\ HeldInv

LEMMA RingInit == Init => RingInv
  <1> SUFFICES ASSUME Init PROVE RingInv
    OBVIOUS
  <1> USE RingType DEF Init
  <1>1. /\ accepted = <<>> /\ accepted \in Seq(Lengths) /\ Len(accepted) = 0
        /\ starts = <<0>> /\ starts \in Seq(Nat) /\ Len(starts) = 1 /\ starts[1] = 0
    OBVIOUS
  <1>2. 0 % Ring = 0
    BY ModSmall
  <1>3. TypeOK
    <2>1. DOMAIN mem = 0..(Ring + Slack - 1)
      OBVIOUS
    <2>2. held.at = 0 /\ held.len = 0 /\ held.frame = 0
      BY DEF Nothing
    <2> QED
      BY <1>1, <2>1, <2>2, RingAssumption DEF TypeOK, Word16
  <1>4. StartsInv
    BY <1>1 DEF StartsInv
  <1>5. PointerInv
    <2>1. CardRead = rd
      <3>1. capr + 16 = 65536
        OBVIOUS
      <3> QED
        BY <3>1, RingAssumption DEF CardRead
    <2>2. Written = 0 /\ Taken = 0
      BY <1>1 DEF Written, Taken
    <2> QED
      BY <1>2, <2>1, <2>2 DEF PointerInv
  <1>6. MemoryInv
    BY <1>1 DEF MemoryInv
  <1>7. HeldInv
    BY DEF HeldInv
  <1> QED
    BY <1>3, <1>4, <1>5, <1>6, <1>7 DEF RingInv

LEMMA AcceptedType ==
    ASSUME TypeOK, NEW k \in 1..Len(accepted)
    PROVE  /\ accepted[k] \in Lengths /\ accepted[k] \in 4..MaxLen /\ accepted[k] \in Nat
           /\ accepted[k] + 8 <= Ring
           /\ Span(accepted[k]) \in Nat /\ Span(accepted[k]) >= accepted[k] + 4
  <1>1. accepted[k] \in Lengths
    BY DEF TypeOK
  <1> QED
    BY <1>1, LengthType, SpanType

LEMMA StartsType ==
    ASSUME TypeOK, StartsInv
    PROVE  /\ Len(accepted) \in Nat /\ polled \in 0..Len(accepted)
           /\ \A k \in 1..(Len(accepted) + 1) : starts[k] \in Nat /\ starts[k] <= Written
           /\ Written \in Nat /\ Taken \in Nat /\ Taken <= Written
           /\ \A k \in (polled + 1)..Len(accepted) : Taken <= starts[k]
           /\ \A k \in 1..Len(accepted) : starts[k] + accepted[k] + 4 <= Written
  <1>1. /\ Len(accepted) \in Nat /\ polled \in 0..Len(accepted)
        /\ \A k \in 1..(Len(accepted) + 1) : starts[k] \in Nat
    BY DEF TypeOK
  <1>2. \A k \in 1..(Len(accepted) + 1) : starts[k] <= Written
    BY <1>1 DEF StartsInv, Written
  <1>3. /\ polled + 1 \in 1..(Len(accepted) + 1) /\ Written \in Nat /\ Taken \in Nat
        /\ Taken <= Written
    BY <1>1, <1>2 DEF Written, Taken
  <1>4. \A k \in (polled + 1)..Len(accepted) : Taken <= starts[k]
    BY <1>1, <1>3 DEF StartsInv, Taken
  <1>5. \A k \in 1..Len(accepted) : starts[k] + accepted[k] + 4 <= Written
    <2> SUFFICES ASSUME NEW k \in 1..Len(accepted)
                 PROVE  starts[k] + accepted[k] + 4 <= Written
      OBVIOUS
    <2>1. k + 1 \in 1..(Len(accepted) + 1) /\ starts[k + 1] = starts[k] + Span(accepted[k])
      BY <1>1 DEF StartsInv
    <2>2. starts[k + 1] <= Written /\ starts[k] \in Nat
      BY <1>1, <1>2, <2>1
    <2> QED
      BY <1>3, <2>1, <2>2, AcceptedType
  <1> QED
    BY <1>1, <1>2, <1>3, <1>4, <1>5

(* The card takes the ring for empty when it is, and for no emptier than it   *)
(* is.                                                                       *)
LEMMA EmptyMeansTaken ==
    ASSUME TypeOK, StartsInv, PointerInv
    PROVE  Empty <=> polled = Len(accepted)
  <1>1. /\ Written \in Nat /\ Taken \in Nat /\ Taken <= Written /\ Written - Taken < Ring
        /\ Len(accepted) \in Nat /\ polled \in 0..Len(accepted)
    BY StartsType DEF PointerInv
  <1>2. CASE polled = Len(accepted)
    BY <1>2 DEF Empty, PointerInv, Written, Taken
  <1>3. CASE polled # Len(accepted)
    <2>1. polled + 1 \in 1..Len(accepted)
      BY <1>1, <1>3
    <2>2. Taken # Written
      <3>1. starts[polled + 1] + accepted[polled + 1] + 4 <= Written
        BY <2>1, StartsType
      <3> QED
        BY <1>1, <2>1, <3>1, AcceptedType DEF Taken
    <2>3. Taken % Ring # Written % Ring
      <3> SUFFICES ASSUME Taken % Ring = Written % Ring PROVE FALSE
        OBVIOUS
      <3>1. Taken \in Int /\ Written \in Int /\ Written < Taken + Ring
        BY <1>1, RingType
      <3> QED
        BY <1>1, <2>2, <3>1, RingType, ModEqual, Zenon
    <2> QED
      BY <1>3, <2>3 DEF Empty, PointerInv
  <1> QED
    BY <1>2, <1>3

LEMMA RoomType ==
    ASSUME TypeOK, StartsInv, PointerInv
    PROVE  Room = Ring - (Written - Taken)
  <1>1. /\ Written \in Nat /\ Taken \in Nat /\ Taken <= Written /\ Written - Taken < Ring
    BY StartsType DEF PointerInv
  <1>2. CASE Empty
    <2>1. Written = Taken
      BY <1>2, EmptyMeansTaken DEF Written, Taken
    <2> QED
      BY <1>1, <1>2, <2>1, RingType DEF Room
  <1>3. CASE ~Empty
    <2>1. Room = (((Taken % Ring) - (Written % Ring)) + Ring) % Ring
      BY <1>3 DEF Room, PointerInv
    <2>2. Room = ((Taken - Written) + Ring) % Ring
      BY <1>1, <2>1, DistanceFromWrite
    <2>3. Taken # Written
      BY <1>3 DEF Empty, PointerInv
    <2>4. (Taken - Written) + Ring \in 0..(Ring - 1)
      BY <1>1, <2>3, RingType
    <2>5. Room = (Taken - Written) + Ring
      BY <2>2, <2>4, RingType, ModSmall
    <2> QED
      BY <1>1, <2>5, RingType
  <1> QED
    BY <1>2, <1>3

LEMMA AppendSeq ==
    ASSUME NEW S, NEW s \in Seq(S), NEW e \in S
    PROVE  /\ Append(s, e) \in Seq(S)
           /\ Len(Append(s, e)) = Len(s) + 1
           /\ \A k \in 1..Len(s) : Append(s, e)[k] = s[k]
           /\ Append(s, e)[Len(s) + 1] = e
  OBVIOUS

(* The history of a frame that is stored.                                    *)
LEMMA ReceiveHistory ==
    ASSUME RingInv, NEW n \in Lengths, Receive(n),
           NEW L, L = Len(accepted)
    PROVE  /\ L \in Nat /\ L < MaxFrames /\ polled \in 0..L
           /\ accepted' \in Seq(Lengths) /\ Len(accepted') = L + 1
           /\ \A k \in 1..L : accepted'[k] = accepted[k]
           /\ accepted'[L + 1] = n
           /\ starts' \in Seq(Nat) /\ Len(starts') = L + 2
           /\ \A k \in 1..(L + 1) : starts'[k] = starts[k]
           /\ starts[L + 1] = Written
           /\ starts'[L + 2] = Written + Span(n)
           /\ Written' = Written + Span(n) /\ Taken' = Taken
  <1>1. /\ L < MaxFrames /\ polled' = polled
        /\ accepted' = Append(accepted, n)
        /\ starts' = Append(starts, starts[L + 1] + Span(n))
    BY DEF Receive
  <1>2. /\ L \in Nat /\ polled \in 0..L
        /\ accepted \in Seq(Lengths) /\ starts \in Seq(Nat) /\ Len(starts) = L + 1
    BY DEF RingInv, TypeOK
  <1>3. /\ accepted' \in Seq(Lengths) /\ Len(accepted') = L + 1
        /\ \A k \in 1..L : accepted'[k] = accepted[k]
        /\ accepted'[L + 1] = n
    BY <1>1, <1>2, AppendSeq
  <1>4. starts[L + 1] = Written /\ Written \in Nat /\ Span(n) \in Nat
    BY <1>2, LengthType, SpanType, StartsType DEF RingInv, Written
  <1>5. Written + Span(n) \in Nat
    BY <1>4
  <1>6. /\ starts' \in Seq(Nat) /\ Len(starts') = L + 1 + 1
        /\ \A k \in 1..(L + 1) : starts'[k] = starts[k]
        /\ starts'[L + 1 + 1] = Written + Span(n)
    BY <1>1, <1>2, <1>4, <1>5, AppendSeq
  <1>7. L + 1 + 1 = L + 2 /\ polled + 1 \in 1..(L + 1)
    BY <1>2
  <1>8. Written' = Written + Span(n) /\ Taken' = Taken
    BY <1>1, <1>3, <1>6, <1>7 DEF Written, Taken
  <1> QED
    BY <1>1, <1>2, <1>3, <1>4, <1>6, <1>7, <1>8

LEMMA ReceiveStarts ==
    ASSUME RingInv, NEW n \in Lengths, Receive(n)
    PROVE  StartsInv'
  <1> DEFINE L == Len(accepted)
  <1>1. /\ L \in Nat /\ Len(accepted') = L + 1
        /\ \A k \in 1..L : accepted'[k] = accepted[k]
        /\ accepted'[L + 1] = n
        /\ \A k \in 1..(L + 1) : starts'[k] = starts[k]
        /\ starts[L + 1] = Written
        /\ starts'[L + 2] = Written + Span(n)
    BY ReceiveHistory
  <1>2. /\ Span(n) \in Nat /\ Span(n) % 4 = 0 /\ Written \in Nat
        /\ \A k \in 1..(L + 1) : starts[k] \in Nat /\ starts[k] <= Written
    BY LengthType, SpanType, StartsType DEF RingInv
  <1>3. /\ \A k \in 1..(L + 1) : starts[k] % 4 = 0
        /\ \A k \in 1..L : starts[k + 1] = starts[k] + Span(accepted[k])
        /\ \A j, k \in 1..(L + 1) : j <= k => starts[j] <= starts[k]
    BY DEF RingInv, StartsInv
  <1> HIDE DEF L
  <1>4. \A k \in 1..(L + 2) : starts'[k] % 4 = 0
    <2>1. Written % 4 = 0
      BY <1>1, <1>3
    <2>2. (Written + Span(n)) % 4 = 0
      BY <1>2, <2>1
    <2>3. \A k \in 1..(L + 2) : k \in 1..(L + 1) \/ k = L + 2
      BY <1>1
    <2> QED
      BY <1>1, <1>3, <2>2, <2>3
  <1>5. \A k \in 1..(L + 1) : starts'[k + 1] = starts'[k] + Span(accepted'[k])
    <2> SUFFICES ASSUME NEW k \in 1..(L + 1)
                 PROVE  starts'[k + 1] = starts'[k] + Span(accepted'[k])
      OBVIOUS
    <2>1. CASE k = L + 1
      <3>1. k + 1 = L + 2 /\ k \in 1..(L + 1)
        BY <1>1, <2>1
      <3> QED
        BY <1>1, <2>1, <3>1
    <2>2. CASE k # L + 1
      <3>1. k \in 1..L /\ k + 1 \in 1..(L + 1)
        BY <1>1, <2>2
      <3> QED
        BY <1>1, <1>3, <3>1
    <2> QED
      BY <2>1, <2>2
  <1>6. \A j, k \in 1..(L + 2) : j <= k => starts'[j] <= starts'[k]
    <2> SUFFICES ASSUME NEW j \in 1..(L + 2), NEW k \in 1..(L + 2), j <= k
                 PROVE  starts'[j] <= starts'[k]
      OBVIOUS
    <2>1. CASE k = L + 2
      <3>1. j \in 1..(L + 1) \/ j = L + 2
        BY <1>1
      <3>2. CASE j \in 1..(L + 1)
        <4>1. starts'[j] \in Nat /\ starts'[j] <= Written /\ starts'[k] = Written + Span(n)
          BY <1>1, <1>2, <2>1, <3>2
        <4> QED
          BY <1>2, <4>1
      <3>3. CASE j = L + 2
        BY <1>1, <1>2, <2>1, <3>3
      <3> QED
        BY <3>1, <3>2, <3>3
    <2>2. CASE k # L + 2
      <3>1. j \in 1..(L + 1) /\ k \in 1..(L + 1)
        BY <1>1, <2>2
      <3> QED
        BY <1>1, <1>3, <3>1
    <2> QED
      BY <2>1, <2>2
  <1>7. Len(accepted') + 1 = L + 2
    BY <1>1
  <1> QED
    BY <1>1, <1>4, <1>5, <1>6, <1>7 DEF StartsInv

(* The new frame is whole, and so are the frames before it, as far back as    *)
(* one ring from its end.                                                    *)
LEMMA ReceiveMemory ==
    ASSUME RingInv, NEW n \in Lengths, Receive(n)
    PROVE  MemoryInv'
  <1> DEFINE L == Len(accepted)
             Behind(o) == ((o - wr) + Ring) % Ring
  <1>1. /\ L \in Nat /\ Len(accepted') = L + 1
        /\ \A k \in 1..L : accepted'[k] = accepted[k]
        /\ accepted'[L + 1] = n
        /\ \A k \in 1..(L + 1) : starts'[k] = starts[k]
        /\ starts[L + 1] = Written
        /\ Written' = Written + Span(n)
    BY ReceiveHistory
  <1>2. /\ Span(n) \in Nat /\ Span(n) >= n + 4 /\ n \in Nat /\ n + 8 <= Ring
        /\ Written \in Nat
        /\ \A k \in 1..(L + 1) : starts[k] \in Nat /\ starts[k] <= Written
        /\ \A k \in 1..L : starts[k] + accepted[k] + 4 <= Written /\ accepted[k] \in Nat
    BY LengthType, SpanType, StartsType, AcceptedType DEF RingInv
  <1>3. \A o \in 0..(Ring - 1) :
           mem'[o] = IF Behind(o) < n + 4 THEN FrameByte(L + 1, n, Behind(o)) ELSE mem[o]
    <2>1. mem' = [o \in DOMAIN mem |->
                    LET i == (o - wr + Ring) % Ring
                    IN  IF o < Ring /\ i < n + 4 THEN FrameByte(L + 1, n, i) ELSE mem[o]]
      BY DEF Receive
    <2>2. \A o \in 0..(Ring - 1) : o \in DOMAIN mem /\ o < Ring
      BY RingAssumption DEF RingInv, TypeOK
    <2> QED
      BY <2>1, <2>2
  <1>4. \A x \in Nat : /\ x % Ring \in 0..(Ring - 1)
                       /\ Behind(x % Ring) = ((x - Written) + Ring) % Ring
    <2> SUFFICES ASSUME NEW x \in Nat
                 PROVE  /\ x % Ring \in 0..(Ring - 1)
                        /\ Behind(x % Ring) = ((x - Written) + Ring) % Ring
      OBVIOUS
    <2>1. x % Ring \in 0..(Ring - 1)
      BY RingType, ModType
    <2>2. (((x % Ring) - (Written % Ring)) + Ring) % Ring = ((x - Written) + Ring) % Ring
      BY <1>2, DistanceFromWrite
    <2>3. wr = Written % Ring
      BY DEF RingInv, PointerInv
    <2> QED
      BY <2>1, <2>2, <2>3
  <1> HIDE DEF L, Behind
  <1> SUFFICES ASSUME NEW k \in 1..(L + 1), (Written + Span(n)) - starts[k] <= Ring,
                      NEW i \in 0..(accepted'[k] + 3)
               PROVE  mem'[(starts[k] + i) % Ring] = FrameByte(k, accepted'[k], i)
    BY <1>1 DEF MemoryInv, Whole
  <1>5. CASE k = L + 1
    <2>1. /\ accepted'[k] = n /\ starts[k] = Written /\ starts[k] + i \in Nat
          /\ i \in 0..(Ring - 1) /\ i < n + 4
      <3>1. accepted'[k] = n /\ starts[k] = Written
        BY <1>1, <1>5
      <3>2. i \in 0..(n + 3)
        BY <3>1
      <3> QED
        BY <1>2, <3>1, <3>2, RingType
    <2>2. ((starts[k] + i) - Written) + Ring = i + Ring
      BY <1>2, <2>1
    <2>3. (i + Ring) % Ring = i
      <3>1. (i + Ring) % Ring = i % Ring
        <4>1. i \in Int
          BY <2>1
        <4> QED
          BY <4>1, RingType, ModRound, Zenon
      <3>2. i % Ring = i
        BY <2>1, RingType, ModSmall
      <3> QED
        BY <3>1, <3>2
    <2>4. Behind((starts[k] + i) % Ring) = i
      BY <1>4, <2>1, <2>2, <2>3
    <2> QED
      BY <1>3, <1>4, <1>5, <2>1, <2>4
  <1>6. CASE k # L + 1
    <2>1. /\ k \in 1..L /\ accepted'[k] = accepted[k]
      BY <1>1, <1>6
    <2>2. /\ starts[k] \in Nat /\ accepted[k] \in Nat /\ i \in 0..(accepted[k] + 3)
          /\ starts[k] + i \in Nat /\ starts[k] + i < Written
          /\ Written - starts[k] <= Ring
      BY <1>2, <2>1, RingType
    <2>3. /\ ((starts[k] + i) - Written) + Ring \in 0..(Ring - 1)
          /\ ((starts[k] + i) - Written) + Ring >= n + 4
      BY <1>2, <2>2, RingType
    <2>4. Behind((starts[k] + i) % Ring) = ((starts[k] + i) - Written) + Ring
      <3>1. (((starts[k] + i) - Written) + Ring) % Ring = ((starts[k] + i) - Written) + Ring
        BY <2>3, RingType, ModSmall, Zenon
      <3> QED
        BY <1>4, <2>2, <3>1
    <2>5. mem'[(starts[k] + i) % Ring] = mem[(starts[k] + i) % Ring]
      <3>1. ~(Behind((starts[k] + i) % Ring) < n + 4)
        BY <1>2, <2>2, <2>3, <2>4
      <3>2. (starts[k] + i) % Ring \in 0..(Ring - 1)
        BY <1>4, <2>2
      <3> QED
        BY <1>3, <3>1, <3>2, Zenon
    <2>6. mem[(starts[k] + i) % Ring] = FrameByte(k, accepted[k], i)
      BY <2>1, <2>2 DEF RingInv, MemoryInv, Whole, L
    <2> QED
      BY <2>1, <2>5, <2>6
  <1> QED
    BY <1>5, <1>6

LEMMA ReceiveStep ==
    ASSUME RingInv, NEW n \in Lengths, Receive(n)
    PROVE  RingInv'
  <1> DEFINE L == Len(accepted)
  <1>1. /\ L \in Nat /\ L < MaxFrames /\ polled \in 0..L
        /\ accepted' \in Seq(Lengths) /\ Len(accepted') = L + 1
        /\ \A k \in 1..L : accepted'[k] = accepted[k]
        /\ starts' \in Seq(Nat) /\ Len(starts') = L + 2
        /\ \A k \in 1..(L + 1) : starts'[k] = starts[k]
        /\ Written' = Written + Span(n) /\ Taken' = Taken
    BY ReceiveHistory
  <1>2. /\ UNCHANGED <<capr, rd, held, polled>>
        /\ Span(n) < Room /\ wr' = (wr + Span(n)) % Ring
        /\ DOMAIN mem' = DOMAIN mem
    BY DEF Receive
  <1>3. Span(n) \in Nat /\ Written \in Nat /\ Taken \in Nat
    BY LengthType, SpanType, StartsType DEF RingInv
  <1> HIDE DEF L
  <1>4. TypeOK'
    <2>1. wr' \in 0..(Ring - 1)
      <3>1. wr + Span(n) \in Int
        BY <1>3 DEF RingInv, TypeOK
      <3> QED
        BY <1>2, <3>1, RingType, ModType
    <2>2. /\ L + 1 <= MaxFrames /\ polled' \in 0..(L + 1) /\ L + 2 = (L + 1) + 1
      <3>1. L \in Nat /\ L < MaxFrames /\ polled' \in 0..L /\ MaxFrames \in Nat
        BY <1>1, <1>2, RingAssumption
      <3> QED
        BY <3>1
    <2>3. /\ accepted' \in Seq(Lengths) /\ Len(accepted') = L + 1
          /\ starts' \in Seq(Nat) /\ Len(starts') = L + 2
      BY <1>1
    <2>4. /\ DOMAIN mem' = 0..(Ring + Slack - 1) /\ rd' \in 0..(Ring - 1)
          /\ capr' \in Word16
          /\ held'.at \in 0..(Ring + 3) /\ held'.len \in 0..MaxLen /\ held'.frame \in 0..polled'
      BY <1>2 DEF RingInv, TypeOK
    <2> QED
      BY <2>1, <2>2, <2>3, <2>4 DEF TypeOK
  <1>5. PointerInv'
    <2>1. wr' = Written' % Ring
      <3>1. Written \in Int /\ Span(n) \in Int
        BY <1>3
      <3>2. ((Written % Ring) + Span(n)) % Ring = (Written + Span(n)) % Ring
        BY <3>1, RingType, ModSum, Zenon
      <3>3. wr' = ((Written % Ring) + Span(n)) % Ring
        BY <1>2 DEF RingInv, PointerInv
      <3> QED
        BY <1>1, <3>2, <3>3, Zenon
    <2>2. Written' - Taken' < Ring
      <3>1. Room = Ring - (Written - Taken)
        BY RoomType DEF RingInv
      <3> QED
        BY <1>1, <1>2, <1>3, <3>1, RingType
    <2>3. rd' = Taken' % Ring /\ CardRead' = rd'
      BY <1>1, <1>2 DEF RingInv, PointerInv, CardRead
    <2> QED
      BY <2>1, <2>2, <2>3 DEF PointerInv
  <1>6. HeldInv'
    <2>1. held # Nothing => held.frame \in 1..L
      BY <1>1 DEF RingInv, HeldInv
    <2>2. held # Nothing => /\ starts'[held.frame] = starts[held.frame]
                            /\ accepted'[held.frame] = accepted[held.frame]
      BY <1>1, <2>1
    <2> QED
      BY <1>2, <2>2 DEF RingInv, HeldInv
  <1> QED
    BY <1>4, <1>5, <1>6, ReceiveStarts, ReceiveMemory DEF RingInv

(* The driver takes the frame that is next: its header stands where           *)
(* rx_read_ptr points.                                                       *)
LEMMA PollTakes ==
    ASSUME RingInv, Poll
    PROVE  /\ polled + 1 \in 1..Len(accepted) /\ polled' = polled + 1
           /\ rd' = (rd + Span(accepted[polled + 1])) % Ring
           /\ capr' = Capr(rd')
           /\ held' = [at |-> rd + 4, len |-> accepted[polled + 1] - 4, frame |-> polled + 1]
           /\ UNCHANGED <<mem, wr, accepted, starts>>
  <1> DEFINE k == polled + 1
             offset == rd % Ring
  <1>1. polled # Len(accepted)
    BY EmptyMeansTaken DEF RingInv, Poll
  <1>2. /\ k \in 1..Len(accepted) /\ k \in 1..(Len(accepted) + 1)
        /\ Taken \in Nat /\ Written \in Nat /\ Written - Taken < Ring
    BY <1>1, StartsType DEF RingInv, PointerInv
  <1>3. rd \in 0..(Ring - 1) /\ offset = rd /\ rd = Taken % Ring
    <2>1. rd \in 0..(Ring - 1) /\ rd = Taken % Ring
      BY DEF RingInv, TypeOK, PointerInv
    <2>2. rd % Ring = rd
      BY <2>1, RingType, ModSmall, Zenon
    <2> QED
      BY <2>1, <2>2
  <1>4. rd % 4 = 0
    <2>1. Taken % 4 = 0 /\ Taken \in Int
      BY <1>2 DEF RingInv, StartsInv, Taken
    <2>2. (Taken % Ring) % 4 = 0
      BY <2>1, RingType, ModMultiple, Zenon
    <2> QED
      BY <1>3, <2>2
  <1>5. \A i \in 0..3 : mem[rd + i] = Byte(k, "head", i)
    <2> SUFFICES ASSUME NEW i \in 0..3 PROVE mem[rd + i] = Byte(k, "head", i)
      OBVIOUS
    <2>1. rd + i \in 0..(Ring - 1)
      BY <1>3, <1>4, RingType
    <2>2. (Taken + i) % Ring = rd + i
      <3>1. i \in Int /\ Taken \in Int
        BY <1>2
      <3>2. ((Taken % Ring) + i) % Ring = (Taken + i) % Ring
        BY <3>1, RingType, ModSum, Zenon
      <3>3. (rd + i) % Ring = rd + i
        BY <2>1, RingType, ModSmall, Zenon
      <3> QED
        BY <1>3, <3>2, <3>3, Zenon
    <2>3. Whole(k)
      <3>1. Written - starts[k] <= Ring
        BY <1>2, RingType DEF Taken
      <3> QED
        BY <1>2, <3>1 DEF RingInv, MemoryInv
    <2>4. i \in 0..(accepted[k] + 3) /\ i < 4
      BY <1>2, AcceptedType DEF RingInv
    <2>5. mem[(Taken + i) % Ring] = FrameByte(k, accepted[k], i)
      BY <2>3, <2>4 DEF Whole, Taken
    <2> QED
      BY <2>2, <2>4, <2>5 DEF FrameByte
  <1>6. HeaderAt(rd) = k
    <2>1. mem[rd + 0] = Byte(k, "head", 0)
      BY <1>5
    <2>2. mem[rd] = <<k, "head", 0>>
      BY <1>3, <2>1 DEF Byte
    <2>3. mem[rd][1] = k /\ mem[rd][2] = "head"
      BY <2>2
    <2> QED
      BY <1>5, <2>3 DEF HeaderAt
  <1>7. /\ rd' = Advance(rd, accepted[k]) /\ capr' = Capr(rd')
        /\ held' = [at |-> rd + 4, len |-> DataLen(accepted[k]), frame |-> k]
        /\ polled' = k
        /\ UNCHANGED <<mem, wr, accepted, starts>>
    BY <1>3, <1>6 DEF Poll
  <1> QED
    BY <1>2, <1>7 DEF Advance, DataLen

LEMMA PollStep ==
    ASSUME RingInv, Poll
    PROVE  RingInv'
  <1> DEFINE k == polled + 1
             n == accepted[polled + 1]
  <1>1. /\ k \in 1..Len(accepted) /\ polled' = k
        /\ rd' = (rd + Span(n)) % Ring /\ capr' = Capr(rd')
        /\ held' = [at |-> rd + 4, len |-> n - 4, frame |-> k]
        /\ UNCHANGED <<mem, wr, accepted, starts>>
    BY PollTakes
  <1>2. /\ n \in 4..MaxLen /\ n \in Nat /\ Span(n) \in Nat
        /\ Len(accepted) \in Nat /\ polled \in 0..Len(accepted)
        /\ Written \in Nat /\ Taken \in Nat
    BY <1>1, AcceptedType, StartsType DEF RingInv
  <1>3. rd \in 0..(Ring - 1) /\ rd = Taken % Ring /\ Written - Taken < Ring
    BY DEF RingInv, TypeOK, PointerInv
  <1>4. /\ Taken' = Taken + Span(n) /\ Written' = Written
    <2>1. starts[k + 1] = starts[k] + Span(n)
      BY <1>1 DEF RingInv, StartsInv
    <2> QED
      BY <1>1, <2>1 DEF Taken, Written
  <1>5. rd' \in 0..(Ring - 1) /\ rd' = Taken' % Ring
    <2>1. Taken \in Int /\ Span(n) \in Int /\ Taken + Span(n) \in Int
      BY <1>2
    <2>2. ((Taken % Ring) + Span(n)) % Ring = (Taken + Span(n)) % Ring
      BY <2>1, RingType, ModSum, Zenon
    <2>3. (Taken + Span(n)) % Ring \in 0..(Ring - 1)
      BY <2>1, RingType, ModType, Zenon
    <2>4. rd' = ((Taken % Ring) + Span(n)) % Ring
      BY <1>1, <1>3
    <2> QED
      BY <1>4, <2>2, <2>3, <2>4, Zenon
  <1> HIDE DEF n
  <1>6. TypeOK'
    <2>1. capr' \in Word16
      <3>1. Capr(rd') \in Word16
        BY <1>5, CaprType
      <3> QED
        BY <1>1, <3>1
    <2>2. held'.at = rd + 4 /\ held'.len = n - 4 /\ held'.frame = k
      BY <1>1
    <2>3. /\ rd + 4 \in 0..(Ring + 3) /\ n - 4 \in 0..MaxLen /\ k \in 0..k
          /\ k \in 0..Len(accepted)
      BY <1>1, <1>2, <1>3, RingAssumption
    <2>4. /\ DOMAIN mem' = 0..(Ring + Slack - 1) /\ wr' \in 0..(Ring - 1)
          /\ accepted' \in Seq(Lengths) /\ Len(accepted') <= MaxFrames
          /\ starts' \in Seq(Nat) /\ Len(starts') = Len(accepted') + 1
      BY <1>1 DEF RingInv, TypeOK
    <2>5. polled' \in 0..Len(accepted')
      BY <1>1, <2>3
    <2>6. /\ held'.at \in 0..(Ring + 3) /\ held'.len \in 0..MaxLen
          /\ held'.frame \in 0..polled'
      BY <1>1, <2>2, <2>3
    <2> QED
      BY <1>5, <2>1, <2>4, <2>5, <2>6 DEF TypeOK
  <1>7. StartsInv'
    BY <1>1 DEF RingInv, StartsInv
  <1>8. PointerInv'
    <2>1. CardRead' = rd'
      BY <1>1, <1>5, CaprRead DEF CardRead
    <2>2. Written' - Taken' < Ring
      BY <1>2, <1>3, <1>4, RingType
    <2>3. wr' = Written' % Ring
      BY <1>1, <1>4 DEF RingInv, PointerInv
    <2> QED
      BY <1>5, <2>1, <2>2, <2>3 DEF PointerInv
  <1>9. MemoryInv'
    BY <1>1, <1>4 DEF RingInv, MemoryInv, Whole
  <1>10. HeldInv'
    <2>1. held'.at = rd + 4 /\ held'.len = n - 4 /\ held'.frame = k
      BY <1>1
    <2>2. rd = starts[k] % Ring
      BY <1>3 DEF Taken
    <2>3. k # 0 /\ accepted'[k] = n /\ starts'[k] = starts[k] /\ polled' = k
      BY <1>1, <1>2 DEF n
    <2> QED
      BY <2>1, <2>2, <2>3 DEF HeldInv
  <1> QED
    BY <1>6, <1>7, <1>8, <1>9, <1>10 DEF RingInv

LEMMA ReleaseStep ==
    ASSUME RingInv, Release
    PROVE  RingInv'
  <1>1. /\ UNCHANGED <<mem, wr, capr, rd, accepted, starts, polled>>
        /\ held' = Nothing
    BY DEF Release
  <1>2. held'.at = 0 /\ held'.len = 0 /\ held'.frame = 0
    BY <1>1 DEF Nothing
  <1>3. TypeOK'
    <2>1. /\ DOMAIN mem' = 0..(Ring + Slack - 1)
          /\ wr' \in 0..(Ring - 1) /\ rd' \in 0..(Ring - 1)
      BY <1>1 DEF RingInv, TypeOK
    <2>4. polled' \in 0..Len(accepted')
      BY <1>1 DEF RingInv, TypeOK
    <2>5. accepted' \in Seq(Lengths) /\ Len(accepted') <= MaxFrames
      BY <1>1 DEF RingInv, TypeOK
    <2>6. starts' \in Seq(Nat) /\ Len(starts') = Len(accepted') + 1
      BY <1>1 DEF RingInv, TypeOK
    <2>7. capr' \in Word16
      BY <1>1 DEF RingInv, TypeOK
    <2>2. Len(accepted') \in Nat /\ MaxLen \in Nat
      BY <2>5, RingAssumption
    <2>3. 0 \in 0..(Ring + 3) /\ 0 \in 0..MaxLen /\ 0 \in 0..polled'
      BY <2>2, <2>4, RingType
    <2> QED
      BY <1>2, <2>1, <2>3, <2>4, <2>5, <2>6, <2>7 DEF TypeOK
  <1>4. Written' = Written /\ Taken' = Taken
    BY <1>1 DEF Written, Taken
  <1> QED
    BY <1>1, <1>3, <1>4
       DEF RingInv, StartsInv, PointerInv, CardRead, MemoryInv, Whole, HeldInv

LEMMA RingNext == RingInv /\ [Next]_vars => RingInv'
  <1> SUFFICES ASSUME RingInv, [Next]_vars PROVE RingInv'
    OBVIOUS
  <1>1. CASE \E n \in Lengths : Receive(n)
    BY <1>1, ReceiveStep
  <1>2. CASE Poll
    BY <1>2, PollStep
  <1>3. CASE Release
    BY <1>3, ReleaseStep
  <1>4. CASE UNCHANGED vars
    <2>1. UNCHANGED <<mem, wr, capr, rd, held, accepted, starts, polled>>
      BY <1>4 DEF vars
    <2>2. TypeOK'
      <3>1. /\ DOMAIN mem' = 0..(Ring + Slack - 1)
            /\ wr' \in 0..(Ring - 1) /\ rd' \in 0..(Ring - 1)
        BY <2>1 DEF RingInv, TypeOK
      <3>2. capr' \in Word16
        BY <2>1 DEF RingInv, TypeOK
      <3>6. polled' \in 0..Len(accepted')
        BY <2>1 DEF RingInv, TypeOK
      <3>3. accepted' \in Seq(Lengths) /\ Len(accepted') <= MaxFrames
        BY <2>1 DEF RingInv, TypeOK
      <3>4. starts' \in Seq(Nat) /\ Len(starts') = Len(accepted') + 1
        BY <2>1 DEF RingInv, TypeOK
      <3>5. /\ held'.at \in 0..(Ring + 3) /\ held'.len \in 0..MaxLen
            /\ held'.frame \in 0..polled'
        BY <2>1 DEF RingInv, TypeOK
      <3> QED
        BY <3>1, <3>2, <3>3, <3>4, <3>5, <3>6 DEF TypeOK
    <2>5. StartsInv'
      BY <2>1 DEF RingInv, StartsInv
    <2>3. PointerInv'
      BY <2>1 DEF RingInv, PointerInv, CardRead, Written, Taken
    <2>4. MemoryInv' /\ HeldInv'
      BY <2>1 DEF RingInv, MemoryInv, Whole, HeldInv, Written
    <2> QED
      BY <2>2, <2>3, <2>4, <2>5 DEF RingInv
  <1> QED
    BY <1>1, <1>2, <1>3, <1>4 DEF Next

-----------------------------------------------------------------------------
(* The results. *)

(* The invariant holds in every state, for every ring.                        *)
THEOREM RingInductive == Spec => []RingInv
  BY RingInit, RingNext, PTL DEF Spec

(* The registers and pointers have their types.                               *)
THEOREM RingTypeCorrect == Spec => []TypeOK
  <1>1. RingInv => TypeOK
    BY DEF RingInv
  <1> QED
    BY <1>1, RingInductive, PTL

(* A frame that was stored stays whole, where the driver will look for it,    *)
(* until it is taken.                                                        *)
THEOREM RingUnreadIntact == Spec => []UnreadIntact
  <1>1. RingInv => UnreadIntact
    <2> SUFFICES ASSUME RingInv, NEW k \in (polled + 1)..Len(accepted)
                 PROVE  /\ k = polled + 1 => rd = starts[k] % Ring
                        /\ Whole(k)
      BY DEF UnreadIntact, Whole
    <2>1. k = polled + 1 => rd = starts[k] % Ring
      BY DEF RingInv, PointerInv, Taken
    <2>2. /\ Len(accepted) \in Nat /\ polled \in 0..Len(accepted)
          /\ Taken <= starts[k] /\ Written - Taken < Ring
          /\ Taken \in Nat /\ Written \in Nat
          /\ \A m \in 1..(Len(accepted) + 1) : starts[m] \in Nat
      BY StartsType DEF RingInv, PointerInv
    <2>3. k \in 1..Len(accepted) /\ starts[k] \in Nat
      BY <2>2
    <2>4. Written - starts[k] <= Ring
      BY <2>2, <2>3, RingType
    <2> QED
      BY <2>1, <2>3, <2>4 DEF RingInv, MemoryInv
  <1> QED
    BY <1>1, RingInductive, PTL

(* The caller reads the data of the frame it was given, until the card has    *)
(* come round.                                                               *)
THEOREM RingHeldIntact == Spec => []HeldIntact
  <1>1. RingInv => HeldIntact
    <2> SUFFICES ASSUME RingInv, held # Nothing, ~Crosses, ~Overrun,
                        NEW i \in 0..(held.len - 1)
                 PROVE  mem[held.at + i] = Byte(held.frame, "data", i)
      BY DEF HeldIntact
    <2> DEFINE k == held.frame
               n == accepted[held.frame]
               r == starts[held.frame] % Ring
    <2>1. /\ k = polled /\ k # 0 /\ held.at = r + 4 /\ held.len = n - 4
      BY DEF RingInv, HeldInv
    <2>2. /\ Len(accepted) \in Nat /\ polled \in 0..Len(accepted)
          /\ \A m \in 1..(Len(accepted) + 1) : starts[m] \in Nat
          /\ Written \in Nat
      BY StartsType DEF RingInv
    <2>3. k \in 1..Len(accepted) /\ starts[k] \in Nat
      BY <2>1, <2>2
    <2>4. n \in Nat /\ n >= 4
      BY <2>3, AcceptedType DEF RingInv
    <2>5. Written - starts[k] <= Ring
      BY <2>2, <2>3, RingType DEF Overrun, Written
    <2>6. Whole(k)
      BY <2>3, <2>5 DEF RingInv, MemoryInv
    <2>7. r \in 0..(Ring - 1)
      BY <2>3, RingType, ModType
    <2> HIDE DEF k, n, r
    <2>8. /\ i + 4 \in 0..(n + 3) /\ ~(i + 4 < 4) /\ i + 4 < n /\ i + 4 - 4 = i
          /\ r + (i + 4) \in 0..(Ring - 1) /\ (r + 4) + i = r + (i + 4)
          /\ i + 4 \in Int
      BY <2>1, <2>4, <2>7, RingType DEF Crosses
    <2>9. mem[(starts[k] + (i + 4)) % Ring] = Byte(k, "data", i)
      <3>1. mem[(starts[k] + (i + 4)) % Ring] = FrameByte(k, n, i + 4)
        BY <2>6, <2>8 DEF Whole, k, n
      <3> QED
        BY <2>8, <3>1 DEF FrameByte
    <2>10. (starts[k] + (i + 4)) % Ring = r + (i + 4)
      <3>1. starts[k] \in Int
        BY <2>3
      <3>2. ((starts[k] % Ring) + (i + 4)) % Ring = (starts[k] + (i + 4)) % Ring
        BY <2>8, <3>1, RingType, ModSum, Zenon
      <3>3. (r + (i + 4)) % Ring = r + (i + 4)
        BY <2>8, RingType, ModSmall, Zenon
      <3> QED
        BY <3>2, <3>3 DEF r, k
    <2> QED
      BY <2>1, <2>8, <2>9, <2>10 DEF k
  <1> QED
    BY <1>1, RingInductive, PTL

(* The ring implements the queue of frames that the network calls and TCP     *)
(* are modelled on.                                                          *)
THEOREM RingImplementsQueue == Spec => ImplementsQueue
  <1> DEFINE queue == [i \in 1..(Len(accepted) - polled) |-> polled + i]
             current == held.frame
  <1>1. Init => Q!Init
    <2> SUFFICES ASSUME Init PROVE queue = <<>> /\ current = 0
      BY DEF Q!Init
    <2>1. Len(accepted) = 0 /\ polled = 0 /\ held.frame = 0
      BY DEF Init, Nothing
    <2> QED
      BY <2>1
  <1>2. RingInv /\ [Next]_vars => [Q!Next]_<<queue, current>>
    <2> SUFFICES ASSUME RingInv, [Next]_vars PROVE [Q!Next]_<<queue, current>>
      OBVIOUS
    <2>0. Len(accepted) \in Nat /\ polled \in 0..Len(accepted)
      BY StartsType DEF RingInv
    <2>1. ASSUME NEW n \in Lengths, Receive(n) PROVE Q!Next
      <3>1. /\ Len(accepted') = Len(accepted) + 1 /\ polled' = polled
            /\ Len(accepted) < MaxFrames
        BY <2>1, ReceiveHistory DEF Receive
      <3>2. Len(accepted) + 1 \in 1..MaxFrames /\ held' = held
        BY <2>0, <2>1, <3>1, RingAssumption DEF Receive
      <3>3. queue' = Append(queue, Len(accepted) + 1)
        BY <2>0, <3>1
      <3> HIDE DEF queue
      <3>4. \E f \in 1..MaxFrames : queue' = Append(queue, f) /\ current' = current
        BY <3>2, <3>3
      <3> QED
        BY <3>4 DEF Q!Next, Q!Arrive, queue
    <2>2. ASSUME Poll PROVE Q!Next
      <3>1. /\ polled + 1 \in 1..Len(accepted) /\ polled' = polled + 1
            /\ held'.frame = polled + 1 /\ accepted' = accepted
        BY <2>2, PollTakes
      <3>2. queue # <<>> /\ Head(queue) = polled + 1
        <4>1. /\ queue \in [1..(Len(accepted) - polled) -> Nat]
              /\ 1 \in 1..(Len(accepted) - polled) /\ Len(accepted) - polled \in Nat
          BY <2>0, <3>1
        <4>2. queue \in Seq(Nat) /\ Len(queue) = Len(accepted) - polled
          BY <4>1
        <4>3. queue[1] = polled + 1
          BY <4>1
        <4> HIDE DEF queue
        <4> QED
          BY <4>1, <4>2, <4>3
      <3>3. queue' = Tail(queue)
        BY <2>0, <3>1
      <3>4. Q!Take
        BY <3>1, <3>2, <3>3 DEF Q!Take
      <3> QED
        BY <3>4 DEF Q!Next
    <2>3. ASSUME Release PROVE Q!Next
      <3>1. /\ held.frame # 0 /\ held'.frame = 0
            /\ UNCHANGED <<accepted, polled>>
        BY <2>3 DEF Release, Nothing, RingInv, HeldInv
      <3>2. Q!Finish
        BY <3>1 DEF Q!Finish
      <3> QED
        BY <3>2 DEF Q!Next
    <2>4. CASE UNCHANGED vars
      BY <2>4 DEF vars
    <2> QED
      BY <2>1, <2>2, <2>3, <2>4 DEF Next
  <1> QED
    BY <1>1, <1>2, RingInductive, PTL DEF Spec, ImplementsQueue, Q!Spec

=============================================================================
