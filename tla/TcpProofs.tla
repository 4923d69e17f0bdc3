------------------------------ MODULE TcpProofs ------------------------------
(***************************************************************************)
(* Proofs about module Tcp, for every stream and buffer, every modulus that *)
(* leaves room for them, and any number of losses and repetitions: types,   *)
(* that the driver acknowledges nothing that was not sent, that without     *)
(* losses it shows what it acknowledges and in the order of the stream, and *)
(* that it acknowledges a FIN it takes note of.                             *)
(***************************************************************************)
EXTENDS Tcp, TLAPS, FiniteSetTheorems

-----------------------------------------------------------------------------
(* Sequence numbers. *)

LEMMA ModulusType ==
    /\ M \in Int /\ M > 0 /\ M \in Nat /\ 2 * Stream + 4 < M /\ Stream \in Nat
    /\ PeerISN \in Int /\ PeerISN \in 0..(M - 1)
  BY TcpAssumption

LEMMA ModType ==
    ASSUME NEW x \in Int
    PROVE  x % M \in 0..(M - 1)
  BY ModulusType

LEMMA QuotientType ==
    ASSUME NEW x \in Int
    PROVE  x \div M \in Int
  BY ModulusType

LEMMA Division ==
    ASSUME NEW x \in Int
    PROVE  x = M * (x \div M) + (x % M)
  BY ModulusType

LEMMA ModUnique ==
    ASSUME NEW q \in Int, NEW r \in 0..(M - 1)
    PROVE  (M * q + r) % M = r
  BY ModulusType

(* Numbers below the modulus, and those one round away from that.            *)
LEMMA ModSmall ==
    ASSUME NEW x \in 0..(M - 1)
    PROVE  x % M = x
  BY ModulusType

(* Whole rounds do not matter.                                               *)
LEMMA ModShift ==
    ASSUME NEW x \in Int, NEW k \in Int
    PROVE  (x + M * k) % M = x % M
  <1> DEFINE q == x \div M
             r == x % M
  <1>1. q \in Int /\ r \in 0..(M - 1) /\ x = M * q + r /\ r = x % M
    BY QuotientType, Division, ModType
  <1> HIDE DEF q, r
  <1>2. x + M * k = M * (q + k) + r
    BY <1>1, ModulusType
  <1>3. (M * (q + k) + r) % M = r
    BY <1>1, ModUnique
  <1> QED
    BY <1>2, <1>3 DEF r

(* A remainder may be taken of a part of a sum first.                        *)
LEMMA ModSum ==
    ASSUME NEW x \in Int, NEW y \in Int
    PROVE  ((x % M) + y) % M = (x + y) % M
  <1> DEFINE q == x \div M
             r == x % M
             z == r + y
  <1>1. q \in Int /\ r \in 0..(M - 1) /\ x = M * q + r /\ r = x % M
    BY QuotientType, Division, ModType
  <1> HIDE DEF q, r
  <1>2. z \in Int /\ x + y = z + M * q /\ z = (x % M) + y
    BY <1>1, ModulusType
  <1> HIDE DEF z
  <1>3. (z + M * q) % M = z % M
    BY <1>1, <1>2, ModShift
  <1> QED
    BY <1>2, <1>3

LEMMA NumberType ==
    ASSUME NEW k \in Nat
    PROVE  Number(k) \in 0..(M - 1)
  <1>1. PeerISN + 1 + k \in Int
    BY ModulusType
  <1> QED
    BY <1>1, ModulusType, ModType DEF Number

LEMMA OffsetType ==
    ASSUME NEW n \in Int
    PROVE  Offset(n) \in 0..(M - 1)
  <1>1. n - PeerISN - 1 \in Int
    BY ModulusType
  <1> QED
    BY <1>1, ModulusType, ModType DEF Offset

(* The number of a byte tells which one it is. *)
LEMMA OffsetOfNumber ==
    ASSUME NEW k \in 0..(Stream + 2)
    PROVE  Offset(Number(k)) = k
  <1> DEFINE x == PeerISN + 1 + k
             y == 0 - (PeerISN + 1)
  <1>1. x \in Int /\ y \in Int /\ x + y = k /\ k \in 0..(M - 1)
    BY ModulusType
  <1>2. x % M \in Int
    <2>1. x % M \in 0..(M - 1)
      BY <1>1, ModulusType, ModType
    <2> QED
      BY <2>1
  <1>3. ((x % M) - PeerISN) - 1 = (x % M) + y
    BY <1>2, ModulusType
  <1> HIDE DEF x, y
  <1>4. ((x % M) + y) % M = (x + y) % M
    BY <1>1, ModulusType, ModSum, Zenon
  <1>5. k % M = k
    BY <1>1, ModulusType, ModSmall, Zenon
  <1> QED
    BY <1>1, <1>3, <1>4, <1>5 DEF Offset, Number, x

LEMMA NumberPlus ==
    ASSUME NEW k \in Nat, NEW d \in Nat
    PROVE  (Number(k) + d) % M = Number(k + d)
  <1> DEFINE x == PeerISN + 1 + k
  <1>1. x \in Int /\ d \in Int /\ x + d = PeerISN + 1 + (k + d)
    BY ModulusType
  <1>2. Number(k) = x % M
    BY DEF Number
  <1> HIDE DEF x
  <1>3. ((x % M) + d) % M = (x + d) % M
    BY <1>1, ModulusType, ModSum, Zenon
  <1> QED
    BY <1>1, <1>2, <1>3 DEF Number

LEMMA MaxOfTwo ==
    ASSUME NEW a \in Nat, NEW b \in Nat
    PROVE  Max({a, b}) \in {a, b} /\ a <= Max({a, b}) /\ b <= Max({a, b})
  BY DEF Max

LEMMA MinOfTwo ==
    ASSUME NEW a \in Nat, NEW b \in Nat
    PROVE  Min({a, b}) \in {a, b} /\ Min({a, b}) <= a /\ Min({a, b}) <= b
  BY DEF Min

LEMMA AppendSeq ==
    ASSUME NEW S, NEW s \in Seq(S), NEW e \in S
    PROVE  /\ Append(s, e) \in Seq(S)
           /\ Len(Append(s, e)) = Len(s) + 1
           /\ \A k \in 1..Len(s) : Append(s, e)[k] = s[k]
           /\ Append(s, e)[Len(s) + 1] = e
  OBVIOUS

-----------------------------------------------------------------------------
(* The inductive invariant. *)

(* How far acknowledgements may go: the bytes sent, and the FIN.              *)
Reach(p) == p.sent + (IF p.fin = "no" THEN 0 ELSE 1)

(* What a segment on its way says of a peer that sent it.                     *)
Honest(s, p) ==
    /\ s.syn => s.rseq = PeerISN
    /\ s.fin => p.fin # "no"
    /\ s.len = 1 => \E k \in Nat : /\ k < p.sent /\ s.rseq = Number(k)
                                   /\ s.fin => k + 1 = Stream

QueueInv ==
    /\ \A m \in 1..Len(queue) : Honest(queue[m], peer)
    /\ current # NoFrame => Honest(current, peer) /\ ~peer_fin

(* While the driver goes on receiving, ack is behind a byte that was sent.    *)
AckInv ==
    /\ peer.fin # "no" => peer.sent = Stream
    /\ at \notin {"shell", "connect"} /\ ~peer_fin =>
          \E j \in Nat : j <= peer.sent /\ ack = Number(j)
    /\ told <= Reach(peer)

TcpInv == TypeOK /\ QueueInv /\ AckInv

LEMMA TcpInit == Init => TcpInv
  <1> SUFFICES ASSUME Init PROVE TcpInv
    OBVIOUS
  <1> USE TcpAssumption DEF Init
  <1>1. queue = <<>> /\ current = NoFrame
    BY DEF Q!Init
  <1>2. TypeOK
    <2>1. queue \in Seq(Segment) /\ Len(queue) <= MaxQueue
      BY <1>1
    <2>2. shown \in Seq(0..(Stream - 1)) /\ told \in 0..(Stream + 1)
      OBVIOUS
    <2>3. peer \in [state : {"listen", "half", "open"}, sent : 0..Stream,
                    fin : {"no", "alone", "riding"}, heard : 0..(Stream + 1), repeats : Nat]
      OBVIOUS
    <2>4. seq \in 0..(M - 1) /\ ack \in 0..(M - 1) /\ total \in 0..(BufSize - 1)
      OBVIOUS
    <2> QED
      BY <1>1, <2>1, <2>2, <2>3, <2>4 DEF TypeOK
  <1>3. QueueInv
    BY <1>1 DEF QueueInv
  <1>4. AckInv
    BY DEF AckInv, Reach
  <1> QED
    BY <1>2, <1>3, <1>4 DEF TcpInv

-----------------------------------------------------------------------------
(* What the invariant says of the parts of the state. *)

Places == Waits \cup {"shell", "send", "type", "over"}
Peers == [state : {"listen", "half", "open"}, sent : 0..Stream,
          fin : {"no", "alone", "riding"}, heard : 0..(Stream + 1), repeats : Nat]

LEMMA SegmentFields ==
    ASSUME NEW s \in Segment
    PROVE  s # NoFrame /\ s.len \in {0, 1} /\ s.rseq \in 0..(M - 1)
           /\ s.fin \in BOOLEAN /\ s.syn \in BOOLEAN
  <1>1. s.rseq \in 0..(M - 1) /\ s.len \in 0..1 /\ s.fin \in BOOLEAN /\ s.syn \in BOOLEAN
    BY DEF Segment
  <1>2. s.rseq # -1
    BY <1>1, ModulusType
  <1> QED
    BY <1>1, <1>2 DEF NoFrame

LEMMA PeerFields ==
    ASSUME NEW p \in Peers
    PROVE  /\ p.sent \in 0..Stream /\ p.sent \in Nat /\ Reach(p) \in 0..(Stream + 1)
           /\ p.sent <= Reach(p)
           /\ p.fin # "no" => Reach(p) = p.sent + 1
  BY ModulusType DEF Peers, Reach

LEMMA PeerUpdates ==
    ASSUME NEW p \in Peers
    PROVE  /\ [p EXCEPT !.repeats = p.repeats + 1] \in Peers
           /\ [p EXCEPT !.state = "half", !.repeats = p.repeats + 1] \in Peers
           /\ [p EXCEPT !.state = "open", !.repeats = 0] \in Peers
           /\ \A heard \in 0..(Stream + 1) : [p EXCEPT !.heard = heard] \in Peers
           /\ \A sent \in 0..Stream, fin \in {"no", "alone", "riding"} :
                  [p EXCEPT !.sent = sent, !.fin = fin] \in Peers
  <1>1. p.repeats \in Nat /\ p.repeats + 1 \in Nat
    BY DEF Peers
  <1>2. [p EXCEPT !.repeats = p.repeats + 1] \in Peers
    BY <1>1 DEF Peers
  <1>3. [p EXCEPT !.state = "half", !.repeats = p.repeats + 1] \in Peers
    BY <1>1 DEF Peers
  <1>4. [p EXCEPT !.state = "open", !.repeats = 0] \in Peers
    BY DEF Peers
  <1>5. ASSUME NEW heard \in 0..(Stream + 1) PROVE [p EXCEPT !.heard = heard] \in Peers
    BY DEF Peers
  <1>6. ASSUME NEW sent \in 0..Stream, NEW fin \in {"no", "alone", "riding"}
        PROVE  [p EXCEPT !.sent = sent, !.fin = fin] \in Peers
    BY DEF Peers
  <1> QED
    BY <1>2, <1>3, <1>4, <1>5, <1>6

(* A peer that has sent more bears out all that it has sent before.          *)
LEMMA HonestGrows ==
    ASSUME NEW s, NEW p \in Peers, NEW q \in Peers, p.sent <= q.sent,
           p.fin # "no" => q.fin # "no", Honest(s, p)
    PROVE  Honest(s, q)
  <1>1. p.sent \in Nat /\ q.sent \in Nat
    BY PeerFields
  <1> QED
    BY <1>1 DEF Honest

(* A step of the peer or the link: the driver's state stays, the queue may   *)
(* grow by an honest segment.                                                *)
LEMMA PeerStep ==
    ASSUME TcpInv, peer' \in Peers, peer.sent <= peer'.sent,
           peer.fin # "no" => peer'.fin # "no", peer'.fin # "no" => peer'.sent = Stream,
           queue' \in Seq(Segment), Len(queue') <= MaxQueue,
           \A m \in 1..Len(queue') : Honest(queue'[m], peer'),
           UNCHANGED <<current, at, app, expired, conn, total, told, shown>>,
           lost' \in BOOLEAN
    PROVE  TcpInv'
  <1>1. peer \in Peers /\ told \in 0..(Stream + 1)
    BY DEF TcpInv, TypeOK, Peers
  <1>2. UNCHANGED <<seq, ack, peer_fin>>
    BY DEF conn
  <1>3. TypeOK'
    <2>1. /\ current' \in Segment \cup {NoFrame}
          /\ at' \in Waits \cup {"shell", "send", "type", "over"}
          /\ app' \in {"nettest", "ncat"}
      BY DEF TcpInv, TypeOK
    <2>2. seq' \in 0..(M - 1) /\ ack' \in 0..(M - 1) /\ {expired', peer_fin', lost'} \subseteq BOOLEAN
      BY <1>2 DEF TcpInv, TypeOK
    <2>3. total' \in 0..(BufSize - 1) /\ shown' \in Seq(0..(Stream - 1)) /\ told' \in 0..(Stream + 1)
      BY DEF TcpInv, TypeOK
    <2> QED
      BY <2>1, <2>2, <2>3 DEF TypeOK, Peers
  <1>4. QueueInv'
    <2>1. current # NoFrame => Honest(current, peer) /\ ~peer_fin
      BY DEF TcpInv, QueueInv
    <2>2. current # NoFrame => Honest(current, peer')
      BY <1>1, <2>1, HonestGrows
    <2> QED
      BY <1>2, <2>1, <2>2 DEF QueueInv
  <1>5. AckInv'
    <2>1. told' <= Reach(peer')
      <3>1. told <= Reach(peer) /\ (peer.fin # "no" => peer.sent = Stream)
        BY DEF TcpInv, AckInv
      <3>2. Reach(peer) <= Reach(peer')
        BY <1>1, ModulusType DEF Peers, Reach
      <3>3. Reach(peer) \in Int /\ Reach(peer') \in Int
        BY <1>1, PeerFields
      <3> QED
        BY <1>1, <3>1, <3>2, <3>3
    <2>2. at \notin {"shell", "connect"} /\ ~peer_fin =>
              \E j \in Nat : j <= peer'.sent /\ ack = Number(j)
      <3>1. peer.sent \in Nat /\ peer'.sent \in Nat
        BY <1>1, PeerFields
      <3> QED
        BY <3>1 DEF TcpInv, AckInv
    <2> QED
      BY <1>2, <2>1, <2>2 DEF AckInv, Number
  <1> QED
    BY <1>3, <1>4, <1>5 DEF TcpInv

(* The link keeps an honest segment or loses it.                             *)
LEMMA TransmitStep ==
    ASSUME TcpInv, NEW s \in Segment, Transmit(s), peer' \in Peers,
           peer.sent <= peer'.sent, peer.fin # "no" => peer'.fin # "no",
           peer'.fin # "no" => peer'.sent = Stream, Honest(s, peer')
    PROVE  TcpInv'
  <1>1. /\ UNCHANGED <<at, app, expired, conn, total, wire, told, shown>>
        /\ \/ Len(queue) < MaxQueue /\ Q!Arrive(s) /\ UNCHANGED lost
           \/ lost' = TRUE /\ UNCHANGED <<queue, current>>
    BY DEF Transmit
  <1>2. queue \in Seq(Segment) /\ Len(queue) <= MaxQueue /\ lost \in BOOLEAN /\ peer \in Peers
    BY DEF TcpInv, TypeOK, Peers
  <1>3. lost' \in BOOLEAN
    BY <1>1, <1>2
  <1>4. \A m \in 1..Len(queue) : Honest(queue[m], peer')
    BY <1>2, HonestGrows DEF TcpInv, QueueInv
  <1>5. CASE Len(queue) < MaxQueue /\ Q!Arrive(s)
    <2>1. queue' = Append(queue, s) /\ current' = current
      BY <1>5 DEF Q!Arrive
    <2>2. /\ queue' \in Seq(Segment) /\ Len(queue') = Len(queue) + 1
          /\ \A m \in 1..Len(queue) : queue'[m] = queue[m]
          /\ queue'[Len(queue) + 1] = s
      BY <1>2, <2>1, AppendSeq
    <2>3. Len(queue) \in Nat /\ MaxQueue \in Nat
      BY <1>2, TcpAssumption
    <2>4. Len(queue') <= MaxQueue
      BY <1>5, <2>2, <2>3
    <2>5. \A m \in 1..Len(queue') : Honest(queue'[m], peer')
      BY <1>4, <2>2, <2>3
    <2> QED
      BY <1>1, <1>3, <2>1, <2>2, <2>4, <2>5, PeerStep
  <1>6. CASE UNCHANGED <<queue, current>>
    BY <1>1, <1>2, <1>3, <1>4, <1>6, PeerStep
  <1> QED
    BY <1>1, <1>5, <1>6


-----------------------------------------------------------------------------
(* The steps of the peer. *)

(* The segments the peer sends say nothing but the truth of it.              *)
LEMMA DataHonest ==
    ASSUME NEW p \in Peers, NEW k \in 0..(Stream - 1), k < p.sent, NEW fin \in BOOLEAN,
           fin => p.fin # "no" /\ k + 1 = Stream
    PROVE  Data(k, fin) \in Segment /\ Honest(Data(k, fin), p)
  <1>1. k \in Nat /\ Number(k) \in 0..(M - 1)
    BY ModulusType, NumberType
  <1>2. Data(k, fin) \in Segment
    BY <1>1 DEF Data, Segment
  <1> QED
    BY <1>1, <1>2 DEF Data, Honest

LEMMA FinHonest ==
    ASSUME NEW p \in Peers, p.fin # "no"
    PROVE  Fin \in Segment /\ Honest(Fin, p)
  <1>1. Number(Stream) \in 0..(M - 1)
    BY ModulusType, NumberType
  <1> QED
    BY <1>1 DEF Fin, Segment, Honest

LEMMA PeerType == TcpInv => peer \in Peers /\ (peer.fin # "no" => peer.sent = Stream)
  BY DEF TcpInv, TypeOK, AckInv, Peers

LEMMA PeerAcceptStep == ASSUME TcpInv, PeerAccept PROVE TcpInv'
  <1>1. peer \in Peers /\ (peer.fin # "no" => peer.sent = Stream) /\ peer.sent \in Nat
    BY PeerType, PeerFields
  <1>2. CASE /\ peer' = [peer EXCEPT !.state = "half", !.repeats = @ + 1]
             /\ Transmit([syn |-> TRUE, fin |-> FALSE, len |-> 0, rseq |-> PeerISN])
    <2> DEFINE s == [syn |-> TRUE, fin |-> FALSE, len |-> 0, rseq |-> PeerISN]
    <2>1. s \in Segment
      BY ModulusType DEF Segment
    <2>2. Honest(s, peer')
      BY DEF Honest
    <2>3. peer' \in Peers /\ peer'.sent = peer.sent /\ peer'.fin = peer.fin
      <3>1. peer' \in Peers
        BY <1>1, <1>2, PeerUpdates
      <3> QED
        BY <1>1, <1>2, <3>1 DEF Peers
    <2> HIDE DEF s
    <2>4. peer.sent <= peer'.sent
      BY <1>1, <2>3
    <2>5. Transmit(s)
      BY <1>2 DEF s
    <2> QED
      BY <1>1, <2>1, <2>2, <2>3, <2>4, <2>5, TransmitStep
  <1>3. CASE /\ peer' = [peer EXCEPT !.repeats = @ + 1]
             /\ Transmit([syn |-> FALSE, fin |-> FALSE, len |-> 0, rseq |-> 0])
    <2> DEFINE s == [syn |-> FALSE, fin |-> FALSE, len |-> 0, rseq |-> 0]
    <2>1. s \in Segment
      BY ModulusType DEF Segment
    <2>2. Honest(s, peer')
      BY DEF Honest
    <2>3. peer' \in Peers /\ peer'.sent = peer.sent /\ peer'.fin = peer.fin
      BY <1>1, <1>3 DEF Peers
    <2> HIDE DEF s
    <2>4. peer.sent <= peer'.sent
      BY <1>1, <2>3
    <2>5. Transmit(s)
      BY <1>3 DEF s
    <2> QED
      BY <1>1, <2>1, <2>2, <2>3, <2>4, <2>5, TransmitStep
  <1> QED
    BY <1>2, <1>3 DEF PeerAccept

LEMMA PeerHearStep == ASSUME TcpInv, PeerHear PROVE TcpInv'
  <1>1. /\ peer \in Peers /\ (peer.fin # "no" => peer.sent = Stream) /\ peer.sent \in Nat
        /\ told \in 0..(Stream + 1)
        /\ queue \in Seq(Segment) /\ Len(queue) <= MaxQueue /\ lost \in BOOLEAN
    BY PeerType, PeerFields DEF TcpInv, TypeOK
  <1>2. \/ peer' = [peer EXCEPT !.state = "open", !.repeats = 0]
        \/ peer' = [peer EXCEPT !.heard = told]
    BY DEF PeerHear
  <1>3. UNCHANGED <<queue, current, at, app, expired, conn, total, told, shown, lost>>
    BY DEF PeerHear
  <1>4. peer' \in Peers /\ peer'.sent = peer.sent /\ peer'.fin = peer.fin
    <2>1. peer' \in Peers
      BY <1>1, <1>2, PeerUpdates
    <2> QED
      BY <1>1, <1>2, <2>1 DEF Peers
  <1>5. peer.sent <= peer'.sent
    BY <1>1, <1>4
  <1>6. \A m \in 1..Len(queue) : Honest(queue[m], peer')
    BY <1>1, <1>4, <1>5, HonestGrows DEF TcpInv, QueueInv
  <1> QED
    BY <1>1, <1>3, <1>4, <1>5, <1>6, PeerStep

LEMMA PeerSendStep == ASSUME TcpInv, PeerSend PROVE TcpInv'
  <1>1. peer \in Peers /\ peer.sent \in 0..(Stream - 1) /\ peer.fin = "no"
    <2>1. peer \in Peers /\ (peer.fin # "no" => peer.sent = Stream) /\ peer.sent \in Nat
      BY PeerType, PeerFields
    <2>2. peer.sent < Stream
      BY DEF PeerSend
    <2> QED
      BY <2>1, <2>2, ModulusType
  <1>2. PICK fin \in {"no", "riding"} :
            /\ fin = "riding" => peer.sent + 1 = Stream
            /\ peer' = [peer EXCEPT !.sent = @ + 1, !.fin = fin]
            /\ Transmit(Data(peer.sent, fin = "riding"))
    BY DEF PeerSend
  <1>3. peer' \in Peers /\ peer'.sent = peer.sent + 1 /\ peer'.fin = fin
    <2>1. peer.sent + 1 \in 0..Stream
      BY <1>1, ModulusType
    <2>2. peer' \in Peers
      BY <1>1, <1>2, <2>1, PeerUpdates
    <2> QED
      BY <1>1, <1>2, <2>2 DEF Peers
  <1>4. /\ peer.sent <= peer'.sent /\ peer.sent < peer'.sent
        /\ peer'.fin # "no" => peer'.sent = Stream
    BY <1>1, <1>2, <1>3
  <1>5. Data(peer.sent, fin = "riding") \in Segment /\ Honest(Data(peer.sent, fin = "riding"), peer')
    <2>1. (fin = "riding") \in BOOLEAN /\ (fin = "riding" => peer'.fin # "no" /\ peer.sent + 1 = Stream)
      BY <1>2, <1>3
    <2> QED
      BY <1>1, <1>3, <1>4, <2>1, DataHonest
  <1> QED
    BY <1>1, <1>2, <1>3, <1>4, <1>5, TransmitStep

LEMMA PeerFinStep == ASSUME TcpInv, PeerFin PROVE TcpInv'
  <1>1. /\ peer \in Peers /\ peer.sent = Stream /\ peer.fin = "no"
        /\ peer' = [peer EXCEPT !.fin = "alone"] /\ Transmit(Fin)
    BY PeerType DEF PeerFin
  <1>2. peer' \in Peers /\ peer'.sent = Stream /\ peer'.fin = "alone"
    BY <1>1 DEF Peers
  <1>3. Fin \in Segment /\ Honest(Fin, peer')
    BY <1>2, FinHonest
  <1>4. peer.sent <= peer'.sent /\ (peer'.fin # "no" => peer'.sent = Stream)
    BY <1>1, <1>2, ModulusType
  <1> QED
    BY <1>1, <1>2, <1>3, <1>4, TransmitStep

LEMMA PeerRepeatStep == ASSUME TcpInv, PeerRepeat PROVE TcpInv'
  <1>1. /\ peer \in Peers /\ (peer.fin # "no" => peer.sent = Stream)
        /\ peer.sent \in 0..Stream /\ peer.heard \in 0..(Stream + 1)
    BY PeerType DEF Peers
  <1>2. peer' \in Peers /\ peer'.sent = peer.sent /\ peer'.fin = peer.fin /\ peer.sent <= peer'.sent
    <2>1. PICK n \in Nat : peer' = [peer EXCEPT !.repeats = n]
      BY <1>1 DEF PeerRepeat, Peers
    <2> QED
      BY <1>1, <2>1, ModulusType DEF Peers
  <1>3. PICK s \in Segment : Transmit(s) /\ Honest(s, peer')
    <2>1. CASE /\ peer.heard < peer.sent
               /\ Transmit(Data(peer.heard, peer.fin = "riding" /\ peer.heard + 1 = Stream))
      <3> DEFINE fin == peer.fin = "riding" /\ peer.heard + 1 = Stream
      <3>1. fin \in BOOLEAN /\ (fin => peer'.fin # "no" /\ peer.heard + 1 = Stream)
        BY <1>2
      <3>2. peer.heard \in 0..(Stream - 1) /\ peer.heard < peer'.sent
        BY <1>1, <1>2, <2>1, ModulusType
      <3>3. Transmit(Data(peer.heard, fin))
        BY <2>1
      <3> HIDE DEF fin
      <3>4. Data(peer.heard, fin) \in Segment /\ Honest(Data(peer.heard, fin), peer')
        BY <1>2, <3>1, <3>2, DataHonest
      <3> QED
        BY <3>3, <3>4
    <2>2. CASE peer.fin # "no" /\ Transmit(Fin)
      BY <1>2, <2>2, FinHonest
    <2> QED
      BY <2>1, <2>2 DEF PeerRepeat
  <1> QED
    BY <1>1, <1>2, <1>3, TransmitStep


-----------------------------------------------------------------------------
(* The steps of the driver. *)

(* Where ack stands, once the driver has heard from its peer.                *)
AckAt == at \notin {"shell", "connect"} /\ ~peer_fin =>
             \E j \in Nat : j <= peer.sent /\ ack = Number(j)

(* A step that leaves the peer alone, taken apart into what each part of the *)
(* invariant asks of it.                                                     *)
LEMMA DriverStep ==
    ASSUME TcpInv, UNCHANGED <<peer, lost>>,
           queue' \in Seq(Segment), Len(queue') <= MaxQueue,
           current' \in Segment \cup {NoFrame}, QueueInv',
           at' \in Places, app' \in {"nettest", "ncat"},
           expired' \in BOOLEAN, peer_fin' \in BOOLEAN,
           seq' \in 0..(M - 1), ack' \in 0..(M - 1),
           total' \in 0..(BufSize - 1), shown' \in Seq(0..(Stream - 1)),
           told' \in Nat, told' <= Reach(peer), AckAt'
    PROVE  TcpInv'
  <1>1. peer \in Peers /\ peer' = peer /\ lost' \in BOOLEAN
    BY DEF TcpInv, TypeOK, Peers
  <1>2. told' \in 0..(Stream + 1)
    BY <1>1, PeerFields, ModulusType
  <1>3. TypeOK'
    <2>1. {expired', peer_fin', lost'} \subseteq BOOLEAN /\ peer' \in Peers
      BY <1>1
    <2> QED
      BY <1>2, <2>1 DEF TypeOK, Peers, Places
  <1>4. AckInv'
    BY <1>1 DEF AckInv, AckAt, TcpInv, Reach, Number
  <1> QED
    BY <1>3, <1>4 DEF TcpInv

LEMMA DriverFields ==
    ASSUME TcpInv
    PROVE  /\ queue \in Seq(Segment) /\ Len(queue) <= MaxQueue
           /\ current \in Segment \cup {NoFrame}
           /\ at \in Places /\ app \in {"nettest", "ncat"}
           /\ expired \in BOOLEAN /\ peer_fin \in BOOLEAN
           /\ seq \in 0..(M - 1) /\ ack \in 0..(M - 1)
           /\ total \in 0..(BufSize - 1) /\ shown \in Seq(0..(Stream - 1))
           /\ told \in Nat /\ told <= Reach(peer) /\ AckAt
  <1>1. told \in 0..(Stream + 1) /\ told <= Reach(peer) /\ AckAt
    BY DEF TcpInv, TypeOK, AckInv, AckAt
  <1>2. told \in Nat
    BY <1>1
  <1>3. expired \in BOOLEAN /\ peer_fin \in BOOLEAN
    BY DEF TcpInv, TypeOK
  <1> QED
    BY <1>1, <1>2, <1>3 DEF TcpInv, TypeOK, Places

(* The queue of a step that takes no frame.                                  *)
LEMMA QueueStays ==
    ASSUME TcpInv, UNCHANGED <<queue, current, peer>>, peer_fin' \in {FALSE, peer_fin}
    PROVE  QueueInv'
  <1>1. queue' = queue /\ current' = current /\ peer' = peer
    OBVIOUS
  <1>2. /\ \A m \in 1..Len(queue) : Honest(queue[m], peer)
        /\ current # NoFrame => Honest(current, peer) /\ ~peer_fin
    BY DEF TcpInv, QueueInv
  <1>3. ~peer_fin => ~peer_fin'
    <2>1. CASE peer_fin' = FALSE
      BY <2>1
    <2>2. CASE peer_fin' = peer_fin
      BY <2>2
    <2> QED
      BY <2>1, <2>2
  <1> QED
    BY <1>1, <1>2, <1>3 DEF QueueInv

(* ... and of one that is through with its frame.                            *)
LEMMA FrameDone ==
    ASSUME TcpInv, Q!Finish, UNCHANGED peer
    PROVE  /\ QueueInv' /\ queue' \in Seq(Segment) /\ Len(queue') <= MaxQueue
           /\ current' \in Segment \cup {NoFrame}
           /\ current \in Segment /\ Honest(current, peer) /\ peer_fin = FALSE
  <1>1. current # NoFrame /\ current' = NoFrame /\ queue' = queue
    BY DEF Q!Finish
  <1>2. QueueInv'
    BY <1>1 DEF TcpInv, QueueInv, Honest, Number
  <1>3. Honest(current, peer) /\ ~peer_fin /\ peer_fin \in BOOLEAN
    BY <1>1, DriverFields DEF TcpInv, QueueInv
  <1> QED
    BY <1>1, <1>2, <1>3, DriverFields

LEMMA TickStep == ASSUME TcpInv, Tick PROVE TcpInv'
  <1>1. UNCHANGED <<queue, current, at, app, seq, ack, peer_fin, total, peer, told, shown, lost>>
        /\ expired' = TRUE
    BY DEF Tick, conn
  <1>2. QueueInv'
    BY <1>1, QueueStays
  <1>3. AckAt'
    BY <1>1, DriverFields DEF AckAt, Number
  <1> QED
    BY <1>1, <1>2, <1>3, DriverFields, DriverStep

LEMMA ConnectStep == ASSUME TcpInv, NEW a \in {"nettest", "ncat"}, Connect(a) PROVE TcpInv'
  <1>1. /\ UNCHANGED <<queue, current, peer, told, shown, lost>>
        /\ app' = a /\ at' = "connect" /\ expired' = FALSE
        /\ seq' = (OurISN + 1) % M /\ ack' = 0 /\ peer_fin' = FALSE /\ total' = 0
    BY DEF Connect, Wait
  <1>2. QueueInv'
    BY <1>1, QueueStays
  <1>3. AckAt' /\ at' \in Places
    BY <1>1 DEF AckAt, Places, Waits
  <1>4. seq' \in 0..(M - 1)
    <2>1. OurISN + 1 \in Int
      BY TcpAssumption
    <2> QED
      BY <1>1, <2>1, ModulusType, ModType
  <1>5. ack' \in 0..(M - 1) /\ total' \in 0..(BufSize - 1)
    BY <1>1, TcpAssumption
  <1>6. expired' \in BOOLEAN /\ peer_fin' \in BOOLEAN /\ app' \in {"nettest", "ncat"}
    BY <1>1
  <1> QED
    BY <1>1, <1>2, <1>3, <1>4, <1>5, <1>6, DriverFields, DriverStep

LEMMA PollStep == ASSUME TcpInv, Poll PROVE TcpInv'
  <1>1. /\ UNCHANGED <<at, app, expired, seq, ack, peer_fin, total, peer, told, shown, lost>>
        /\ queue # <<>> /\ current' = Head(queue) /\ queue' = Tail(queue) /\ ~peer_fin
    BY DEF Poll, conn, Q!Take
  <1>2. /\ queue \in Seq(Segment) /\ Len(queue) <= MaxQueue
        /\ \A m \in 1..Len(queue) : Honest(queue[m], peer)
    BY DriverFields DEF TcpInv, QueueInv
  <1>3. /\ queue' \in Seq(Segment) /\ Len(queue') = Len(queue) - 1
        /\ \A m \in 1..Len(queue') : queue'[m] = queue[m + 1]
        /\ current' = queue[1] /\ current' \in Segment /\ Len(queue) \in Nat /\ Len(queue) > 0
    BY <1>1, <1>2
  <1>4. Len(queue') <= MaxQueue
    BY <1>2, <1>3, TcpAssumption
  <1>5. QueueInv'
    <2>1. \A m \in 1..Len(queue') : Honest(queue'[m], peer)
      BY <1>2, <1>3
    <2>2. Honest(current', peer)
      BY <1>2, <1>3
    <2> QED
      BY <1>1, <2>1, <2>2 DEF QueueInv
  <1>6. AckAt'
    BY <1>1, DriverFields DEF AckAt, Number
  <1> QED
    BY <1>1, <1>3, <1>4, <1>5, <1>6, DriverFields, DriverStep

LEMMA SendDataStep == ASSUME TcpInv, SendData PROVE TcpInv'
  <1>1. /\ UNCHANGED <<queue, current, app, ack, peer_fin, total, peer, told, shown, lost>>
        /\ at = "send" /\ at' \in {"request", "recv"} /\ expired' = FALSE
        /\ seq' = (seq + RequestLen) % M
    BY DEF SendData, Wait
  <1>2. QueueInv'
    BY <1>1, QueueStays
  <1>3. AckAt' /\ at' \in Places
    BY <1>1, DriverFields DEF AckAt, Number, Places, Waits
  <1>4. seq' \in 0..(M - 1)
    <2>1. seq + RequestLen \in Int
      BY DriverFields, TcpAssumption, ModulusType
    <2> QED
      BY <1>1, <2>1, ModulusType, ModType
  <1> QED
    BY <1>1, <1>2, <1>3, <1>4, DriverFields, DriverStep

LEMMA OverStep == ASSUME TcpInv, RequestOver \/ RecvOver PROVE TcpInv'
  <1>1. /\ UNCHANGED <<queue, current, app, expired, seq, ack, peer_fin, total, peer, told, shown, lost>>
        /\ at \in {"request", "drain", "recv"} /\ at' \in {"over", "type"}
    BY DEF RequestOver, RecvOver, conn
  <1>2. QueueInv'
    BY <1>1, QueueStays
  <1>3. AckAt' /\ at' \in Places
    BY <1>1, DriverFields DEF AckAt, Number, Places
  <1> QED
    BY <1>1, <1>2, <1>3, DriverFields, DriverStep

LEMMA LineStep == ASSUME TcpInv, Line PROVE TcpInv'
  <1>1. /\ UNCHANGED <<queue, current, app, expired, ack, peer_fin, total, peer, told, shown, lost>>
        /\ at = "type" /\ at' \in {"over", "send"}
        /\ seq' \in {seq, (seq + 1) % M}
    BY DEF Line
  <1>2. QueueInv'
    BY <1>1, QueueStays
  <1>3. AckAt' /\ at' \in Places
    BY <1>1, DriverFields DEF AckAt, Number, Places
  <1>4. seq' \in 0..(M - 1)
    <2>1. seq + 1 \in Int
      BY DriverFields, ModulusType
    <2> QED
      BY <1>1, <2>1, DriverFields, ModulusType, ModType
  <1> QED
    BY <1>1, <1>2, <1>3, <1>4, DriverFields, DriverStep

LEMMA NotConnectedStep == ASSUME TcpInv, NotConnected PROVE TcpInv'
  <1>1. UNCHANGED <<app, seq, ack, peer_fin, total, peer, told, shown, lost>>
    BY DEF NotConnected, conn
  <1>2. CASE Polled("connect") /\ Q!Finish /\ UNCHANGED <<at, expired>>
    <2>1. AckAt'
      BY <1>1, <1>2, DriverFields DEF AckAt, Number
    <2> QED
      BY <1>1, <1>2, <2>1, DriverFields, FrameDone, DriverStep
  <1>3. CASE at' = "shell" /\ expired' = FALSE /\ UNCHANGED <<queue, current>>
    <2>1. AckAt' /\ at' \in Places
      BY <1>3 DEF AckAt, Places
    <2>2. QueueInv'
      BY <1>1, <1>3, QueueStays
    <2> QED
      BY <1>1, <1>3, <2>1, <2>2, DriverFields, DriverStep
  <1> QED
    BY <1>2, <1>3 DEF NotConnected


(* The request and net_tcp_recv acknowledge what was sent, and it is a byte  *)
(* of the stream that they show.                                             *)
LEMMA AcknowledgeStep ==
    ASSUME TcpInv, current \in Segment, Honest(current, peer), peer_fin = FALSE,
           AckAt, at \notin {"shell", "connect"}, UNCHANGED <<at, peer>>,
           Acknowledge(current)
    PROVE  /\ ack' \in 0..(M - 1) /\ peer_fin' \in BOOLEAN /\ AckAt'
           /\ told' \in Nat /\ told' <= Reach(peer)
           /\ current.len > 0 => Offset(current.rseq) \in 0..(Stream - 1)
  <1> DEFINE s == current
             one == IF s.fin THEN 1 ELSE 0
  <1>1. /\ s.len \in {0, 1} /\ s.fin \in BOOLEAN
        /\ ack' = ((IF s.len > 0 THEN s.rseq + s.len ELSE ack) + one) % M
        /\ IF s.len > 0 \/ s.fin THEN told' = Max({told, Offset(ack')}) ELSE told' = told
        /\ peer_fin' = s.fin
    BY SegmentFields DEF Acknowledge, AckOf, Tell
  <1>2. /\ peer \in Peers /\ peer.sent \in 0..Stream /\ peer.sent \in Nat
        /\ Reach(peer) \in 0..(Stream + 1) /\ peer.sent <= Reach(peer)
        /\ (s.fin => peer.sent = Stream /\ Reach(peer) = Stream + 1)
        /\ told \in Nat /\ told <= Reach(peer)
    <2>1. peer \in Peers /\ (peer.fin # "no" => peer.sent = Stream)
      BY PeerType
    <2> QED
      BY <2>1, PeerFields, DriverFields DEF Honest
  <1>3. PICK j \in Nat : j <= peer.sent /\ ack = Number(j)
    BY DEF AckAt
  <1>4. s.len = 1 => \E k \in Nat : /\ k < peer.sent /\ s.rseq = Number(k)
                                    /\ s.fin => k + 1 = Stream
    BY DEF Honest
  <1>5. \E n \in Nat : /\ ack' = Number(n) /\ n <= Reach(peer)
                       /\ ~s.fin => n <= peer.sent
    <2>1. CASE s.len = 1
      <3>1. PICK k \in Nat : k < peer.sent /\ s.rseq = Number(k) /\ (s.fin => k + 1 = Stream)
        BY <1>4, <2>1
      <3>2. ack' = ((Number(k) + 1) + one) % M
        BY <1>1, <2>1, <3>1
      <3>3. Number(k) \in Int
        BY NumberType, ModulusType
      <3>4. one \in {0, 1}
        OBVIOUS
      <3>5. (Number(k) + 1) + one = Number(k) + (1 + one) /\ 1 + one \in Nat
        BY <3>3, <3>4
      <3>6. ack' = Number(k + (1 + one))
        BY <3>2, <3>5, NumberPlus
      <3>7. /\ k + (1 + one) \in Nat
            /\ ~s.fin => k + (1 + one) <= peer.sent
            /\ s.fin => k + (1 + one) = Stream + 1
        BY <1>2, <3>1
      <3>8. k + (1 + one) <= Reach(peer)
        BY <1>1, <1>2, <3>7
      <3> QED
        BY <3>6, <3>7, <3>8
    <2>2. CASE s.len = 0
      <3>1. ack' = (Number(j) + one) % M /\ one \in Nat
        BY <1>1, <1>3, <2>2
      <3>2. ack' = Number(j + one)
        BY <3>1, NumberPlus
      <3>3. /\ j + one \in Nat /\ (~s.fin => j + one <= peer.sent)
            /\ j + one <= Reach(peer)
        BY <1>2, <1>3
      <3> QED
        BY <3>2, <3>3
    <2> QED
      BY <1>1, <2>1, <2>2
  <1>6. PICK n \in Nat : ack' = Number(n) /\ n <= Reach(peer) /\ (~s.fin => n <= peer.sent)
    BY <1>5
  <1>7. ack' \in 0..(M - 1)
    BY <1>6, NumberType
  <1>8. told' \in Nat /\ told' <= Reach(peer)
    <2>1. n \in 0..(Stream + 2)
      BY <1>2, <1>6, ModulusType
    <2>2. Offset(ack') = n
      BY <1>6, <2>1, OffsetOfNumber
    <2>3. told' = told \/ told' = Max({told, n})
      BY <1>1, <2>2
    <2> QED
      BY <1>2, <1>6, <2>3, MaxOfTwo
  <1>9. AckAt'
    <2>1. peer_fin' = s.fin /\ peer' = peer
      BY <1>1
    <2> QED
      BY <1>6, <2>1 DEF AckAt, Number
  <1>10. ASSUME s.len > 0 PROVE Offset(s.rseq) \in 0..(Stream - 1)
    <2>1. PICK k \in Nat : k < peer.sent /\ s.rseq = Number(k)
      <3>1. s.len = 1
        BY <1>1, <1>10
      <3> QED
        BY <1>4, <3>1
    <2>2. k \in 0..(Stream + 2) /\ k \in 0..(Stream - 1)
      BY <1>2, <2>1, ModulusType
    <2> QED
      BY <2>1, <2>2, OffsetOfNumber
  <1> QED
    BY <1>1, <1>7, <1>8, <1>9, <1>10

LEMMA ConnectedStep == ASSUME TcpInv, Connected PROVE TcpInv'
  <1>1. /\ UNCHANGED <<app, seq, peer_fin, total, peer, shown, lost>> /\ Q!Finish
        /\ current.syn /\ ack' = (current.rseq + 1) % M /\ told' = Max({told, Offset(ack')})
        /\ at' \in {"send", "drain"} /\ expired' = FALSE
    BY DEF Connected, Tell
  <1>2. /\ QueueInv' /\ queue' \in Seq(Segment) /\ Len(queue') <= MaxQueue
        /\ current' \in Segment \cup {NoFrame}
        /\ current.rseq = PeerISN
    BY <1>1, FrameDone DEF Honest
  <1>3. ack' = Number(0)
    <2>1. PeerISN + 1 = PeerISN + 1 + 0
      BY ModulusType
    <2> QED
      BY <1>1, <1>2, <2>1 DEF Number
  <1>4. ack' \in 0..(M - 1) /\ Offset(ack') = 0
    BY <1>3, NumberType, OffsetOfNumber, ModulusType
  <1>5. told' \in Nat /\ told' <= Reach(peer)
    <2>1. told \in Nat /\ told <= Reach(peer) /\ Reach(peer) \in Nat
      BY DriverFields, PeerType, PeerFields
    <2>2. told' \in {told, 0}
      BY <1>1, <1>4, <2>1, MaxOfTwo
    <2> QED
      BY <2>1, <2>2
  <1>6. AckAt' /\ at' \in Places
    <2>1. 0 \in Nat /\ 0 <= peer.sent /\ peer' = peer
      BY <1>1, PeerType, PeerFields
    <2> QED
      BY <1>1, <1>3, <2>1 DEF AckAt, Number, Places, Waits
  <1> QED
    BY <1>1, <1>2, <1>4, <1>5, <1>6, DriverFields, DriverStep

(* The history of what is shown grows by the byte, or has it already.        *)
LEMMA ShowGives ==
    ASSUME TcpInv, NEW k \in 0..(Stream - 1), Show(k)
    PROVE  /\ \/ shown' = Append(shown, k)
              \/ shown' = shown /\ k \in Seen(Len(shown))
           /\ shown' \in Seq(0..(Stream - 1))
  BY DriverFields, AppendSeq DEF Show

LEMMA RequestStep == ASSUME TcpInv, Request PROVE TcpInv'
  <1> DEFINE copy == Min({current.len, BufSize - 1 - total})
  <1>1. /\ UNCHANGED <<at, app, expired, peer, lost>> /\ Q!Finish /\ at = "request"
        /\ Acknowledge(current)
        /\ total' = total + copy
        /\ IF copy > 0 THEN Show(Offset(current.rseq)) ELSE UNCHANGED shown
        /\ seq' \in {seq, (seq + 1) % M}
    BY DEF Request, Polled
  <1>2. /\ QueueInv' /\ queue' \in Seq(Segment) /\ Len(queue') <= MaxQueue
        /\ current' \in Segment \cup {NoFrame}
        /\ current \in Segment /\ Honest(current, peer) /\ peer_fin = FALSE
    BY <1>1, FrameDone
  <1>3. /\ ack' \in 0..(M - 1) /\ peer_fin' \in BOOLEAN /\ AckAt'
        /\ told' \in Nat /\ told' <= Reach(peer)
        /\ current.len > 0 => Offset(current.rseq) \in 0..(Stream - 1)
    BY <1>1, <1>2, DriverFields, AcknowledgeStep
  <1>4. /\ current.len \in Nat /\ BufSize - 1 - total \in Nat /\ copy \in Nat
        /\ copy <= current.len /\ copy <= BufSize - 1 - total
    <2>1. current.len \in Nat /\ BufSize - 1 - total \in Nat
      BY <1>2, SegmentFields, DriverFields, TcpAssumption
    <2> QED
      BY <2>1, MinOfTwo
  <1> HIDE DEF copy
  <1>5. total' \in 0..(BufSize - 1)
    BY <1>1, <1>4, DriverFields, TcpAssumption
  <1>6. shown' \in Seq(0..(Stream - 1))
    <2>1. CASE copy > 0
      <3>1. Offset(current.rseq) \in 0..(Stream - 1)
        BY <1>3, <1>4, <2>1
      <3> QED
        BY <1>1, <2>1, <3>1, ShowGives
    <2>2. CASE ~(copy > 0)
      BY <1>1, <2>2, DriverFields
    <2> QED
      BY <2>1, <2>2
  <1>7. seq' \in 0..(M - 1)
    <2>1. seq + 1 \in Int
      BY DriverFields, ModulusType
    <2> QED
      BY <1>1, <2>1, DriverFields, ModulusType, ModType
  <1> QED
    BY <1>1, <1>2, <1>3, <1>5, <1>6, <1>7, DriverFields, DriverStep

LEMMA RecvStep == ASSUME TcpInv, Recv PROVE TcpInv'
  <1>1. /\ UNCHANGED <<at, app, seq, total, peer, lost>> /\ Q!Finish /\ at \in {"drain", "recv"}
        /\ Acknowledge(current)
        /\ IF current.len > 0 /\ ~current.fin
           THEN Show(Offset(current.rseq)) ELSE UNCHANGED shown
        /\ expired' \in {FALSE, expired}
    BY DEF Recv, Polled
  <1>2. /\ QueueInv' /\ queue' \in Seq(Segment) /\ Len(queue') <= MaxQueue
        /\ current' \in Segment \cup {NoFrame}
        /\ current \in Segment /\ Honest(current, peer) /\ peer_fin = FALSE
    BY <1>1, FrameDone
  <1>3. /\ ack' \in 0..(M - 1) /\ peer_fin' \in BOOLEAN /\ AckAt'
        /\ told' \in Nat /\ told' <= Reach(peer)
        /\ current.len > 0 => Offset(current.rseq) \in 0..(Stream - 1)
    BY <1>1, <1>2, DriverFields, AcknowledgeStep
  <1>4. shown' \in Seq(0..(Stream - 1))
    <2>1. CASE current.len > 0 /\ ~current.fin
      BY <1>1, <1>3, <2>1, ShowGives
    <2>2. CASE ~(current.len > 0 /\ ~current.fin)
      BY <1>1, <2>2, DriverFields
    <2> QED
      BY <2>1, <2>2
  <1>5. expired' \in BOOLEAN
    BY <1>1, DriverFields
  <1> QED
    BY <1>1, <1>2, <1>3, <1>4, <1>5, DriverFields, DriverStep

-----------------------------------------------------------------------------
LEMMA TcpNext == TcpInv /\ [Next]_vars => TcpInv'
  <1> SUFFICES ASSUME TcpInv, [Next]_vars PROVE TcpInv'
    OBVIOUS
  <1>1. CASE UNCHANGED vars
    <2>1. UNCHANGED <<queue, current, at, app, expired, seq, ack, peer_fin, total, peer,
                      told, shown, lost>>
      BY <1>1 DEF vars, conn
    <2>2. QueueInv'
      BY <2>1, QueueStays
    <2>3. AckAt'
      BY <2>1, DriverFields DEF AckAt, Number
    <2> QED
      BY <2>1, <2>2, <2>3, DriverFields, DriverStep
  <1>2. CASE Work
    BY <1>2, PollStep, ConnectedStep, NotConnectedStep, SendDataStep, RequestStep,
       OverStep, RecvStep DEF Work
  <1>3. CASE PeerAccept \/ PeerHear \/ PeerSend \/ PeerFin \/ PeerRepeat
    BY <1>3, PeerAcceptStep, PeerHearStep, PeerSendStep, PeerFinStep, PeerRepeatStep
  <1>4. CASE Tick \/ Line \/ \E a \in {"nettest", "ncat"} : Connect(a)
    BY <1>4, TickStep, LineStep, ConnectStep
  <1> QED
    BY <1>1, <1>2, <1>3, <1>4 DEF Next

(* TcpInv is an inductive invariant: whatever is on its way was sent by the  *)
(* peer, ack stands behind a byte that was sent, and no acknowledgement has  *)
(* gone beyond.                                                              *)
THEOREM TcpInductive == Spec => []TcpInv
  <1>1. Init => TcpInv
    BY TcpInit
  <1>2. TcpInv /\ [Next]_vars => TcpInv'
    BY TcpNext
  <1> QED
    BY <1>1, <1>2, PTL DEF Spec

(* The variables keep their types: no byte overruns nettest's buffer and no  *)
(* byte but one of the stream is shown.                                      *)
THEOREM TcpTypeCorrect == Spec => []TypeOK
  <1>1. TcpInv => TypeOK
    BY DEF TcpInv
  <1> QED
    BY <1>1, TcpInductive, PTL

(* The driver acknowledges no byte that was not sent, and the FIN only when  *)
(* it was, whatever is lost or repeated.                                     *)
THEOREM TcpAckHonest == Spec => []AckHonest
  <1>1. TcpInv => AckHonest
    BY DEF TcpInv, AckInv, AckHonest, Reach
  <1> QED
    BY <1>1, TcpInductive, PTL

-----------------------------------------------------------------------------
(* The order of the stream, as long as no frame is lost. *)

(* The frames to come: place 0 is the frame in hand, the others the queue.   *)
Frames == [m \in 0..Len(queue) |-> IF m = 0 THEN current ELSE queue[m]]

Byte(s) == Offset(s.rseq)

(* How much of the stream lies before a segment.                             *)
Behind(s) == IF s.len = 1 THEN Byte(s) ELSE IF s.fin THEN Stream ELSE 0

(* A byte was acknowledged up to t, or one of the frames before m carries it. *)
Before(f, t, m, j) == j < t \/ \E i \in 0..(m - 1) : f[i].len = 1 /\ Byte(f[i]) = j

(* No gaps: what was sent, and what lies before a segment, was acknowledged  *)
(* or comes first.                                                           *)
Gapless(f, n, t, sent) ==
    /\ \A j \in 0..(sent - 1) : Before(f, t, n + 1, j)
    /\ \A m \in 0..n : \A j \in 0..(Behind(f[m]) - 1) : Before(f, t, m, j)

(* No doubles: nothing comes that was acknowledged, and nothing comes twice. *)
Doubleless(f, n, t) ==
    /\ \A m \in 0..n : f[m].len = 1 => Byte(f[m]) >= t
    /\ \A m, i \in 0..n : f[m].len = 1 /\ f[i].len = 1 /\ Byte(f[m]) = Byte(f[i]) => m = i

(* A FIN rides on a byte only if the peer's does.                            *)
Riding(f, n, fin) == \A m \in 0..n : f[m].len = 1 /\ f[m].fin => fin = "riding"

(* Until the peer has heard that we have heard of it nothing of the stream   *)
(* is on its way; a command that is connected has a peer that goes on.       *)
QuietInv ==
    /\ at \in {"shell", "connect"} => peer.state # "open"
    /\ peer.state # "open" =>
          /\ peer.sent = 0 /\ peer.fin = "no" /\ told = 0 /\ shown = <<>> /\ peer_fin = FALSE
          /\ at \notin {"shell", "connect"} => ack = Number(0)

LoopInv ==
    /\ at = "request" => app = "nettest"
    /\ at \in {"drain", "recv"} => app = "ncat"

RidingInv == Riding(Frames, Len(queue), peer.fin)

GapInv == ~lost /\ peer_fin = FALSE => Gapless(Frames, Len(queue), told, peer.sent)

(* Without repetitions ack is where the stream goes on.                      *)
OnceInv ==
    peer.state = "open" /\ peer.repeats = 0 /\ ~lost /\ peer_fin = FALSE =>
        ack = Number(told) /\ Doubleless(Frames, Len(queue), told)

(* What the user sees was acknowledged, and nothing comes before its turn.   *)
ShownInv ==
    /\ \A i \in 1..Len(shown) : shown[i] < told
    /\ ~lost => \A i \in 1..Len(shown) : \A j \in 0..(shown[i] - 1) : j \in Seen(i - 1)
    /\ ~lost /\ peer.repeats = 0 => \A i, j \in 1..Len(shown) : shown[i] = shown[j] => i = j

OrderInv ==
    /\ QuietInv /\ LoopInv /\ RidingInv /\ GapInv /\ OnceInv /\ ShownInv
    /\ AckedIsShown /\ FinAcked

-----------------------------------------------------------------------------
(* The order of any frames. *)

LEMMA BehindType ==
    ASSUME NEW s \in Segment \cup {NoFrame}
    PROVE  Behind(s) \in Nat
  <1>1. s.len = 1 => Byte(s) \in Nat
    <2>1. s.rseq \in Int
      BY SegmentFields, ModulusType DEF NoFrame
    <2> QED
      BY <2>1, OffsetType, ModulusType DEF Byte
  <1> QED
    BY <1>1, ModulusType DEF Behind

LEMMA NoFrameFields ==
    NoFrame.len = 0 /\ ~NoFrame.fin /\ NoFrame.fin \in BOOLEAN /\ Behind(NoFrame) = 0
  BY DEF NoFrame, Behind

(* A segment joins the frames.                                               *)
LEMMA JoinGapless ==
    ASSUME NEW n \in Nat, NEW f, NEW g, NEW t \in Nat, NEW sent \in Nat, NEW more \in Nat,
           NEW s \in Segment, Gapless(f, n, t, sent),
           \A m \in 0..n : g[m] = f[m], g[n + 1] = s,
           Behind(s) <= sent,
           \A j \in 0..(more - 1) : j < sent \/ (s.len = 1 /\ Byte(s) = j)
    PROVE  Gapless(g, n + 1, t, more)
  <1>1. ASSUME NEW m \in 0..(n + 1), NEW j, Before(f, t, m, j)
        PROVE  Before(g, t, m, j)
    BY <1>1 DEF Before
  <1>2. ASSUME NEW j \in 0..(sent - 1) PROVE Before(f, t, n + 1, j)
    BY <1>2 DEF Gapless
  <1>3. ASSUME NEW j \in 0..(more - 1) PROVE Before(g, t, (n + 1) + 1, j)
    <2>1. CASE j < sent
      <3>1. Before(g, t, n + 1, j)
        BY <1>1, <1>2, <2>1
      <3> QED
        BY <3>1 DEF Before
    <2>2. CASE s.len = 1 /\ Byte(s) = j
      <3>1. n + 1 \in 0..(((n + 1) + 1) - 1)
        OBVIOUS
      <3> QED
        BY <2>2, <3>1 DEF Before
    <2> QED
      BY <1>3, <2>1, <2>2
  <1>4. ASSUME NEW m \in 0..(n + 1), NEW j \in 0..(Behind(g[m]) - 1)
        PROVE  Before(g, t, m, j)
    <2>1. CASE m \in 0..n
      BY <1>1, <1>4, <2>1 DEF Gapless
    <2>2. CASE m = n + 1
      <3>1. j \in 0..(sent - 1)
        BY <1>4, <2>2, BehindType
      <3> QED
        BY <1>1, <1>2, <2>2, <3>1
    <2> QED
      BY <2>1, <2>2
  <1> QED
    BY <1>3, <1>4 DEF Gapless

LEMMA JoinDoubleless ==
    ASSUME NEW n \in Nat, NEW f, NEW g, NEW t \in Nat, NEW s,
           Doubleless(f, n, t),
           \A m \in 0..n : g[m] = f[m], g[n + 1] = s,
           s.len = 1 => Byte(s) >= t /\ \A m \in 0..n : f[m].len = 1 => Byte(f[m]) # Byte(s)
    PROVE  Doubleless(g, n + 1, t)
  <1>1. \A m \in 0..(n + 1) : m \in 0..n \/ m = n + 1
    OBVIOUS
  <1> QED
    BY <1>1 DEF Doubleless

(* The first frame of the queue comes to hand.                               *)
LEMMA TakeGapless ==
    ASSUME NEW n \in Nat, NEW f, NEW g, NEW t \in Nat, NEW sent \in Nat,
           Gapless(f, n + 1, t, sent), f[0].len = 0,
           \A m \in 0..n : g[m] = f[m + 1]
    PROVE  Gapless(g, n, t, sent)
  <1>1. ASSUME NEW m \in 0..(n + 1), NEW j, Before(f, t, m + 1, j)
        PROVE  Before(g, t, m, j)
    <2>1. CASE j < t
      BY <2>1 DEF Before
    <2>2. CASE \E i \in 0..((m + 1) - 1) : f[i].len = 1 /\ Byte(f[i]) = j
      <3>1. PICK i \in 0..((m + 1) - 1) : f[i].len = 1 /\ Byte(f[i]) = j
        BY <2>2
      <3>2. i # 0 /\ i - 1 \in 0..(m - 1) /\ i - 1 \in 0..n /\ (i - 1) + 1 = i
        BY <3>1
      <3>3. g[i - 1] = f[i]
        BY <3>2
      <3> QED
        BY <3>1, <3>2, <3>3 DEF Before
    <2> QED
      BY <1>1, <2>1, <2>2 DEF Before
  <1>2. ASSUME NEW j \in 0..(sent - 1) PROVE Before(g, t, n + 1, j)
    BY <1>1 DEF Gapless
  <1>3. ASSUME NEW m \in 0..n, NEW j \in 0..(Behind(g[m]) - 1)
        PROVE  Before(g, t, m, j)
    <2>1. m + 1 \in 0..(n + 1) /\ m \in 0..(n + 1) /\ g[m] = f[m + 1]
      OBVIOUS
    <2>2. Before(f, t, m + 1, j)
      BY <1>3, <2>1 DEF Gapless
    <2> QED
      BY <1>1, <2>1, <2>2
  <1> QED
    BY <1>2, <1>3 DEF Gapless

LEMMA TakeDoubleless ==
    ASSUME NEW n \in Nat, NEW f, NEW g, NEW t \in Nat,
           Doubleless(f, n + 1, t), \A m \in 0..n : g[m] = f[m + 1]
    PROVE  Doubleless(g, n, t)
  <1>1. \A m \in 0..n : m + 1 \in 0..(n + 1)
    OBVIOUS
  <1>2. \A m, i \in 0..n : m + 1 = i + 1 => m = i
    OBVIOUS
  <1> QED
    BY <1>1, <1>2 DEF Doubleless

(* The driver is through with the frame in hand.                             *)
LEMMA DoneGapless ==
    ASSUME NEW n \in Nat, NEW f, NEW g, NEW t \in Nat, NEW u \in Nat, NEW sent \in Nat,
           Gapless(f, n, t, sent), t <= u, f[0].len = 1 => Byte(f[0]) < u,
           \A m \in 1..n : g[m] = f[m], Behind(g[0]) = 0
    PROVE  Gapless(g, n, u, sent)
  <1>1. ASSUME NEW m \in 0..(n + 1), NEW j \in Nat, Before(f, t, m, j)
        PROVE  Before(g, u, m, j)
    <2>1. CASE j < t
      BY <2>1 DEF Before
    <2>2. CASE \E i \in 0..(m - 1) : f[i].len = 1 /\ Byte(f[i]) = j
      <3>1. PICK i \in 0..(m - 1) : f[i].len = 1 /\ Byte(f[i]) = j
        BY <2>2
      <3>2. CASE i = 0
        BY <3>1, <3>2 DEF Before
      <3>3. CASE i # 0
        <4>1. i \in 1..n /\ g[i] = f[i]
          BY <3>1, <3>3
        <4> QED
          BY <3>1, <4>1 DEF Before
      <3> QED
        BY <3>2, <3>3
    <2> QED
      BY <1>1, <2>1, <2>2 DEF Before
  <1>2. ASSUME NEW j \in 0..(sent - 1) PROVE Before(g, u, n + 1, j)
    BY <1>1 DEF Gapless
  <1>3. ASSUME NEW m \in 0..n, NEW j \in 0..(Behind(g[m]) - 1)
        PROVE  Before(g, u, m, j)
    <2>1. CASE m = 0
      BY <1>3, <2>1
    <2>2. CASE m # 0
      <3>1. g[m] = f[m] /\ j \in Nat /\ m \in 0..(n + 1)
        BY <1>3, <2>2
      <3> QED
        BY <1>1, <1>3, <3>1 DEF Gapless
    <2> QED
      BY <2>1, <2>2
  <1> QED
    BY <1>2, <1>3 DEF Gapless

LEMMA DoneDoubleless ==
    ASSUME NEW n \in Nat, NEW f, NEW g, NEW t \in Nat, NEW u \in Nat,
           Doubleless(f, n, t), \A m \in 1..n : g[m] = f[m], g[0].len = 0,
           \A m \in 1..n : f[m].len = 1 => Byte(f[m]) >= u
    PROVE  Doubleless(g, n, u)
  <1>1. \A m \in 0..n : m = 0 \/ (m \in 1..n /\ g[m] = f[m])
    OBVIOUS
  <1>2. \A m \in 0..n : g[m].len = 1 => m \in 1..n /\ g[m] = f[m]
    BY <1>1
  <1> QED
    BY <1>2 DEF Doubleless

-----------------------------------------------------------------------------
(* The frames of the driver. *)

LEMMA FrameFacts ==
    ASSUME TcpInv, NEW m \in 0..Len(queue)
    PROVE  /\ Frames[m].len \in {0, 1} /\ Frames[m].fin \in BOOLEAN
           /\ Frames[m].fin => peer.fin # "no" /\ peer.sent = Stream
           /\ Frames[m].len = 1 => /\ Byte(Frames[m]) \in 0..(peer.sent - 1)
                                   /\ Frames[m].rseq = Number(Byte(Frames[m]))
                                   /\ Frames[m].fin => Byte(Frames[m]) + 1 = Stream
           /\ Behind(Frames[m]) \in 0..peer.sent
           /\ Frames[0] = current /\ Len(queue) \in Nat
  <1>1. /\ queue \in Seq(Segment) /\ current \in Segment \cup {NoFrame} /\ Len(queue) \in Nat
        /\ peer \in Peers /\ peer.sent \in 0..Stream /\ (peer.fin # "no" => peer.sent = Stream)
    BY DriverFields, PeerType, PeerFields
  <1> DEFINE s == Frames[m]
  <1>2. (s \in Segment /\ Honest(s, peer)) \/ s = NoFrame
    <2>1. CASE m = 0
      <3>1. s = current
        BY <2>1 DEF Frames
      <3> QED
        BY <1>1, <3>1 DEF TcpInv, QueueInv
    <2>2. CASE m # 0
      <3>1. m \in 1..Len(queue) /\ s = queue[m]
        BY <1>1, <2>2 DEF Frames
      <3>2. queue[m] \in Segment
        BY <1>1, <3>1
      <3> QED
        BY <3>1, <3>2 DEF TcpInv, QueueInv
    <2> QED
      BY <2>1, <2>2
  <1>3. Frames[0] = current
    BY <1>1 DEF Frames
  <1> HIDE DEF s
  <1>4. CASE s = NoFrame
    <2>1. s.len = 0 /\ ~s.fin /\ s.fin \in BOOLEAN /\ Behind(s) = 0
      BY <1>4, NoFrameFields
    <2> QED
      BY <1>1, <1>3, <2>1 DEF s
  <1>5. CASE s \in Segment /\ Honest(s, peer)
    <2>1. /\ s.len \in {0, 1} /\ s.fin \in BOOLEAN
          /\ s.fin => peer.fin # "no" /\ peer.sent = Stream
      BY <1>1, <1>5, SegmentFields DEF Honest
    <2>2. ASSUME s.len = 1
          PROVE  Byte(s) \in 0..(peer.sent - 1) /\ s.rseq = Number(Byte(s))
                 /\ (s.fin => Byte(s) + 1 = Stream)
      <3>1. PICK k \in Nat : k < peer.sent /\ s.rseq = Number(k) /\ (s.fin => k + 1 = Stream)
        BY <1>5, <2>2 DEF Honest
      <3>2. k \in 0..(Stream + 2) /\ k \in 0..(peer.sent - 1)
        BY <1>1, <3>1, ModulusType
      <3>3. Byte(s) = k
        BY <3>1, <3>2, OffsetOfNumber DEF Byte
      <3> QED
        BY <3>1, <3>2, <3>3
    <2>3. Behind(s) \in 0..peer.sent
      BY <1>1, <2>1, <2>2, ModulusType DEF Behind
    <2> QED
      BY <1>1, <1>3, <2>1, <2>2, <2>3 DEF s
  <1> QED
    BY <1>2, <1>4, <1>5

LEMMA ArriveFrames ==
    ASSUME TcpInv, NEW s \in Segment, Q!Arrive(s)
    PROVE  /\ Len(queue') = Len(queue) + 1 /\ Len(queue) \in Nat
           /\ \A m \in 0..Len(queue) : Frames'[m] = Frames[m]
           /\ Frames'[Len(queue) + 1] = s
  <1>1. queue \in Seq(Segment) /\ queue' = Append(queue, s) /\ current' = current
    BY DriverFields DEF Q!Arrive
  <1>2. /\ Len(queue') = Len(queue) + 1 /\ Len(queue) \in Nat
        /\ \A m \in 1..Len(queue) : queue'[m] = queue[m]
        /\ queue'[Len(queue) + 1] = s
    BY <1>1, AppendSeq
  <1>3. Frames' = [m \in 0..(Len(queue) + 1) |-> IF m = 0 THEN current ELSE queue'[m]]
    BY <1>1, <1>2 DEF Frames
  <1>4. \A m \in 0..Len(queue) : m \in 0..(Len(queue) + 1) /\ (m # 0 => m \in 1..Len(queue))
    BY <1>2
  <1>5. \A m \in 0..Len(queue) : Frames'[m] = Frames[m]
    BY <1>2, <1>3, <1>4 DEF Frames
  <1> QED
    BY <1>2, <1>3, <1>5

LEMMA TakeFrames ==
    ASSUME TcpInv, Q!Take, current = NoFrame
    PROVE  /\ Len(queue) = Len(queue') + 1 /\ Len(queue') \in Nat
           /\ \A m \in 0..Len(queue') : Frames'[m] = Frames[m + 1]
  <1>1. queue \in Seq(Segment) /\ queue # <<>> /\ current' = Head(queue) /\ queue' = Tail(queue)
    BY DriverFields DEF Q!Take
  <1>2. /\ Len(queue) = Len(queue') + 1 /\ Len(queue') \in Nat
        /\ current' = queue[1]
        /\ \A m \in 1..Len(queue') : queue'[m] = queue[m + 1]
    BY <1>1
  <1>3. ASSUME NEW m \in 0..Len(queue') PROVE Frames'[m] = Frames[m + 1]
    <2>1. m + 1 \in 0..Len(queue) /\ m + 1 # 0
      BY <1>2
    <2>2. Frames[m + 1] = queue[m + 1]
      BY <2>1 DEF Frames
    <2>3. Frames'[m] = IF m = 0 THEN current' ELSE queue'[m]
      BY DEF Frames
    <2> QED
      BY <1>2, <2>2, <2>3
  <1> QED
    BY <1>2, <1>3

LEMMA DoneFrames ==
    ASSUME TcpInv, Q!Finish
    PROVE  /\ Len(queue') = Len(queue) /\ Len(queue) \in Nat /\ Frames'[0] = NoFrame
           /\ \A m \in 1..Len(queue) : Frames'[m] = Frames[m]
           /\ current # NoFrame /\ peer_fin = FALSE
  <1>1. current' = NoFrame /\ queue' = queue /\ Len(queue) \in Nat /\ current # NoFrame
    BY DriverFields DEF Q!Finish
  <1>2. peer_fin = FALSE
    BY <1>1, DriverFields DEF TcpInv, QueueInv
  <1> QED
    BY <1>1, <1>2 DEF Frames

LEMMA SameFrames ==
    ASSUME UNCHANGED <<queue, current>>
    PROVE  Frames' = Frames /\ Len(queue') = Len(queue)
  BY DEF Frames

-----------------------------------------------------------------------------
(* The peer keeps the order. *)

LEMMA PeerOrder ==
    ASSUME TcpInv, OrderInv, NEW s \in Segment, Transmit(s), peer' \in Peers,
           peer.fin = "riding" => peer'.fin = "riding",
           s.len = 1 => (s.fin => peer'.fin = "riding"),
           Behind(s) <= peer.sent,
           \A j \in 0..(peer'.sent - 1) : j < peer.sent \/ (s.len = 1 /\ Byte(s) = j),
           peer'.repeats = 0 => peer.repeats = 0,
           peer'.repeats = 0 /\ peer'.state = "open" =>
               peer.state = "open" /\ (s.len = 1 => Byte(s) = peer.sent /\ told <= peer.sent),
           peer'.state # "open" => peer.state # "open" /\ peer'.sent = 0 /\ peer'.fin = "no",
           peer'.state = "open" => at \notin {"shell", "connect"}
    PROVE  OrderInv'
  <1>1. /\ UNCHANGED <<at, app, ack, peer_fin, total, told, shown>>
        /\ \/ Q!Arrive(s) /\ lost' = lost
           \/ lost' = TRUE /\ UNCHANGED <<queue, current>>
    BY DEF Transmit, conn
  <1>2. QuietInv'
    BY <1>1 DEF OrderInv, QuietInv, Number
  <1>3. LoopInv' /\ ShownInv' /\ FinAcked'
    <2>1. ~lost' => ~lost
      BY <1>1
    <2>2. LoopInv'
      BY <1>1 DEF OrderInv, LoopInv
    <2>3. ShownInv'
      BY <1>1, <2>1 DEF OrderInv, ShownInv, Seen
    <2> QED
      BY <1>1, <2>1, <2>2, <2>3 DEF OrderInv, FinAcked
  <1>4. AckedIsShown'
    <2>1. ~lost' /\ ~Full' => ~lost /\ ~Full
      BY <1>1 DEF Full
    <2>2. \A k \in 0..(Stream - 1) : FinByte(k) => FinByte(k)'
      BY <1>1 DEF FinByte
    <2>3. Seen(Len(shown))' = Seen(Len(shown)) /\ told' = told
      BY <1>1 DEF Seen
    <2> QED
      BY <2>1, <2>2, <2>3 DEF OrderInv, AckedIsShown
  <1> DEFINE n == Len(queue)
  <1>5. /\ told \in Nat /\ peer.sent \in Nat /\ peer'.sent \in Nat /\ n \in Nat
        /\ \A m \in 0..n : Frames[m].len = 1 => Byte(Frames[m]) < peer.sent
    <2>1. peer.sent \in Nat /\ peer'.sent \in Nat
      BY PeerType, PeerFields
    <2> QED
      BY <2>1, FrameFacts, DriverFields
  <1>6. /\ Riding(Frames, n, peer.fin)
        /\ ~lost /\ peer_fin = FALSE => Gapless(Frames, n, told, peer.sent)
        /\ peer.state = "open" /\ peer.repeats = 0 /\ ~lost /\ peer_fin = FALSE =>
              ack = Number(told) /\ Doubleless(Frames, n, told)
    BY DEF OrderInv, RidingInv, GapInv, OnceInv
  <1>7. CASE Q!Arrive(s) /\ lost' = lost
    <2>1. /\ Len(queue') = n + 1
          /\ \A m \in 0..n : Frames'[m] = Frames[m]
          /\ Frames'[n + 1] = s
      BY <1>7, ArriveFrames
    <2> HIDE DEF n
    <2>2. RidingInv'
      <3>1. \A m \in 0..(n + 1) : m \in 0..n \/ m = n + 1
        BY <1>5
      <3>2. Riding(Frames', n + 1, peer'.fin)
        BY <1>6, <2>1, <3>1 DEF Riding
      <3> QED
        BY <2>1, <3>2 DEF RidingInv
    <2>3. ASSUME ~lost', peer_fin' = FALSE
          PROVE  Gapless(Frames', Len(queue'), told', peer'.sent)
      <3>1. Gapless(Frames, n, told, peer.sent)
        BY <1>1, <1>6, <1>7, <2>3
      <3>2. Gapless(Frames', n + 1, told, peer'.sent)
        BY <1>5, <2>1, <3>1, JoinGapless
      <3> QED
        BY <1>1, <2>1, <3>2
    <2>4. ASSUME peer'.state = "open", peer'.repeats = 0, ~lost', peer_fin' = FALSE
          PROVE  ack' = Number(told') /\ Doubleless(Frames', Len(queue'), told')
      <3>1. /\ ack = Number(told) /\ Doubleless(Frames, n, told)
            /\ s.len = 1 => Byte(s) = peer.sent /\ told <= peer.sent
        BY <1>1, <1>6, <1>7, <2>4
      <3>2. s.len = 1 => Byte(s) >= told /\ \A m \in 0..n : Frames[m].len = 1 => Byte(Frames[m]) # Byte(s)
        BY <1>5, <3>1
      <3>3. Doubleless(Frames', n + 1, told)
        BY <1>5, <2>1, <3>1, <3>2, JoinDoubleless
      <3> QED
        BY <1>1, <2>1, <3>1, <3>3
    <2>5. GapInv' /\ OnceInv'
      BY <2>3, <2>4 DEF GapInv, OnceInv
    <2> QED
      BY <1>2, <1>3, <1>4, <2>2, <2>5 DEF OrderInv
  <1>8. CASE lost' = TRUE /\ UNCHANGED <<queue, current>>
    <2>1. Frames' = Frames /\ Len(queue') = n
      BY <1>8, SameFrames
    <2>2. RidingInv'
      BY <1>6, <2>1 DEF RidingInv, Riding
    <2>3. GapInv' /\ OnceInv'
      BY <1>8 DEF GapInv, OnceInv
    <2> QED
      BY <1>2, <1>3, <1>4, <2>2, <2>3 DEF OrderInv
  <1> QED
    BY <1>1, <1>7, <1>8

LEMMA PeerAcceptOrder == ASSUME TcpInv, OrderInv, PeerAccept PROVE OrderInv'
  <1>1. /\ peer \in Peers /\ peer.repeats \in Nat /\ peer.state # "open"
        /\ peer.sent = 0 /\ peer.fin = "no"
    <2>1. peer \in Peers /\ peer.state # "open"
      BY PeerType DEF PeerAccept
    <2> QED
      BY <2>1 DEF OrderInv, QuietInv, Peers
  <1>2. PICK s \in Segment :
            /\ Transmit(s) /\ s.len = 0 /\ ~s.fin
            /\ \/ peer' = [peer EXCEPT !.state = "half", !.repeats = @ + 1]
               \/ peer' = [peer EXCEPT !.repeats = @ + 1]
    <2>1. /\ [syn |-> TRUE, fin |-> FALSE, len |-> 0, rseq |-> PeerISN] \in Segment
          /\ [syn |-> FALSE, fin |-> FALSE, len |-> 0, rseq |-> 0] \in Segment
      BY ModulusType DEF Segment
    <2> QED
      BY <2>1 DEF PeerAccept
  <1>3. /\ peer' \in Peers /\ peer'.state # "open" /\ peer'.repeats # 0
        /\ peer'.sent = 0 /\ peer'.fin = "no"
    <2>1. peer.repeats + 1 # 0
      BY <1>1
    <2>2. peer' \in Peers
      BY <1>1, <1>2, PeerUpdates
    <2> QED
      BY <1>1, <1>2, <2>1, <2>2 DEF Peers
  <1>4. Behind(s) <= peer.sent
    BY <1>1, <1>2 DEF Behind
  <1>5. \A j \in 0..(peer'.sent - 1) : FALSE
    BY <1>3
  <1> QED
    BY <1>1, <1>2, <1>3, <1>4, <1>5, PeerOrder

(* The number of a segment of the peer is that of its byte.                  *)
LEMMA DataByte ==
    ASSUME NEW k \in 0..(Stream - 1), NEW fin \in BOOLEAN
    PROVE  /\ Data(k, fin) \in Segment /\ Data(k, fin).len = 1
           /\ Byte(Data(k, fin)) = k /\ Behind(Data(k, fin)) = k
           /\ Data(k, fin).fin = fin
  <1>1. k \in Nat /\ k \in 0..(Stream + 2) /\ Number(k) \in 0..(M - 1)
    BY ModulusType, NumberType
  <1>2. Data(k, fin) \in Segment /\ Data(k, fin).len = 1 /\ Data(k, fin).rseq = Number(k)
        /\ Data(k, fin).fin = fin
    BY <1>1 DEF Data, Segment
  <1> QED
    BY <1>1, <1>2, OffsetOfNumber DEF Byte, Behind

LEMMA PeerSendOrder == ASSUME TcpInv, OrderInv, PeerSend PROVE OrderInv'
  <1>1. /\ peer \in Peers /\ peer.sent \in 0..(Stream - 1) /\ peer.fin = "no"
        /\ peer.state = "open" /\ told <= peer.sent
    <2>1. peer \in Peers /\ (peer.fin # "no" => peer.sent = Stream) /\ peer.sent \in Nat
      BY PeerType, PeerFields
    <2>2. peer.sent < Stream /\ peer.state = "open"
      BY DEF PeerSend
    <2>3. peer.fin = "no"
      BY <2>1, <2>2, ModulusType
    <2>4. told <= peer.sent
      BY <2>1, <2>3, DriverFields DEF Reach
    <2> QED
      BY <2>1, <2>2, <2>3, <2>4, ModulusType
  <1>2. PICK fin \in {"no", "riding"} :
            /\ peer' = [peer EXCEPT !.sent = @ + 1, !.fin = fin]
            /\ Transmit(Data(peer.sent, fin = "riding"))
    BY DEF PeerSend
  <1>3. /\ peer' \in Peers /\ peer'.sent = peer.sent + 1 /\ peer'.fin = fin
        /\ peer'.repeats = peer.repeats /\ peer'.state = peer.state
    <2>1. peer.sent + 1 \in 0..Stream
      BY <1>1, ModulusType
    <2>2. peer' \in Peers
      BY <1>1, <1>2, <2>1, PeerUpdates
    <2> QED
      BY <1>1, <1>2, <2>2 DEF Peers
  <1> DEFINE s == Data(peer.sent, fin = "riding")
  <1>4. /\ s \in Segment /\ s.len = 1 /\ Byte(s) = peer.sent /\ Behind(s) = peer.sent
        /\ s.fin = (fin = "riding")
    <2>1. (fin = "riding") \in BOOLEAN
      OBVIOUS
    <2> QED
      BY <1>1, <2>1, DataByte
  <1>5. Transmit(s)
    BY <1>2
  <1> HIDE DEF s
  <1>6. s.fin => peer'.fin = "riding"
    BY <1>3, <1>4
  <1>7. \A j \in 0..(peer'.sent - 1) : j < peer.sent \/ Byte(s) = j
    BY <1>1, <1>3, <1>4
  <1>8. at \notin {"shell", "connect"} /\ Behind(s) <= peer.sent
    BY <1>1, <1>4 DEF OrderInv, QuietInv
  <1> QED
    BY <1>1, <1>3, <1>4, <1>5, <1>6, <1>7, <1>8, PeerOrder

LEMMA FinFields ==
    Fin \in Segment /\ Fin.len = 0 /\ Behind(Fin) = Stream
  <1>1. Number(Stream) \in 0..(M - 1)
    BY ModulusType, NumberType
  <1> QED
    BY <1>1 DEF Fin, Segment, Behind

LEMMA PeerFinOrder == ASSUME TcpInv, OrderInv, PeerFin PROVE OrderInv'
  <1>1. /\ peer \in Peers /\ peer.sent = Stream /\ peer.fin = "no" /\ peer.state = "open"
        /\ peer' = [peer EXCEPT !.fin = "alone"] /\ Transmit(Fin)
    BY PeerType DEF PeerFin
  <1>2. /\ peer' \in Peers /\ peer'.sent = Stream /\ peer'.fin = "alone"
        /\ peer'.repeats = peer.repeats /\ peer'.state = "open"
    BY <1>1 DEF Peers
  <1>3. Behind(Fin) <= peer.sent /\ \A j \in 0..(peer'.sent - 1) : j < peer.sent
    BY <1>1, <1>2, FinFields, ModulusType
  <1>4. at \notin {"shell", "connect"}
    BY <1>1 DEF OrderInv, QuietInv
  <1> QED
    BY <1>1, <1>2, <1>3, <1>4, FinFields, PeerOrder

LEMMA PeerRepeatOrder == ASSUME TcpInv, OrderInv, PeerRepeat PROVE OrderInv'
  <1>1. /\ peer \in Peers /\ (peer.fin # "no" => peer.sent = Stream) /\ peer.state = "open"
        /\ peer.sent \in 0..Stream /\ peer.heard \in 0..(Stream + 1) /\ peer.repeats \in Nat
        /\ peer' = [peer EXCEPT !.repeats = IF @ < MaxRepeats THEN @ + 1 ELSE @]
    BY PeerType DEF Peers, PeerRepeat
  <1>2. /\ peer' \in Peers /\ peer'.sent = peer.sent /\ peer'.fin = peer.fin
        /\ peer'.state = "open" /\ peer'.repeats # 0
    <2>1. PICK n \in Nat : n # 0 /\ peer' = [peer EXCEPT !.repeats = n]
      <3>1. CASE peer.repeats < MaxRepeats
        <4>1. peer.repeats + 1 \in Nat /\ peer.repeats + 1 # 0
          BY <1>1
        <4> QED
          BY <1>1, <3>1, <4>1
      <3>2. CASE ~(peer.repeats < MaxRepeats)
        <4>1. peer.repeats # 0
          BY <1>1, <3>2, TcpAssumption
        <4> QED
          BY <1>1, <3>2, <4>1
      <3> QED
        BY <3>1, <3>2
    <2> QED
      BY <1>1, <2>1 DEF Peers
  <1>3. PICK s \in Segment : /\ Transmit(s) /\ Behind(s) <= peer.sent
                             /\ s.len = 1 => (s.fin => peer.fin = "riding")
    <2>1. CASE /\ peer.heard < peer.sent
               /\ Transmit(Data(peer.heard, peer.fin = "riding" /\ peer.heard + 1 = Stream))
      <3> DEFINE fin == peer.fin = "riding" /\ peer.heard + 1 = Stream
      <3>1. fin \in BOOLEAN /\ (fin => peer.fin = "riding")
        OBVIOUS
      <3>2. Transmit(Data(peer.heard, fin))
        BY <2>1
      <3> HIDE DEF fin
      <3>3. peer.heard \in 0..(Stream - 1) /\ peer.heard <= peer.sent
        BY <1>1, <2>1, ModulusType
      <3> QED
        BY <3>1, <3>2, <3>3, DataByte
    <2>2. CASE peer.heard = peer.sent /\ peer.fin # "no" /\ Transmit(Fin)
      BY <1>1, <2>2, FinFields, ModulusType
    <2> QED
      BY <2>1, <2>2 DEF PeerRepeat
  <1>4. \A j \in 0..(peer'.sent - 1) : j < peer.sent
    BY <1>1, <1>2
  <1>5. at \notin {"shell", "connect"}
    BY <1>1 DEF OrderInv, QuietInv
  <1> QED
    BY <1>1, <1>2, <1>3, <1>4, <1>5, PeerOrder

(* Before the peer opens nothing of the stream is on its way.                *)
LEMMA QuietFrames ==
    ASSUME TcpInv, QuietInv, peer.state # "open", NEW m \in 0..Len(queue)
    PROVE  Frames[m].len = 0 /\ ~Frames[m].fin /\ Behind(Frames[m]) = 0
  <1>1. peer.sent = 0 /\ peer.fin = "no"
    BY DEF QuietInv
  <1> QED
    BY <1>1, FrameFacts DEF Behind

LEMMA QuietOrder ==
    ASSUME TcpInv, QuietInv, peer.state # "open"
    PROVE  /\ Gapless(Frames, Len(queue), 0, 0) /\ Doubleless(Frames, Len(queue), 0)
  BY QuietFrames DEF Gapless, Doubleless

LEMMA PeerHearOrder == ASSUME TcpInv, OrderInv, PeerHear PROVE OrderInv'
  <1>1. /\ UNCHANGED <<queue, current, at, app, ack, peer_fin, total, told, shown, lost>>
        /\ at \notin {"shell", "connect"} /\ peer \in Peers
    BY PeerType DEF PeerHear, conn
  <1>2. Frames' = Frames /\ Len(queue') = Len(queue)
    BY <1>1, SameFrames
  <1>3. peer'.sent = peer.sent /\ peer'.fin = peer.fin
    BY <1>1 DEF PeerHear, Peers
  <1>4. LoopInv' /\ RidingInv' /\ GapInv' /\ AckedIsShown'
    <2>1. LoopInv' /\ RidingInv' /\ GapInv'
      BY <1>1, <1>2, <1>3 DEF OrderInv, LoopInv, RidingInv, GapInv
    <2>2. AckedIsShown'
      <3>1. Full' = Full /\ Seen(Len(shown))' = Seen(Len(shown))
        BY <1>1 DEF Full, Seen
      <3>2. \A k \in 0..(Stream - 1) : FinByte(k)' = FinByte(k)
        BY <1>1, <1>3 DEF FinByte
      <3> QED
        BY <1>1, <3>1, <3>2 DEF OrderInv, AckedIsShown
    <2> QED
      BY <2>1, <2>2
  <1>5. CASE peer.state = "half" /\ peer' = [peer EXCEPT !.state = "open", !.repeats = 0]
    <2>1. peer'.state = "open" /\ peer.state # "open"
      BY <1>1, <1>5 DEF Peers
    <2>2. /\ peer.sent = 0 /\ peer.fin = "no" /\ told = 0 /\ shown = <<>> /\ peer_fin = FALSE
          /\ ack = Number(0)
      BY <1>1, <2>1 DEF OrderInv, QuietInv
    <2>3. QuietInv' /\ FinAcked'
      BY <1>1, <2>1, <2>2 DEF QuietInv, FinAcked
    <2>4. OnceInv'
      <3>1. Doubleless(Frames, Len(queue), 0)
        BY <2>1, QuietOrder DEF OrderInv
      <3> QED
        BY <1>1, <1>2, <2>2, <3>1 DEF OnceInv
    <2>5. ShownInv'
      <3>1. shown' = <<>> /\ 1..Len(shown') = {}
        BY <1>1, <2>2
      <3> QED
        BY <3>1 DEF ShownInv
    <2> QED
      BY <1>4, <2>3, <2>4, <2>5 DEF OrderInv
  <1>6. CASE peer.state = "open" /\ peer' = [peer EXCEPT !.heard = told]
    <2>1. peer'.state = peer.state /\ peer'.repeats = peer.repeats
      BY <1>1, <1>6 DEF Peers
    <2>2. QuietInv' /\ OnceInv'
      BY <1>1, <1>2, <1>3, <2>1 DEF OrderInv, QuietInv, OnceInv
    <2>3. ShownInv' /\ FinAcked'
      <3>1. ShownInv'
        BY <1>1, <2>1 DEF OrderInv, ShownInv, Seen
      <3> QED
        BY <1>1, <2>1, <3>1 DEF OrderInv, FinAcked
    <2> QED
      BY <1>4, <2>2, <2>3 DEF OrderInv
  <1> QED
    BY <1>5, <1>6 DEF PeerHear

-----------------------------------------------------------------------------
(* The driver keeps the order. *)

Unconnected == {"shell", "connect"}

(* Steps that neither take a frame nor acknowledge one.                      *)
LEMMA StillOrder ==
    ASSUME TcpInv, OrderInv, UNCHANGED <<ack, peer_fin, total, peer, told, shown, lost, app>>,
           at' \in Unconnected <=> at \in Unconnected, LoopInv',
           Frames' = Frames, Len(queue') = Len(queue)
    PROVE  OrderInv'
  <1>1. QuietInv' /\ RidingInv' /\ GapInv' /\ OnceInv' /\ FinAcked'
    <2>1. QuietInv'
      BY DEF OrderInv, QuietInv, Number, Unconnected
    <2>2. RidingInv' /\ GapInv' /\ OnceInv'
      BY DEF OrderInv, RidingInv, GapInv, OnceInv
    <2> QED
      BY <2>1, <2>2 DEF OrderInv, FinAcked
  <1>2. ShownInv' /\ AckedIsShown'
    <2>1. Full' = Full /\ (\A i : Seen(i)' = Seen(i))
      BY DEF Full, Seen
    <2>2. \A k \in 0..(Stream - 1) : FinByte(k)' = FinByte(k)
      BY DEF FinByte
    <2>3. ShownInv'
      BY DEF OrderInv, ShownInv, Seen
    <2>4. Seen(Len(shown))' = Seen(Len(shown))
      BY DEF Seen
    <2> QED
      BY <2>1, <2>2, <2>3, <2>4 DEF OrderInv, AckedIsShown
  <1> QED
    BY <1>1, <1>2 DEF OrderInv

LEMMA IdleOrder ==
    ASSUME TcpInv, OrderInv, Tick \/ SendData \/ RequestOver \/ RecvOver \/ Line \/ UNCHANGED vars
    PROVE  OrderInv'
  <1>1. /\ UNCHANGED <<queue, current, app, ack, peer_fin, total, peer, told, shown, lost>>
        /\ at' \in Unconnected <=> at \in Unconnected
        /\ at' = "request" => at = "request" \/ app = "nettest"
        /\ at' \in {"drain", "recv"} => at = at' \/ app # "nettest"
    <2>1. CASE Tick \/ UNCHANGED vars
      BY <2>1 DEF Tick, conn, vars
    <2>2. CASE SendData
      BY <2>2 DEF SendData, Wait, Unconnected
    <2>3. CASE RequestOver \/ RecvOver
      BY <2>3 DEF RequestOver, RecvOver, conn, Unconnected
    <2>4. CASE Line
      BY <2>4 DEF Line, Unconnected
    <2> QED
      BY <2>1, <2>2, <2>3, <2>4
  <1>2. app \in {"nettest", "ncat"}
    BY DriverFields
  <1>3. LoopInv'
    BY <1>1, <1>2 DEF OrderInv, LoopInv
  <1> QED
    BY <1>1, <1>3, SameFrames, StillOrder

LEMMA PollOrder == ASSUME TcpInv, OrderInv, Poll PROVE OrderInv'
  <1>1. /\ UNCHANGED <<at, app, ack, peer_fin, total, peer, told, shown, lost>>
        /\ Q!Take /\ current = NoFrame
    BY DEF Poll, conn
  <1> DEFINE n == Len(queue')
  <1>2. /\ Len(queue) = n + 1 /\ n \in Nat
        /\ \A m \in 0..n : Frames'[m] = Frames[m + 1]
    BY <1>1, TakeFrames
  <1>3. Frames[0].len = 0 /\ told \in Nat /\ peer.sent \in Nat
    <2>1. Frames[0] = current /\ 0 \in 0..Len(queue)
      BY <1>2, FrameFacts
    <2> QED
      BY <1>1, <2>1, NoFrameFields, DriverFields, PeerType, PeerFields
  <1> HIDE DEF n
  <1>4. RidingInv'
    <2>1. Riding(Frames, n + 1, peer.fin)
      BY <1>2 DEF OrderInv, RidingInv
    <2>2. \A m \in 0..n : m + 1 \in 0..(n + 1)
      BY <1>2
    <2>3. Riding(Frames', n, peer.fin)
      BY <1>2, <2>1, <2>2 DEF Riding
    <2> QED
      BY <1>1, <2>3 DEF RidingInv, n
  <1>5. GapInv'
    <2>1. ASSUME ~lost, peer_fin = FALSE PROVE Gapless(Frames', n, told, peer.sent)
      <3>1. Gapless(Frames, n + 1, told, peer.sent)
        BY <1>2, <2>1 DEF OrderInv, GapInv
      <3> QED
        BY <1>2, <1>3, <3>1, TakeGapless
    <2> QED
      BY <1>1, <2>1 DEF GapInv, n
  <1>6. OnceInv'
    <2>1. ASSUME peer.state = "open", peer.repeats = 0, ~lost, peer_fin = FALSE
          PROVE  ack = Number(told) /\ Doubleless(Frames', n, told)
      <3>1. ack = Number(told) /\ Doubleless(Frames, n + 1, told)
        BY <1>2, <2>1 DEF OrderInv, OnceInv
      <3> QED
        BY <1>2, <1>3, <3>1, TakeDoubleless
    <2> QED
      BY <1>1, <2>1 DEF OnceInv, n
  <1>7. QuietInv' /\ LoopInv' /\ ShownInv' /\ FinAcked'
    <2>1. QuietInv' /\ LoopInv'
      BY <1>1 DEF OrderInv, QuietInv, LoopInv, Number
    <2>2. ShownInv'
      BY <1>1 DEF OrderInv, ShownInv, Seen
    <2> QED
      BY <1>1, <2>1, <2>2 DEF OrderInv, FinAcked
  <1>8. AckedIsShown'
    <2>1. Full' = Full /\ Seen(Len(shown))' = Seen(Len(shown))
      BY <1>1 DEF Full, Seen
    <2>2. \A k \in 0..(Stream - 1) : FinByte(k)' = FinByte(k)
      BY <1>1 DEF FinByte
    <2> QED
      BY <1>1, <2>1, <2>2 DEF OrderInv, AckedIsShown
  <1> QED
    BY <1>4, <1>5, <1>6, <1>7, <1>8 DEF OrderInv

LEMMA QuietNow ==
    TcpInv /\ QuietInv /\ peer.state # "open" =>
        /\ Gapless(Frames, Len(queue), 0, 0)
        /\ \A m \in 0..Len(queue) : Frames[m].len = 0
  BY QuietOrder, QuietFrames

LEMMA QuietNext ==
    (TcpInv /\ QuietInv /\ peer.state # "open")' =>
        (/\ Gapless(Frames, Len(queue), 0, 0)
         /\ \A m \in 0..Len(queue) : Frames[m].len = 0)'
  BY QuietNow, PTL

(* Steps without a peer that is open: there is nothing to be out of order.   *)
LEMMA QuietStep ==
    ASSUME TcpInv, TcpInv', OrderInv, peer.state # "open", UNCHANGED <<peer, told, shown, peer_fin>>,
           at' \notin Unconnected => ack' = Number(0), LoopInv'
    PROVE  OrderInv'
  <1>1. /\ peer.sent = 0 /\ peer.fin = "no" /\ told = 0 /\ shown = <<>> /\ peer_fin = FALSE
    BY DEF OrderInv, QuietInv
  <1>2. QuietInv'
    BY <1>1 DEF QuietInv, Unconnected, Number
  <1>3. Gapless(Frames', Len(queue'), 0, 0) /\ \A m \in 0..Len(queue') : Frames'[m].len = 0
    BY <1>2, QuietNext
  <1>4. RidingInv' /\ GapInv' /\ OnceInv'
    BY <1>1, <1>3 DEF RidingInv, Riding, GapInv, OnceInv
  <1>5. ShownInv'
    <2>1. 1..Len(shown') = {}
      BY <1>1
    <2> QED
      BY <2>1 DEF ShownInv
  <1>6. AckedIsShown' /\ FinAcked'
    <2>1. told' = 0 /\ peer_fin' = FALSE
      BY <1>1
    <2>2. \A k \in 0..(Stream - 1) : ~(k < told')
      BY <2>1, ModulusType
    <2> QED
      BY <2>1, <2>2 DEF AckedIsShown, FinAcked
  <1> QED
    BY <1>2, <1>4, <1>5, <1>6 DEF OrderInv

LEMMA ConnectOrder ==
    ASSUME TcpInv, TcpInv', OrderInv,
           (\E a \in {"nettest", "ncat"} : Connect(a)) \/ Connected \/ NotConnected
    PROVE  OrderInv'
  <1>1. CASE \E a \in {"nettest", "ncat"} : Connect(a)
    <2>1. /\ at = "shell" /\ at' = "connect" /\ UNCHANGED <<peer, told, shown>> /\ peer_fin' = FALSE
      BY <1>1 DEF Connect, Wait
    <2>2. peer.state # "open" /\ peer_fin = FALSE
      BY <2>1 DEF OrderInv, QuietInv
    <2> QED
      BY <2>1, <2>2, QuietStep DEF Unconnected, LoopInv
  <1>2. CASE Connected
    <2>1. /\ at = "connect" /\ current.syn /\ current # NoFrame /\ UNCHANGED <<app, peer, shown, peer_fin>>
          /\ ack' = (current.rseq + 1) % M /\ told' = Max({told, Offset(ack')})
          /\ at' = IF app = "nettest" THEN "send" ELSE "drain"
      BY <1>2 DEF Connected, Polled, Tell
    <2>2. peer.state # "open" /\ told = 0
      BY <2>1 DEF OrderInv, QuietInv
    <2>3. current.rseq = PeerISN
      BY <2>1 DEF TcpInv, QueueInv, Honest
    <2>4. ack' = Number(0) /\ Offset(ack') = 0
      <3>1. PeerISN + 1 + 0 = PeerISN + 1 /\ 0 \in 0..(Stream + 2)
        BY ModulusType
      <3>2. ack' = Number(0)
        BY <2>1, <2>3, <3>1 DEF Number
      <3> QED
        BY <3>1, <3>2, OffsetOfNumber
    <2>5. told' = told
      BY <2>1, <2>2, <2>4, MaxOfTwo
    <2>6. LoopInv'
      BY <2>1, DriverFields DEF LoopInv
    <2> QED
      BY <2>1, <2>2, <2>4, <2>5, <2>6, QuietStep
  <1>3. CASE NotConnected
    <2>1. /\ at = "connect" /\ at' \in Unconnected /\ UNCHANGED <<peer, told, shown, peer_fin>>
      BY <1>3 DEF NotConnected, Polled, Unconnected, conn
    <2>2. peer.state # "open"
      BY <2>1 DEF OrderInv, QuietInv
    <2>3. LoopInv'
      BY <2>1 DEF LoopInv, Unconnected
    <2> QED
      BY <2>1, <2>2, <2>3, QuietStep
  <1> QED
    BY <1>1, <1>2, <1>3

-----------------------------------------------------------------------------
(* What is acknowledged, and what is shown. *)

LEMMA AckNumbers ==
    ASSUME TcpInv, Q!Finish, Acknowledge(current)
    PROVE  LET s == current
               one == IF s.fin THEN 1 ELSE 0
           IN  /\ s.len \in {0, 1} /\ s.fin \in BOOLEAN /\ peer_fin' = s.fin
               /\ s.len = 1 => /\ ack' = Number(Byte(s) + 1 + one)
                               /\ told' = Max({told, Byte(s) + 1 + one})
               /\ s.len = 0 /\ ~s.fin => ack' = ack /\ told' = told
               /\ s.len = 0 /\ s.fin =>
                      \A j \in 0..peer.sent : ack = Number(j) =>
                          ack' = Number(j + 1) /\ told' = Max({told, j + 1})
  <1> DEFINE s == current
             one == IF s.fin THEN 1 ELSE 0
  <1>1. /\ s \in Segment /\ peer_fin = FALSE /\ peer.sent \in 0..Stream
        /\ ack \in 0..(M - 1)
    BY DoneFrames, DriverFields, PeerType, PeerFields
  <1>2. /\ s.len \in {0, 1} /\ s.fin \in BOOLEAN /\ one \in {0, 1}
        /\ ack' = ((IF s.len > 0 THEN s.rseq + s.len ELSE ack) + one) % M
        /\ IF s.len > 0 \/ s.fin THEN told' = Max({told, Offset(ack')}) ELSE told' = told
    BY <1>1, SegmentFields DEF Acknowledge, AckOf, Tell
  <1>3. peer_fin' = s.fin
    BY <1>1, <1>2 DEF Acknowledge
  <1>4. ASSUME s.len = 1
        PROVE  /\ ack' = Number(Byte(s) + 1 + one)
               /\ told' = Max({told, Byte(s) + 1 + one})
    <2>1. /\ Byte(s) \in 0..(peer.sent - 1) /\ s.rseq = Number(Byte(s))
          /\ s.fin => Byte(s) + 1 = Stream
      <3>1. Frames[0] = s /\ 0 \in 0..Len(queue)
        <4>1. 0 \in 0..Len(queue)
          BY DoneFrames
        <4> QED
          BY <4>1, FrameFacts
      <3> QED
        BY <1>4, <3>1, FrameFacts
    <2> DEFINE k == Byte(s)
    <2> HIDE DEF k
    <2>2. k \in Nat /\ k + 1 + one \in 0..(Stream + 2) /\ 1 + one \in Nat
      BY <1>1, <1>2, <2>1, ModulusType DEF k
    <2>3. Number(k) \in Int
      BY <2>2, NumberType, ModulusType
    <2>4. (Number(k) + 1) + one = Number(k) + (1 + one) /\ k + (1 + one) = k + 1 + one
      BY <1>2, <2>2, <2>3
    <2>5. ack' = (Number(k) + (1 + one)) % M
      BY <1>2, <1>4, <2>1, <2>4 DEF k
    <2>6. ack' = Number(k + 1 + one)
      BY <2>2, <2>4, <2>5, NumberPlus
    <2>7. Offset(ack') = k + 1 + one
      BY <2>2, <2>6, OffsetOfNumber
    <2> QED
      BY <1>2, <1>4, <2>6, <2>7 DEF k
  <1>5. ASSUME s.len = 0, ~s.fin PROVE ack' = ack /\ told' = told
    <2>1. ack' = ack % M
      BY <1>1, <1>2, <1>5
    <2>2. ack % M = ack
      BY <1>1, ModulusType, ModSmall, Zenon
    <2> QED
      BY <1>2, <1>5, <2>1, <2>2
  <1>6. ASSUME s.len = 0, s.fin, NEW j \in 0..peer.sent, ack = Number(j)
        PROVE  ack' = Number(j + 1) /\ told' = Max({told, j + 1})
    <2>1. j \in Nat /\ j + 1 \in 0..(Stream + 2)
      BY <1>1, <1>6, ModulusType
    <2>2. ack' = (Number(j) + 1) % M
      BY <1>2, <1>6
    <2>3. ack' = Number(j + 1)
      BY <2>1, <2>2, NumberPlus
    <2>4. Offset(ack') = j + 1
      BY <2>1, <2>3, OffsetOfNumber
    <2> QED
      BY <1>2, <1>6, <2>3, <2>4
  <1> QED
    BY <1>2, <1>3, <1>4, <1>5, <1>6

(* What a segment that is acknowledged does to the order: it is the next     *)
(* byte, one that was acknowledged before, or the FIN behind the last one.   *)
LEMMA AckOrder ==
    ASSUME TcpInv, OrderInv, Q!Finish, Acknowledge(current), UNCHANGED <<at, peer, lost>>,
           at \notin Unconnected
    PROVE  /\ told \in Nat /\ told' \in Nat /\ told <= told'
           /\ current.len \in {0, 1}
           /\ current.len = 1 => /\ Byte(current) \in 0..(Stream - 1) /\ Byte(current) < told'
                                 /\ ~lost => Byte(current) <= told
                                 /\ ~lost /\ peer.state = "open" /\ peer.repeats = 0 =>
                                        Byte(current) = told
                                 /\ current.fin => peer.fin = "riding" /\ Byte(current) + 1 = Stream
                                 /\ peer.state = "open"
           /\ ~lost => \A j \in 0..(Stream - 1) :
                           j < told' => j < told \/ (current.len = 1 /\ j = Byte(current))
           /\ peer.state # "open" => /\ current.len = 0 /\ ack' = ack /\ told' = told
                                     /\ peer_fin' = FALSE
           /\ RidingInv' /\ GapInv' /\ OnceInv' /\ FinAcked'
  <1> DEFINE s == current
             n == Len(queue)
             k == Byte(s)
             one == IF s.fin THEN 1 ELSE 0
  <1>1. /\ s.len \in {0, 1} /\ s.fin \in BOOLEAN /\ peer_fin' = s.fin
        /\ s.len = 1 => ack' = Number(k + 1 + one) /\ told' = Max({told, k + 1 + one})
        /\ s.len = 0 /\ ~s.fin => ack' = ack /\ told' = told
        /\ s.len = 0 /\ s.fin =>
              \A j \in 0..peer.sent : ack = Number(j) =>
                  ack' = Number(j + 1) /\ told' = Max({told, j + 1})
    BY AckNumbers
  <1>2. /\ Len(queue') = n /\ n \in Nat /\ Frames'[0] = NoFrame
        /\ \A m \in 1..n : Frames'[m] = Frames[m]
        /\ peer_fin = FALSE
    BY DoneFrames
  <1>3. /\ Frames[0] = s /\ 0 \in 0..n
        /\ told \in Nat /\ told <= Reach(peer) /\ Stream \in Nat
        /\ peer.sent \in 0..Stream /\ Reach(peer) \in 0..(Stream + 1)
    BY <1>2, FrameFacts, DriverFields, PeerType, PeerFields, ModulusType
  <1>4. /\ s.len = 1 => k \in 0..(peer.sent - 1) /\ (s.fin => k + 1 = Stream)
        /\ s.fin => peer.fin # "no" /\ peer.sent = Stream
    BY <1>3, FrameFacts
  <1>5. PICK a \in Nat : a <= peer.sent /\ ack = Number(a)
    BY <1>2, DriverFields DEF AckAt, Unconnected
  <1>6. /\ Riding(Frames, n, peer.fin)
        /\ ~lost => Gapless(Frames, n, told, peer.sent)
        /\ peer.state = "open" /\ peer.repeats = 0 /\ ~lost =>
              ack = Number(told) /\ Doubleless(Frames, n, told)
    BY <1>2 DEF OrderInv, RidingInv, GapInv, OnceInv
  <1>7. peer.state # "open" => s.len = 0 /\ ~s.fin
    BY <1>3, QuietFrames DEF OrderInv
  <1>8. /\ Behind(s) = IF s.len = 1 THEN k ELSE IF s.fin THEN Stream ELSE 0
        /\ ~lost => \A j \in 0..(Behind(s) - 1) : j < told
    <2>1. Behind(s) = IF s.len = 1 THEN k ELSE IF s.fin THEN Stream ELSE 0
      BY DEF Behind
    <2>2. ASSUME ~lost, NEW j \in 0..(Behind(s) - 1) PROVE j < told
      <3>1. Before(Frames, told, 0, j)
        BY <1>3, <1>6, <2>2 DEF Gapless
      <3>2. 0..(0 - 1) = {}
        OBVIOUS
      <3> QED
        BY <3>1, <3>2 DEF Before
    <2> QED
      BY <2>1, <2>2
  <1> HIDE DEF s, n, k, one
  <1>9. told' \in Nat /\ told <= told'
        /\ (s.len = 1 => k < told' /\ told' \in {told, k + 1 + one})
        /\ (s.len = 0 /\ s.fin => told' \in {told, a + 1})
    <2>1. CASE s.len = 1
      <3>1. k + 1 + one \in Nat /\ k + 1 <= k + 1 + one
        BY <1>3, <1>4, <2>1 DEF one
      <3>2. told' = Max({told, k + 1 + one})
        BY <1>1, <2>1
      <3>3. told' \in {told, k + 1 + one} /\ told <= told' /\ k + 1 + one <= told'
        BY <1>3, <3>1, <3>2, MaxOfTwo
      <3>4. k \in Nat
        BY <1>3, <1>4, <2>1
      <3> QED
        BY <1>3, <2>1, <3>1, <3>3, <3>4
    <2>2. CASE s.len = 0 /\ s.fin
      <3>1. a \in 0..peer.sent /\ a + 1 \in Nat
        BY <1>3, <1>5
      <3>2. told' = Max({told, a + 1})
        BY <1>1, <1>5, <2>2, <3>1
      <3>3. told' \in {told, a + 1} /\ told <= told'
        BY <1>3, <3>1, <3>2, MaxOfTwo
      <3> QED
        BY <1>3, <2>2, <3>1, <3>3
    <2>3. CASE s.len = 0 /\ ~s.fin
      BY <1>1, <1>3, <2>3
    <2> QED
      BY <1>1, <2>1, <2>2, <2>3
  <1>10. ASSUME s.len = 1
         PROVE  /\ k \in 0..(Stream - 1) /\ (~lost => k <= told)
                /\ ~lost /\ peer.state = "open" /\ peer.repeats = 0 => k = told
                /\ s.fin => peer.fin = "riding" /\ k + 1 = Stream
                /\ peer.state = "open"
    <2>1. k \in 0..(Stream - 1)
      BY <1>3, <1>4, <1>10
    <2>2. ~lost => k <= told
      <3>1. CASE k = 0
        BY <1>3, <3>1
      <3>2. CASE k # 0
        <4>1. k - 1 \in 0..(k - 1)
          BY <2>1, <3>2
        <4>2. ~lost => k - 1 < told
          BY <1>8, <1>10, <4>1
        <4> QED
          BY <1>3, <2>1, <4>2
      <3> QED
        BY <3>1, <3>2
    <2>3. ~lost /\ peer.state = "open" /\ peer.repeats = 0 => k >= told
      BY <1>3, <1>6, <1>10 DEF Doubleless, k
    <2>4. s.fin => peer.fin = "riding"
      BY <1>3, <1>6, <1>10 DEF Riding
    <2> QED
      BY <1>1, <1>3, <1>4, <1>7, <1>10, <2>1, <2>2, <2>3, <2>4
  <1>11. ASSUME ~lost, NEW j \in 0..(Stream - 1), j < told'
         PROVE  j < told \/ (s.len = 1 /\ j = k)
    <2>1. CASE s.len = 1
      <3>1. CASE told' = told
        BY <1>11, <3>1
      <3>2. CASE told' = k + 1 + one
        <4>1. j <= k
          BY <1>1, <1>3, <1>10, <1>11, <2>1, <3>2 DEF one
        <4>2. j # k => j \in 0..(Behind(s) - 1)
          BY <1>8, <1>10, <1>11, <2>1, <4>1
        <4> QED
          BY <1>8, <1>11, <2>1, <4>2
      <3> QED
        BY <1>9, <2>1, <3>1, <3>2
    <2>2. CASE s.len = 0 /\ s.fin
      <3>1. j \in 0..(Behind(s) - 1)
        BY <1>8, <1>11, <2>2
      <3> QED
        BY <1>8, <1>11, <3>1
    <2>3. CASE s.len = 0 /\ ~s.fin
      BY <1>1, <1>11, <2>3
    <2> QED
      BY <1>1, <2>1, <2>2, <2>3
  <1>12. peer.state # "open" =>
             s.len = 0 /\ ack' = ack /\ told' = told /\ peer_fin' = FALSE
    BY <1>1, <1>7
  <1>13. RidingInv'
    <2>1. \A m \in 0..n : m = 0 \/ m \in 1..n
      BY <1>2
    <2>2. Riding(Frames', n, peer.fin)
      BY <1>2, <1>6, <2>1, NoFrameFields DEF Riding
    <2> QED
      BY <1>2, <2>2 DEF RidingInv
  <1>14. GapInv'
    <2>1. ASSUME ~lost PROVE Gapless(Frames', n, told', peer.sent)
      <3>1. Gapless(Frames, n, told, peer.sent) /\ peer.sent \in Nat
        BY <1>3, <1>6, <2>1
      <3>2. Frames[0].len = 1 => Byte(Frames[0]) < told'
        BY <1>3, <1>9 DEF k
      <3>3. Behind(Frames'[0]) = 0
        BY <1>2, NoFrameFields
      <3> QED
        BY <1>2, <1>3, <1>9, <3>1, <3>2, <3>3, DoneGapless
    <2> QED
      BY <1>2, <2>1 DEF GapInv
  <1>15. OnceInv'
    <2>1. ASSUME peer.state = "open", peer.repeats = 0, ~lost, ~s.fin
          PROVE  ack' = Number(told') /\ Doubleless(Frames', n, told')
      <3>1. ack = Number(told) /\ Doubleless(Frames, n, told)
        BY <1>6, <2>1
      <3>2. /\ s.len = 1 => told' = told + 1 /\ ack' = Number(told')
            /\ s.len = 0 => told' = told /\ ack' = ack
        <4>1. CASE s.len = 1
          <5>1. k = told /\ one = 0
            BY <1>10, <2>1, <4>1 DEF one
          <5>2. k + 1 + one = told + 1
            BY <1>3, <5>1
          <5>3. told' = told + 1
            BY <1>3, <1>9, <4>1, <5>1, <5>2
          <5> QED
            BY <1>1, <4>1, <5>2, <5>3
        <4>2. CASE s.len = 0
          BY <1>1, <2>1, <4>2
        <4> QED
          BY <1>1, <4>1, <4>2
      <3>3. ASSUME NEW m \in 1..n, Frames[m].len = 1 PROVE Byte(Frames[m]) >= told'
        <4>1. m \in 0..n /\ m # 0
          BY <1>2
        <4>2. Byte(Frames[m]) >= told /\ Byte(Frames[m]) \in 0..(peer.sent - 1)
          BY <3>1, <3>3, <4>1, FrameFacts DEF Doubleless, n
        <4>3. CASE s.len = 1
          <5>1. Byte(Frames[m]) # k
            BY <1>3, <3>1, <3>3, <4>1, <4>3 DEF Doubleless, k
          <5>2. k = told
            BY <1>10, <2>1, <4>3
          <5> QED
            BY <1>3, <3>2, <4>2, <4>3, <5>1, <5>2
        <4>4. CASE s.len = 0
          BY <3>2, <4>2, <4>4
        <4> QED
          BY <1>1, <4>3, <4>4
      <3>4. Doubleless(Frames', n, told')
        BY <1>2, <1>3, <1>9, <3>1, <3>3, NoFrameFields, DoneDoubleless
      <3> QED
        BY <1>1, <3>1, <3>2, <3>4
    <2>2. peer_fin' = FALSE => ~s.fin
      BY <1>1
    <2> QED
      BY <1>2, <2>1, <2>2 DEF OnceInv
  <1>16. FinAcked'
    <2>1. ASSUME s.fin, ~lost, peer.repeats = 0 PROVE told' = Stream + 1
      <3>1. peer.state = "open" /\ peer.sent = Stream
        BY <1>4, <1>7, <2>1
      <3>2. CASE s.len = 1
        <4>1. k = told /\ one = 1 /\ k + 1 = Stream
          BY <1>10, <2>1, <3>1, <3>2 DEF one
        <4>2. k + 1 + one = Stream + 1
          BY <1>3, <4>1
        <4>3. told' = Max({told, Stream + 1})
          BY <1>1, <3>2, <4>2
        <4> QED
          BY <1>3, <4>1, <4>3, MaxOfTwo
      <3>3. CASE s.len = 0
        <4>1. ack = Number(told)
          BY <1>6, <2>1, <3>1
        <4>2. told \in 0..(Stream + 2) /\ a \in 0..(Stream + 2)
          BY <1>3, <1>5
        <4>3. told = a
          <5>1. Offset(ack) = told /\ Offset(ack) = a
            BY <1>5, <4>1, <4>2, OffsetOfNumber
          <5> QED
            BY <5>1
        <4>4. told >= Stream
          <5>1. CASE Stream = 0
            BY <1>3, <5>1
          <5>2. CASE Stream # 0
            <6>1. Stream - 1 \in 0..(Behind(s) - 1)
              BY <1>3, <1>8, <2>1, <3>3, <5>2
            <6>2. Stream - 1 < told
              BY <1>8, <2>1, <6>1
            <6> QED
              BY <1>3, <6>2
          <5> QED
            BY <5>1, <5>2
        <4>5. told = Stream /\ a = Stream
          BY <1>3, <1>5, <4>3, <4>4
        <4>6. told' = Max({told, a + 1})
          <5>1. a \in 0..peer.sent
            BY <1>3, <1>5
          <5> QED
            BY <1>1, <1>5, <2>1, <3>3, <5>1
        <4> QED
          BY <1>3, <4>5, <4>6, MaxOfTwo
      <3> QED
        BY <1>1, <3>2, <3>3
    <2> QED
      BY <1>1, <2>1 DEF FinAcked
  <1> QED
    BY <1>1, <1>3, <1>9, <1>10, <1>11, <1>12, <1>13, <1>14, <1>15, <1>16 DEF s, k

(* A step that shows nothing, or a byte shown before; and one that shows the *)
(* byte in hand.                                                             *)
LEMMA ShownSame ==
    ASSUME TcpInv, OrderInv, Q!Finish, Acknowledge(current), UNCHANGED <<at, app, peer, lost, shown>>,
           at \notin Unconnected, LoopInv', Full' \/ ~Full,
           \A k \in 0..(Stream - 1) :
               current.len = 1 /\ k = Byte(current) =>
                   Full' \/ FinByte(k) \/ k \in Seen(Len(shown))
    PROVE  OrderInv'
  <1>1. /\ told \in Nat /\ told' \in Nat /\ told <= told'
        /\ ~lost => \A j \in 0..(Stream - 1) :
                        j < told' => j < told \/ (current.len = 1 /\ j = Byte(current))
        /\ peer.state # "open" => ack' = ack /\ told' = told /\ peer_fin' = FALSE
        /\ RidingInv' /\ GapInv' /\ OnceInv' /\ FinAcked'
    BY AckOrder
  <1>2. QuietInv'
    BY <1>1 DEF OrderInv, QuietInv, Number, Unconnected
  <1>3. ShownInv'
    <2>1. shown \in Seq(0..(Stream - 1)) /\ shown' = shown
      BY DriverFields
    <2>2. \A i \in 1..Len(shown) : shown[i] \in Int /\ shown[i] < told
      BY <2>1, ModulusType DEF OrderInv, ShownInv
    <2>3. \A i \in 1..Len(shown) : shown[i] < told'
      BY <1>1, <2>2
    <2>4. \A i : Seen(i)' = Seen(i)
      BY <2>1 DEF Seen
    <2> QED
      BY <2>1, <2>3, <2>4 DEF OrderInv, ShownInv
  <1>4. AckedIsShown'
    <2>1. Seen(Len(shown))' = Seen(Len(shown))
      BY DEF Seen
    <2>2. \A k \in 0..(Stream - 1) : FinByte(k)' = FinByte(k)
      BY DEF FinByte
    <2>3. ASSUME ~lost, ~Full', NEW k \in 0..(Stream - 1), k < told', ~FinByte(k)
          PROVE  k \in Seen(Len(shown))
      <3>1. k < told \/ k \in Seen(Len(shown))
        BY <1>1, <2>3
      <3> QED
        BY <2>3, <3>1 DEF OrderInv, AckedIsShown
    <2> QED
      BY <2>1, <2>2, <2>3 DEF AckedIsShown
  <1> QED
    BY <1>1, <1>2, <1>3, <1>4 DEF OrderInv

LEMMA ShownGrows ==
    ASSUME NEW S, NEW s \in Seq(S), NEW b \in S, NEW g, g = Append(s, b)
    PROVE  /\ Len(s) \in Nat /\ Len(g) = Len(s) + 1 /\ g[Len(s) + 1] = b
           /\ \A i \in 1..Len(s) : g[i] = s[i]
           /\ \A i \in 1..Len(g) : i \in 1..Len(s) \/ i = Len(s) + 1
           /\ \A i \in 1..Len(g) : {g[j] : j \in 1..(i - 1)} = {s[j] : j \in 1..(i - 1)}
           /\ {g[j] : j \in 1..Len(g)} = {s[j] : j \in 1..Len(s)} \cup {b}
  <1>1. /\ Len(s) \in Nat /\ Len(g) = Len(s) + 1 /\ g[Len(s) + 1] = b
        /\ \A i \in 1..Len(s) : g[i] = s[i]
    BY AppendSeq
  <1>2. \A i \in 1..Len(g) : i \in 1..Len(s) \/ i = Len(s) + 1
    BY <1>1
  <1>3. ASSUME NEW i \in 1..Len(g)
        PROVE  {g[j] : j \in 1..(i - 1)} = {s[j] : j \in 1..(i - 1)}
    <2>1. \A j \in 1..(i - 1) : g[j] = s[j]
      BY <1>1
    <2> QED
      BY <2>1
  <1>4. {g[j] : j \in 1..Len(g)} = {s[j] : j \in 1..Len(s)} \cup {b}
    <2>1. Len(s) + 1 \in 1..Len(g) /\ 1..Len(s) \subseteq 1..Len(g)
      BY <1>1
    <2> QED
      BY <1>1, <1>2, <2>1
  <1> QED
    BY <1>1, <1>2, <1>3, <1>4

LEMMA SeqElements ==
    ASSUME NEW S, NEW s \in Seq(S)
    PROVE  \A i \in 1..Len(s) : s[i] \in S
  OBVIOUS

LEMMA ShownMore ==
    ASSUME TcpInv, OrderInv, Q!Finish, Acknowledge(current), UNCHANGED <<at, app, peer, lost>>,
           at \notin Unconnected, LoopInv', ~Full,
           current.len = 1, shown' = Append(shown, Byte(current)),
           app # "ncat" \/ ~current.fin
    PROVE  OrderInv'
  <1> DEFINE b == Byte(current)
             n == Len(shown)
  <1>1. /\ told \in Nat /\ told' \in Nat /\ told <= told'
        /\ b \in 0..(Stream - 1) /\ b < told' /\ (~lost => b <= told)
        /\ ~lost /\ peer.state = "open" /\ peer.repeats = 0 => b = told
        /\ peer.state = "open"
        /\ ~lost => \A j \in 0..(Stream - 1) : j < told' => j < told \/ j = b
        /\ RidingInv' /\ GapInv' /\ OnceInv' /\ FinAcked'
    BY AckOrder
  <1>2. QuietInv'
    BY <1>1 DEF OrderInv, QuietInv, Unconnected
  <1>3. /\ n \in Nat /\ Len(shown') = n + 1 /\ shown'[n + 1] = b
        /\ \A i \in 1..n : shown'[i] = shown[i] /\ shown[i] \in 0..(Stream - 1)
        /\ \A i \in 1..Len(shown') : i \in 1..n \/ i = n + 1
        /\ \A i \in 1..Len(shown') : {shown'[j] : j \in 1..(i - 1)} = {shown[j] : j \in 1..(i - 1)}
        /\ {shown'[j] : j \in 1..Len(shown')} = {shown[j] : j \in 1..n} \cup {b}
    <2>1. shown \in Seq(0..(Stream - 1)) /\ b \in 0..(Stream - 1)
      BY <1>1, DriverFields
    <2>2. \A i \in 1..n : shown[i] \in 0..(Stream - 1)
      BY <2>1, SeqElements, Zenon
    <2> QED
      BY <2>1, <2>2, ShownGrows
  <1>4. /\ \A i \in 1..n : shown[i] < told
        /\ ~lost => \A i \in 1..n : \A j \in 0..(shown[i] - 1) : j \in Seen(i - 1)
        /\ ~lost /\ peer.repeats = 0 => \A i, j \in 1..n : shown[i] = shown[j] => i = j
    BY DEF OrderInv, ShownInv
  (* What comes before the byte was acknowledged, and so was shown.          *)
  <1>5. ASSUME ~lost, NEW j \in 0..(Stream - 1), j < b PROVE j \in Seen(n)
    <2>1. j < told
      BY <1>1, <1>5
    <2>2. ~FinByte(j)
      BY <1>1, <1>5, ModulusType DEF FinByte
    <2> QED
      BY <1>5, <2>1, <2>2 DEF OrderInv, AckedIsShown
  <1> HIDE DEF b, n
  <1>6. ShownInv'
    <2>1. \A i \in 1..Len(shown') : shown'[i] < told'
      BY <1>1, <1>3, <1>4, ModulusType
    <2>2. ASSUME ~lost, NEW i \in 1..Len(shown'), NEW j \in 0..(shown'[i] - 1)
          PROVE  j \in {shown'[m] : m \in 1..(i - 1)}
      <3>1. CASE i \in 1..n
        <4>1. j \in Seen(i - 1)
          BY <1>3, <1>4, <2>2, <3>1
        <4> QED
          BY <1>3, <4>1 DEF Seen
      <3>2. CASE i = n + 1
        <4>1. j \in 0..(Stream - 1) /\ j < b /\ i - 1 = n
          BY <1>1, <1>3, <2>2, <3>2, ModulusType
        <4> QED
          BY <1>3, <1>5, <2>2, <4>1 DEF Seen
      <3> QED
        BY <1>3, <3>1, <3>2
    <2>3. ASSUME ~lost, peer.repeats = 0, NEW i \in 1..Len(shown'), NEW j \in 1..Len(shown'),
                 shown'[i] = shown'[j]
          PROVE  i = j
      <3>1. b = told
        BY <1>1, <2>3
      <3>2. \A m \in 1..n : shown'[m] # b
        BY <1>1, <1>3, <1>4, <3>1, ModulusType
      <3>3. CASE i \in 1..n /\ j \in 1..n
        BY <1>3, <1>4, <2>3, <3>3
      <3>4. CASE i = n + 1 \/ j = n + 1
        BY <1>3, <2>3, <3>2, <3>4
      <3> QED
        BY <1>3, <3>3, <3>4
    <2> QED
      BY <2>1, <2>2, <2>3 DEF ShownInv, Seen
  <1>7. AckedIsShown'
    <2>1. \A k \in 0..(Stream - 1) : FinByte(k)' = FinByte(k)
      BY DEF FinByte
    <2>2. ASSUME ~lost, NEW k \in 0..(Stream - 1), k < told', ~FinByte(k)
          PROVE  k \in {shown'[j] : j \in 1..Len(shown')}
      <3>1. CASE k = b
        BY <1>3, <3>1
      <3>2. CASE k # b
        <4>1. k < told
          BY <1>1, <2>2, <3>2
        <4>2. k \in Seen(n)
          BY <2>2, <4>1 DEF OrderInv, AckedIsShown, n
        <4> QED
          BY <1>3, <4>2 DEF Seen
      <3> QED
        BY <3>1, <3>2
    <2> QED
      BY <2>1, <2>2 DEF AckedIsShown, Seen
  <1> QED
    BY <1>1, <1>2, <1>6, <1>7 DEF OrderInv

LEMMA ShownNext ==
    ASSUME TcpInv, OrderInv, Q!Finish, Acknowledge(current), UNCHANGED <<at, app, peer, lost>>,
           at \notin Unconnected, LoopInv', ~Full,
           current.len = 1, Show(Byte(current)),
           app # "ncat" \/ ~current.fin
    PROVE  OrderInv'
  <1>1. Byte(current) \in 0..(Stream - 1)
    BY AckOrder
  <1>2. \/ shown' = Append(shown, Byte(current))
        \/ shown' = shown /\ Byte(current) \in Seen(Len(shown))
    BY <1>1, ShowGives
  <1> QED
    BY <1>2, ShownMore, ShownSame

LEMMA RequestOrder == ASSUME TcpInv, OrderInv, Request PROVE OrderInv'
  <1> DEFINE copy == Min({current.len, BufSize - 1 - total})
  <1>1. /\ at = "request" /\ Acknowledge(current) /\ Q!Finish
        /\ UNCHANGED <<at, app, peer, lost>>
        /\ total' = total + copy
        /\ IF copy > 0 THEN Show(Byte(current)) ELSE UNCHANGED shown
    BY DEF Request, Polled, Byte
  <1>2. /\ total \in 0..(BufSize - 1) /\ BufSize \in Nat \ {0} /\ app = "nettest"
        /\ current.len \in {0, 1} /\ at \notin Unconnected
    BY <1>1, DriverFields, TcpAssumption, AckOrder DEF OrderInv, LoopInv, Unconnected
  <1>3. /\ copy \in {current.len, BufSize - 1 - total}
        /\ copy <= current.len /\ copy <= BufSize - 1 - total
    BY <1>2, MinOfTwo
  <1>4. LoopInv'
    BY <1>1 DEF OrderInv, LoopInv
  <1> HIDE DEF copy
  <1>5. CASE copy > 0
    <2>1. current.len = 1 /\ total # BufSize - 1
      BY <1>2, <1>3, <1>5
    <2>2. ~Full /\ Show(Byte(current)) /\ app # "ncat"
      BY <1>1, <1>2, <1>5, <2>1 DEF Full
    <2> QED
      BY <1>1, <1>2, <1>4, <2>1, <2>2, ShownNext
  <1>6. CASE ~(copy > 0)
    <2>1. copy = 0
      BY <1>2, <1>3, <1>6
    <2>2. total' = total /\ shown' = shown
      BY <1>1, <1>2, <2>1
    <2>3. Full' = Full
      BY <1>1, <2>2 DEF Full
    <2>4. current.len = 1 => Full
      BY <1>2, <1>3, <2>1 DEF Full
    <2> QED
      BY <1>1, <1>2, <1>4, <2>2, <2>3, <2>4, ShownSame
  <1> QED
    BY <1>5, <1>6

LEMMA RecvOrder == ASSUME TcpInv, OrderInv, Recv PROVE OrderInv'
  <1>1. /\ at \in {"drain", "recv"} /\ Acknowledge(current) /\ Q!Finish
        /\ UNCHANGED <<at, app, peer, lost, total>>
        /\ IF current.len > 0 /\ ~current.fin THEN Show(Byte(current)) ELSE UNCHANGED shown
    BY DEF Recv, Polled, Byte
  <1>2. app = "ncat" /\ at \notin Unconnected /\ current.len \in {0, 1}
        /\ (current.len = 1 /\ current.fin => peer.fin = "riding" /\ Byte(current) + 1 = Stream
                                              /\ Byte(current) \in 0..(Stream - 1))
    <2>1. app = "ncat" /\ at \notin Unconnected
      BY <1>1 DEF OrderInv, LoopInv, Unconnected
    <2> QED
      BY <1>1, <2>1, AckOrder
  <1>3. LoopInv' /\ ~Full /\ Full' = Full
    BY <1>1, <1>2 DEF OrderInv, LoopInv, Full
  <1>4. CASE current.len = 1 /\ ~current.fin
    <2>1. Show(Byte(current))
      BY <1>1, <1>2, <1>4
    <2> QED
      BY <1>1, <1>2, <1>3, <1>4, <2>1, ShownNext
  <1>5. CASE ~(current.len = 1 /\ ~current.fin)
    <2>1. shown' = shown
      BY <1>1, <1>2, <1>5
    <2>2. ASSUME current.len = 1 PROVE FinByte(Byte(current))
      BY <1>2, <1>5, <2>2, ModulusType DEF FinByte
    <2> QED
      BY <1>1, <1>2, <1>3, <2>1, <2>2, ShownSame
  <1> QED
    BY <1>4, <1>5

-----------------------------------------------------------------------------
LEMMA OrderInit == Init => OrderInv
  <1> SUFFICES ASSUME Init PROVE OrderInv
    OBVIOUS
  <1>1. /\ queue = <<>> /\ current = NoFrame /\ at = "shell" /\ app = "nettest"
        /\ peer_fin = FALSE /\ told = 0 /\ shown = <<>>
        /\ peer.state = "listen" /\ peer.sent = 0 /\ peer.fin = "no"
    BY DEF Init, Q!Init
  <1>2. QuietInv /\ LoopInv /\ FinAcked
    BY <1>1 DEF QuietInv, LoopInv, FinAcked
  <1>3. TcpInv
    BY TcpInit
  <1>4. RidingInv /\ GapInv /\ OnceInv
    BY <1>1, <1>2, <1>3, QuietOrder, QuietFrames DEF RidingInv, Riding, GapInv, OnceInv
  <1>5. ShownInv /\ AckedIsShown
    <2>1. 1..Len(shown) = {} /\ \A k \in 0..(Stream - 1) : ~(k < told)
      BY <1>1, ModulusType
    <2> QED
      BY <2>1 DEF ShownInv, AckedIsShown
  <1> QED
    BY <1>2, <1>4, <1>5 DEF OrderInv

LEMMA OrderNext == TcpInv /\ TcpInv' /\ OrderInv /\ [Next]_vars => OrderInv'
  <1> SUFFICES ASSUME TcpInv, TcpInv', OrderInv, [Next]_vars PROVE OrderInv'
    OBVIOUS
  <1>1. CASE Tick \/ SendData \/ RequestOver \/ RecvOver \/ Line \/ UNCHANGED vars
    BY <1>1, IdleOrder
  <1>2. CASE Poll \/ Request \/ Recv
    BY <1>2, PollOrder, RequestOrder, RecvOrder
  <1>3. CASE (\E a \in {"nettest", "ncat"} : Connect(a)) \/ Connected \/ NotConnected
    BY <1>3, ConnectOrder
  <1>4. CASE PeerAccept \/ PeerHear \/ PeerSend \/ PeerFin \/ PeerRepeat
    BY <1>4, PeerAcceptOrder, PeerHearOrder, PeerSendOrder, PeerFinOrder, PeerRepeatOrder
  <1> QED
    BY <1>1, <1>2, <1>3, <1>4 DEF Next, Work

(* The order of the stream is kept from the peer's first byte to the user:   *)
(* OrderInv is inductive on top of TcpInv.                                   *)
THEOREM TcpOrder == Spec => []OrderInv
  <1>1. Init => OrderInv
    BY OrderInit
  <1>2. TcpInv /\ TcpInv' /\ OrderInv /\ [Next]_vars => OrderInv'
    BY OrderNext
  <1> QED
    BY <1>1, <1>2, TcpInductive, PTL DEF Spec

(* As long as no frame is lost, what the peer is told to forget has reached  *)
(* the user, repeated segments or not, but for what lies behind the end of   *)
(* the buffer and the byte that comes with the FIN.                          *)
THEOREM TcpAckedIsShown == Spec => []AckedIsShown
  <1>1. OrderInv => AckedIsShown
    BY DEF OrderInv
  <1> QED
    BY <1>1, TcpOrder, PTL

(* The FIN is acknowledged when it is taken, unless a loss or a repetition   *)
(* has left ack elsewhere.                                                   *)
THEOREM TcpFinAcked == Spec => []FinAcked
  <1>1. OrderInv => FinAcked
    BY DEF OrderInv
  <1> QED
    BY <1>1, TcpOrder, PTL

(* The bytes before one are as many as its number says.                      *)
LEMMA EnoughSeen ==
    ASSUME NEW S, IsFiniteSet(S), NEW v \in Nat, 0..(v - 1) \subseteq S
    PROVE  v \in 0..Cardinality(S)
  <1>1. IsFiniteSet(0..(v - 1)) /\ Cardinality(0..(v - 1)) = v
    <2>1. Cardinality(0..(v - 1)) = IF 0 > v - 1 THEN 0 ELSE (v - 1) - 0 + 1
      BY FS_Interval
    <2> QED
      BY <2>1, FS_Interval
  <1>2. Cardinality(0..(v - 1)) <= Cardinality(S) /\ Cardinality(S) \in Nat
    BY <1>1, FS_Subset, FS_CardinalityType
  <1> QED
    BY <1>1, <1>2

(* As long as no frame is lost, the user sees the stream from its beginning  *)
(* and nothing before its turn, and without repetitions nothing twice.       *)
THEOREM TcpShownInOrder == Spec => []ShownInOrder
  <1>1. TcpInv /\ OrderInv => ShownInOrder
    <2> SUFFICES ASSUME TcpInv, OrderInv PROVE ShownInOrder
      OBVIOUS
    <2>1. ASSUME ~lost, NEW i \in 1..Len(shown) PROVE shown[i] \in 0..Cardinality(Seen(i - 1))
      <3>1. shown \in Seq(0..(Stream - 1)) /\ Len(shown) \in Nat
        BY DriverFields
      <3>2. \A j \in 1..Len(shown) : shown[j] \in 0..(Stream - 1)
        BY <3>1, SeqElements, Zenon
      <3>3. \A j \in 1..(i - 1) : j \in 1..Len(shown)
        BY <3>1
      <3>4. Seen(i - 1) \subseteq 0..(Stream - 1)
        BY <3>2, <3>3 DEF Seen
      <3>5. IsFiniteSet(Seen(i - 1))
        <4>1. 0 \in Int /\ Stream - 1 \in Int
          BY ModulusType
        <4>2. IsFiniteSet(0..(Stream - 1))
          BY <4>1, FS_Interval, Zenon
        <4> QED
          BY <3>4, <4>2, FS_Subset, Zenon
      <3>6. shown[i] \in Nat /\ 0..(shown[i] - 1) \subseteq Seen(i - 1)
        BY <2>1, <3>2, ModulusType DEF OrderInv, ShownInv
      <3> QED
        BY <3>5, <3>6, EnoughSeen
    <2>2. ~lost /\ peer.repeats = 0 => \A i, j \in 1..Len(shown) : shown[i] = shown[j] => i = j
      BY DEF OrderInv, ShownInv
    <2> QED
      BY <2>1, <2>2 DEF ShownInOrder
  <1> QED
    BY <1>1, TcpOrder, TcpInductive, PTL

=============================================================================
