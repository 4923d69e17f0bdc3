-------------------------------- MODULE Tcp --------------------------------
(***************************************************************************)
(* One TCP connection of nettest (net_http_get) or ncat: tcp_connect,       *)
(* tcp_request, net_tcp_send, net_tcp_recv and net_tcp_close                *)
(* (src/src/network/main.c) and the loops of ncat (src/src/apps/ncat.c).    *)
(*                                                                         *)
(* The driver sends everything once and acknowledges whatever comes last.   *)
(* The peer is a TCP of the outside world: it sends its stream in order,    *)
(* repeats a byte that it has seen no acknowledgement of, as often as it    *)
(* likes, and ends with a FIN of its own or on its last byte.  The link     *)
(* keeps the order and may lose frames.                                     *)
(*                                                                         *)
(* A segment carries at most one byte of the stream; bytes are numbered     *)
(* from 0.  Sequence numbers are modulo M, 2^32 in the code.                *)
(***************************************************************************)
EXTENDS Integers, Sequences, FiniteSetsExt

CONSTANTS
    M,              \* 2^32 in the code
    OurISN,         \* 0xCAFEBABE in the code
    PeerISN,        \* the peer's first sequence number
    Stream,         \* bytes the peer sends
    BufSize,        \* bytes of nettest's buffer, 4096 in the code
    RequestLen,     \* bytes nettest or a line of ncat sends
    MaxLines,       \* bound: lines typed in ncat
    MaxConnects,    \* bound: commands
    MaxRepeats,     \* bound: segments the peer repeats that are counted
    MaxQueue        \* bound: frames in the receive queue

ASSUME TcpAssumption ==
    /\ M \in Nat /\ OurISN \in 0..(M - 1) /\ PeerISN \in 0..(M - 1)
    /\ Stream \in Nat /\ 2 * Stream + 4 < M
    /\ BufSize \in Nat \ {0} /\ RequestLen \in Nat \ {0}
    /\ {MaxLines, MaxConnects, MaxQueue} \subseteq Nat /\ MaxRepeats \in Nat \ {0}

VARIABLES
    queue, current, \* the receive queue and the frame in hand (RxQueue)
    at, app,        \* where the main loop is, in which command
    expired,        \* timer_ticks has passed the deadline of the wait
    seq, ack,       \* tcp_conn_t
    peer_fin,       \* tcp_conn_t
    total,          \* bytes in nettest's buffer
    peer,           \* the other side: state, bytes sent, FIN (not sent, alone,
                    \* on the last byte), bytes it knows to be acknowledged,
                    \* segments repeated
    wire,           \* history: our segments, without bare acknowledgements
    told,           \* history: the highest acknowledgement we have sent
    shown,          \* history: the bytes the user gets to see (see Show)
    lost            \* history: a frame was lost

conn == <<seq, ack, peer_fin>>
vars == <<queue, current, at, app, expired, conn, total, peer, wire, told, shown, lost>>

Segment == [syn : BOOLEAN, fin : BOOLEAN, len : 0..1, rseq : 0..(M - 1)]
NoFrame == [syn |-> FALSE, fin |-> FALSE, len |-> 0, rseq |-> -1]
Q == INSTANCE RxQueue WITH Frame <- Segment, None <- NoFrame

Waits == {"connect", "request", "drain", "recv"}

Init ==
    /\ Q!Init
    /\ at = "shell" /\ app = "nettest" /\ expired = FALSE
    /\ seq = OurISN /\ ack = 0 /\ peer_fin = FALSE /\ total = 0
    /\ peer = [state |-> "listen", sent |-> 0, fin |-> "no", heard |-> 0, repeats |-> 0]
    /\ wire = <<>> /\ told = 0 /\ shown = <<>> /\ lost = FALSE

-----------------------------------------------------------------------------
(* The peer and the link. *)

(* A number of the peer's sequence space: how many bytes come before it.     *)
Offset(n) == (n - PeerISN - 1) % M
Number(k) == (PeerISN + 1 + k) % M

(* The link brings a segment into the queue or loses it. *)
Transmit(s) ==
    /\ \/ Len(queue) < MaxQueue /\ Q!Arrive(s) /\ UNCHANGED lost
       \/ lost' = TRUE /\ UNCHANGED <<queue, current>>
    /\ UNCHANGED <<at, app, expired, conn, total, wire, told, shown>>

Data(k, fin) == [syn |-> FALSE, fin |-> fin, len |-> 1, rseq |-> Number(k)]

(* It answers a SYN, also one that comes a second time, or refuses it (a     *)
(* segment without SYN, FIN or data; driver and model ignore RST).           *)
PeerAccept ==
    /\ wire # <<>> /\ peer.state \in {"listen", "half"}
    /\ Cardinality({i \in DOMAIN wire : wire[i].kind = "syn"}) > peer.repeats
    /\ \/ /\ peer' = [peer EXCEPT !.state = "half", !.repeats = @ + 1]
          /\ Transmit([syn |-> TRUE, fin |-> FALSE, len |-> 0, rseq |-> PeerISN])
       \/ /\ peer' = [peer EXCEPT !.repeats = @ + 1]
          /\ Transmit([syn |-> FALSE, fin |-> FALSE, len |-> 0, rseq |-> 0])

(* It hears our acknowledgement of its SYN, and later ones. *)
PeerHear ==
    /\ at \notin {"shell", "connect"}
    /\ \/ peer.state = "half" /\ peer' = [peer EXCEPT !.state = "open", !.repeats = 0]
       \/ peer.state = "open" /\ peer.heard < told /\ peer' = [peer EXCEPT !.heard = told]
    /\ UNCHANGED <<queue, current, at, app, expired, conn, total, wire, told, shown, lost>>

PeerSend ==
    /\ peer.state = "open" /\ peer.sent < Stream
    /\ \E fin \in {"no"} \cup (IF peer.sent + 1 = Stream THEN {"riding"} ELSE {}) :
          /\ peer' = [peer EXCEPT !.sent = @ + 1, !.fin = fin]
          /\ Transmit(Data(peer.sent, fin = "riding"))

Fin == [syn |-> FALSE, fin |-> TRUE, len |-> 0, rseq |-> Number(Stream)]

PeerFin ==
    /\ peer.state = "open" /\ peer.sent = Stream /\ peer.fin = "no"
    /\ peer' = [peer EXCEPT !.fin = "alone"]
    /\ Transmit(Fin)

(* It repeats the first byte it has not heard an acknowledgement of, or the  *)
(* FIN, without end: what is bounded is only the count.                      *)
PeerRepeat ==
    /\ peer.state = "open"
    /\ peer' = [peer EXCEPT !.repeats = IF @ < MaxRepeats THEN @ + 1 ELSE @]
    /\ \/ /\ peer.heard < peer.sent
          /\ Transmit(Data(peer.heard, peer.fin = "riding" /\ peer.heard + 1 = Stream))
       \/ peer.fin # "no" /\ peer.heard = peer.sent /\ Transmit(Fin)

Tick ==
    /\ at \in Waits /\ ~expired
    /\ expired' = TRUE
    /\ UNCHANGED <<queue, current, at, app, conn, total, peer, wire, told, shown, lost>>

-----------------------------------------------------------------------------
(* tcp_emit of segments that take sequence numbers, and of acknowledgements. *)
Emit(kind, len) == wire' = Append(wire, [kind |-> kind, seq |-> seq, len |-> len])
Tell(n) == told' = Max({told, Offset(n)})

(* The user gets to see byte k.  Once the repetitions are no longer counted  *)
(* the history leaves out what it has.                                       *)
Seen(i) == {shown[j] : j \in 1..i}
Show(k) ==
    shown' = IF peer.repeats >= MaxRepeats /\ k \in Seen(Len(shown))
             THEN shown ELSE Append(shown, k)

Wait(where) == at' = where /\ expired' = FALSE

(* tcp_connect; for nettest the request follows. *)
Connect(a) ==
    /\ at = "shell" /\ peer.state \in {"listen", "half"}
    /\ Len(wire) < MaxConnects
    /\ app' = a
    /\ wire' = Append(wire, [kind |-> "syn", seq |-> OurISN, len |-> 1])
    /\ seq' = (OurISN + 1) % M /\ ack' = 0 /\ peer_fin' = FALSE /\ total' = 0
    /\ Wait("connect")
    /\ UNCHANGED <<queue, current, peer, told, shown, lost>>

Polled(where) == at = where /\ current # NoFrame

(* Mutant of Poll: the loops go on behind a FIN. *)
PollBehindFin ==
    /\ at \in Waits /\ current = NoFrame /\ ~expired
    /\ Q!Take
    /\ UNCHANGED <<at, app, expired, conn, total, peer, wire, told, shown, lost>>

Poll ==
    /\ at \in Waits /\ current = NoFrame /\ ~expired /\ ~peer_fin
    /\ Q!Take
    /\ UNCHANGED <<at, app, expired, conn, total, peer, wire, told, shown, lost>>

Connected ==
    /\ Polled("connect") /\ current.syn
    /\ ack' = (current.rseq + 1) % M /\ Tell(ack')
    /\ at' = IF app = "nettest" THEN "send" ELSE "drain"
    /\ expired' = FALSE
    /\ Q!Finish
    /\ UNCHANGED <<app, seq, peer_fin, total, peer, wire, shown, lost>>

NotConnected ==
    /\ \/ Polled("connect") /\ ~current.syn /\ Q!Finish /\ UNCHANGED <<at, expired>>
       \/ /\ at = "connect" /\ current = NoFrame /\ expired
          /\ at' = "shell" /\ expired' = FALSE /\ UNCHANGED <<queue, current>>
    /\ UNCHANGED <<app, conn, total, peer, wire, told, shown, lost>>

(* tcp_request and net_tcp_send: the data go out once. *)
SendData ==
    /\ at = "send"
    /\ Emit("data", RequestLen)
    /\ seq' = (seq + RequestLen) % M
    /\ Wait(IF app = "nettest" THEN "request" ELSE "recv")
    /\ UNCHANGED <<queue, current, app, ack, peer_fin, total, peer, told, shown, lost>>

(* Mutants of AckOf: the FIN takes no number; data always take one more.     *)
AckOfNoFin(s) == IF s.len > 0 THEN (s.rseq + s.len) % M ELSE ack
AckOfNext(s) == (IF s.len > 0 THEN s.rseq + s.len + 1 ELSE ack + (IF s.fin THEN 1 ELSE 0)) % M

(* The ack field after a segment: behind its data if it has any, and one     *)
(* more for a FIN, wherever that stands.                                     *)
AckOf(s) == ((IF s.len > 0 THEN s.rseq + s.len ELSE ack) + (IF s.fin THEN 1 ELSE 0)) % M

Acknowledge(s) ==
    /\ ack' = AckOf(s)
    /\ IF s.len > 0 \/ s.fin THEN Tell(ack') ELSE UNCHANGED told
    /\ peer_fin' = (peer_fin \/ s.fin)

(* Mutant of Request: data push the deadline back, as they do in ncat. *)
RequestPatient ==
    /\ Polled("request")
    /\ Acknowledge(current)
    /\ LET copy == Min({current.len, BufSize - 1 - total})
       IN  /\ total' = total + copy
           /\ IF copy > 0 THEN Show(Offset(current.rseq)) ELSE UNCHANGED shown
    /\ IF current.fin THEN Emit("fin", 1) /\ seq' = (seq + 1) % M ELSE UNCHANGED <<wire, seq>>
    /\ Q!Finish
    /\ expired' = (expired /\ current.len = 0)
    /\ UNCHANGED <<at, app, peer, lost>>

(* tcp_request takes data as far as the buffer goes, and answers a FIN with  *)
(* its own.                                                                  *)
Request ==
    /\ Polled("request")
    /\ Acknowledge(current)
    /\ LET copy == Min({current.len, BufSize - 1 - total})
       IN  /\ total' = total + copy
           /\ IF copy > 0 THEN Show(Offset(current.rseq)) ELSE UNCHANGED shown
    /\ IF current.fin THEN Emit("fin", 1) /\ seq' = (seq + 1) % M ELSE UNCHANGED <<wire, seq>>
    /\ Q!Finish
    /\ UNCHANGED <<at, app, expired, peer, lost>>

RequestOver ==
    /\ at = "request" /\ current = NoFrame /\ (expired \/ peer_fin)
    /\ at' = "over"
    /\ UNCHANGED <<queue, current, app, expired, conn, total, peer, wire, told, shown, lost>>

(* Mutant of Recv: a segment without data returns what the last one did.     *)
RecvStale ==
    /\ Polled("drain") \/ Polled("recv")
    /\ Acknowledge(current)
    /\ IF current.fin THEN UNCHANGED shown ELSE Show(Offset(current.rseq) % Stream)
    /\ Q!Finish
    /\ UNCHANGED <<at, app, expired, seq, total, peer, wire, lost>>

(* net_tcp_recv, once behind tcp_drain and once behind every line: the       *)
(* return value of a segment with FIN is -1, whatever it carries.            *)
Recv ==
    /\ Polled("drain") \/ Polled("recv")
    /\ Acknowledge(current)
    /\ IF current.len > 0 /\ ~current.fin
       THEN Show(Offset(current.rseq)) ELSE UNCHANGED shown
    /\ expired' = IF at = "recv" /\ current.len > 0 /\ ~current.fin THEN FALSE ELSE expired
    /\ Q!Finish
    /\ UNCHANGED <<at, app, seq, total, peer, wire, lost>>

(* ncat waits for a line, or is over. *)
RecvOver ==
    /\ at \in {"drain", "recv"} /\ current = NoFrame /\ (expired \/ peer_fin)
    /\ at' = IF peer_fin THEN "over" ELSE "type"
    /\ UNCHANGED <<queue, current, app, expired, conn, total, peer, wire, told, shown, lost>>

(* The user types a line, or an empty one: net_tcp_close. *)
Line ==
    /\ at = "type"
    /\ \/ /\ Len(wire) < MaxConnects + MaxLines
          /\ at' = "send" /\ UNCHANGED <<wire, seq>>
       \/ /\ at' = "over"
          /\ Emit("fin", 1) /\ seq' = (seq + 1) % M
    /\ UNCHANGED <<queue, current, app, expired, ack, peer_fin, total, peer, told, shown, lost>>

-----------------------------------------------------------------------------
Work ==
    \/ Poll \/ Connected \/ NotConnected \/ SendData
    \/ Request \/ RequestOver \/ Recv \/ RecvOver

Next ==
    \/ Work \/ Tick \/ Line
    \/ PeerAccept \/ PeerHear \/ PeerSend \/ PeerFin \/ PeerRepeat
    \/ \E a \in {"nettest", "ncat"} : Connect(a)

Spec == Init /\ [][Next]_vars /\ WF_vars(Work) /\ WF_vars(Tick)

-----------------------------------------------------------------------------
(* Type correctness. *)
TypeOK ==
    /\ queue \in Seq(Segment) /\ Len(queue) <= MaxQueue
    /\ current \in Segment \cup {NoFrame}
    /\ at \in Waits \cup {"shell", "send", "type", "over"}
    /\ app \in {"nettest", "ncat"}
    /\ seq \in 0..(M - 1) /\ ack \in 0..(M - 1)
    /\ {expired, peer_fin, lost} \subseteq BOOLEAN
    /\ total \in 0..(BufSize - 1)
    /\ peer \in [state : {"listen", "half", "open"}, sent : 0..Stream,
                 fin : {"no", "alone", "riding"}, heard : 0..(Stream + 1), repeats : Nat]
    /\ shown \in Seq(0..(Stream - 1)) /\ told \in 0..(Stream + 1)

Full == app = "nettest" /\ total = BufSize - 1
FinByte(k) == app = "ncat" /\ peer.fin = "riding" /\ k = Stream - 1

(* As long as no frame is lost, a byte the peer is told to forget has        *)
(* reached the user, repeated segments or not.  Exempt are what lies behind  *)
(* the end of nettest's buffer, and the byte that comes with the FIN in      *)
(* ncat, which net_tcp_recv acknowledges and then drops.                     *)
AckedIsShown ==
    ~lost /\ ~Full =>
        \A k \in 0..(Stream - 1) :
            k < told /\ ~FinByte(k) => k \in Seen(Len(shown))

(* As long as no frame is lost, the user sees the stream from its beginning  *)
(* and nothing before its turn; a repeated byte shows up a second time.      *)
ShownInOrder ==
    /\ ~lost => \A i \in 1..Len(shown) : shown[i] \in 0..Cardinality(Seen(i - 1))
    /\ ~lost /\ peer.repeats = 0 => \A i, j \in 1..Len(shown) : shown[i] = shown[j] => i = j

(* Losses and repetitions or not, the driver never acknowledges more than    *)
(* the peer has sent: bytes to the last one, and the FIN once.               *)
AckHonest == told <= peer.sent + (IF peer.fin = "no" THEN 0 ELSE 1)

(* The FIN is acknowledged when it is taken, unless a loss or a repetition   *)
(* has left ack elsewhere.                                                   *)
FinAcked == peer_fin /\ ~lost /\ peer.repeats = 0 => told = Stream + 1

(* ncat has data in its hand, which push its deadline back (ncat.c:118).     *)
Talking == at = "recv" /\ current.len > 0 /\ ~current.fin

(* Every command comes to its end or back to the user, whatever the peer and *)
(* the link do.  The one exemption is a peer that never stops talking to     *)
(* ncat; the deadlines of tcp_connect, tcp_request and tcp_drain stand, and  *)
(* no peer can push those back.                                              *)
CommandsEnd ==
    \/ []<>Talking
    \/ at \in {"connect", "send"} ~> at \in {"shell", "type", "over"}
=============================================================================
