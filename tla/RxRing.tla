------------------------------- MODULE RxRing -------------------------------
(***************************************************************************)
(* The receive ring of the network card (src/src/network/main.c, lines      *)
(* 69-150).  The RTL8139 writes frames into a ring of Ring bytes at any     *)
(* time; rtl8139_poll_rx, called with interrupts of the card masked, hands  *)
(* the caller a pointer into the ring and at once gives the bytes back to   *)
(* the card (CAPR).  The memory behind the ring is part of the buffer, and  *)
(* with WRAP=0 the card does not write it.                                  *)
(*                                                                         *)
(* A byte of memory is the frame it belongs to, the part of the frame and   *)
(* its number in that part.                                                 *)
(***************************************************************************)
EXTENDS Integers, Sequences

CONSTANTS
    Ring,       \* 8192 in the code
    Slack,      \* bytes of the buffer behind the ring: 16 + 1500 in the code
    Lengths,    \* pkt_len of the frames that arrive: data and four bytes of CRC
    MaxLen,     \* 1522 in the code
    MaxFrames   \* bound: frames that arrive

ASSUME RingAssumption ==
    /\ Ring \in Nat /\ Ring > 16 /\ 65536 % Ring = 0 /\ Ring % 4 = 0
    /\ Slack \in Nat /\ MaxLen \in Nat /\ MaxFrames \in Nat
    /\ \A n \in Lengths : n \in 4..MaxLen /\ n + 8 <= Ring

VARIABLES
    mem,        \* the receive buffer
    wr,         \* the card: where it writes next
    capr,       \* the CAPR register, 16 bits
    rd,         \* rx_read_ptr
    held,       \* the pkt_data and len the caller works on
    accepted,   \* history: pkt_len of the frames the card has stored
    starts,     \* history: where they start, and the next one will, counted in
                \* bytes from the first one
    polled      \* history: frames the driver has taken

vars == <<mem, wr, capr, rd, held, accepted, starts, polled>>

Byte(k, part, i) == <<k, part, i>>
Junk == Byte(0, "junk", 0)
Nothing == [at |-> 0, len |-> 0, frame |-> 0]

(* Bytes a frame takes in the ring: header and pkt_len, rounded up to four.  *)
Span(n) == ((n + 4 + 3) \div 4) * 4

(* The card's idea of what is in the ring. *)
CardRead == (capr + 16) % Ring
Empty == CardRead = wr
Room == IF Empty THEN Ring ELSE (CardRead - wr + Ring) % Ring

(* Byte i of frame k of pkt_len n, header first. *)
FrameByte(k, n, i) ==
    IF i < 4 THEN Byte(k, "head", i)
    ELSE IF i < n THEN Byte(k, "data", i - 4)
    ELSE Byte(k, "crc", i - n)

(* The header that stands at an offset: the frame, or 0 if the status bit or *)
(* the length there make no sense.                                           *)
HeaderAt(o) ==
    IF mem[o][2] = "head" /\ \A i \in 0..3 : mem[o + i] = Byte(mem[o][1], "head", i)
    THEN mem[o][1] ELSE 0

-----------------------------------------------------------------------------
Init ==
    /\ mem = [o \in 0..(Ring + Slack - 1) |-> Junk]
    /\ wr = 0 /\ capr = 65520 /\ rd = 0
    /\ held = Nothing /\ accepted = <<>> /\ starts = <<0>> /\ polled = 0

(* The card stores a frame if that leaves the ring short of full, splits it  *)
(* at the end of the ring, and drops it otherwise.                           *)
Receive(n) ==
    /\ Len(accepted) < MaxFrames
    /\ Span(n) < Room
    /\ LET k == Len(accepted) + 1
       IN  /\ mem' = [o \in DOMAIN mem |->
                        LET i == (o - wr + Ring) % Ring
                        IN  IF o < Ring /\ i < n + 4 THEN FrameByte(k, n, i) ELSE mem[o]]
           /\ accepted' = Append(accepted, n)
           /\ starts' = Append(starts, starts[k] + Span(n))
    /\ wr' = (wr + Span(n)) % Ring
    /\ UNCHANGED <<capr, rd, held, polled>>

(* Mutant of Advance: without rounding.                                     *)
AdvanceUnrounded(o, n) == (o + n + 4) % Ring

(* rx_read_ptr behind a frame of pkt_len n at offset o. *)
Advance(o, n) == (o + Span(n)) % Ring

(* The CAPR register is 16 bits wide. *)
Word16 == 0..65535

(* Mutant of Capr: without the distance of 16 the card adds to it.           *)
CaprUnbiased(r) == r

Capr(r) == (r - 16) % 65536

(* Mutant of DataLen: the CRC counted as data. *)
DataLenWithCrc(n) == n

DataLen(n) == n - 4

(* rtl8139_poll_rx with a frame in the ring. *)
Poll ==
    /\ ~Empty
    /\ LET offset == rd % Ring
           frame  == HeaderAt(offset)
       IN  /\ frame # 0
           /\ accepted[frame] \in 4..MaxLen
           /\ rd' = Advance(offset, accepted[frame])
           /\ capr' = Capr(rd')
           /\ held' = [at |-> offset + 4, len |-> DataLen(accepted[frame]), frame |-> frame]
           /\ polled' = frame
    /\ UNCHANGED <<mem, wr, accepted, starts>>

(* The caller is done with the frame. *)
Release ==
    /\ held # Nothing
    /\ held' = Nothing
    /\ UNCHANGED <<mem, wr, capr, rd, accepted, starts, polled>>

Next == (\E n \in Lengths : Receive(n)) \/ Poll \/ Release

Spec == Init /\ [][Next]_vars

(* Somebody goes on polling: every command that waits for an answer does.    *)
FairSpec == Spec /\ WF_vars(Poll)

-----------------------------------------------------------------------------
(* Type correctness. *)
TypeOK ==
    /\ DOMAIN mem = 0..(Ring + Slack - 1)
    /\ wr \in 0..(Ring - 1) /\ rd \in 0..(Ring - 1)
    /\ capr \in Word16
    /\ held.at \in 0..(Ring + 3) /\ held.len \in 0..MaxLen /\ held.frame \in 0..polled
    /\ accepted \in Seq(Lengths) /\ Len(accepted) <= MaxFrames
    /\ starts \in Seq(Nat) /\ Len(starts) = Len(accepted) + 1
    /\ polled \in 0..Len(accepted)

(* Every frame the card has stored and the driver has not taken is in the    *)
(* ring, whole, where the driver will look for it: neither side's pointer    *)
(* ever runs past the other, however the two interleave.                     *)
UnreadIntact ==
    \A k \in (polled + 1)..Len(accepted) :
        /\ k = polled + 1 => rd = starts[k] % Ring
        /\ \A i \in 0..(accepted[k] + 3) :
              mem[(starts[k] + i) % Ring] = FrameByte(k, accepted[k], i)

(* What the caller reads is the data of the frame, as long as the frame does *)
(* not run across the end of the ring and the card has not gone round the    *)
(* whole ring since: it may, because the bytes are given back before use.    *)
Crosses == held.at + held.len > Ring
Overrun == starts[Len(accepted) + 1] - starts[held.frame] > Ring
HeldIntact ==
    held # Nothing /\ ~Crosses /\ ~Overrun =>
        \A i \in 0..(held.len - 1) : mem[held.at + i] = Byte(held.frame, "data", i)

(* The ring is a queue of frames: rtl8139_poll_rx returns each frame that    *)
(* was stored, once and in order, and what it finds in memory is its header. *)
Q == INSTANCE RxQueue WITH
        Frame <- 1..MaxFrames, None <- 0,
        queue <- [i \in 1..(Len(accepted) - polled) |-> polled + i],
        current <- held.frame
ImplementsQueue == Q!Spec

(* The ring never wedges: a frame the card has stored is taken in the end,   *)
(* instead of a header that makes no sense being looked at for ever.         *)
Drained == \A k \in 1..MaxFrames : Len(accepted) >= k ~> polled >= k

(* main.c:78 has the buffer made longer than the ring because frames are     *)
(* "split across the ring boundary": the frame the caller gets is whole      *)
(* wherever it lies, while the card leaves it alone.                         *)
HeldWhole ==
    held # Nothing /\ ~Overrun =>
        \A i \in 0..(held.len - 1) : mem[held.at + i] = Byte(held.frame, "data", i)
=============================================================================
