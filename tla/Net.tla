-------------------------------- MODULE Net --------------------------------
(***************************************************************************)
(* The datagram calls of the network stack and the two commands that make   *)
(* them: arp_resolve, net_ping, net_dns_resolve, net_udp_send_to and        *)
(* net_udp_recv (src/src/network/main.c) under ping and ncat -u             *)
(* (src/src/apps/ping.c, src/src/apps/ncat.c).                              *)
(*                                                                         *)
(* A call sends one request and polls the receive queue until a frame       *)
(* matches or its deadline passes.  Nothing drains the queue between calls, *)
(* and what tells requests apart is constant in the code: the ICMP id is    *)
(* 0xBEEF and seq 1, the DNS id is 0xAABB, the UDP port of both DNS and     *)
(* ncat is 54321.  The network answers a request once, at any later time or *)
(* never, in any order, and brings frames nobody asked for.                 *)
(*                                                                         *)
(* A frame is the number of the request it answers, 0 if it answers none;   *)
(* what a frame says (kind, sender, contents) follows from the request.  A  *)
(* host stands for its IP address and its MAC address.                      *)
(***************************************************************************)
EXTENDS Integers, Sequences

CONSTANTS
    Hosts,          \* the machines we talk to, the gateway among them
    Gateway,        \* NET_GATEWAY
    Local,          \* the hosts of our subnet, NET_NETMASK
    Names,          \* host names
    Address,        \* what the DNS server says of a name: a host, Nobody if its
                    \* answer has no records, Elsewhere if it has none of type A
    Nobody, Elsewhere,
    Pings,          \* pings of a ping command: 4 in the code
    MaxRequests,    \* bound: requests sent in a run
    MaxQueue        \* bound: frames in the receive queue

ASSUME NetAssumption ==
    /\ Gateway \in Local /\ Local \subseteq Hosts /\ {Nobody, Elsewhere} \cap (Hosts \cup Names) = {}
    /\ Address \in [Names -> Hosts \cup {Nobody, Elsewhere}]
    /\ Pings \in Nat \ {0} /\ MaxRequests \in Nat /\ MaxQueue \in Nat

VARIABLES
    queue, current, \* the receive queue and the frame in hand (RxQueue)
    requests,       \* every request sent: kind, to whom, to which MAC address
    flight,         \* requests whose answer may still arrive
    at,             \* where the main loop is
    cmd,            \* the command: app, arg, address (peer), pings left (todo),
                    \* what the call in progress sends (goal) and where (hop)
    gw,             \* gw_mac, Nobody while gw_mac_valid is 0
    expired,        \* timer_ticks has passed the deadline of the wait
    timedout        \* history: channels on which a wait ended without an answer

vars == <<queue, current, requests, flight, at, cmd, gw, expired, timedout>>

NoFrame == -1
Q == INSTANCE RxQueue WITH Frame <- 0..MaxRequests, None <- NoFrame

Waits == {"arp", "echo", "dns", "datagram"}
NoCommand == [app |-> "none", arg |-> Nobody, peer |-> Nobody, todo |-> 0,
              goal |-> "none", hop |-> Nobody]

Init ==
    /\ Q!Init
    /\ requests = <<>> /\ flight = {} /\ timedout = {}
    /\ at = "shell" /\ cmd = NoCommand /\ gw = Nobody
    /\ expired = FALSE

-----------------------------------------------------------------------------
(* The wire. *)

(* A frame arrives: an answer, or one that answers nothing.                  *)
Arrive(f) ==
    /\ Len(queue) < MaxQueue
    /\ f \in flight \cup {0}
    /\ Q!Arrive(f)
    /\ flight' = flight \ {f}
    /\ UNCHANGED <<requests, at, cmd, gw, expired, timedout>>

(* The timer interrupt counts the deadline of a wait down. *)
Tick ==
    /\ at \in Waits /\ ~expired
    /\ expired' = TRUE
    /\ UNCHANGED <<queue, current, requests, flight, at, cmd, gw, timedout>>

Kind(f) == IF f = 0 THEN "noise" ELSE requests[f].kind
Source(f) == IF f = 0 THEN Nobody ELSE requests[f].to

(* A request goes out; it is answered if it reaches a machine that takes it  *)
(* where it should go.                                                       *)
Send(kind, to, via) ==
    /\ requests' = Append(requests, [kind |-> kind, to |-> to, via |-> via])
    /\ flight' = IF via \in {to, Gateway} \/ kind = "arp"
                 THEN flight \cup {Len(requests) + 1} ELSE flight

-----------------------------------------------------------------------------
(* The next hop. *)

(* ping asks a host of the subnet for its own address, every time; all other *)
(* calls use the gateway's, which is asked for once.                         *)
Direct == cmd.goal = "echo" /\ cmd.peer \in Local
NextHop == IF Direct THEN cmd.peer ELSE Gateway

Begin ==
    /\ at = "begin"
    /\ IF ~Direct /\ gw # Nobody
       THEN /\ at' = "send" /\ cmd' = [cmd EXCEPT !.hop = gw]
            /\ UNCHANGED <<requests, flight>>
       ELSE /\ Send("arp", NextHop, Nobody)
            /\ at' = "arp" /\ UNCHANGED cmd
    /\ UNCHANGED <<queue, current, gw, expired, timedout>>

(* Mutant of ArpMatches: any reply will do. *)
ArpMatchesAnyone(f) == Kind(f) = "arp"

ArpMatches(f) == Kind(f) = "arp" /\ Source(f) = NextHop

ArpAnswered ==
    /\ at = "arp" /\ current # NoFrame /\ ArpMatches(current)
    /\ cmd' = [cmd EXCEPT !.hop = Source(current)]
    /\ gw' = IF Direct THEN gw ELSE Source(current)
    /\ at' = "send" /\ expired' = FALSE
    /\ Q!Finish
    /\ UNCHANGED <<requests, flight, timedout>>

(* The request of the call itself, and the wait for its answer. *)
Ask ==
    /\ at = "send"
    /\ Send(cmd.goal, IF cmd.goal = "dns" THEN cmd.arg ELSE cmd.peer, cmd.hop)
    /\ at' = cmd.goal /\ cmd' = [cmd EXCEPT !.hop = Nobody]
    /\ UNCHANGED <<queue, current, gw, expired, timedout>>

-----------------------------------------------------------------------------
(* The wait loops. *)

(* Mutants: echo replies of anybody, DNS answers without a look at the id,   *)
(* datagrams without a look at the protocol.                                 *)
EchoMatchesAnyone(f) == Kind(f) = "echo"
DnsMatchesPort(f) ==
    Kind(f) \in {"dns", "datagram"} /\ (Source(f) \in Hosts \/ Address[Source(f)] # Elsewhere)
UdpMatchesAny(f) == Kind(f) # "arp" /\ f # 0

EchoMatches(f) == Kind(f) = "echo" /\ Source(f) = cmd.peer
DnsMatches(f) == Kind(f) = "dns" /\ Address[Source(f)] # Elsewhere
UdpMatches(f) == Kind(f) \in {"dns", "datagram"}

Matches(f) ==
    \/ at = "arp" /\ ArpMatches(f)
    \/ at = "echo" /\ EchoMatches(f)
    \/ at = "dns" /\ DnsMatches(f)
    \/ at = "datagram" /\ UdpMatches(f)

Poll ==
    /\ at \in Waits /\ current = NoFrame /\ ~expired
    /\ Q!Take
    /\ UNCHANGED <<requests, flight, at, cmd, gw, expired, timedout>>

(* Mutant of Ignore: a frame starts the wait again. *)
IgnoreAndWait ==
    /\ at \in Waits /\ current # NoFrame /\ ~Matches(current)
    /\ Q!Finish /\ expired' = FALSE
    /\ UNCHANGED <<requests, flight, at, cmd, gw, timedout>>

Ignore ==
    /\ at \in Waits /\ current # NoFrame /\ ~Matches(current)
    /\ Q!Finish
    /\ UNCHANGED <<requests, flight, at, cmd, gw, expired, timedout>>

(* What a late answer to one call can be taken for: an answer to a ping of   *)
(* the same host, to a DNS query, or a datagram to the port of both.         *)
Channel(kind, host) == IF kind = "echo" THEN <<"echo", host>> ELSE <<kind, Nobody>>

(* The two ways a wait ends. *)
Answered(where) ==
    /\ at = where /\ current # NoFrame /\ Matches(current)
    /\ expired' = FALSE /\ Q!Finish /\ UNCHANGED timedout
GivenUp(where) ==
    /\ at = where /\ current = NoFrame /\ expired
    /\ expired' = FALSE /\ UNCHANGED <<queue, current>>
    /\ timedout' = timedout \cup {Channel(where, cmd.peer)}

-----------------------------------------------------------------------------
(* The commands. *)

Over == at' = "shell" /\ cmd' = NoCommand

(* What a command does when it has an address. *)
Run(a, host) ==
    /\ at' = IF a = "ping" THEN "begin" ELSE "line"
    /\ cmd' = [app |-> a, arg |-> Nobody, peer |-> host,
               todo |-> IF a = "ping" THEN Pings ELSE 0,
               goal |-> IF a = "ping" THEN "echo" ELSE "datagram", hop |-> Nobody]

(* A command, if the requests it may take are left. *)
Cost(a, x) == (IF x \in Names THEN 2 ELSE 0) + (IF a = "ping" THEN 2 * Pings ELSE 0)

Command(a, x) ==
    /\ at = "shell" /\ Len(requests) + Cost(a, x) <= MaxRequests
    /\ IF x \in Names
       THEN /\ at' = "begin"
            /\ cmd' = [NoCommand EXCEPT !.app = a, !.arg = x, !.goal = "dns"]
       ELSE Run(a, x)
    /\ UNCHANGED <<queue, current, requests, flight, gw, expired, timedout>>

(* net_ping has returned: the next one, or the end of the command. *)
NextPing ==
    IF cmd.todo = 1 THEN Over
    ELSE at' = "begin" /\ cmd' = [cmd EXCEPT !.todo = @ - 1]

EchoOver ==
    /\ Answered("echo") \/ GivenUp("echo")
    /\ NextPing
    /\ UNCHANGED <<requests, flight, gw>>

(* An answer without an address ends the command like no answer at all.      *)
DnsOver ==
    /\ \/ /\ Answered("dns")
          /\ LET host == Address[Source(current)]
             IN  IF host = Nobody THEN Over ELSE Run(cmd.app, host)
       \/ GivenUp("dns") /\ Over
    /\ UNCHANGED <<requests, flight, gw>>

(* No next hop: net_ping and net_dns_resolve return 0; net_udp_send_to sends *)
(* nothing, and ncat waits for an answer all the same.                       *)
ArpGivenUp ==
    /\ at = "arp" /\ current = NoFrame /\ expired
    /\ CASE cmd.goal = "echo" -> NextPing
         [] cmd.goal = "dns" -> Over
         [] cmd.goal = "datagram" -> at' = "datagram" /\ UNCHANGED cmd
    /\ expired' = FALSE
    /\ UNCHANGED <<queue, current, requests, flight, gw, timedout>>

(* ncat -u: the user types a line, or an empty one. *)
Line ==
    /\ at = "line"
    /\ \/ Over
       \/ Len(requests) + 2 <= MaxRequests /\ at' = "begin" /\ UNCHANGED cmd
    /\ UNCHANGED <<queue, current, requests, flight, gw, expired, timedout>>

DatagramOver ==
    /\ Answered("datagram") \/ GivenUp("datagram")
    /\ at' = "line"
    /\ UNCHANGED <<requests, flight, cmd, gw>>

-----------------------------------------------------------------------------
Work ==
    \/ Begin \/ ArpAnswered \/ ArpGivenUp \/ Ask \/ Poll \/ Ignore
    \/ EchoOver \/ DnsOver \/ DatagramOver

Next ==
    \/ Work \/ Tick \/ Line
    \/ \E f \in 0..MaxRequests : Arrive(f)
    \/ \E a \in {"ping", "ncat"}, x \in Hosts \cup Names : Command(a, x)

(* The processor runs the loop, and the timer interrupts it. *)
Spec == Init /\ [][Next]_vars /\ WF_vars(Work) /\ WF_vars(Tick)

-----------------------------------------------------------------------------
(* Type correctness. *)
TypeOK ==
    /\ queue \in Seq(0..Len(requests)) /\ current \in -1..Len(requests)
    /\ requests \in Seq([kind : Waits, to : Hosts \cup Names, via : Hosts \cup {Nobody}])
    /\ flight \subseteq 1..Len(requests)
    /\ at \in Waits \cup {"shell", "begin", "send", "line"}
    /\ cmd \in [app : {"ping", "ncat", "none"}, arg : Names \cup {Nobody},
                peer : Hosts \cup {Nobody}, todo : 0..Pings,
                goal : {"echo", "dns", "datagram", "none"}, hop : Hosts \cup {Nobody}]
    /\ gw \in Hosts \cup {Nobody} /\ expired \in BOOLEAN
    /\ timedout \subseteq {Channel(k, h) : k \in Waits, h \in Hosts}

(* Every request is addressed to the machine that is its next hop, also when *)
(* late ARP replies of other hosts come in while the gateway is asked for,   *)
(* and also long after the gateway's address was cached.                     *)
RightNextHop ==
    \A i \in 1..Len(requests) :
        LET r == requests[i]
        IN  r.kind # "arp" => r.via = IF r.kind = "echo" /\ r.to \in Local THEN r.to ELSE Gateway

(* The channels on which an earlier wait, given up, leaves an answer that    *)
(* passes for one to the call in progress.                                   *)
Rivals ==
    {Channel(at, cmd.peer)} \cup
        (IF at = "datagram" THEN {Channel("dns", Nobody)} ELSE {})

(* An answer a call accepts answers the request the call sent, unless a wait *)
(* on a rival channel was given up earlier: constant ids and a shared port   *)
(* do no harm as long as no answer is late.                                  *)
OwnAnswer ==
    at \in {"echo", "dns", "datagram"} /\ current # NoFrame /\ Matches(current) =>
        current = Len(requests) \/ Rivals \cap timedout # {}

(* Every command comes back to the user: no frame, and no stream of frames   *)
(* that match nothing, keeps a call from returning.                          *)
CommandsReturn == at = "begin" ~> at \in {"shell", "line"}
=============================================================================
