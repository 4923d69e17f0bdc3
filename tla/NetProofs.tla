------------------------------ MODULE NetProofs ------------------------------
(***************************************************************************)
(* Proofs about module Net, for every set of hosts and names, any number of *)
(* pings, requests and frames: types, that every request goes to the        *)
(* machine that is its next hop, and that a call takes its own answer as    *)
(* long as no rival wait was given up.                                      *)
(***************************************************************************)
EXTENDS Net, TLAPS

-----------------------------------------------------------------------------
(* The inductive invariant. *)

(* What a command in progress knows: the call it is in and whom it is for.   *)
CommandInv ==
    /\ at # "shell" => cmd.goal # "none"
    /\ at \in {"echo", "dns"} => cmd.goal = at
    /\ cmd.goal = "dns" => cmd.app \in {"ping", "ncat"} /\ cmd.arg \in Names
    /\ cmd.goal \in {"echo", "datagram"} => cmd.peer \in Hosts
    /\ cmd.goal = "echo" => cmd.todo # 0

(* Where the next request goes is known before it is sent.                   *)
HopInv ==
    /\ gw \in {Gateway, Nobody}
    /\ at = "send" => cmd.hop = NextHop

(* A DNS query is for a name.                                                *)
QueryInv ==
    \A i \in 1..Len(requests) : requests[i].kind = "dns" => requests[i].to \in Names

NetInv == TypeOK /\ CommandInv /\ HopInv /\ QueryInv /\ RightNextHop

Requests == [kind : Waits, to : Hosts \cup Names, via : Hosts \cup {Nobody}]
Places == Waits \cup {"shell", "begin", "send", "line"}
Commands == [app : {"ping", "ncat", "none"}, arg : Names \cup {Nobody},
             peer : Hosts \cup {Nobody}, todo : 0..Pings,
             goal : {"echo", "dns", "datagram", "none"}, hop : Hosts \cup {Nobody}]
Channels == {Channel(k, h) : k \in Waits, h \in Hosts}

LEMMA HostsApart ==
    /\ Gateway \in Hosts /\ Gateway \in Local /\ Local \subseteq Hosts
    /\ Nobody \notin Hosts /\ Elsewhere \notin Hosts /\ Nobody \notin Names
    /\ Gateway # Nobody /\ Pings \in Nat /\ Pings > 0
  BY NetAssumption

LEMMA StateFields ==
    ASSUME NetInv
    PROVE  /\ queue \in Seq(0..Len(requests)) /\ current \in -1..Len(requests)
           /\ requests \in Seq(Requests) /\ Len(requests) \in Nat
           /\ flight \subseteq 1..Len(requests)
           /\ at \in Places /\ cmd \in Commands /\ gw \in {Gateway, Nobody}
           /\ expired \in BOOLEAN /\ timedout \subseteq Channels
  BY DEF NetInv, TypeOK, HopInv, Requests, Places, Commands, Channels

LEMMA CommandFields ==
    ASSUME NEW c \in Commands
    PROVE  /\ c.app \in {"ping", "ncat", "none"} /\ c.arg \in Names \cup {Nobody}
           /\ c.peer \in Hosts \cup {Nobody} /\ c.todo \in 0..Pings
           /\ c.goal \in {"echo", "dns", "datagram", "none"} /\ c.hop \in Hosts \cup {Nobody}
  BY DEF Commands

LEMMA CommandUpdates ==
    ASSUME NEW c \in Commands
    PROVE  /\ \A h \in Hosts \cup {Nobody} :
                  /\ [c EXCEPT !.hop = h] \in Commands
                  /\ [c EXCEPT !.hop = h].hop = h
                  /\ [c EXCEPT !.hop = h].app = c.app /\ [c EXCEPT !.hop = h].arg = c.arg
                  /\ [c EXCEPT !.hop = h].peer = c.peer /\ [c EXCEPT !.hop = h].todo = c.todo
                  /\ [c EXCEPT !.hop = h].goal = c.goal
           /\ c.todo \in 1..Pings /\ c.todo # 1 =>
                  /\ [c EXCEPT !.todo = c.todo - 1] \in Commands
                  /\ [c EXCEPT !.todo = c.todo - 1].todo = c.todo - 1
                  /\ [c EXCEPT !.todo = c.todo - 1].app = c.app
                  /\ [c EXCEPT !.todo = c.todo - 1].arg = c.arg
                  /\ [c EXCEPT !.todo = c.todo - 1].peer = c.peer
                  /\ [c EXCEPT !.todo = c.todo - 1].goal = c.goal
  <1>1. ASSUME NEW h \in Hosts \cup {Nobody}
        PROVE  /\ [c EXCEPT !.hop = h] \in Commands
               /\ [c EXCEPT !.hop = h].hop = h
               /\ [c EXCEPT !.hop = h].app = c.app /\ [c EXCEPT !.hop = h].arg = c.arg
               /\ [c EXCEPT !.hop = h].peer = c.peer /\ [c EXCEPT !.hop = h].todo = c.todo
               /\ [c EXCEPT !.hop = h].goal = c.goal
    BY <1>1 DEF Commands
  <1>2. ASSUME c.todo \in 1..Pings, c.todo # 1
        PROVE  /\ [c EXCEPT !.todo = c.todo - 1] \in Commands
               /\ [c EXCEPT !.todo = c.todo - 1].todo = c.todo - 1
               /\ [c EXCEPT !.todo = c.todo - 1].app = c.app
               /\ [c EXCEPT !.todo = c.todo - 1].arg = c.arg
               /\ [c EXCEPT !.todo = c.todo - 1].peer = c.peer
               /\ [c EXCEPT !.todo = c.todo - 1].goal = c.goal
    <2>1. c.todo - 1 \in 0..Pings
      BY <1>2, HostsApart
    <2> QED
      BY <2>1 DEF Commands
  <1> QED
    BY <1>1, <1>2

LEMMA NoCommandType ==
    NoCommand \in Commands /\ NoCommand.goal = "none"
  BY HostsApart DEF NoCommand, Commands

LEMMA NetInit == Init => NetInv
  <1> SUFFICES ASSUME Init PROVE NetInv
    OBVIOUS
  <1>1. /\ queue = <<>> /\ current = -1 /\ requests = <<>> /\ flight = {} /\ timedout = {}
        /\ at = "shell" /\ cmd = NoCommand /\ gw = Nobody /\ expired = FALSE
    BY DEF Init, Q!Init, NoFrame
  <1>2. TypeOK
    <2>1. cmd \in Commands
      BY <1>1, NoCommandType
    <2>2. gw \in Hosts \cup {Nobody} /\ at \in Waits \cup {"shell", "begin", "send", "line"}
      BY <1>1
    <2>3. /\ queue \in Seq(0..Len(requests)) /\ current \in -1..Len(requests)
          /\ requests \in Seq([kind : Waits, to : Hosts \cup Names, via : Hosts \cup {Nobody}])
          /\ flight \subseteq 1..Len(requests)
      BY <1>1
    <2>4. expired \in BOOLEAN /\ timedout \subseteq Channels
      BY <1>1
    <2> QED
      BY <2>1, <2>2, <2>3, <2>4 DEF TypeOK, Commands, Channels
  <1>3. CommandInv
    BY <1>1, NoCommandType DEF CommandInv
  <1>4. HopInv /\ QueryInv /\ RightNextHop
    BY <1>1 DEF HopInv, QueryInv, RightNextHop
  <1> QED
    BY <1>2, <1>3, <1>4 DEF NetInv

-----------------------------------------------------------------------------
(* What a step owes the invariant, if it sends nothing and if it sends.      *)

LEMMA QuietStep ==
    ASSUME NetInv, UNCHANGED requests,
           queue' \in Seq(0..Len(requests)), current' \in -1..Len(requests),
           flight' \subseteq 1..Len(requests), at' \in Places, cmd' \in Commands,
           expired' \in BOOLEAN, timedout' \subseteq Channels, CommandInv', HopInv'
    PROVE  NetInv'
  <1>1. requests \in Seq(Requests) /\ requests' = requests
    BY StateFields
  <1>2. gw' \in Hosts \cup {Nobody}
    BY HostsApart DEF HopInv
  <1>3. TypeOK'
    <2>1. /\ queue' \in Seq(0..Len(requests')) /\ current' \in -1..Len(requests')
          /\ flight' \subseteq 1..Len(requests')
      BY <1>1
    <2>2. requests' \in Seq([kind : Waits, to : Hosts \cup Names, via : Hosts \cup {Nobody}])
      BY <1>1 DEF Requests
    <2>3. at' \in Waits \cup {"shell", "begin", "send", "line"} /\ expired' \in BOOLEAN
      BY DEF Places
    <2>4. cmd' \in [app : {"ping", "ncat", "none"}, arg : Names \cup {Nobody},
                   peer : Hosts \cup {Nobody}, todo : 0..Pings,
                   goal : {"echo", "dns", "datagram", "none"}, hop : Hosts \cup {Nobody}]
      BY DEF Commands
    <2>5. timedout' \subseteq {Channel(k, h) : k \in Waits, h \in Hosts}
      BY DEF Channels
    <2> QED
      BY <1>2, <2>1, <2>2, <2>3, <2>4, <2>5 DEF TypeOK, Channel
  <1>4. QueryInv' /\ RightNextHop'
    BY <1>1 DEF NetInv, QueryInv, RightNextHop
  <1> QED
    BY <1>3, <1>4 DEF NetInv

LEMMA AppendSeq ==
    ASSUME NEW S, NEW s \in Seq(S), NEW e \in S
    PROVE  /\ Append(s, e) \in Seq(S)
           /\ Len(Append(s, e)) = Len(s) + 1 /\ Len(s) \in Nat
           /\ \A k \in 1..Len(s) : Append(s, e)[k] = s[k]
           /\ Append(s, e)[Len(s) + 1] = e
  OBVIOUS

LEMMA WiderSeq ==
    ASSUME NEW S, NEW T, S \subseteq T, NEW s \in Seq(S)
    PROVE  s \in Seq(T)
  <1>1. \A i \in 1..Len(s) : s[i] \in T
    OBVIOUS
  <1> QED
    BY <1>1

LEMMA SendStep ==
    ASSUME NetInv, NEW kind \in Waits, NEW to \in Hosts \cup Names,
           NEW via \in Hosts \cup {Nobody}, Send(kind, to, via),
           kind = "dns" => to \in Names,
           kind # "arp" => via = IF kind = "echo" /\ to \in Local THEN to ELSE Gateway,
           UNCHANGED <<queue, current, gw, expired, timedout>>,
           at' \in Places, cmd' \in Commands, CommandInv', HopInv'
    PROVE  NetInv'
  <1> DEFINE r == [kind |-> kind, to |-> to, via |-> via]
             L == Len(requests)
  <1>1. /\ requests' = Append(requests, r)
        /\ flight' \subseteq flight \cup {L + 1}
    BY DEF Send
  <1>2. r \in Requests /\ r.kind = kind /\ r.to = to /\ r.via = via
    BY DEF Requests
  <1> HIDE DEF r
  <1>3. /\ requests' \in Seq(Requests) /\ Len(requests') = L + 1 /\ L \in Nat
        /\ \A k \in 1..L : requests'[k] = requests[k]
        /\ requests'[L + 1] = r
    BY <1>1, <1>2, StateFields, AppendSeq
  <1> HIDE DEF L
  <1>4. /\ queue' \in Seq(0..L) /\ current' \in -1..L /\ flight \subseteq 1..L
        /\ gw' \in Hosts \cup {Nobody} /\ expired' \in BOOLEAN /\ timedout' \subseteq Channels
    BY StateFields, HostsApart DEF L
  <1>5. 0..L \subseteq 0..(L + 1) /\ -1..L \subseteq -1..(L + 1) /\ 1..L \subseteq 1..(L + 1)
        /\ L + 1 \in 1..(L + 1)
    BY <1>3
  <1>6. queue' \in Seq(0..(L + 1))
    BY <1>4, <1>5, WiderSeq
  <1>7. TypeOK'
    <2>1. queue' \in Seq(0..Len(requests')) /\ current' \in -1..Len(requests')
      BY <1>3, <1>4, <1>5, <1>6
    <2>2. flight' \subseteq 1..Len(requests')
      BY <1>1, <1>3, <1>4, <1>5
    <2>3. requests' \in Seq([kind : Waits, to : Hosts \cup Names, via : Hosts \cup {Nobody}])
      BY <1>3 DEF Requests
    <2>4. at' \in Waits \cup {"shell", "begin", "send", "line"} /\ expired' \in BOOLEAN
      BY <1>4 DEF Places
    <2>5. cmd' \in [app : {"ping", "ncat", "none"}, arg : Names \cup {Nobody},
                   peer : Hosts \cup {Nobody}, todo : 0..Pings,
                   goal : {"echo", "dns", "datagram", "none"}, hop : Hosts \cup {Nobody}]
      BY DEF Commands
    <2>6. timedout' \subseteq {Channel(k, h) : k \in Waits, h \in Hosts}
      BY <1>4 DEF Channels
    <2> QED
      BY <1>4, <2>1, <2>2, <2>3, <2>4, <2>5, <2>6 DEF TypeOK, Channel
  <1>8. \A k \in 1..Len(requests') : k \in 1..L \/ k = L + 1
    BY <1>3
  <1>9. QueryInv'
    <2>1. \A k \in 1..L : requests[k].kind = "dns" => requests[k].to \in Names
      BY DEF NetInv, QueryInv, L
    <2> QED
      BY <1>2, <1>3, <1>8, <2>1 DEF QueryInv
  <1>10. RightNextHop'
    <2> DEFINE Right(q) == q.kind # "arp" =>
                   q.via = IF q.kind = "echo" /\ q.to \in Local THEN q.to ELSE Gateway
    <2>1. \A k \in 1..L : Right(requests[k])
      BY DEF NetInv, RightNextHop, L
    <2>2. Right(r)
      BY <1>2
    <2>3. \A k \in 1..Len(requests') : Right(requests'[k])
      <3> HIDE DEF Right
      <3> QED
        BY <1>3, <1>8, <2>1, <2>2
    <2> QED
      BY <2>3 DEF RightNextHop
  <1> QED
    BY <1>7, <1>9, <1>10 DEF NetInv


-----------------------------------------------------------------------------
(* What goes on in a step: the frame in hand, the wait, the command.         *)

LEMMA FrameDone ==
    ASSUME NetInv, Q!Finish
    PROVE  /\ queue' \in Seq(0..Len(requests)) /\ current' \in -1..Len(requests)
           /\ current \in 0..Len(requests)
  <1>1. current # -1 /\ current' = -1 /\ queue' = queue
    BY DEF Q!Finish, NoFrame
  <1> QED
    BY <1>1, StateFields

LEMMA WaitOver ==
    ASSUME NetInv, NEW where \in Waits, Answered(where) \/ GivenUp(where)
    PROVE  /\ queue' \in Seq(0..Len(requests)) /\ current' \in -1..Len(requests)
           /\ expired' \in BOOLEAN /\ timedout' \subseteq Channels /\ at = where
  <1>1. at = where /\ expired' = FALSE
    BY DEF Answered, GivenUp
  <1>2. CASE Answered(where)
    BY <1>1, <1>2, StateFields, FrameDone DEF Answered
  <1>3. CASE GivenUp(where)
    <2>1. Channel(where, cmd.peer) \in Channels
      <3>1. CASE where = "echo"
        <4>1. cmd.peer \in Hosts
          BY <1>1, <3>1 DEF NetInv, CommandInv
        <4> QED
          BY <4>1 DEF Channels
      <3>2. CASE where # "echo"
        <4>1. Channel(where, cmd.peer) = Channel(where, Gateway)
          BY <3>2 DEF Channel
        <4> QED
          BY <4>1, HostsApart DEF Channels
      <3> QED
        BY <3>1, <3>2
    <2> QED
      BY <1>1, <1>3, <2>1, StateFields DEF GivenUp
  <1> QED
    BY <1>2, <1>3

LEMMA OverFields ==
    ASSUME NetInv, Over, UNCHANGED gw
    PROVE  at' \in Places /\ cmd' \in Commands /\ CommandInv' /\ HopInv'
  <1>1. at' = "shell" /\ cmd' = NoCommand /\ gw' \in {Gateway, Nobody}
    BY StateFields DEF Over
  <1> QED
    BY <1>1, NoCommandType DEF Places, CommandInv, HopInv

LEMMA RunFields ==
    ASSUME NetInv, NEW a \in {"ping", "ncat"}, NEW host \in Hosts, Run(a, host), UNCHANGED gw
    PROVE  at' \in Places /\ cmd' \in Commands /\ CommandInv' /\ HopInv'
  <1>1. /\ at' \in {"begin", "line"} /\ gw' \in {Gateway, Nobody}
        /\ cmd' = [app |-> a, arg |-> Nobody, peer |-> host,
                   todo |-> IF a = "ping" THEN Pings ELSE 0,
                   goal |-> IF a = "ping" THEN "echo" ELSE "datagram", hop |-> Nobody]
    BY StateFields DEF Run
  <1>2. cmd' \in Commands /\ cmd'.goal \in {"echo", "datagram"} /\ cmd'.peer = host
    BY <1>1, HostsApart DEF Commands
  <1>3. cmd'.goal = "echo" => cmd'.todo # 0
    BY <1>1, HostsApart
  <1>4. at' \in Places /\ HopInv'
    BY <1>1 DEF Places, HopInv
  <1>5. CommandInv'
    BY <1>1, <1>2, <1>3 DEF CommandInv
  <1> QED
    BY <1>2, <1>4, <1>5

LEMMA NextPingFields ==
    ASSUME NetInv, cmd.goal = "echo", NextPing, UNCHANGED gw
    PROVE  at' \in Places /\ cmd' \in Commands /\ CommandInv' /\ HopInv'
  <1>1. CASE cmd.todo = 1
    BY <1>1, OverFields DEF NextPing
  <1>2. CASE cmd.todo # 1
    <2>1. cmd \in Commands /\ cmd.todo \in 0..Pings /\ cmd.todo # 0 /\ cmd.peer \in Hosts
      BY StateFields, CommandFields DEF NetInv, CommandInv
    <2>2. cmd.todo \in 1..Pings
      BY <2>1, HostsApart
    <2>3. at' = "begin" /\ cmd' = [cmd EXCEPT !.todo = cmd.todo - 1]
      BY <1>2 DEF NextPing
    <2>4. /\ cmd' \in Commands /\ cmd'.todo = cmd.todo - 1
          /\ cmd'.goal = "echo" /\ cmd'.peer = cmd.peer
      BY <1>2, <2>1, <2>2, <2>3, CommandUpdates
    <2>5. cmd'.todo # 0
      BY <1>2, <2>2, <2>4
    <2>6. gw' \in {Gateway, Nobody} /\ at' \in Places
      BY <2>3, StateFields DEF Places
    <2> QED
      BY <2>1, <2>3, <2>4, <2>5, <2>6 DEF CommandInv, HopInv
  <1> QED
    BY <1>1, <1>2

-----------------------------------------------------------------------------
(* The steps. *)

LEMMA ArriveStep == ASSUME NetInv, NEW f, Arrive(f) PROVE NetInv'
  <1>1. /\ UNCHANGED <<requests, at, cmd, gw, expired, timedout>>
        /\ f \in flight \cup {0} /\ flight' = flight \ {f}
        /\ queue' = Append(queue, f) /\ current' = current
    BY DEF Arrive, Q!Arrive
  <1>2. f \in 0..Len(requests)
    BY <1>1, StateFields
  <1>3. queue' \in Seq(0..Len(requests))
    BY <1>1, <1>2, StateFields, AppendSeq
  <1>4. CommandInv' /\ HopInv'
    BY <1>1 DEF NetInv, CommandInv, HopInv, NextHop, Direct
  <1> QED
    BY <1>1, <1>3, <1>4, StateFields, QuietStep

LEMMA TickStep == ASSUME NetInv, Tick PROVE NetInv'
  <1>1. UNCHANGED <<queue, current, requests, flight, at, cmd, gw, timedout>> /\ expired' = TRUE
    BY DEF Tick
  <1>2. CommandInv' /\ HopInv'
    BY <1>1 DEF NetInv, CommandInv, HopInv, NextHop, Direct
  <1> QED
    BY <1>1, <1>2, StateFields, QuietStep

LEMMA BeginStep == ASSUME NetInv, Begin PROVE NetInv'
  <1>1. at = "begin" /\ UNCHANGED <<queue, current, gw, expired, timedout>>
    BY DEF Begin
  <1>2. CASE ~Direct /\ gw # Nobody
    <2>1. /\ at' = "send" /\ cmd' = [cmd EXCEPT !.hop = gw] /\ UNCHANGED <<requests, flight>>
          /\ cmd \in Commands /\ gw = Gateway /\ gw' = Gateway /\ gw \in Hosts \cup {Nobody}
      BY <1>1, <1>2, StateFields, HostsApart DEF Begin
    <2>2. /\ cmd' \in Commands /\ cmd'.hop = Gateway /\ cmd'.app = cmd.app /\ cmd'.arg = cmd.arg
          /\ cmd'.peer = cmd.peer /\ cmd'.todo = cmd.todo /\ cmd'.goal = cmd.goal
      BY <2>1, CommandUpdates
    <2>3. CommandInv' /\ at' \in Places
      BY <1>1, <2>1, <2>2 DEF NetInv, CommandInv, Places
    <2>4. HopInv'
      <3>1. ~Direct'
        BY <1>2, <2>2 DEF Direct
      <3> QED
        BY <2>1, <2>2, <3>1 DEF HopInv, NextHop
    <2> QED
      BY <1>1, <2>1, <2>2, <2>3, <2>4, StateFields, QuietStep
  <1>3. CASE ~(~Direct /\ gw # Nobody)
    <2>1. Send("arp", NextHop, Nobody) /\ at' = "arp" /\ UNCHANGED cmd
      BY <1>3 DEF Begin
    <2>2. NextHop \in Hosts
      BY HostsApart DEF NextHop, Direct
    <2>3. CommandInv' /\ at' \in Places /\ HopInv'
      BY <1>1, <2>1, StateFields DEF NetInv, CommandInv, HopInv, Places, Waits
    <2>4. "arp" \in Waits
      BY DEF Waits
    <2> QED
      BY <1>1, <2>1, <2>2, <2>3, <2>4, StateFields, SendStep
  <1> QED
    BY <1>2, <1>3

LEMMA ArpAnsweredStep == ASSUME NetInv, ArpAnswered PROVE NetInv'
  <1>1. /\ at = "arp" /\ Source(current) = NextHop /\ Q!Finish
        /\ cmd' = [cmd EXCEPT !.hop = Source(current)]
        /\ gw' = IF Direct THEN gw ELSE Source(current)
        /\ at' = "send" /\ expired' = FALSE /\ UNCHANGED <<requests, flight, timedout>>
    BY DEF ArpAnswered, ArpMatches
  <1>2. NextHop \in Hosts /\ cmd \in Commands
    BY HostsApart, StateFields DEF NextHop, Direct
  <1>3. /\ cmd' \in Commands /\ cmd'.hop = NextHop /\ cmd'.app = cmd.app /\ cmd'.arg = cmd.arg
        /\ cmd'.peer = cmd.peer /\ cmd'.todo = cmd.todo /\ cmd'.goal = cmd.goal
    BY <1>1, <1>2, CommandUpdates
  <1>4. CommandInv' /\ at' \in Places
    BY <1>1, <1>3 DEF NetInv, CommandInv, Places
  <1>5. HopInv'
    <2>1. NextHop' = NextHop
      BY <1>3 DEF NextHop, Direct
    <2>2. gw' \in {Gateway, Nobody}
      BY <1>1, StateFields DEF NextHop
    <2> QED
      BY <1>3, <2>1, <2>2 DEF HopInv
  <1> QED
    BY <1>1, <1>3, <1>4, <1>5, StateFields, FrameDone, QuietStep

LEMMA ArpGivenUpStep == ASSUME NetInv, ArpGivenUp PROVE NetInv'
  <1>1. /\ at = "arp" /\ expired' = FALSE
        /\ UNCHANGED <<queue, current, requests, flight, gw, timedout>>
        /\ cmd.goal \in {"echo", "dns", "datagram"}
    BY StateFields, CommandFields DEF ArpGivenUp, NetInv, CommandInv
  <1>2. at' \in Places /\ cmd' \in Commands /\ CommandInv' /\ HopInv'
    <2>1. CASE cmd.goal = "echo"
      BY <1>1, <2>1, NextPingFields DEF ArpGivenUp
    <2>2. CASE cmd.goal = "dns"
      BY <1>1, <2>2, OverFields DEF ArpGivenUp
    <2>3. CASE cmd.goal = "datagram"
      <3>1. at' = "datagram" /\ cmd' = cmd
        BY <2>3 DEF ArpGivenUp
      <3> QED
        BY <1>1, <2>3, <3>1, StateFields DEF NetInv, CommandInv, HopInv, Places, Waits
    <2> QED
      BY <1>1, <2>1, <2>2, <2>3
  <1> QED
    BY <1>1, <1>2, StateFields, QuietStep

LEMMA AskStep == ASSUME NetInv, Ask PROVE NetInv'
  <1> DEFINE to == IF cmd.goal = "dns" THEN cmd.arg ELSE cmd.peer
  <1>1. /\ at = "send" /\ Send(cmd.goal, to, cmd.hop)
        /\ at' = cmd.goal /\ cmd' = [cmd EXCEPT !.hop = Nobody]
        /\ UNCHANGED <<queue, current, gw, expired, timedout>>
    BY DEF Ask
  <1>2. /\ cmd \in Commands /\ cmd.goal \in {"echo", "dns", "datagram"} /\ cmd.hop = NextHop
        /\ cmd.goal = "dns" => cmd.arg \in Names
        /\ cmd.goal # "dns" => cmd.peer \in Hosts
    BY <1>1, StateFields, CommandFields DEF NetInv, CommandInv, HopInv
  <1>3. cmd.goal \in Waits /\ to \in Hosts \cup Names /\ (cmd.goal = "dns" => to \in Names)
    BY <1>2 DEF Waits
  <1>4. cmd.hop \in Hosts /\ cmd.hop = IF cmd.goal = "echo" /\ to \in Local THEN to ELSE Gateway
    BY <1>2, HostsApart DEF NextHop, Direct
  <1>5. /\ cmd' \in Commands /\ cmd'.app = cmd.app /\ cmd'.arg = cmd.arg
        /\ cmd'.peer = cmd.peer /\ cmd'.todo = cmd.todo /\ cmd'.goal = cmd.goal
    BY <1>1, <1>2, CommandUpdates
  <1>6. at' \in Places /\ CommandInv'
    BY <1>1, <1>2, <1>5 DEF NetInv, CommandInv, Places, Waits
  <1>7. HopInv'
    BY <1>1, <1>2, StateFields DEF HopInv
  <1> HIDE DEF to
  <1> QED
    BY <1>1, <1>3, <1>4, <1>5, <1>6, <1>7, SendStep

LEMMA PollStep == ASSUME NetInv, Poll PROVE NetInv'
  <1>1. /\ UNCHANGED <<requests, flight, at, cmd, gw, expired, timedout>>
        /\ queue # <<>> /\ current' = Head(queue) /\ queue' = Tail(queue)
    BY DEF Poll, Q!Take
  <1>2. queue' \in Seq(0..Len(requests)) /\ current' \in 0..Len(requests)
    <2> DEFINE Frames == 0..Len(requests)
    <2>1. queue \in Seq(Frames)
      BY StateFields
    <2> HIDE DEF Frames
    <2>2. queue' \in Seq(Frames) /\ current' \in Frames
      BY <1>1, <2>1
    <2> QED
      BY <2>2 DEF Frames
  <1>3. CommandInv' /\ HopInv'
    BY <1>1 DEF NetInv, CommandInv, HopInv, NextHop, Direct
  <1>4. current' \in -1..Len(requests)
    BY <1>2, StateFields
  <1> QED
    BY <1>1, <1>2, <1>3, <1>4, StateFields, QuietStep

LEMMA IgnoreStep == ASSUME NetInv, Ignore PROVE NetInv'
  <1>1. UNCHANGED <<requests, flight, at, cmd, gw, expired, timedout>> /\ Q!Finish
    BY DEF Ignore
  <1>2. CommandInv' /\ HopInv'
    BY <1>1 DEF NetInv, CommandInv, HopInv, NextHop, Direct
  <1> QED
    BY <1>1, <1>2, StateFields, FrameDone, QuietStep

LEMMA EchoOverStep == ASSUME NetInv, EchoOver PROVE NetInv'
  <1>1. /\ Answered("echo") \/ GivenUp("echo")
        /\ NextPing /\ UNCHANGED <<requests, flight, gw>>
    BY DEF EchoOver
  <1>2. /\ queue' \in Seq(0..Len(requests)) /\ current' \in -1..Len(requests)
        /\ expired' \in BOOLEAN /\ timedout' \subseteq Channels /\ at = "echo"
    BY <1>1, WaitOver DEF Waits
  <1>3. cmd.goal = "echo"
    BY <1>2 DEF NetInv, CommandInv
  <1> QED
    BY <1>1, <1>2, <1>3, StateFields, NextPingFields, QuietStep

LEMMA DnsOverStep == ASSUME NetInv, DnsOver PROVE NetInv'
  <1>1. /\ Answered("dns") \/ GivenUp("dns")
        /\ UNCHANGED <<requests, flight, gw>>
    BY DEF DnsOver
  <1>2. /\ queue' \in Seq(0..Len(requests)) /\ current' \in -1..Len(requests)
        /\ expired' \in BOOLEAN /\ timedout' \subseteq Channels /\ at = "dns"
    BY <1>1, WaitOver DEF Waits
  <1>3. CASE Over
    BY <1>1, <1>2, <1>3, StateFields, OverFields, QuietStep
  <1>4. ASSUME ~Over PROVE NetInv'
    <2> DEFINE host == Address[Source(current)]
    <2>1. Answered("dns") /\ host # Nobody /\ Run(cmd.app, host)
      BY <1>4 DEF DnsOver
    <2>2. Kind(current) = "dns" /\ host # Elsewhere /\ Q!Finish
      BY <2>1 DEF Answered, Matches, DnsMatches
    <2>3. current \in 1..Len(requests) /\ requests[current].kind = "dns"
          /\ Source(current) = requests[current].to
      <3>1. current # 0
        BY <2>2 DEF Kind
      <3> QED
        BY <2>2, <3>1, FrameDone, StateFields DEF Kind, Source
    <2>4. Source(current) \in Names
      BY <2>3 DEF NetInv, QueryInv
    <2>5. host \in Hosts
      BY <2>1, <2>2, <2>4, NetAssumption
    <2>6. cmd.app \in {"ping", "ncat"}
      BY <1>2 DEF NetInv, CommandInv
    <2> HIDE DEF host
    <2>7. at' \in Places /\ cmd' \in Commands /\ CommandInv' /\ HopInv'
      BY <1>1, <2>1, <2>5, <2>6, RunFields
    <2> QED
      BY <1>1, <1>2, <2>7, StateFields, QuietStep
  <1> QED
    BY <1>3, <1>4

LEMMA DatagramOverStep == ASSUME NetInv, DatagramOver PROVE NetInv'
  <1>1. /\ Answered("datagram") \/ GivenUp("datagram")
        /\ at' = "line" /\ UNCHANGED <<requests, flight, cmd, gw>>
    BY DEF DatagramOver
  <1>2. /\ queue' \in Seq(0..Len(requests)) /\ current' \in -1..Len(requests)
        /\ expired' \in BOOLEAN /\ timedout' \subseteq Channels /\ at = "datagram"
    BY <1>1, WaitOver DEF Waits
  <1>3. at' \in Places /\ CommandInv' /\ HopInv'
    BY <1>1, <1>2, StateFields DEF NetInv, CommandInv, HopInv, Places
  <1> QED
    BY <1>1, <1>2, <1>3, StateFields, QuietStep

LEMMA LineStep == ASSUME NetInv, Line PROVE NetInv'
  <1>1. /\ at = "line" /\ UNCHANGED <<queue, current, requests, flight, gw, expired, timedout>>
        /\ Over \/ (at' = "begin" /\ UNCHANGED cmd)
    BY DEF Line
  <1>2. at' \in Places /\ cmd' \in Commands /\ CommandInv' /\ HopInv'
    <2>1. CASE Over
      BY <1>1, <2>1, OverFields
    <2>2. CASE at' = "begin" /\ UNCHANGED cmd
      BY <1>1, <2>2, StateFields DEF NetInv, CommandInv, HopInv, Places
    <2> QED
      BY <1>1, <2>1, <2>2
  <1> QED
    BY <1>1, <1>2, StateFields, QuietStep

LEMMA CommandStep ==
    ASSUME NetInv, NEW a \in {"ping", "ncat"}, NEW x \in Hosts \cup Names, Command(a, x)
    PROVE  NetInv'
  <1>1. UNCHANGED <<queue, current, requests, flight, gw, expired, timedout>>
    BY DEF Command
  <1>2. at' \in Places /\ cmd' \in Commands /\ CommandInv' /\ HopInv'
    <2>1. CASE x \in Names
      <3>1. at' = "begin" /\ cmd' = [NoCommand EXCEPT !.app = a, !.arg = x, !.goal = "dns"]
        BY <2>1 DEF Command
      <3>2. cmd' = [app |-> a, arg |-> x, peer |-> Nobody, todo |-> 0,
                    goal |-> "dns", hop |-> Nobody]
        BY <3>1 DEF NoCommand
      <3>3. cmd' \in Commands /\ cmd'.goal = "dns" /\ cmd'.app = a /\ cmd'.arg = x
        BY <2>1, <3>2, HostsApart DEF Commands
      <3> QED
        BY <1>1, <2>1, <3>1, <3>3, StateFields DEF CommandInv, HopInv, Places
    <2>2. CASE x \notin Names
      BY <1>1, <2>2, RunFields DEF Command
    <2> QED
      BY <2>1, <2>2
  <1> QED
    BY <1>1, <1>2, StateFields, QuietStep

-----------------------------------------------------------------------------
LEMMA NetNext == NetInv /\ [Next]_vars => NetInv'
  <1> SUFFICES ASSUME NetInv, [Next]_vars PROVE NetInv'
    OBVIOUS
  <1>1. CASE UNCHANGED vars
    <2>1. UNCHANGED <<queue, current, requests, flight, at, cmd, gw, expired, timedout>>
      BY <1>1 DEF vars
    <2>2. CommandInv' /\ HopInv'
      BY <2>1 DEF NetInv, CommandInv, HopInv, NextHop, Direct
    <2> QED
      BY <2>1, <2>2, StateFields, QuietStep
  <1>2. CASE Work
    BY <1>2, BeginStep, ArpAnsweredStep, ArpGivenUpStep, AskStep, PollStep, IgnoreStep,
       EchoOverStep, DnsOverStep, DatagramOverStep DEF Work
  <1>3. CASE Tick \/ Line \/ \E f \in 0..MaxRequests : Arrive(f)
    BY <1>3, TickStep, LineStep, ArriveStep
  <1>4. CASE \E a \in {"ping", "ncat"}, x \in Hosts \cup Names : Command(a, x)
    BY <1>4, CommandStep
  <1> QED
    BY <1>1, <1>2, <1>3, <1>4 DEF Next

(* NetInv is an inductive invariant: the gateway's address is the gateway's  *)
(* or not known, and the next hop of a request is known before it goes out.  *)
THEOREM NetInductive == Spec => []NetInv
  <1>1. Init => NetInv
    BY NetInit
  <1>2. NetInv /\ [Next]_vars => NetInv'
    BY NetNext
  <1> QED
    BY <1>1, <1>2, PTL DEF Spec

(* The variables keep their types: a frame answers a request that was sent,  *)
(* and a command that runs has the address it runs with.                     *)
THEOREM NetTypeCorrect == Spec => []TypeOK
  <1>1. NetInv => TypeOK
    BY DEF NetInv
  <1> QED
    BY <1>1, NetInductive, PTL

(* Every request goes to the machine that is its next hop, whatever frames   *)
(* come late, in whatever order.                                             *)
THEOREM NetRightNextHop == Spec => []RightNextHop
  <1>1. NetInv => RightNextHop
    BY DEF NetInv
  <1> QED
    BY <1>1, NetInductive, PTL

-----------------------------------------------------------------------------
(* Whose answer a call takes. *)

(* An answer is still to come, waits in the queue or is in hand.             *)
Outstanding(i) ==
    \/ i \in flight \/ i = current
    \/ \E k \in 1..Len(queue) : queue[k] = i

(* An answer is in one place only.                                           *)
OnceInv ==
    /\ current # 0 => current \notin flight /\ \A k \in 1..Len(queue) : queue[k] # current
    /\ \A k \in 1..Len(queue) : queue[k] \notin flight
    /\ \A j, k \in 1..Len(queue) : queue[j] = queue[k] => j = k \/ queue[j] = 0

(* A wait on a channel that rivals the request's was given up.               *)
RivalLost(r, lost) ==
    \/ Channel(r.kind, r.to) \in lost
    \/ r.kind = "datagram" /\ Channel("dns", Nobody) \in lost

(* An answer that is outstanding is that of the call in progress, or a wait  *)
(* on its channel was given up.                                              *)
LateInv ==
    \A i \in 1..Len(requests) :
        Outstanding(i) /\ requests[i].kind # "arp" =>
            \/ RivalLost(requests[i], timedout)
            \/ i = Len(requests) /\ at = requests[i].kind

(* The call in progress asks the host it was made for.                       *)
PeerInv ==
    at = "echo" =>
        \A i \in 1..Len(requests) :
            i = Len(requests) /\ requests[i].kind = "echo" => requests[i].to = cmd.peer

AnswerInv == OnceInv /\ LateInv /\ PeerInv

Calls == {"echo", "dns", "datagram"}

(* No frame is doubled, and none comes back.                                 *)
Fewer ==
    /\ OnceInv'
    /\ \A i \in 1..Len(requests) : Outstanding(i)' => Outstanding(i)

LEMMA SameFrames ==
    ASSUME OnceInv, UNCHANGED <<queue, current, flight>>
    PROVE  Fewer
  BY DEF Fewer, OnceInv, Outstanding

LEMMA ArriveFrames ==
    ASSUME NetInv, OnceInv, NEW f, Arrive(f)
    PROVE  Fewer
  <1>1. /\ f \in flight \cup {0} /\ flight' = flight \ {f}
        /\ queue' = Append(queue, f) /\ current' = current
    BY DEF Arrive, Q!Arrive
  <1>2. /\ queue \in Seq(0..Len(requests)) /\ flight \subseteq 1..Len(requests)
        /\ Len(requests) \in Nat /\ f \in 0..Len(requests)
    BY <1>1, StateFields
  <1> DEFINE n == Len(queue)
  <1>3. /\ Len(queue') = n + 1 /\ n \in Nat /\ queue'[n + 1] = f
        /\ \A k \in 1..n : queue'[k] = queue[k]
    BY <1>1, <1>2, AppendSeq
  <1>4. /\ current # 0 => current \notin flight /\ \A k \in 1..n : queue[k] # current
        /\ \A k \in 1..n : queue[k] \notin flight
        /\ \A j, k \in 1..n : queue[j] = queue[k] => j = k \/ queue[j] = 0
    BY DEF OnceInv
  <1> HIDE DEF n
  <1>5. \A k \in 1..Len(queue') : k \in 1..n \/ k = n + 1
    BY <1>3
  <1>6. OnceInv'
    <2>1. current' # 0 => current' \notin flight' /\ \A k \in 1..Len(queue') : queue'[k] # current'
      BY <1>1, <1>3, <1>4, <1>5
    <2>2. \A k \in 1..Len(queue') : queue'[k] \notin flight'
      <3>1. 0 \notin flight
        BY <1>2
      <3> QED
        BY <1>1, <1>3, <1>4, <1>5, <3>1
    <2>3. \A k \in 1..n : queue[k] = f => f = 0
      BY <1>1, <1>4
    <2>4. ASSUME NEW j \in 1..Len(queue'), NEW k \in 1..Len(queue'), queue'[j] = queue'[k]
          PROVE  j = k \/ queue'[j] = 0
      <3>1. CASE j \in 1..n /\ k \in 1..n
        BY <1>3, <1>4, <2>4, <3>1
      <3>2. CASE j = n + 1 \/ k = n + 1
        BY <1>3, <1>5, <2>3, <2>4, <3>2
      <3> QED
        BY <1>5, <3>1, <3>2
    <2> QED
      BY <2>1, <2>2, <2>4 DEF OnceInv
  <1>7. ASSUME NEW i \in 1..Len(requests), Outstanding(i)' PROVE Outstanding(i)
    <2>1. i \in flight' \/ i = current' \/ \E k \in 1..Len(queue') : queue'[k] = i
      BY <1>7 DEF Outstanding
    <2>2. CASE i \in flight' \/ i = current'
      BY <1>1, <2>2 DEF Outstanding
    <2>3. CASE \E k \in 1..Len(queue') : queue'[k] = i
      <3>1. PICK k \in 1..Len(queue') : queue'[k] = i
        BY <2>3
      <3>2. CASE k \in 1..n
        BY <1>3, <3>1, <3>2 DEF Outstanding, n
      <3>3. CASE k = n + 1
        <4>1. i = f /\ i # 0
          BY <1>2, <1>3, <1>7, <3>1, <3>3
        <4> QED
          BY <1>1, <4>1 DEF Outstanding
      <3> QED
        BY <1>5, <3>2, <3>3
    <2> QED
      BY <2>1, <2>2, <2>3
  <1> QED
    BY <1>6, <1>7 DEF Fewer

LEMMA TakeFrames ==
    ASSUME NetInv, OnceInv, Q!Take, UNCHANGED flight
    PROVE  Fewer
  <1>1. queue # <<>> /\ current' = Head(queue) /\ queue' = Tail(queue) /\ flight' = flight
    BY DEF Q!Take
  <1>2. queue \in Seq(0..Len(requests))
    BY StateFields
  <1> DEFINE n == Len(queue)
             F == 0..Len(requests)
  <1> HIDE DEF F
  <1>3. /\ n \in Nat /\ n > 0 /\ Len(queue') = n - 1 /\ current' = queue[1]
        /\ \A k \in 1..(n - 1) : queue'[k] = queue[k + 1]
    <2>1. queue \in Seq(F)
      BY <1>2 DEF F
    <2> QED
      BY <1>1, <2>1
  <1>4. /\ \A k \in 1..n : queue[k] \notin flight
        /\ \A j, k \in 1..n : queue[j] = queue[k] => j = k \/ queue[j] = 0
    BY DEF OnceInv
  <1> HIDE DEF n
  <1>5. /\ 1 \in 1..n
        /\ \A k \in 1..Len(queue') : k \in 1..(n - 1) /\ k + 1 \in 1..n /\ k + 1 # 1
    BY <1>3
  <1>6. OnceInv'
    <2>1. current' # 0 => current' \notin flight' /\ \A k \in 1..Len(queue') : queue'[k] # current'
      BY <1>1, <1>3, <1>4, <1>5
    <2>2. \A k \in 1..Len(queue') : queue'[k] \notin flight'
      BY <1>1, <1>3, <1>4, <1>5
    <2>3. ASSUME NEW j \in 1..Len(queue'), NEW k \in 1..Len(queue'), queue'[j] = queue'[k]
          PROVE  j = k \/ queue'[j] = 0
      <3>1. j + 1 = k + 1 \/ queue[j + 1] = 0
        BY <1>3, <1>4, <1>5, <2>3
      <3> QED
        BY <1>3, <1>5, <3>1
    <2> QED
      BY <2>1, <2>2, <2>3 DEF OnceInv
  <1>7. ASSUME NEW i \in 1..Len(requests), Outstanding(i)' PROVE Outstanding(i)
    <2>1. i \in flight' \/ i = current' \/ \E k \in 1..Len(queue') : queue'[k] = i
      BY <1>7 DEF Outstanding
    <2>2. CASE i \in flight'
      BY <1>1, <2>2 DEF Outstanding
    <2>3. CASE i = current' \/ \E k \in 1..Len(queue') : queue'[k] = i
      <3>1. \E k \in 1..n : queue[k] = i
        BY <1>3, <1>5, <2>3
      <3> QED
        BY <3>1 DEF Outstanding, n
    <2> QED
      BY <2>1, <2>2, <2>3
  <1> QED
    BY <1>6, <1>7 DEF Fewer

LEMMA FinishFrames ==
    ASSUME NetInv, OnceInv, Q!Finish, UNCHANGED flight
    PROVE  Fewer
  <1>1. current' = -1 /\ queue' = queue /\ flight' = flight
    BY DEF Q!Finish, NoFrame
  <1>2. /\ queue \in Seq(0..Len(requests)) /\ flight \subseteq 1..Len(requests)
        /\ Len(requests) \in Nat
    BY StateFields
  <1>3. -1 \notin flight /\ \A k \in 1..Len(queue) : queue[k] # -1
    <2>1. \A k \in 1..Len(queue) : queue[k] \in 0..Len(requests)
      BY <1>2
    <2> QED
      BY <1>2, <2>1
  <1>4. OnceInv'
    BY <1>1, <1>3 DEF OnceInv
  <1>5. \A i \in 1..Len(requests) : Outstanding(i)' => Outstanding(i)
    BY <1>1, <1>2 DEF Outstanding
  <1> QED
    BY <1>4, <1>5 DEF Fewer

-----------------------------------------------------------------------------
(* What a step owes AnswerInv: outside a call, in one, sending, at its end.  *)

LEMMA RequestKinds ==
    ASSUME NetInv, NEW i \in 1..Len(requests), requests[i].kind # "arp"
    PROVE  requests[i].kind \in Calls
  <1>1. requests[i] \in Requests
    BY StateFields
  <1> QED
    BY <1>1 DEF Requests, Waits, Calls

LEMMA OutsideStep ==
    ASSUME NetInv, AnswerInv, Fewer, UNCHANGED <<requests, timedout>>,
           at \notin Calls, at' # "echo"
    PROVE  AnswerInv'
  <1>1. ASSUME NEW i \in 1..Len(requests), Outstanding(i)', requests[i].kind # "arp"
        PROVE  RivalLost(requests[i], timedout)
    <2>1. RivalLost(requests[i], timedout) \/ at = requests[i].kind
      BY <1>1 DEF AnswerInv, LateInv, Fewer
    <2> QED
      BY <1>1, <2>1, RequestKinds
  <1>2. LateInv'
    BY <1>1 DEF LateInv, RivalLost, Channel
  <1>3. PeerInv' /\ OnceInv'
    BY DEF PeerInv, Fewer
  <1> QED
    BY <1>2, <1>3 DEF AnswerInv

LEMMA InsideStep ==
    ASSUME AnswerInv, Fewer, UNCHANGED <<requests, timedout, at, cmd>>
    PROVE  AnswerInv'
  <1>1. ASSUME NEW i \in 1..Len(requests), Outstanding(i)', requests[i].kind # "arp"
        PROVE  \/ RivalLost(requests[i], timedout)
               \/ i = Len(requests) /\ at = requests[i].kind
    BY <1>1 DEF AnswerInv, LateInv, Fewer
  <1>2. LateInv'
    BY <1>1 DEF LateInv, RivalLost, Channel
  <1>3. PeerInv' /\ OnceInv'
    BY DEF PeerInv, Fewer, AnswerInv
  <1> QED
    BY <1>2, <1>3 DEF AnswerInv

LEMMA SentStep ==
    ASSUME NetInv, AnswerInv, NEW kind \in Waits, NEW to, NEW via, Send(kind, to, via),
           UNCHANGED <<queue, current, timedout>>, at \notin Calls, at' = kind,
           kind = "echo" => to = cmd'.peer
    PROVE  AnswerInv'
  <1> DEFINE r == [kind |-> kind, to |-> to, via |-> via]
             n == Len(requests)
  <1>1. requests' = Append(requests, r) /\ flight' \subseteq flight \cup {n + 1}
    BY DEF Send
  <1>2. r.kind = kind /\ r.to = to
    OBVIOUS
  <1> HIDE DEF r
  <1>3. /\ requests \in Seq(Requests) /\ n \in Nat /\ flight \subseteq 1..n
        /\ queue \in Seq(0..n) /\ current \in -1..n
    BY StateFields
  <1>4. /\ Len(requests') = n + 1 /\ requests'[n + 1] = r
        /\ \A k \in 1..n : requests'[k] = requests[k]
    BY <1>1, <1>3
  <1>5. n + 1 # current /\ \A k \in 1..Len(queue) : queue[k] # n + 1
    <2>1. \A k \in 1..Len(queue) : queue[k] \in 0..n
      BY <1>3
    <2> QED
      BY <1>3, <2>1
  <1>6. OnceInv'
    BY <1>1, <1>5 DEF AnswerInv, OnceInv
  <1>7. ASSUME NEW i \in 1..n, Outstanding(i)', requests[i].kind # "arp"
        PROVE  RivalLost(requests[i], timedout)
    <2>1. Outstanding(i)
      BY <1>1, <1>3, <1>7 DEF Outstanding
    <2>2. RivalLost(requests[i], timedout) \/ at = requests[i].kind
      BY <1>7, <2>1 DEF AnswerInv, LateInv
    <2> QED
      BY <1>7, <2>2, RequestKinds
  <1> HIDE DEF n
  <1>8. \A k \in 1..Len(requests') : k \in 1..n \/ k = n + 1
    BY <1>3, <1>4
  <1>9. LateInv'
    <2>1. ASSUME NEW i \in 1..Len(requests'), Outstanding(i)', requests'[i].kind # "arp"
          PROVE  \/ RivalLost(requests'[i], timedout)
                 \/ i = Len(requests') /\ at' = requests'[i].kind
      BY <1>2, <1>4, <1>7, <1>8, <2>1
    <2> QED
      BY <2>1 DEF LateInv, RivalLost, Channel
  <1>10. PeerInv'
    BY <1>2, <1>3, <1>4 DEF PeerInv
  <1> QED
    BY <1>6, <1>9, <1>10 DEF AnswerInv

(* What an accepted answer of another request tells: a rival wait was lost.  *)
LEMMA Accepted ==
    ASSUME NetInv, AnswerInv, at \in Calls, current # NoFrame, Matches(current)
    PROVE  /\ current \in 1..Len(requests)
           /\ current = Len(requests) \/ Rivals \cap timedout # {}
  <1>1. /\ Kind(current) # "noise" /\ Kind(current) # "arp"
        /\ at = "echo" => EchoMatches(current)
        /\ at = "dns" => Kind(current) = "dns"
        /\ at = "datagram" => Kind(current) \in {"dns", "datagram"}
        /\ at = "echo" => Kind(current) = "echo"
    BY DEF Matches, Calls, EchoMatches, DnsMatches, UdpMatches
  <1>2. current \in 1..Len(requests) /\ Len(requests) \in Nat
    <2>1. current # 0
      BY <1>1 DEF Kind
    <2> QED
      BY <2>1, StateFields DEF NoFrame
  <1>3. Kind(current) = requests[current].kind /\ Source(current) = requests[current].to
    BY <1>2 DEF Kind, Source
  <1>4. Outstanding(current)
    BY DEF Outstanding
  <1>5. current = Len(requests) \/ RivalLost(requests[current], timedout)
    BY <1>1, <1>2, <1>3, <1>4 DEF AnswerInv, LateInv
  <1>6. ASSUME RivalLost(requests[current], timedout) PROVE Rivals \cap timedout # {}
    <2>1. CASE at = "echo"
      <3>1. requests[current].kind = "echo" /\ requests[current].to = cmd.peer
        BY <1>1, <1>3, <2>1 DEF EchoMatches
      <3>2. Channel("echo", cmd.peer) \in timedout
        BY <1>6, <3>1 DEF RivalLost
      <3> QED
        BY <2>1, <3>2 DEF Rivals
    <2>2. CASE at = "dns"
      <3>1. Channel("dns", requests[current].to) \in timedout
        BY <1>1, <1>3, <1>6, <2>2 DEF RivalLost
      <3> QED
        BY <2>2, <3>1 DEF Rivals, Channel
    <2>3. CASE at = "datagram"
      <3>1. \/ Channel("dns", requests[current].to) \in timedout
            \/ Channel("datagram", requests[current].to) \in timedout
            \/ Channel("dns", Nobody) \in timedout
        BY <1>1, <1>3, <1>6, <2>3 DEF RivalLost
      <3> QED
        BY <2>3, <3>1 DEF Rivals, Channel
    <2> QED
      BY <2>1, <2>2, <2>3 DEF Calls
  <1> QED
    BY <1>2, <1>5, <1>6

LEMMA EndStep ==
    ASSUME NetInv, AnswerInv, NEW where \in Calls, Answered(where) \/ GivenUp(where),
           UNCHANGED <<requests, flight>>, at' # "echo"
    PROVE  AnswerInv'
  <1> DEFINE n == Len(requests)
  <1>1. at = where /\ n \in Nat /\ timedout \subseteq timedout'
    BY StateFields DEF Answered, GivenUp
  <1>2. Fewer
    <2>1. CASE Answered(where)
      BY <2>1, FinishFrames DEF Answered, AnswerInv
    <2>2. CASE GivenUp(where)
      BY <2>2, SameFrames DEF GivenUp, AnswerInv
    <2> QED
      BY <2>1, <2>2
  (* The call's own answer, if it is still to come, comes late.              *)
  <1>3. ASSUME n \in 1..n, Outstanding(n)', at = requests[n].kind
        PROVE  RivalLost(requests[n], timedout')
    <2>1. at = "echo" => requests[n].to = cmd.peer
      BY <1>3 DEF AnswerInv, PeerInv
    <2>2. Channel(where, cmd.peer) = Channel(requests[n].kind, requests[n].to)
      BY <1>1, <1>3, <2>1 DEF Channel
    <2>3. CASE GivenUp(where)
      BY <2>2, <2>3 DEF GivenUp, RivalLost
    <2>4. CASE Answered(where)
      <3>1. current # NoFrame /\ Matches(current) /\ timedout' = timedout /\ Q!Finish
        BY <2>4 DEF Answered
      <3>2. current # n
        <4>1. CASE current = n
          <5>1. n \notin flight /\ \A k \in 1..Len(queue) : queue[k] # n
            BY <1>3, <4>1 DEF AnswerInv, OnceInv
          <5>2. current' = -1 /\ queue' = queue
            BY <3>1 DEF Q!Finish, NoFrame
          <5> QED
            BY <1>1, <1>3, <5>1, <5>2 DEF Outstanding
        <4> QED
          BY <4>1
      <3>3. Rivals \cap timedout # {}
        BY <1>1, <3>1, <3>2, Accepted
      <3>4. \/ Channel(at, cmd.peer) \in timedout
            \/ at = "datagram" /\ Channel("dns", Nobody) \in timedout
        BY <3>3 DEF Rivals
      <3> QED
        BY <1>1, <1>3, <2>2, <3>1, <3>4 DEF RivalLost
    <2> QED
      BY <2>3, <2>4
  <1>4. ASSUME NEW i \in 1..n, Outstanding(i)', requests[i].kind # "arp"
        PROVE  RivalLost(requests[i], timedout')
    <2>1. \/ RivalLost(requests[i], timedout)
          \/ i = n /\ at = requests[i].kind
      BY <1>2, <1>4 DEF AnswerInv, LateInv, Fewer
    <2>2. CASE RivalLost(requests[i], timedout)
      BY <1>1, <2>2 DEF RivalLost
    <2>3. CASE i = n /\ at = requests[i].kind
      BY <1>3, <1>4, <2>3
    <2> QED
      BY <2>1, <2>2, <2>3
  <1>5. LateInv'
    BY <1>4 DEF LateInv, RivalLost, Channel
  <1>6. OnceInv' /\ PeerInv'
    BY <1>2 DEF Fewer, PeerInv
  <1> QED
    BY <1>5, <1>6 DEF AnswerInv

-----------------------------------------------------------------------------
(* The steps. *)

LEMMA BeginAnswers == ASSUME NetInv, AnswerInv, Begin PROVE AnswerInv'
  <1>1. at = "begin" /\ UNCHANGED <<queue, current, gw, expired, timedout>> /\ at \notin Calls
    BY DEF Begin, Calls
  <1>2. CASE ~Direct /\ gw # Nobody
    BY <1>1, <1>2, SameFrames, OutsideStep DEF Begin, AnswerInv
  <1>3. CASE ~(~Direct /\ gw # Nobody)
    <2>1. Send("arp", NextHop, Nobody) /\ at' = "arp" /\ "arp" \in Waits
      BY <1>3 DEF Begin, Waits
    <2> QED
      BY <1>1, <2>1, SentStep
  <1> QED
    BY <1>2, <1>3

LEMMA AskAnswers == ASSUME NetInv, AnswerInv, Ask PROVE AnswerInv'
  <1> DEFINE to == IF cmd.goal = "dns" THEN cmd.arg ELSE cmd.peer
  <1>1. /\ at = "send" /\ Send(cmd.goal, to, cmd.hop)
        /\ at' = cmd.goal /\ cmd' = [cmd EXCEPT !.hop = Nobody]
        /\ UNCHANGED <<queue, current, gw, expired, timedout>>
    BY DEF Ask
  <1>2. cmd \in Commands /\ cmd.goal \in {"echo", "dns", "datagram"} /\ at \notin Calls
    BY <1>1, StateFields, CommandFields DEF NetInv, CommandInv, Calls
  <1>3. cmd'.peer = cmd.peer
    BY <1>1, <1>2, CommandUpdates
  <1>4. cmd.goal \in Waits /\ (cmd.goal = "echo" => to = cmd'.peer)
    BY <1>2, <1>3 DEF Waits
  <1> HIDE DEF to
  <1> QED
    BY <1>1, <1>2, <1>4, SentStep

LEMMA CallsEnd ==
    ASSUME NetInv, AnswerInv, EchoOver \/ DnsOver \/ DatagramOver
    PROVE  AnswerInv'
  <1>1. CASE EchoOver
    <2>1. at' # "echo"
      BY <1>1 DEF EchoOver, NextPing, Over
    <2> QED
      BY <1>1, <2>1, EndStep DEF EchoOver, Calls
  <1>2. CASE DnsOver
    <2>1. at' # "echo" /\ (Answered("dns") \/ GivenUp("dns")) /\ UNCHANGED <<requests, flight>>
      <3> DEFINE host == Address[Source(current)]
      <3>1. Over \/ Run(cmd.app, host)
        BY <1>2 DEF DnsOver
      <3> HIDE DEF host
      <3> QED
        BY <1>2, <3>1 DEF DnsOver, Over, Run
    <2> QED
      BY <2>1, EndStep DEF Calls
  <1>3. CASE DatagramOver
    <2>1. at' # "echo"
      BY <1>3 DEF DatagramOver
    <2> QED
      BY <1>3, <2>1, EndStep DEF DatagramOver, Calls
  <1> QED
    BY <1>1, <1>2, <1>3

LEMMA OutsideAnswers ==
    ASSUME NetInv, AnswerInv,
           \/ ArpAnswered \/ ArpGivenUp \/ Line
           \/ \E a \in {"ping", "ncat"}, x \in Hosts \cup Names : Command(a, x)
    PROVE  AnswerInv'
  <1>1. CASE ArpAnswered
    <2>1. /\ at = "arp" /\ at' = "send" /\ Q!Finish
          /\ UNCHANGED <<requests, flight, timedout>>
      BY <1>1 DEF ArpAnswered
    <2> QED
      BY <2>1, FinishFrames, OutsideStep DEF AnswerInv, Calls
  <1>2. CASE ArpGivenUp
    <2>1. at = "arp" /\ UNCHANGED <<queue, current, requests, flight, gw, timedout>>
      BY <1>2 DEF ArpGivenUp
    <2>2. at' # "echo"
      <3>1. cmd.goal \in {"echo", "dns", "datagram"}
        BY <2>1, StateFields, CommandFields DEF NetInv, CommandInv
      <3> QED
        BY <1>2, <3>1 DEF ArpGivenUp, NextPing, Over
    <2> QED
      BY <2>1, <2>2, SameFrames, OutsideStep DEF AnswerInv, Calls
  <1>3. CASE Line
    <2>1. /\ at = "line" /\ UNCHANGED <<queue, current, requests, flight, gw, expired, timedout>>
          /\ at' # "echo"
      BY <1>3 DEF Line, Over
    <2> QED
      BY <2>1, SameFrames, OutsideStep DEF AnswerInv, Calls
  <1>4. ASSUME NEW a \in {"ping", "ncat"}, NEW x \in Hosts \cup Names, Command(a, x)
        PROVE  AnswerInv'
    <2>1. /\ at = "shell" /\ UNCHANGED <<queue, current, requests, flight, gw, expired, timedout>>
          /\ at' # "echo"
      BY <1>4 DEF Command, Run
    <2> QED
      BY <2>1, SameFrames, OutsideStep DEF AnswerInv, Calls
  <1> QED
    BY <1>1, <1>2, <1>3, <1>4

LEMMA InsideAnswers ==
    ASSUME NetInv, AnswerInv,
           Tick \/ Poll \/ Ignore \/ UNCHANGED vars \/ \E f \in 0..MaxRequests : Arrive(f)
    PROVE  AnswerInv'
  <1>1. CASE Tick \/ UNCHANGED vars
    <2>1. UNCHANGED <<queue, current, requests, flight, at, cmd, timedout>>
      BY <1>1 DEF Tick, vars
    <2> QED
      BY <2>1, SameFrames, InsideStep DEF AnswerInv
  <1>2. CASE Poll
    <2>1. Q!Take /\ UNCHANGED <<requests, flight, at, cmd, timedout>>
      BY <1>2 DEF Poll
    <2> QED
      BY <2>1, TakeFrames, InsideStep DEF AnswerInv
  <1>3. CASE Ignore
    <2>1. Q!Finish /\ UNCHANGED <<requests, flight, at, cmd, timedout>>
      BY <1>3 DEF Ignore
    <2> QED
      BY <2>1, FinishFrames, InsideStep DEF AnswerInv
  <1>4. ASSUME NEW f \in 0..MaxRequests, Arrive(f) PROVE AnswerInv'
    <2>1. UNCHANGED <<requests, at, cmd, timedout>>
      BY <1>4 DEF Arrive
    <2> QED
      BY <1>4, <2>1, ArriveFrames, InsideStep DEF AnswerInv
  <1> QED
    BY <1>1, <1>2, <1>3, <1>4

LEMMA AnswerNext == NetInv /\ AnswerInv /\ [Next]_vars => AnswerInv'
  <1> SUFFICES ASSUME NetInv, AnswerInv, [Next]_vars PROVE AnswerInv'
    OBVIOUS
  <1>1. CASE Begin \/ Ask
    BY <1>1, BeginAnswers, AskAnswers
  <1>2. CASE EchoOver \/ DnsOver \/ DatagramOver
    BY <1>2, CallsEnd
  <1>3. CASE \/ ArpAnswered \/ ArpGivenUp \/ Line
             \/ \E a \in {"ping", "ncat"}, x \in Hosts \cup Names : Command(a, x)
    BY <1>3, OutsideAnswers
  <1>4. CASE Tick \/ Poll \/ Ignore \/ UNCHANGED vars \/ \E f \in 0..MaxRequests : Arrive(f)
    BY <1>4, InsideAnswers
  <1> QED
    BY <1>1, <1>2, <1>3, <1>4 DEF Next, Work

(* Constant ids and a shared port do no harm as long as no answer is late:   *)
(* whatever the network loses, delays and reorders, the answer a call        *)
(* accepts is that of its own request, unless a wait for an answer that      *)
(* passes for it was given up before.                                        *)
THEOREM NetOwnAnswer == Spec => []OwnAnswer
  <1>1. Init => AnswerInv
    <2>1. ASSUME Init PROVE AnswerInv
      <3>1. queue = <<>> /\ current = -1 /\ requests = <<>> /\ flight = {} /\ at = "shell"
        BY <2>1 DEF Init, Q!Init, NoFrame
      <3>2. Len(queue) = 0 /\ Len(requests) = 0
        BY <3>1
      <3> QED
        BY <3>1, <3>2 DEF AnswerInv, OnceInv, LateInv, PeerInv
    <2> QED
      BY <2>1
  <1>2. NetInv /\ AnswerInv => OwnAnswer
    BY Accepted DEF OwnAnswer, Calls
  <1> QED
    BY <1>1, <1>2, AnswerNext, NetInductive, PTL DEF Spec

=============================================================================
