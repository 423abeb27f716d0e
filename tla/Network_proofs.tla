---------------------------- MODULE Network_proofs ----------------------------
(***************************************************************************)
(* The two ends of every connection agree, a connection that lost nothing  *)
(* is settled when the wire is quiet, and datagrams are read in the order  *)
(* in which they were sent: for every size of the rings, the ARP cache and *)
(* the table of connections, and every set of hosts, sockets and loads.    *)
(***************************************************************************)
EXTENDS Network, SequenceTheorems, WellFoundedInduction, TLAPS

USE NetworkAssumption, NetStackAssumption

\* The values of the stack.
Addresses == Hosts \cup Remote \cup {Nobody, Bogus}
Kinds == {"request", "reply", "echo", "answer", "udp", "tcp"}
States == {"free", "Listen", "SynSent", "SynReceived", "Established", "CloseWait", "LastAck",
           "FinWait1", "FinWait2", "Closing", "TimeWait", "Closed"}
Frame == [kind : Kinds, host : Addresses, port : Nat, flags : SUBSET {"SYN", "ACK", "PSH", "FIN"}]
Connection == [state : States, host : Addresses, port : 0 .. MaxPorts]
Stack == [rx : Seq(Frame), tx : Seq(Frame), arp : [1 .. ArpSize -> Addresses],
          conn : [Conns -> Connection], nextPort : 1 .. MaxPorts + 1,
          bound : SUBSET UdpPorts, queue : [UdpPorts -> Seq(Nat)], lost : SUBSET Nat]
Peer == [state : {"none", "syn received", "established"}, closed : BOOLEAN, heard : BOOLEAN]
StreamSocket == [bound : BOOLEAN, connected : BOOLEAN, listening : BOOLEAN, conn : 0 .. MaxConns]
DatagramSocket == [bound : BOOLEAN, binding : UdpPorts \cup {NoPort}]

TypeOK ==
    /\ net \in Stack
    /\ stream \in [Streams -> StreamSocket] /\ dgram \in [Datagrams -> DatagramSocket]
    /\ peer \in [Ephemeral -> Peer]
    /\ number \in Nat /\ got \in Nat

(***************************************************************************)
(* Connections, of a stack n and the server's ends p.  Those with a port   *)
(* are the ones opened here; Segs are their segments on a ring.            *)
(***************************************************************************)
IsSegment(f) == f.kind = "tcp" /\ f.port # 0
Segs(ring) == {f \in Range(ring) : IsSegment(f)}
Opened(n) == {i \in Conns : n.conn[i].port # 0}

\* The flags of an answer, a segment that asks for a connection, and a step
\* from n to m that sends f.
Replies == {{}, {"ACK"}, {"SYN", "ACK"}}
IsSyn(f) == f.flags = {"SYN"}
Says(n, m, f) == Segs(m.tx) = Segs(n.tx) \cup {f}

\* What a connection is, beyond SYN-SENT; with the server's FIN; with our FIN sent.
Both == {"CloseWait", "LastAck", "TimeWait", "Closed"}
Ended == {"FinWait1", "FinWait2", "LastAck", "TimeWait", "Closed"}
HasConn(n, q, states) == \E i \in Opened(n) : n.conn[i].port = q /\ n.conn[i].state \in states
Beyond == {"Established"} \cup Both \cup Ended

\* Every connection has a port of its own.
Ports(n, p) ==
    /\ \A i \in Opened(n) : /\ n.conn[i].port < n.nextPort
                            /\ n.conn[i].host = Server
                            /\ n.conn[i].state \in {"SynSent"} \cup Beyond
    /\ \A i, j \in Opened(n) : n.conn[i].port = n.conn[j].port => i = j
    /\ \A q \in Ephemeral : q >= n.nextPort =>
           p[q].state = "none" /\ ~ p[q].closed /\ ~ p[q].heard

\* What waits to leave the card, and what arrived.
Sending(n) ==
    \A f \in Segs(n.tx) : /\ f.port < n.nextPort /\ f.host = Server /\ f.port \in Ephemeral
                          /\ f.flags # {"SYN"} => HasConn(n, f.port, Beyond)
                          /\ "FIN" \in f.flags => HasConn(n, f.port, Ended)
Arriving(n, p) ==
    \A f \in Segs(n.rx) : /\ f.port < n.nextPort /\ f.host = Server /\ f.port \in Ephemeral
                          /\ "ACK" \in f.flags /\ p[f.port].state # "none"
                          /\ "FIN" \in f.flags => p[f.port].closed

\* What this end knows of the other, and the other of this.
Agreed(n, p) ==
    /\ \A i \in Opened(n) : n.conn[i].state # "SynSent" => p[n.conn[i].port].state # "none"
    /\ \A i \in Opened(n) : n.conn[i].state \in Both => p[n.conn[i].port].closed
    /\ \A q \in Ephemeral : /\ p[q].heard => HasConn(n, q, Ended)
                            /\ p[q].state = "established" => HasConn(n, q, Beyond)
                            /\ p[q].closed => HasConn(n, q, Beyond)

\* Who waits has something under way, unless a segment was lost: a connection
\* with port q in state s.
Waits(n, p, q, s) ==
    /\ s = "SynSent" => \/ \E f \in Segs(n.tx) : f.port = q /\ f.flags = {"SYN"}
                        \/ \E f \in Segs(n.rx) : f.port = q /\ "SYN" \in f.flags
    /\ p[q].closed => s \in Both \/ \E f \in Segs(n.rx) : f.port = q /\ "FIN" \in f.flags
    /\ p[q].heard /\ s = "LastAck" => \E f \in Segs(n.rx) : f.port = q
UnderWay(n, p) ==
    \A i \in Opened(n) : n.conn[i].port \notin n.lost =>
        Waits(n, p, n.conn[i].port, n.conn[i].state)

Joined(n, p) == Ports(n, p) /\ Sending(n) /\ Arriving(n, p) /\ Agreed(n, p) /\ UnderWay(n, p)

\* Datagrams: those of the queue, then those of the ring.
Waiting(n, last, sent) ==
    /\ last <= sent
    /\ \A p \in UdpPorts \ {Port} : n.queue[p] = <<>>
    /\ \A i \in DOMAIN n.queue[Port] : n.queue[Port][i] \in last + 1 .. sent
    /\ \A i, j \in DOMAIN n.queue[Port] : i < j => n.queue[Port][i] < n.queue[Port][j]
    /\ \A j \in DOMAIN n.rx : n.rx[j].kind = "udp" =>
           /\ n.rx[j].port \in last + 1 .. sent
           /\ \A i \in DOMAIN n.queue[Port] : n.queue[Port][i] < n.rx[j].port
           /\ \A i \in DOMAIN n.rx : n.rx[i].kind = "udp" /\ i < j => n.rx[i].port < n.rx[j].port

IInv == TypeOK /\ Joined(net, peer) /\ Waiting(net, got, number)

-----------------------------------------------------------------------------
(* Rings, and the least element that Min picks *)

\* A non-empty set of naturals has a least element.
LEMMA LeastNatural ==
  ASSUME NEW T \in SUBSET Nat, T # {}
  PROVE  \E x \in T : \A y \in T : x <= y
<1> DEFINE R == {p \in Nat \X Nat : p[1] < p[2]}
<1>1. IsWellFoundedOn(R, Nat)
  BY NatLessThanWellFounded DEF OpToRel
<1>2. PICK x \in T : \A y \in T : ~ (<<y, x>> \in R)
  <2> HIDE DEF R
  <2> QED BY <1>1, WFMin
<1>3. \A y \in T : ~ (y < x)
  BY <1>2
<1> QED BY <1>3

LEMMA LeastOf ==
  ASSUME NEW T \in SUBSET Nat, T # {}
  PROVE  Min(T) \in T
  BY LeastNatural DEF Min

LEMMA RangeOfAppend ==
  ASSUME NEW S, NEW s \in Seq(S), NEW e \in S
  PROVE  Range(Append(s, e)) = Range(s) \cup {e}
<1>1. /\ Append(s, e) \in Seq(S) /\ Len(Append(s, e)) = Len(s) + 1 /\ Len(s) \in Nat
      /\ \A i \in 1 .. Len(s) : Append(s, e)[i] = s[i]
      /\ Append(s, e)[Len(s) + 1] = e
  BY AppendProperties, LenProperties
<1>2. DOMAIN Append(s, e) = 1 .. Len(s) + 1 /\ DOMAIN s = 1 .. Len(s)
  BY <1>1, LenProperties
<1>3. \A i : i \in 1 .. Len(s) + 1 <=> i \in 1 .. Len(s) \/ i = Len(s) + 1
  BY <1>1
<1> QED BY <1>1, <1>2, <1>3, Zenon DEF Range

LEMMA RangeOfTail ==
  ASSUME NEW S, NEW s \in Seq(S), s # <<>>
  PROVE  Range(s) = {Head(s)} \cup Range(Tail(s)) /\ Head(s) \in S /\ Tail(s) \in Seq(S)
<1>1. /\ Tail(s) \in Seq(S) /\ Len(Tail(s)) = Len(s) - 1 /\ Len(s) \in Nat \ {0}
      /\ \A i \in 1 .. Len(s) - 1 : Tail(s)[i] = s[i + 1]
      /\ DOMAIN s = 1 .. Len(s) /\ DOMAIN Tail(s) = 1 .. Len(s) - 1 /\ Head(s) \in S
  BY HeadTailProperties, LenProperties, EmptySeq
<1>2. Head(s) = s[1]
  OBVIOUS
<1>3. ASSUME NEW i \in 1 .. Len(s) PROVE s[i] \in {Head(s)} \cup Range(Tail(s))
  <2>1. CASE i = 1
    BY <1>2, <2>1
  <2>2. CASE i # 1
    <3>1. i - 1 \in 1 .. Len(s) - 1 /\ (i - 1) + 1 = i
      BY <1>1, <2>2
    <3>2. Tail(s)[i - 1] = s[i]
      BY <1>1, <3>1
    <3> QED BY <1>1, <3>1, <3>2 DEF Range
  <2> QED BY <2>1, <2>2
<1>4. ASSUME NEW i \in 1 .. Len(s) - 1 PROVE Tail(s)[i] \in Range(s)
  BY <1>1, i + 1 \in 1 .. Len(s) DEF Range
<1>5. Head(s) \in Range(s)
  BY <1>1, <1>2 DEF Range
<1>6. Range(s) \subseteq {Head(s)} \cup Range(Tail(s))
  BY <1>1, <1>3, Zenon DEF Range
<1>7. Range(Tail(s)) \subseteq Range(s)
  BY <1>1, <1>4, Zenon DEF Range
<1> QED BY <1>1, <1>5, <1>6, <1>7

\* The segments of a ring, when a frame is put behind it or taken from it.
LEMMA SegsOfAppend ==
  ASSUME NEW s \in Seq(Frame), NEW f \in Frame
  PROVE  /\ Append(s, f) \in Seq(Frame)
         /\ Segs(Append(s, f)) = Segs(s) \cup (IF IsSegment(f) THEN {f} ELSE {})
<1>1. Append(s, f) \in Seq(Frame)
  BY AppendProperties
<1>2. Range(Append(s, f)) = Range(s) \cup {f}
  BY RangeOfAppend
<1> QED BY <1>1, <1>2 DEF Segs

LEMMA SegsOfTail ==
  ASSUME NEW s \in Seq(Frame), s # <<>>
  PROVE  /\ Tail(s) \in Seq(Frame) /\ Head(s) \in Frame
         /\ Segs(s) = Segs(Tail(s)) \cup (IF IsSegment(Head(s)) THEN {Head(s)} ELSE {})
<1>1. Range(s) = {Head(s)} \cup Range(Tail(s)) /\ Head(s) \in Frame /\ Tail(s) \in Seq(Frame)
  BY RangeOfTail
<1> QED BY <1>1 DEF Segs

LEMMA SegsEmpty == Segs(<<>>) = {}
  BY DEF Segs, Range

-----------------------------------------------------------------------------
(* The operations of the stack, as what they do to its parts *)

LEMMA FrameTyped ==
  ASSUME NEW h \in Addresses, NEW kind \in Kinds
  PROVE  Plain(kind, h) \in Frame /\ ~ IsSegment(Plain(kind, h))
  BY DEF Plain, Frame, IsSegment

LEMMA DropEffect ==
  ASSUME NEW n \in Stack, NEW f \in Frame
  PROVE  /\ Drop(n, f) \in Stack
         /\ Drop(n, f).rx = n.rx /\ Drop(n, f).tx = n.tx /\ Drop(n, f).conn = n.conn
         /\ Drop(n, f).nextPort = n.nextPort /\ Drop(n, f).queue = n.queue
         /\ n.lost \subseteq Drop(n, f).lost
         /\ IsSegment(f) => f.port \in Drop(n, f).lost
  BY DEF Drop, Stack, Frame, IsSegment

\* m is n after f was given to the ring: f is in it, or it is lost.
Sent(n, m, f) ==
    /\ m \in Stack
    /\ m.rx = n.rx /\ m.conn = n.conn /\ m.nextPort = n.nextPort /\ m.queue = n.queue
    /\ n.lost \subseteq m.lost
    /\ \/ Segs(m.tx) = Segs(n.tx) \cup (IF IsSegment(f) THEN {f} ELSE {})
       \/ Segs(m.tx) = Segs(n.tx) /\ (IsSegment(f) => f.port \in m.lost)

LEMMA TransmitEffect ==
  ASSUME NEW n \in Stack, NEW f \in Frame
  PROVE  Sent(n, Transmit(n, f), f)
<1>1. CASE Len(n.tx) < TxCount
  <2>1. Transmit(n, f) = [n EXCEPT !.tx = Append(n.tx, f)]
    BY <1>1 DEF Transmit
  <2>2. Append(n.tx, f) \in Seq(Frame)
    BY SegsOfAppend DEF Stack
  <2>3. n.tx \in Seq(Frame)
    BY DEF Stack
  <2> QED BY <2>1, <2>2, <2>3, SegsOfAppend, ZenonT(60) DEF Stack, Sent
<1>2. CASE ~ (Len(n.tx) < TxCount)
  <2>1. Transmit(n, f) = Drop(n, f)
    BY <1>2 DEF Transmit
  <2> QED BY <2>1, DropEffect DEF Sent
<1> QED BY <1>1, <1>2

LEMMA ArriveEffect ==
  ASSUME NEW n \in Stack, NEW f \in Frame
  PROVE  LET m == Arrive(n, f)
         IN  /\ m \in Stack
             /\ m.tx = n.tx /\ m.conn = n.conn /\ m.nextPort = n.nextPort /\ m.queue = n.queue
             /\ n.lost \subseteq m.lost
             /\ \/ /\ m.rx = Append(n.rx, f)
                   /\ Segs(m.rx) = Segs(n.rx) \cup (IF IsSegment(f) THEN {f} ELSE {})
                \/ m.rx = n.rx /\ (IsSegment(f) => f.port \in m.lost)
<1>1. CASE Len(n.rx) < RxCount - 1
  <2>1. Arrive(n, f) = [n EXCEPT !.rx = Append(n.rx, f)]
    BY <1>1 DEF Arrive
  <2>2. Append(n.rx, f) \in Seq(Frame)
    BY SegsOfAppend DEF Stack
  <2>3. n.rx \in Seq(Frame)
    BY DEF Stack
  <2> QED BY <2>1, <2>2, <2>3, SegsOfAppend DEF Stack
<1>2. CASE ~ (Len(n.rx) < RxCount - 1)
  <2>1. Arrive(n, f) = Drop(n, f)
    BY <1>2 DEF Arrive
  <2> QED BY <2>1, DropEffect
<1> QED BY <1>1, <1>2

\* A packet is in the ring, or lost and asked for the way.
LEMMA SendEffect ==
  ASSUME NEW n \in Stack, NEW f \in Frame
  PROVE  Sent(n, SendPacket(n, f), f)
<1>1. CASE Resolved(n, NextHop(f.host))
  <2>1. SendPacket(n, f) = Transmit(n, f)
    BY <1>1 DEF SendPacket
  <2> QED BY <2>1, TransmitEffect
<1>2. CASE ~ Resolved(n, NextHop(f.host))
  <2> DEFINE d == Drop(n, f)
             g == Plain("request", NextHop(f.host))
  <2>1. SendPacket(n, f) = Transmit(d, g)
    BY <1>2 DEF SendPacket, SendARPRequest
  <2>2. NextHop(f.host) \in Addresses /\ "request" \in Kinds
    BY DEF NextHop, Addresses, Kinds
  <2>3. g \in Frame /\ ~ IsSegment(g)
    BY <2>2, FrameTyped
  <2>4. /\ d \in Stack /\ d.rx = n.rx /\ d.tx = n.tx /\ d.conn = n.conn
        /\ d.nextPort = n.nextPort /\ d.queue = n.queue /\ n.lost \subseteq d.lost
        /\ IsSegment(f) => f.port \in d.lost
    BY DropEffect
  <2> HIDE DEF d, g
  <2>5. PICK m : m = Transmit(d, g)
    OBVIOUS
  <2>6. Sent(d, m, g)
    BY <2>3, <2>4, <2>5, TransmitEffect
  <2>7. Segs(m.tx) = Segs(d.tx)
    BY <2>3, <2>6 DEF Sent
  <2>8. Sent(n, m, f)
    BY <2>4, <2>6, <2>7 DEF Sent
  <2> QED BY <2>1, <2>5, <2>8
<1> QED BY <1>1, <1>2

LEMMA CacheEffect ==
  ASSUME NEW n \in Stack, NEW h \in Addresses
  PROVE  LET m == UpdateARPCache(n, h)
         IN  /\ m \in Stack
             /\ m.rx = n.rx /\ m.tx = n.tx /\ m.conn = n.conn /\ m.nextPort = n.nextPort
             /\ m.queue = n.queue /\ m.lost = n.lost
<1> DEFINE unused == {i \in 1 .. ArpSize : n.arp[i] = Nobody}
           k == IF unused = {} THEN 1 ELSE Min(unused)
<1>1. UpdateARPCache(n, h) = IF h \in Range(n.arp) THEN n
                             ELSE [n EXCEPT !.arp[k] = h]
  BY DEF UpdateARPCache
<1> HIDE DEF k
<1>2. n.arp \in [1 .. ArpSize -> Addresses]
  BY DEF Stack
<1>3. [n.arp EXCEPT ![k] = h] \in [1 .. ArpSize -> Addresses]
  BY <1>2
<1>4. [n EXCEPT !.arp[k] = h] = [n EXCEPT !.arp = [n.arp EXCEPT ![k] = h]]
  BY DEF Stack
<1> QED BY <1>1, <1>3, <1>4 DEF Stack

\* A connection with one of its states replaced, or a slot with another connection.
LEMMA SlotEffect ==
  ASSUME NEW n \in Stack, NEW i \in Conns, NEW c \in Connection
  PROVE  LET m == [n EXCEPT !.conn[i] = c]
         IN  /\ m \in Stack
             /\ m.rx = n.rx /\ m.tx = n.tx /\ m.nextPort = n.nextPort /\ m.queue = n.queue
             /\ m.lost = n.lost /\ m.conn = [n.conn EXCEPT ![i] = c]
<1>1. n.conn \in [Conns -> Connection]
  BY DEF Stack
<1>2. [n.conn EXCEPT ![i] = c] \in [Conns -> Connection]
  BY <1>1
<1>3. [n EXCEPT !.conn[i] = c] = [n EXCEPT !.conn = [n.conn EXCEPT ![i] = c]]
  BY DEF Stack
<1> QED BY <1>2, <1>3 DEF Stack

LEMMA SegmentTyped ==
  ASSUME NEW c \in Connection, NEW flags \in SUBSET {"SYN", "ACK", "PSH", "FIN"}
  PROVE  /\ Segment(c, flags) \in Frame
         /\ Segment(c, flags).port = c.port /\ Segment(c, flags).host = c.host
         /\ Segment(c, flags).flags = flags
         /\ IsSegment(Segment(c, flags)) <=> c.port # 0
<1>1. c.host \in Addresses /\ c.port \in Nat
  BY DEF Connection
<1>2. "tcp" \in Kinds
  BY DEF Kinds
<1> QED BY <1>1, <1>2 DEF Segment, Frame, IsSegment

LEMMA NoConnTyped == NoConn \in Connection /\ NoConn.port = 0 /\ NoConn.state = "free"
  BY DEF NoConn, Connection, States, Addresses

\* m is x after segment f of port q was given to the ring: as Sent, of a
\* segment if the port is one.
Said(x, m, f, q) ==
    /\ m \in Stack
    /\ m.rx = x.rx /\ m.conn = x.conn /\ m.nextPort = x.nextPort /\ m.queue = x.queue
    /\ x.lost \subseteq m.lost
    /\ \/ Segs(m.tx) = Segs(x.tx) \cup (IF q # 0 THEN {f} ELSE {})
       \/ Segs(m.tx) = Segs(x.tx) /\ (q # 0 => q \in m.lost)

\* A segment of connection d is sent by stack x.
LEMMA SayEffect ==
  ASSUME NEW x \in Stack, NEW d \in Connection,
         NEW flags \in SUBSET {"SYN", "ACK", "PSH", "FIN"},
         NEW m, m = SendPacket(x, Segment(d, flags))
  PROVE  Said(x, m, Segment(d, flags), d.port)
<1>1. PICK f \in Frame : f = Segment(d, flags) /\ f.port = d.port /\ (IsSegment(f) <=> d.port # 0)
  BY SegmentTyped
<1>2. m = SendPacket(x, f)
  BY <1>1
<1>3. Sent(x, m, f)
  BY <1>2, SendEffect
<1>4. Said(x, m, f, d.port)
  BY <1>1, <1>3 DEF Sent, Said
<1> QED BY <1>1, <1>4

-----------------------------------------------------------------------------
(* What keeps the two ends in agreement *)

\* Only connections without a port, frames that are no segments, and segments
\* of ports without a connection come or go.
LEMMA Untouched ==
  ASSUME NEW n \in Stack, NEW m \in Stack, NEW p \in [Ephemeral -> Peer], Joined(n, p),
         m.nextPort = n.nextPort, n.lost \subseteq m.lost,
         Opened(m) = Opened(n), \A i \in Opened(n) : m.conn[i] = n.conn[i],
         Segs(m.tx) = Segs(n.tx), Segs(m.rx) \subseteq Segs(n.rx),
         \A f \in Segs(n.rx) \ Segs(m.rx), i \in Opened(n) : n.conn[i].port # f.port
  PROVE  Joined(m, p)
<1>1. \A q, states : HasConn(m, q, states) <=> HasConn(n, q, states)
  BY DEF HasConn
<1>2. Ports(m, p)
  BY DEF Joined, Ports
<1>3. Sending(m)
  BY <1>1 DEF Joined, Sending
<1>4. Arriving(m, p)
  BY DEF Joined, Arriving
<1>5. Agreed(m, p)
  BY <1>1 DEF Joined, Agreed
<1>6. UnderWay(m, p)
  <2> SUFFICES ASSUME NEW i \in Opened(n), n.conn[i].port \notin n.lost
               PROVE  Waits(m, p, n.conn[i].port, n.conn[i].state)
    BY DEF UnderWay
  <2>1. \A f \in Segs(n.rx) : f.port = n.conn[i].port => f \in Segs(m.rx)
    OBVIOUS
  <2> QED BY <2>1 DEF Joined, UnderWay, Waits
<1> QED BY <1>2, <1>3, <1>4, <1>5, <1>6 DEF Joined

\* One connection moves on from n to m, to state s, and may say so with f;
\* segments for it may be taken.
Moves(n, m, p, i, q, s, f) ==
    /\ i \in Opened(n) /\ s \in {"SynSent"} \cup Beyond /\ q \in Nat /\ q = n.conn[i].port
    /\ s = "SynSent" => n.conn[i].state = "SynSent" /\ Segs(m.tx) = Segs(n.tx)
    /\ n.conn[i].state \in Ended => s \in Ended
    /\ p[q].state # "none" /\ (s \in Both => p[q].closed)
    /\ m.nextPort = n.nextPort /\ n.lost \subseteq m.lost
    /\ m.conn[i].port = q /\ m.conn[i].host = n.conn[i].host /\ m.conn[i].state = s
    /\ \A j \in Conns \ {i} : m.conn[j] = n.conn[j]
    /\ f.port = q /\ f.host = Server /\ ~ IsSyn(f) /\ ("FIN" \in f.flags => s \in Ended)
    /\ Segs(m.tx) = Segs(n.tx) \/ Says(n, m, f)
    /\ Segs(m.rx) \subseteq Segs(n.rx)
    /\ \A g \in Segs(n.rx) \ Segs(m.rx) : g.port = q
    /\ q \notin m.lost => Waits(m, p, q, s)

LEMMA ConnStep ==
  ASSUME NEW n \in Stack, NEW m \in Stack, NEW p \in [Ephemeral -> Peer], Joined(n, p),
         NEW i, NEW q, NEW s, NEW f, Moves(n, m, p, i, q, s, f)
  PROVE  Joined(m, p)
<1> USE DEF Moves
<1>1. /\ n.conn \in [Conns -> Connection] /\ i \in Conns /\ q # 0
      /\ n.nextPort \in Nat /\ \A j \in Conns : n.conn[j].port \in Nat
  BY SMTT(30) DEF Stack, Opened, Connection
<1>2. /\ Opened(m) = Opened(n)
      /\ \A j \in Opened(n) : m.conn[j].port = n.conn[j].port /\ m.conn[j].host = n.conn[j].host
      /\ \A j \in Opened(n) : m.conn[j].state = IF j = i THEN s ELSE n.conn[j].state
  BY <1>1 DEF Opened
<1>3. /\ \A j \in Opened(n) : /\ n.conn[j].port < n.nextPort /\ n.conn[j].host = Server
                              /\ n.conn[j].state \in {"SynSent"} \cup Beyond
      /\ \A j \in Opened(n) : n.conn[j].port = q => j = i
      /\ q < n.nextPort
  BY DEF Joined, Ports
<1>4. \A r : HasConn(n, r, Beyond) => HasConn(m, r, Beyond)
  <2>1. n.conn[i].state \in Beyond => s \in Beyond
    BY DEF Beyond, Both, Ended
  <2> QED BY <1>2, <2>1 DEF HasConn
<1>5. \A r : HasConn(n, r, Ended) => HasConn(m, r, Ended)
  BY <1>2 DEF HasConn
<1>6. (s \in Beyond => HasConn(m, q, Beyond)) /\ (s \in Ended => HasConn(m, q, Ended))
  BY <1>2 DEF HasConn
<1>7. Ports(m, p)
  BY <1>2, <1>3 DEF Joined, Ports
<1>8. q \in Ephemeral
  BY <1>1, <1>3, SMTT(30) DEF Joined, Stack, Connection, Opened, Ephemeral
<1>9. Sending(m)
  <2>1. ASSUME NEW g \in Segs(m.tx), g \notin Segs(n.tx)
        PROVE  g = f /\ s \in Beyond
    BY <2>1 DEF Says
  <2> QED BY <1>3, <1>4, <1>5, <1>6, <1>8, <2>1 DEF Joined, Sending, IsSyn
<1>10. Arriving(m, p)
  BY DEF Joined, Arriving
<1>11. Agreed(m, p)
  <2>1. \A j \in Opened(m) : m.conn[j].state # "SynSent" => p[m.conn[j].port].state # "none"
    BY <1>2 DEF Joined, Agreed
  <2>2. \A j \in Opened(m) : m.conn[j].state \in Both => p[m.conn[j].port].closed
    BY <1>2 DEF Joined, Agreed
  <2> QED BY <1>4, <1>5, <2>1, <2>2 DEF Joined, Agreed
<1>12. UnderWay(m, p)
  <2> SUFFICES ASSUME NEW j \in Opened(n), n.conn[j].port \notin m.lost
               PROVE  Waits(m, p, n.conn[j].port, m.conn[j].state)
    BY <1>2 DEF UnderWay
  <2>1. CASE j = i
    BY <1>2, <2>1
  <2>2. CASE j # i
    <3>1. n.conn[j].port # q /\ Waits(n, p, n.conn[j].port, n.conn[j].state)
      BY <1>3, <2>2 DEF Joined, UnderWay
    <3>2. \A g \in Segs(n.rx) : g.port = n.conn[j].port => g \in Segs(m.rx)
      BY <3>1
    <3>3. Segs(n.tx) \subseteq Segs(m.tx)
      BY DEF Says
    <3>4. m.conn[j].state = n.conn[j].state
      BY <1>2, <2>2
    <3> QED BY <3>1, <3>2, <3>3, <3>4 DEF Waits
  <2> QED BY <2>1, <2>2
<1> QED BY <1>7, <1>9, <1>10, <1>11, <1>12 DEF Joined

\* A connection that was never answered is given up.
LEMMA GiveUp ==
  ASSUME NEW n \in Stack, NEW m \in Stack, NEW p \in [Ephemeral -> Peer], Joined(n, p),
         NEW i \in Conns, n.conn[i].port # 0 => n.conn[i].state = "SynSent",
         m.conn = [n.conn EXCEPT ![i] = NoConn],
         m.nextPort = n.nextPort, m.lost = n.lost, m.tx = n.tx, m.rx = n.rx
  PROVE  Joined(m, p)
<1>1. n.conn \in [Conns -> Connection]
  BY DEF Stack
<1>2. m.conn[i] = NoConn /\ \A j \in Conns \ {i} : m.conn[j] = n.conn[j]
  BY <1>1
<1>3. Opened(m) = Opened(n) \ {i} /\ \A j \in Opened(m) : m.conn[j] = n.conn[j]
  BY <1>2, NoConnTyped DEF Opened
<1>4. \A q, states : HasConn(n, q, states) /\ "SynSent" \notin states => HasConn(m, q, states)
  BY <1>3 DEF HasConn, Opened
<1>5. "SynSent" \notin Beyond /\ "SynSent" \notin Ended
  BY DEF Beyond, Ended, Both
<1>6. Ports(m, p)
  BY <1>3 DEF Joined, Ports
<1>7. Sending(m)
  BY <1>4, <1>5 DEF Joined, Sending
<1>8. Arriving(m, p)
  BY DEF Joined, Arriving
<1>9. Agreed(m, p)
  BY <1>3, <1>4, <1>5 DEF Joined, Agreed
<1>10. UnderWay(m, p)
  <2> SUFFICES ASSUME NEW j \in Opened(m), m.conn[j].port \notin m.lost
               PROVE  Waits(m, p, m.conn[j].port, m.conn[j].state)
    BY DEF UnderWay
  <2>1. Waits(n, p, m.conn[j].port, m.conn[j].state)
    BY <1>3 DEF Joined, UnderWay
  <2> QED BY <2>1 DEF Waits
<1> QED BY <1>6, <1>7, <1>8, <1>9, <1>10 DEF Joined

\* No two connections have the same port, and one that still waits for the
\* server's answer has heard nothing of it.
LEMMA ConnFacts ==
  ASSUME NEW n \in Stack, NEW p \in [Ephemeral -> Peer], Joined(n, p), NEW i \in Opened(n),
         NEW q \in Nat, q = n.conn[i].port
  PROVE  /\ n.conn[i] \in Connection /\ q \in Ephemeral /\ q < n.nextPort
         /\ n.conn[i].host = Server /\ n.conn[i].state \in {"SynSent"} \cup Beyond
         /\ p[q].closed => n.conn[i].state \in Beyond
         /\ p[q].heard => n.conn[i].state \in Ended
         /\ n.conn[i].state # "SynSent" => p[q].state # "none"
         /\ n.conn[i].state \in Both => p[q].closed
<1>1. n.conn[i] \in Connection /\ i \in Conns
  BY DEF Stack, Opened
<1>2. q \in Ephemeral
  BY <1>1 DEF Connection, Ephemeral, Opened
<1>3. \A j \in Opened(n) : n.conn[j].port = q => j = i
  BY DEF Joined, Ports
<1>4. \A states : HasConn(n, q, states) => n.conn[i].state \in states
  BY <1>3 DEF HasConn
<1> QED BY <1>1, <1>2, <1>4 DEF Joined, Ports, Agreed

-----------------------------------------------------------------------------
(* The operations of TCP *)

LEMMA FreeSlot ==
  ASSUME NEW n \in Stack, FreeConn(n) # {}
  PROVE  Min(FreeConn(n)) \in Conns /\ n.conn[Min(FreeConn(n))] = NoConn
<1>1. FreeConn(n) \in SUBSET Nat
  BY DEF FreeConn, Conns
<1>2. Min(FreeConn(n)) \in FreeConn(n)
  BY <1>1, LeastOf
<1> QED BY <1>2 DEF FreeConn

LEMMA ServerAddress == Server \in Addresses
  BY DEF Addresses

LEMMA ConnectStep ==
  ASSUME NEW n \in Stack, NEW p \in [Ephemeral -> Peer], Joined(n, p),
         n.nextPort \in Ephemeral, FreeConn(n) # {}
  PROVE  /\ Connect(n, Server) \in Stack /\ Joined(Connect(n, Server), p)
         /\ Connect(n, Server).rx = n.rx /\ Connect(n, Server).queue = n.queue
<1> DEFINE q == n.nextPort
           c == [state |-> "SynSent", host |-> Server, port |-> q]
           k == Min(FreeConn(n))
           n1 == [n EXCEPT !.nextPort = q + 1]
           syn == Segment(c, {"SYN"})
           m == SendPacket([n1 EXCEPT !.conn[k] = c], syn)
<1>1. k \in Conns /\ n.conn[k] = NoConn
  BY FreeSlot
<1>2. Connect(n, Server) = m
  <2>1. [n EXCEPT !.conn[k] = c, !.nextPort = n.nextPort + 1] = [n1 EXCEPT !.conn[k] = c]
    BY DEF Stack
  <2> QED BY <2>1 DEF Connect
<1>3. c \in Connection
  BY ServerAddress DEF Connection, States, Ephemeral
<1>4. n1 \in Stack /\ n1.conn = n.conn /\ n1.rx = n.rx /\ n1.tx = n.tx /\ n1.queue = n.queue
      /\ n1.lost = n.lost /\ n1.nextPort = q + 1
  <2>1. q + 1 \in 1 .. MaxPorts + 1
    BY DEF Ephemeral
  <2> QED BY <2>1 DEF Stack
<1>5. c.port = q /\ c.host = Server /\ c.state = "SynSent" /\ q \in Ephemeral /\ q # 0 /\ q \in Nat
  BY DEF Ephemeral
<1>6. /\ syn.port = q /\ syn.host = Server /\ syn.flags = {"SYN"} /\ IsSegment(syn)
  BY <1>3, <1>5, SegmentTyped
<1> HIDE DEF n1, c, k, syn
<1>7. /\ m \in Stack /\ m.rx = n.rx /\ m.conn = [n.conn EXCEPT ![k] = c]
      /\ m.nextPort = q + 1 /\ m.queue = n.queue /\ n.lost \subseteq m.lost
      /\ \/ Segs(m.tx) = Segs(n.tx) \cup {syn}
         \/ Segs(m.tx) = Segs(n.tx) /\ q \in m.lost
  <2>1. /\ m \in Stack
        /\ m.rx = n1.rx /\ m.conn = [n1.conn EXCEPT ![k] = c]
        /\ m.nextPort = n1.nextPort /\ m.queue = n1.queue
        /\ n1.lost \subseteq m.lost
        /\ \/ Segs(m.tx) = Segs(n1.tx) \cup (IF c.port # 0 THEN {syn} ELSE {})
           \/ Segs(m.tx) = Segs(n1.tx) /\ (c.port # 0 => c.port \in m.lost)
    <3> DEFINE x == [n1 EXCEPT !.conn[k] = c]
    <3>1. {"SYN"} \in SUBSET {"SYN", "ACK", "PSH", "FIN"}
      OBVIOUS
    <3>2. /\ x \in Stack /\ x.rx = n1.rx /\ x.tx = n1.tx /\ x.nextPort = n1.nextPort
          /\ x.queue = n1.queue /\ x.lost = n1.lost /\ x.conn = [n1.conn EXCEPT ![k] = c]
      BY <1>1, <1>3, <1>4, SlotEffect
    <3>3. PICK r : r = m /\ r = SendPacket(x, Segment(c, {"SYN"}))
      BY DEF syn
    <3> HIDE DEF m, x
    <3>4. Said(x, r, Segment(c, {"SYN"}), c.port)
      BY <1>3, <3>1, <3>2, <3>3, SayEffect
    <3> HIDE DEF q
    <3> QED BY <3>2, <3>3, <3>4 DEF syn, Said
  <2> HIDE DEF m
  <2> QED BY <1>4, <1>5, <2>1
<1> HIDE DEF m, q
<1>8. n.conn \in [Conns -> Connection]
  BY DEF Stack
<1>9. m.conn[k] = c /\ \A j \in Conns \ {k} : m.conn[j] = n.conn[j]
  BY <1>1, <1>7, <1>8
<1>10. /\ k \notin Opened(n) /\ Opened(m) = Opened(n) \cup {k}
       /\ \A j \in Opened(n) : m.conn[j] = n.conn[j]
  BY <1>1, <1>5, <1>9, NoConnTyped DEF Opened
<1>11. q = n.nextPort /\ \A j \in Opened(n) : n.conn[j].port \in Nat /\ n.conn[j].port < q
  BY <1>8 DEF Joined, Ports, Opened, Connection, q
<1>12. p[q].state = "none" /\ ~ p[q].closed /\ ~ p[q].heard
  BY <1>5, <1>11 DEF Joined, Ports, Ephemeral
<1>13. \A r, states : HasConn(n, r, states) => HasConn(m, r, states)
  BY <1>10 DEF HasConn
<1>14. Ports(m, p)
  <2>1. \A i \in Opened(m) : /\ m.conn[i].port < m.nextPort /\ m.conn[i].host = Server
                             /\ m.conn[i].state \in {"SynSent"} \cup Beyond
    BY <1>5, <1>7, <1>9, <1>10, <1>11 DEF Joined, Ports
  <2>2. \A i, j \in Opened(m) : m.conn[i].port = m.conn[j].port => i = j
    BY <1>5, <1>9, <1>10, <1>11 DEF Joined, Ports
  <2>3. \A r \in Ephemeral : r >= m.nextPort => r >= n.nextPort
    BY <1>5, <1>7, <1>11 DEF Ephemeral
  <2> QED BY <2>1, <2>2, <2>3 DEF Joined, Ports
<1>15. Sending(m)
  <2>1. \A f \in Segs(n.tx) : f.port < m.nextPort
    BY <1>5, <1>7, <1>11 DEF Joined, Sending, Ephemeral
  <2>2. "FIN" \notin syn.flags /\ syn.port < m.nextPort
    BY <1>5, <1>6, <1>7
  <2> QED BY <1>5, <1>6, <1>7, <1>13, <2>1, <2>2 DEF Joined, Sending
<1>16. Arriving(m, p)
  BY <1>5, <1>7, <1>11 DEF Joined, Arriving, Ephemeral
<1>17. Agreed(m, p)
  <2>1. c.state \notin Both
    BY <1>5 DEF Both
  <2> QED BY <1>5, <1>9, <1>10, <1>13, <2>1 DEF Joined, Agreed
<1>18. UnderWay(m, p)
  <2>1. ASSUME NEW i \in Opened(n), n.conn[i].port \notin m.lost
        PROVE  Waits(m, p, n.conn[i].port, n.conn[i].state)
    <3>1. Waits(n, p, n.conn[i].port, n.conn[i].state) /\ Segs(n.tx) \subseteq Segs(m.tx)
      BY <1>7, <2>1 DEF Joined, UnderWay
    <3> QED BY <1>7, <3>1 DEF Waits
  <2>2. ASSUME q \notin m.lost PROVE Waits(m, p, q, "SynSent")
    BY <1>6, <1>7, <1>12, <2>2 DEF Waits
  <2> QED BY <1>5, <1>9, <1>10, <2>1, <2>2 DEF UnderWay
<1> QED BY <1>2, <1>7, <1>14, <1>15, <1>16, <1>17, <1>18 DEF Joined

LEMMA ListenStep ==
  ASSUME NEW n \in Stack, NEW p \in [Ephemeral -> Peer], Joined(n, p), FreeConn(n) # {}
  PROVE  /\ Listen(n) \in Stack /\ Joined(Listen(n), p)
         /\ Listen(n).rx = n.rx /\ Listen(n).queue = n.queue
<1> DEFINE c == [state |-> "Listen", host |-> Nobody, port |-> ListenPort]
           k == Min(FreeConn(n))
           m == [n EXCEPT !.conn[k] = c]
<1>1. k \in Conns /\ n.conn[k] = NoConn
  BY FreeSlot
<1>2. c \in Connection /\ c.port = 0
  BY DEF Connection, States, Addresses, ListenPort
<1>3. Listen(n) = m
  BY DEF Listen
<1> HIDE DEF c, k
<1>4. /\ m \in Stack /\ m.rx = n.rx /\ m.tx = n.tx /\ m.nextPort = n.nextPort /\ m.queue = n.queue
      /\ m.lost = n.lost /\ m.conn = [n.conn EXCEPT ![k] = c]
  BY <1>1, <1>2, SlotEffect
<1> HIDE DEF m
<1>5. n.conn \in [Conns -> Connection]
  BY DEF Stack
<1>6. m.conn[k] = c /\ \A j \in Conns \ {k} : m.conn[j] = n.conn[j]
  BY <1>1, <1>4, <1>5
<1>7. Opened(m) = Opened(n) /\ \A j \in Opened(n) : m.conn[j] = n.conn[j]
  BY <1>1, <1>2, <1>6, NoConnTyped DEF Opened
<1>8. Joined(m, p)
  BY <1>4, <1>7, Untouched
<1> QED BY <1>3, <1>4, <1>8

LEMMA FinishStep ==
  ASSUME NEW n \in Stack, NEW p \in [Ephemeral -> Peer], Joined(n, p), NEW i \in Conns,
         NEW s, \/ s = "FinWait1" /\ n.conn[i].state \in {"SynReceived", "Established"}
                \/ s = "LastAck" /\ n.conn[i].state = "CloseWait"
  PROVE  /\ Finish(n, i, s) \in Stack /\ Joined(Finish(n, i, s), p)
         /\ Finish(n, i, s).rx = n.rx /\ Finish(n, i, s).queue = n.queue
<1> DEFINE c == [n.conn[i] EXCEPT !.state = s]
           fin == Segment(n.conn[i], {"FIN", "ACK"})
           m == Finish(n, i, s)
           q == n.conn[i].port
<1>1. n.conn \in [Conns -> Connection] /\ n.conn[i] \in Connection /\ q \in Nat
  BY DEF Stack, Connection
<1>2. c \in Connection /\ c.port = q
  BY <1>1 DEF Connection, States
<1>3. [n EXCEPT !.conn[i].state = s] = [n EXCEPT !.conn[i] = c]
  OBVIOUS
<1>4. m = SendPacket([n EXCEPT !.conn[i] = c], fin)
  BY <1>3 DEF Finish
<1>5. fin.port = q /\ fin.host = n.conn[i].host /\ fin.flags = {"FIN", "ACK"}
  BY <1>1, SegmentTyped
<1> HIDE DEF c, fin
<1>6. /\ m \in Stack /\ m.rx = n.rx /\ m.conn = [n.conn EXCEPT ![i] = c]
      /\ m.nextPort = n.nextPort /\ m.queue = n.queue /\ n.lost \subseteq m.lost
      /\ \/ Segs(m.tx) = Segs(n.tx) \cup (IF q # 0 THEN {fin} ELSE {})
         \/ Segs(m.tx) = Segs(n.tx) /\ (q # 0 => q \in m.lost)
  <2>1. {"FIN", "ACK"} \in SUBSET {"SYN", "ACK", "PSH", "FIN"}
    OBVIOUS
  <2> DEFINE x == [n EXCEPT !.conn[i] = c]
  <2>2. /\ x \in Stack /\ x.rx = n.rx /\ x.tx = n.tx /\ x.nextPort = n.nextPort
        /\ x.queue = n.queue /\ x.lost = n.lost /\ x.conn = [n.conn EXCEPT ![i] = c]
    BY <1>2, SlotEffect
  <2>3. PICK r : r = m /\ r = SendPacket(x, Segment(n.conn[i], {"FIN", "ACK"}))
    BY <1>4 DEF fin
  <2> HIDE DEF m, x
  <2>4. Said(x, r, Segment(n.conn[i], {"FIN", "ACK"}), n.conn[i].port)
    BY <1>1, <2>1, <2>2, <2>3, SayEffect
  <2> QED BY <2>2, <2>3, <2>4 DEF fin, Said
<1> HIDE DEF m
<1>7. CASE q = 0
  <2>1. Opened(m) = Opened(n) /\ \A j \in Opened(n) : m.conn[j] = n.conn[j]
    BY <1>1, <1>2, <1>6, <1>7 DEF Opened
  <2>2. Joined(m, p)
    <3>1. Segs(m.tx) = Segs(n.tx) /\ Segs(m.rx) = Segs(n.rx)
      BY <1>6, <1>7
    <3> HIDE DEF q
    <3> QED BY <1>6, <2>1, <3>1, Untouched
  <2> QED BY <1>6, <2>2 DEF m
<1>8. CASE q # 0
  <2>1. i \in Opened(n)
    BY <1>8 DEF Opened
  <2>2. /\ q \in Ephemeral /\ n.conn[i].host = Server
        /\ n.conn[i].state \in {"SynSent"} \cup Beyond
        /\ p[q].heard => n.conn[i].state \in Ended
        /\ n.conn[i].state # "SynSent" => p[q].state # "none"
        /\ n.conn[i].state \in Both => p[q].closed
    BY <1>1, <2>1, ConnFacts
  <2>3. n.conn[i].state \notin Ended /\ n.conn[i].state # "SynSent" /\ s \in Ended /\ s \in Beyond
    BY <2>2 DEF Ended, Beyond, Both
  <2>4. s \in Both => p[q].closed
    BY <2>2 DEF Both
  <2>5. q \notin m.lost => Waits(m, p, q, s)
    <3> SUFFICES ASSUME q \notin m.lost PROVE Waits(m, p, q, s)
      OBVIOUS
    <3>1. Waits(n, p, q, n.conn[i].state)
      BY <1>6, <2>1 DEF Joined, UnderWay
    <3>2. n.conn[i].state \in Both => s \in Both
      BY DEF Both
    <3> QED BY <1>6, <2>2, <2>3, <3>1, <3>2 DEF Waits
  <2>6. Segs(m.tx) = Segs(n.tx) \/ Says(n, m, fin)
    BY <1>6 DEF Says
  <2>7. /\ m.conn[i].port = q /\ m.conn[i].host = n.conn[i].host /\ m.conn[i].state = s
        /\ \A j \in Conns \ {i} : m.conn[j] = n.conn[j]
    <3>1. m.conn[i] = [n.conn[i] EXCEPT !.state = s] /\ \A j \in Conns \ {i} : m.conn[j] = n.conn[j]
      BY <1>1, <1>6 DEF c
    <3> QED BY <1>1, <3>1 DEF Connection
  <2>8. fin.host = Server /\ ~ IsSyn(fin) /\ n.conn[i].state \notin Ended
    BY <1>5, <2>2, <2>3 DEF IsSyn
  <2> HIDE DEF q
  <2>9. Joined(m, p)
    <3>1. Moves(n, m, p, i, q, s, fin)
      BY <1>1, <1>5, <1>6, <2>1, <2>2, <2>3, <2>4, <2>5, <2>6, <2>7, <2>8 DEF q, Moves
    <3> QED BY <1>6, <3>1, ConnStep
  <2> QED BY <1>6, <2>9 DEF m
<1> QED BY <1>7, <1>8

LEMMA CloseStep ==
  ASSUME NEW n \in Stack, NEW p \in [Ephemeral -> Peer], Joined(n, p), NEW i \in Conns
  PROVE  /\ Close(n, i) \in Stack /\ Joined(Close(n, i), p)
         /\ Close(n, i).rx = n.rx /\ Close(n, i).queue = n.queue
<1>1. CASE n.conn[i].state \in {"Listen", "SynSent"}
  <2> DEFINE m == [n EXCEPT !.conn[i] = NoConn]
  <2>1. /\ m \in Stack /\ m.rx = n.rx /\ m.tx = n.tx /\ m.nextPort = n.nextPort
        /\ m.queue = n.queue /\ m.lost = n.lost /\ m.conn = [n.conn EXCEPT ![i] = NoConn]
    BY SlotEffect, NoConnTyped
  <2>2. Close(n, i) = m
    BY <1>1 DEF Close
  <2> HIDE DEF m
  <2>3. n.conn[i].port # 0 => n.conn[i].state = "SynSent"
    BY <1>1 DEF Joined, Ports, Opened, Beyond, Both, Ended
  <2>4. Joined(m, p)
    BY <2>1, <2>3, GiveUp
  <2> QED BY <2>1, <2>2, <2>4
<1>2. CASE n.conn[i].state \in {"SynReceived", "Established"}
  <2>1. Close(n, i) = Finish(n, i, "FinWait1")
    BY <1>2 DEF Close
  <2> QED BY <1>2, <2>1, FinishStep
<1>3. CASE n.conn[i].state = "CloseWait"
  <2>1. Close(n, i) = Finish(n, i, "LastAck")
    BY <1>3 DEF Close
  <2> QED BY <1>3, <2>1, FinishStep
<1>4. CASE n.conn[i].state \notin {"Listen", "SynSent", "SynReceived", "Established", "CloseWait"}
  BY <1>4 DEF Close
<1> QED BY <1>1, <1>2, <1>3, <1>4

LEMMA SendDataStep ==
  ASSUME NEW n \in Stack, NEW p \in [Ephemeral -> Peer], Joined(n, p), NEW i \in Conns,
         n.conn[i].state = "Established"
  PROVE  /\ SendData(n, i) \in Stack /\ Joined(SendData(n, i), p)
         /\ SendData(n, i).rx = n.rx /\ SendData(n, i).queue = n.queue
<1> DEFINE c == n.conn[i]
           f == Segment(c, {"PSH", "ACK"})
<1>1. PICK m : m = SendData(n, i)
  OBVIOUS
<1>2. n.conn \in [Conns -> Connection] /\ c \in Connection /\ c.port \in Nat
  BY DEF Stack, Connection
<1>3. {"PSH", "ACK"} \in SUBSET {"SYN", "ACK", "PSH", "FIN"}
  OBVIOUS
<1>4. m = SendPacket(n, Segment(c, {"PSH", "ACK"}))
  BY <1>1 DEF SendData
<1>5. f.port = c.port /\ f.host = c.host /\ f.flags = {"PSH", "ACK"}
  BY <1>2, <1>3, SegmentTyped
<1> HIDE DEF c
<1>6. /\ m \in Stack
      /\ m.rx = n.rx /\ m.conn = n.conn /\ m.nextPort = n.nextPort /\ m.queue = n.queue
      /\ n.lost \subseteq m.lost
      /\ \/ Segs(m.tx) = Segs(n.tx) \cup (IF c.port # 0 THEN {f} ELSE {})
         \/ Segs(m.tx) = Segs(n.tx) /\ (c.port # 0 => c.port \in m.lost)
  <2>1. Said(n, m, Segment(c, {"PSH", "ACK"}), c.port)
    BY <1>2, <1>3, <1>4, SayEffect
  <2> QED BY <2>1 DEF Said
<1> HIDE DEF f
<1>7. CASE c.port = 0 \/ Segs(m.tx) = Segs(n.tx)
  <2>1. Segs(m.tx) = Segs(n.tx) /\ Segs(m.rx) = Segs(n.rx)
    BY <1>6, <1>7
  <2>2. Opened(m) = Opened(n) /\ \A j \in Opened(n) : m.conn[j] = n.conn[j]
    BY <1>6 DEF Opened
  <2>3. Joined(m, p)
    BY <1>6, <2>1, <2>2, Untouched
  <2> QED BY <1>1, <1>6, <2>3
<1>8. CASE c.port # 0 /\ Segs(m.tx) = Segs(n.tx) \cup {f}
  <2>1. i \in Opened(n)
    BY <1>8 DEF Opened, c
  <2>2. n.conn[i].host = Server /\ p[c.port].state # "none" /\ c.port \in Ephemeral
    BY <1>2, <2>1, ConnFacts DEF c
  <2>3. "Established" \in Beyond /\ "Established" \notin Ended /\ "Established" \notin Both
    BY DEF Beyond, Ended, Both
  <2>4. c.port \notin m.lost => Waits(m, p, c.port, "Established")
    <3> SUFFICES ASSUME c.port \notin m.lost PROVE Waits(m, p, c.port, "Established")
      OBVIOUS
    <3>1. Waits(n, p, c.port, "Established")
      BY <1>6, <2>1 DEF Joined, UnderWay, c
    <3> QED BY <1>6, <3>1 DEF Waits
  <2>5. /\ m.conn[i].port = c.port /\ m.conn[i].host = n.conn[i].host
        /\ m.conn[i].state = "Established" /\ \A j \in Conns \ {i} : m.conn[j] = n.conn[j]
    BY <1>6 DEF c
  <2>6. f.port = c.port /\ f.host = Server /\ ~ IsSyn(f) /\ "FIN" \notin f.flags
    BY <1>5, <2>2 DEF c, IsSyn
  <2>7. c.port = n.conn[i].port
    BY DEF c
  <2>8. PICK q \in Nat, s \in Beyond : q = c.port /\ s = "Established"
    BY <1>2, <2>3
  <2>9. \A g \in Segs(n.rx) \ Segs(m.rx) : g.port = q
    BY <1>6
  <2>10. Segs(m.rx) \subseteq Segs(n.rx)
    BY <1>6
  <2>11. n.conn[i].state \in Ended => s \in Ended
    BY <2>3, <2>8
  <2>12. /\ q = n.conn[i].port /\ p[q].state # "none" /\ (s \in Both => p[q].closed)
         /\ q \notin m.lost => Waits(m, p, q, s)
         /\ m.conn[i].port = q /\ m.conn[i].host = n.conn[i].host /\ m.conn[i].state = s
         /\ \A j \in Conns \ {i} : m.conn[j] = n.conn[j]
         /\ f.port = q /\ f.host = Server /\ ~ IsSyn(f) /\ ("FIN" \in f.flags => s \in Ended)
    BY <2>2, <2>3, <2>4, <2>5, <2>6, <2>7, <2>8
  <2>13. /\ s = "SynSent" => n.conn[i].state = "SynSent" /\ Segs(m.tx) = Segs(n.tx)
         /\ Segs(m.tx) = Segs(n.tx) \/ Says(n, m, f)
    BY <1>8, <2>8 DEF Says
  <2>14. Joined(m, p)
    <3>1. Moves(n, m, p, i, q, s, f)
      BY <1>6, <2>1, <2>8, <2>9, <2>10, <2>11, <2>12, <2>13 DEF Moves
    <3> QED BY <1>6, <3>1, ConnStep
  <2> QED BY <1>1, <1>6, <2>14
<1> QED BY <1>6, <1>7, <1>8

\* What ping, udp, ARP and the echo send is no segment.
LEMMA PlainStep ==
  ASSUME NEW n \in Stack, NEW p \in [Ephemeral -> Peer], Joined(n, p),
         NEW h \in Addresses, NEW kind \in Kinds,
         NEW m, m \in {SendPacket(n, Plain(kind, h)), Transmit(n, Plain(kind, h))}
  PROVE  m \in Stack /\ Joined(m, p) /\ m.rx = n.rx /\ m.queue = n.queue
<1>1. PICK f \in Frame : f = Plain(kind, h) /\ ~ IsSegment(f)
  BY FrameTyped
<1>2. m = SendPacket(n, f) \/ m = Transmit(n, f)
  BY <1>1
<1>3. /\ m \in Stack
      /\ m.rx = n.rx /\ m.conn = n.conn /\ m.nextPort = n.nextPort /\ m.queue = n.queue
      /\ n.lost \subseteq m.lost /\ Segs(m.tx) = Segs(n.tx)
  <2>1. CASE m = SendPacket(n, f)
    <3>1. Sent(n, m, f)
      BY <2>1, SendEffect
    <3> QED BY <1>1, <3>1 DEF Sent
  <2>2. CASE m = Transmit(n, f)
    <3>1. Sent(n, m, f)
      BY <2>2, TransmitEffect
    <3> QED BY <1>1, <3>1 DEF Sent
  <2> QED BY <1>2, <2>1, <2>2
<1>4. Opened(m) = Opened(n) /\ \A j \in Opened(n) : m.conn[j] = n.conn[j]
  BY <1>3 DEF Opened
<1>5. Joined(m, p)
  BY <1>3, <1>4, Untouched
<1> QED BY <1>3, <1>5

-----------------------------------------------------------------------------
(* A segment that arrived *)

\* processSegment: what the next state may be.
LEMMA ProcessFacts ==
  ASSUME NEW s \in {"SynSent"} \cup Beyond, NEW flags, "ACK" \in flags
  PROVE  LET r == Process(s, flags)
         IN  /\ r[2] \in Replies /\ "SYN" \notin r[2]
             /\ r[1] \in {"SynSent"} \cup Beyond
             /\ r[1] = "SynSent" => s = "SynSent" /\ "SYN" \notin flags /\ r[2] = {}
             /\ s \in Ended => r[1] \in Ended
             /\ r[1] \in Both => s \in Both \/ "FIN" \in flags
             /\ s \in Beyond /\ "FIN" \in flags => r[1] \in Both
             /\ s \in Both => r[1] \in Both
             /\ r[1] # "LastAck"
<1> USE DEF Beyond, Both, Ended, Replies
<1>1. CASE s = "SynSent"
  BY <1>1 DEF Process
<1>2. CASE s = "Established"
  BY <1>2 DEF Process
<1>3. CASE s = "FinWait1"
  BY <1>3 DEF Process, FinWait1
<1>4. CASE s = "FinWait2"
  BY <1>4 DEF Process
<1>5. CASE s = "LastAck"
  BY <1>5 DEF Process
<1>6. CASE s \in {"CloseWait", "TimeWait", "Closed"}
  BY <1>6 DEF Process
<1> QED BY <1>1, <1>2, <1>3, <1>4, <1>5, <1>6

LEMMA ProcessTyped ==
  ASSUME NEW s \in States, NEW flags
  PROVE  Process(s, flags)[1] \in States /\ Process(s, flags)[2] \in Replies
<1> USE DEF Replies
<1>1. CASE s = "FinWait1"
  BY <1>1 DEF Process, FinWait1, States
<1>2. CASE s # "FinWait1"
  BY <1>2 DEF Process, States
<1> QED BY <1>1, <1>2

\* The frame at the head of the ring is taken.
Takes(n, m, f) == n.rx # <<>> /\ f = Head(n.rx) /\ m = [n EXCEPT !.rx = Tail(n.rx)]

LEMMA TakeEffect ==
  ASSUME NEW n \in Stack, NEW m, NEW f, Takes(n, m, f)
  PROVE  /\ m \in Stack /\ m.rx = Tail(n.rx) /\ m.tx = n.tx /\ m.conn = n.conn
         /\ m.nextPort = n.nextPort /\ m.queue = n.queue /\ m.lost = n.lost
         /\ f \in Frame
         /\ Segs(n.rx) = Segs(m.rx) \cup (IF IsSegment(f) THEN {f} ELSE {})
<1> USE DEF Takes
<1>1. n.rx \in Seq(Frame)
  BY DEF Stack
<1>2. /\ Tail(n.rx) \in Seq(Frame) /\ Head(n.rx) \in Frame
      /\ Segs(n.rx) = Segs(Tail(n.rx)) \cup (IF IsSegment(Head(n.rx)) THEN {Head(n.rx)} ELSE {})
  BY <1>1, SegsOfTail
<1>3. m \in Stack /\ m.rx = Tail(n.rx) /\ m.tx = n.tx /\ m.conn = n.conn
      /\ m.nextPort = n.nextPort /\ m.queue = n.queue /\ m.lost = n.lost
  BY <1>2 DEF Stack
<1> QED BY <1>2, <1>3

\* The state changes and the answer goes out, if there is one.
LEMMA StepToEffect ==
  ASSUME NEW n \in Stack, NEW i \in Conns, NEW c \in Connection, NEW s \in States,
         NEW flags \in Replies,
         NEW r, r = <<s, flags>>, NEW m, m = StepTo(n, i, c, r), NEW g, g = Segment(c, flags)
  PROVE  /\ m \in Stack
         /\ m.rx = n.rx /\ m.nextPort = n.nextPort /\ m.queue = n.queue /\ n.lost \subseteq m.lost
         /\ m.conn[i].port = c.port /\ m.conn[i].host = c.host /\ m.conn[i].state = s
         /\ \A j \in Conns \ {i} : m.conn[j] = n.conn[j]
         /\ \/ Segs(m.tx) = Segs(n.tx)
            \/ c.port # 0 /\ flags # {} /\ Says(n, m, g)
<1> DEFINE x == [n EXCEPT !.conn[i] = [c EXCEPT !.state = s]]
<1>1. [c EXCEPT !.state = s] \in Connection
  BY DEF Connection
<1>2. /\ x \in Stack /\ x.rx = n.rx /\ x.tx = n.tx /\ x.nextPort = n.nextPort
      /\ x.queue = n.queue /\ x.lost = n.lost
      /\ x.conn = [n.conn EXCEPT ![i] = [c EXCEPT !.state = s]]
  BY <1>1, SlotEffect
<1>3. /\ x.conn[i].port = c.port /\ x.conn[i].host = c.host /\ x.conn[i].state = s
      /\ \A j \in Conns \ {i} : x.conn[j] = n.conn[j]
  <2>1. n.conn \in [Conns -> Connection]
    BY DEF Stack
  <2>2. x.conn[i] = [c EXCEPT !.state = s] /\ \A j \in Conns \ {i} : x.conn[j] = n.conn[j]
    BY <1>2, <2>1
  <2> QED BY <2>2 DEF Connection
<1>4. m = IF flags = {} THEN x ELSE SendPacket(x, Segment(c, flags))
  BY DEF StepTo, Answered
<1> HIDE DEF x
<1>5. CASE flags = {}
  BY <1>2, <1>4, <1>5, <1>3
<1>6. CASE flags # {}
  <2>1. m = SendPacket(x, Segment(c, flags)) /\ flags \in SUBSET {"SYN", "ACK", "PSH", "FIN"}
    BY <1>4, <1>6 DEF Replies
  <2>2. Said(x, m, Segment(c, flags), c.port)
    BY <1>2, <2>1, SayEffect
  <2> QED BY <1>2, <1>6, <1>3, <2>2 DEF Says, Said
<1> QED BY <1>5, <1>6

\* The step of x, which is n without the frame at the head, with connection c in slot i.
Steps(n, x, i, c, s, flags, r, m) ==
    /\ i \in Conns /\ c \in Connection /\ s \in States /\ flags \in Replies /\ r = <<s, flags>>
    /\ x.conn = n.conn /\ x.nextPort = n.nextPort /\ x.lost = n.lost /\ x.tx = n.tx
    /\ m = StepTo(x, i, c, r)
Foreign(n, x, i, c, s, flags, r, m) ==
    /\ Steps(n, x, i, c, s, flags, r, m)
    /\ c.port = 0 /\ n.conn[i].port = 0 /\ Segs(x.rx) = Segs(n.rx)
Own(n, x, i, c, s, flags, r, m, f) ==
    /\ Steps(n, x, i, c, s, flags, r, m)
    /\ i \in Opened(n) /\ c = n.conn[i] /\ r = Process(c.state, f.flags)
    /\ f \in Segs(n.rx) /\ f.port = c.port /\ Segs(n.rx) = Segs(x.rx) \cup {f}

\* A segment of nobody's, or of a connection that somebody else opened.
LEMMA ReceiveForeign ==
  ASSUME NEW n \in Stack, NEW x \in Stack, NEW p \in [Ephemeral -> Peer], Joined(n, p),
         NEW i, NEW c, NEW s, NEW flags, NEW r, NEW m, Foreign(n, x, i, c, s, flags, r, m)
  PROVE  m \in Stack /\ Joined(m, p) /\ m.rx = x.rx /\ m.queue = x.queue
<1> USE DEF Foreign, Steps
<1>1. PICK g : g = Segment(c, flags)
  OBVIOUS
<1>2. /\ m \in Stack
      /\ m.rx = x.rx /\ m.nextPort = x.nextPort /\ m.queue = x.queue /\ x.lost \subseteq m.lost
      /\ m.conn[i].port = c.port /\ m.conn[i].host = c.host /\ m.conn[i].state = s
      /\ \A j \in Conns \ {i} : m.conn[j] = x.conn[j]
      /\ \/ Segs(m.tx) = Segs(x.tx)
         \/ c.port # 0 /\ flags # {} /\ Says(x, m, g)
  BY <1>1, StepToEffect
<1>3. Segs(m.tx) = Segs(n.tx) /\ Segs(m.rx) = Segs(n.rx) /\ n.lost \subseteq m.lost
      /\ m.nextPort = n.nextPort
  BY <1>2
<1>4. Opened(m) = Opened(n) /\ \A j \in Opened(n) : m.conn[j] = n.conn[j]
  BY <1>2 DEF Opened
<1>5. Joined(m, p)
  BY <1>2, <1>3, <1>4, Untouched
<1> QED BY <1>2, <1>5

\* A segment of a connection that was opened here: processSegment.
LEMMA ReceiveOwn ==
  ASSUME NEW n \in Stack, NEW x \in Stack, NEW p \in [Ephemeral -> Peer], Joined(n, p),
         NEW i, NEW c, NEW s, NEW flags, NEW r, NEW m, NEW f, Own(n, x, i, c, s, flags, r, m, f)
  PROVE  m \in Stack /\ Joined(m, p) /\ m.rx = x.rx /\ m.queue = x.queue
<1> USE DEF Own, Steps
<1>1. PICK q \in Nat : q = c.port
  BY DEF Connection
<1>2. q = n.conn[i].port /\ f.port = q
  BY <1>1
<1>3. /\ c.host = Server /\ c.state \in {"SynSent"} \cup Beyond
      /\ p[q].closed => c.state \in Beyond
      /\ c.state \in Both => p[q].closed
      /\ i \in Conns
  BY <1>1, <1>2, ConnFacts DEF Opened
<1>4. /\ f.host = Server /\ "ACK" \in f.flags
      /\ p[q].state # "none" /\ ("FIN" \in f.flags => p[q].closed)
  BY <1>2 DEF Joined, Arriving
<1>5. r[1] = s /\ r[2] = flags
  OBVIOUS
<1>6. /\ flags \in Replies /\ "SYN" \notin flags
      /\ s \in {"SynSent"} \cup Beyond
      /\ s = "SynSent" => c.state = "SynSent" /\ "SYN" \notin f.flags /\ flags = {}
      /\ c.state \in Ended => s \in Ended
      /\ s \in Both => c.state \in Both \/ "FIN" \in f.flags
      /\ c.state \in Beyond /\ "FIN" \in f.flags => s \in Both
      /\ c.state \in Both => s \in Both
      /\ s # "LastAck"
  <2>1. /\ r[2] \in Replies /\ "SYN" \notin r[2]
        /\ r[1] \in {"SynSent"} \cup Beyond
        /\ r[1] = "SynSent" => c.state = "SynSent" /\ "SYN" \notin f.flags /\ r[2] = {}
        /\ c.state \in Ended => r[1] \in Ended
        /\ r[1] \in Both => c.state \in Both \/ "FIN" \in f.flags
        /\ c.state \in Beyond /\ "FIN" \in f.flags => r[1] \in Both
        /\ c.state \in Both => r[1] \in Both
        /\ r[1] # "LastAck"
    <3>1. c.state \in {"SynSent"} \cup Beyond /\ "ACK" \in f.flags
      BY <1>3, <1>4
    <3>2. PICK z \in {"SynSent"} \cup Beyond : z = c.state
      BY <3>1
    <3>3. PICK e : z = c.state /\ e = f.flags /\ "ACK" \in e
      BY <3>1, <3>2
    <3>4. /\ Process(z, e)[2] \in Replies /\ "SYN" \notin Process(z, e)[2]
          /\ Process(z, e)[1] \in {"SynSent"} \cup Beyond
          /\ Process(z, e)[1] = "SynSent" => z = "SynSent" /\ "SYN" \notin e /\ Process(z, e)[2] = {}
          /\ z \in Ended => Process(z, e)[1] \in Ended
          /\ Process(z, e)[1] \in Both => z \in Both \/ "FIN" \in e
          /\ z \in Beyond /\ "FIN" \in e => Process(z, e)[1] \in Both
          /\ z \in Both => Process(z, e)[1] \in Both
          /\ Process(z, e)[1] # "LastAck"
      BY <3>3, ProcessFacts, ZenonT(60)
    <3> QED BY <3>3, <3>4
  <2> QED BY <1>5, <2>1
<1>7. PICK g : g = Segment(c, flags)
  OBVIOUS
<1>8. c \in Connection /\ s \in States /\ flags \in Replies /\ r = <<s, flags>> /\ m = StepTo(x, i, c, r)
  OBVIOUS
<1> HIDE DEF Own, Steps
<1>9. /\ m \in Stack
      /\ m.rx = x.rx /\ m.nextPort = x.nextPort /\ m.queue = x.queue /\ x.lost \subseteq m.lost
      /\ m.conn[i].port = c.port /\ m.conn[i].host = c.host /\ m.conn[i].state = s
      /\ \A j \in Conns \ {i} : m.conn[j] = x.conn[j]
      /\ \/ Segs(m.tx) = Segs(x.tx)
         \/ c.port # 0 /\ flags # {} /\ Says(x, m, g)
  BY <1>3, <1>7, <1>8, StepToEffect
<1> USE DEF Own, Steps
<1>10. PICK h : h = Segment(c, {"ACK"})
  OBVIOUS
<1>11. h.port = q /\ h.host = Server /\ ~ IsSyn(h) /\ "FIN" \notin h.flags
  BY <1>1, <1>3, <1>10 DEF Segment, IsSyn
<1>12. flags # {} => g = h
  <2>1. flags # {} => flags = {"ACK"}
    BY <1>6 DEF Replies
  <2> QED BY <1>7, <1>10, <2>1
<1>13. /\ Segs(m.tx) = Segs(n.tx) \/ Says(n, m, h)
       /\ s = "SynSent" => n.conn[i].state = "SynSent" /\ Segs(m.tx) = Segs(n.tx)
  BY <1>6, <1>9, <1>12 DEF Says
<1>14. /\ Segs(m.rx) \subseteq Segs(n.rx) /\ \A k \in Segs(n.rx) \ Segs(m.rx) : k = f
       /\ \A k \in Segs(n.rx) \ Segs(m.rx) : k.port = q
       /\ m.nextPort = n.nextPort /\ n.lost \subseteq m.lost
  BY <1>9, <1>2
<1>15. /\ m.conn[i].port = q /\ m.conn[i].host = n.conn[i].host /\ m.conn[i].state = s
       /\ \A j \in Conns \ {i} : m.conn[j] = n.conn[j]
       /\ n.conn[i].state \in Ended => s \in Ended
       /\ s \in Both => p[q].closed
  BY <1>3, <1>4, <1>6, <1>9, <1>1, <1>2, SMTT(30)
<1>16. q \notin m.lost => Waits(m, p, q, s)
  <2> SUFFICES ASSUME q \notin m.lost PROVE Waits(m, p, q, s)
    OBVIOUS
  <2>1. Waits(n, p, q, c.state)
    BY <1>14, <1>2 DEF Joined, UnderWay
  <2>2. "SynSent" \notin Beyond
    BY DEF Beyond, Both, Ended
  <2>3. s = "SynSent" => \/ \E k \in Segs(m.tx) : k.port = q /\ k.flags = {"SYN"}
                         \/ \E k \in Segs(m.rx) : k.port = q /\ "SYN" \in k.flags
    BY <1>6, <1>13, <1>14, <2>1 DEF Waits
  <2>4. p[q].closed => s \in Both \/ \E k \in Segs(m.rx) : k.port = q /\ "FIN" \in k.flags
    BY <1>3, <1>6, <1>14, <2>1 DEF Waits
  <2> QED BY <1>6, <2>3, <2>4 DEF Waits
<1>17. "FIN" \in h.flags => s \in Ended
  BY <1>11
<1>18. q = n.conn[i].port /\ s \in {"SynSent"} \cup Beyond
  BY <1>6, <1>2
<1>19. Joined(m, p)
  <2>1. Moves(n, m, p, i, q, s, h)
    BY <1>4, <1>9, <1>11, <1>13, <1>14, <1>15, <1>16, <1>17, <1>18 DEF Moves
  <2> QED BY <1>9, <2>1, ConnStep
<1> QED BY <1>9, <1>19

LEMMA ReceiveStep ==
  ASSUME NEW n \in Stack, NEW p \in [Ephemeral -> Peer], Joined(n, p),
         NEW f, NEW x, Takes(n, x, f), f.kind = "tcp",
         NEW m, m = ReceiveSegment(x, f)
  PROVE  m \in Stack /\ Joined(m, p) /\ m.rx = x.rx /\ m.queue = x.queue
<1>1. /\ x \in Stack /\ x.rx = Tail(n.rx) /\ x.tx = n.tx /\ x.conn = n.conn
      /\ x.nextPort = n.nextPort /\ x.queue = n.queue /\ x.lost = n.lost /\ f \in Frame
      /\ Segs(n.rx) = Segs(x.rx) \cup (IF IsSegment(f) THEN {f} ELSE {})
  BY TakeEffect
<1>2. IsSegment(f) <=> f.port # 0
  BY DEF IsSegment
<1>3. Opened(x) = Opened(n)
  BY <1>1 DEF Opened
<1>4. IsSegment(f) => f \in Segs(n.rx) /\ f.host = Server
  BY <1>1 DEF Joined, Arriving
<1>5. \A i \in Opened(n) : n.conn[i].host = Server /\ n.conn[i].state \notin {"Listen", "free"}
  BY DEF Joined, Ports, Beyond, Both, Ended
<1>6. ConnOf(x, f) \subseteq Conns /\ \A i \in ConnOf(x, f) : x.conn[i].port = f.port
  BY DEF ConnOf, Matching, Listening
<1>7. ConnOf(x, f) = {} \/ f.port = 0 => Joined(x, p)
  <2> SUFFICES ASSUME ConnOf(x, f) = {} \/ f.port = 0 PROVE Joined(x, p)
    OBVIOUS
  <2>1. \A g \in Segs(n.rx) \ Segs(x.rx), i \in Opened(n) : n.conn[i].port # g.port
    <3> SUFFICES ASSUME IsSegment(f), NEW i \in Opened(n), n.conn[i].port = f.port PROVE FALSE
      BY <1>1
    <3>1. i \in Matching(x, f)
      BY <1>1, <1>4, <1>5 DEF Matching, Opened
    <3> QED BY <1>2, <3>1 DEF ConnOf
  <2> QED BY <1>1, <1>3, <2>1, Untouched
<1>8. CASE ConnOf(x, f) = {}
  <2>1. m = x
    BY <1>8 DEF ReceiveSegment
  <2> QED BY <1>1, <1>7, <1>8, <2>1
<1>9. CASE ConnOf(x, f) # {}
  <2>1. PICK i \in ConnOf(x, f) : i = Min(ConnOf(x, f))
    <3>1. Conns \subseteq Nat
      BY DEF Conns
    <3>2. PICK T \in SUBSET Nat : T = ConnOf(x, f)
      BY <1>6, <3>1
    <3> QED BY <1>9, <3>2, LeastOf
  <2>2. i \in Conns /\ n.conn[i].port = f.port /\ n.conn \in [Conns -> Connection]
    BY <1>1, <1>6, <2>1 DEF Stack
  <2>3. PICK c \in Connection : c = n.conn[i]
    BY <2>2
  <2>4. c.port \in Nat /\ c.state \in States /\ c.port = f.port
    BY <2>2, <2>3 DEF Connection
  <2>5. PICK s \in States, flags \in Replies : Process(c.state, f.flags) = <<s, flags>>
    <3>1. Process(c.state, f.flags) = <<Process(c.state, f.flags)[1], Process(c.state, f.flags)[2]>>
      BY DEF Process, FinWait1
    <3>2. Process(c.state, f.flags)[1] \in States /\ Process(c.state, f.flags)[2] \in Replies
      BY <2>4, ProcessTyped
    <3> QED BY <3>1, <3>2
  <2>6. PICK r : r = Process(c.state, f.flags) /\ r = <<s, flags>>
    BY <2>5
  <2>7. PICK b \in Connection : b = [c EXCEPT !.host = Bogus] /\ b.port = c.port
    <3>1. [c EXCEPT !.host = Bogus] \in Connection /\ [c EXCEPT !.host = Bogus].port = c.port
      BY <2>3 DEF Connection, Addresses
    <3> QED BY <3>1
  <2>8. m = IF c.state = "Listen" /\ "SYN" \notin f.flags THEN x
            ELSE StepTo(x, i, IF c.state = "Listen" THEN b ELSE c, r)
    <3>1. m = IF x.conn[Min(ConnOf(x, f))].state = "Listen" /\ "SYN" \notin f.flags THEN x
              ELSE StepTo(x, Min(ConnOf(x, f)),
                          IF x.conn[Min(ConnOf(x, f))].state = "Listen"
                          THEN [x.conn[Min(ConnOf(x, f))] EXCEPT !.host = Bogus]
                          ELSE x.conn[Min(ConnOf(x, f))],
                          Process(x.conn[Min(ConnOf(x, f))].state, f.flags))
      BY <1>9, Zenon DEF ReceiveSegment
    <3>2. x.conn[Min(ConnOf(x, f))] = c /\ i = Min(ConnOf(x, f))
      BY <1>1, <2>1, <2>3
    <3> QED BY <2>6, <2>7, <3>1, <3>2, Zenon
  <2>9. m = x \/ m = StepTo(x, i, b, r) \/ (c.state # "Listen" /\ m = StepTo(x, i, c, r))
    BY <2>8, Zenon
  <2>10. f.port # 0 => i \in Opened(n) /\ c.state # "Listen"
    BY <1>5, <2>2, <2>3 DEF Opened
  <2>11. CASE f.port = 0
    <3>1. Segs(x.rx) = Segs(n.rx)
      BY <1>1, <1>2, <2>11
    <3>2. ASSUME NEW d \in {b, c}, m = StepTo(x, i, d, r)
          PROVE  m \in Stack /\ Joined(m, p) /\ m.rx = x.rx /\ m.queue = x.queue
      <4>1. d \in Connection /\ d.port = 0 /\ n.conn[i].port = 0
        BY <2>2, <2>3, <2>4, <2>7, <2>11
      <4>2. x.conn = n.conn /\ x.nextPort = n.nextPort /\ x.lost = n.lost /\ x.tx = n.tx
        BY <1>1
      <4>3. r = <<s, flags>> /\ x \in Stack
        BY <1>1, <2>6
      <4>4. m \in Stack /\ Joined(m, p) /\ m.rx = x.rx /\ m.queue = x.queue
        <5>1. Foreign(n, x, i, d, s, flags, r, m)
          BY <2>2, <3>1, <3>2, <4>1, <4>2, <4>3 DEF Foreign, Steps
        <5> QED BY <4>3, <5>1, ReceiveForeign
      <4> QED BY <4>4
    <3>3. CASE m = x
      BY <1>1, <1>7, <2>11, <3>3
    <3> QED BY <2>9, <3>2, <3>3
  <2>12. CASE f.port # 0
    <3>1. m = StepTo(x, i, c, r)
      <4>1. c.state # "Listen"
        BY <2>10, <2>12
      <4> QED BY <2>8, <4>1, Zenon
    <3>2. PICK q \in Nat : q = c.port /\ f.port = q
      BY <2>4
    <3>3. f \in Segs(n.rx) /\ Segs(n.rx) = Segs(x.rx) \cup {f} /\ i \in Opened(n)
      BY <1>1, <1>2, <1>4, <2>10, <2>12
    <3>4. x.conn = n.conn /\ x.nextPort = n.nextPort /\ x.lost = n.lost /\ x.tx = n.tx
      BY <1>1
    <3>5. r = <<s, flags>> /\ r = Process(c.state, f.flags) /\ x \in Stack /\ c = n.conn[i]
      BY <1>1, <2>3, <2>6
    <3>6. m \in Stack /\ Joined(m, p) /\ m.rx = x.rx /\ m.queue = x.queue
      <4>1. Own(n, x, i, c, s, flags, r, m, f)
        BY <2>2, <3>1, <3>2, <3>3, <3>4, <3>5 DEF Own, Steps
      <4> QED BY <3>5, <4>1, ReceiveOwn
    <3> QED BY <3>6
  <2> QED BY <2>11, <2>12
<1> QED BY <1>8, <1>9

-----------------------------------------------------------------------------
(* The driver's poll: what becomes of the frame at the head of the ring *)

\* The cache, the queues and the bound ports are of no concern to connections.
LEMMA SameWire ==
  ASSUME NEW n \in Stack, NEW m \in Stack, NEW p \in [Ephemeral -> Peer], Joined(n, p),
         m.conn = n.conn, m.nextPort = n.nextPort, m.lost = n.lost, m.tx = n.tx,
         Segs(m.rx) = Segs(n.rx)
  PROVE  Joined(m, p)
<1>1. Opened(m) = Opened(n) /\ \A j \in Opened(n) : m.conn[j] = n.conn[j]
  BY DEF Opened
<1>2. Segs(m.tx) = Segs(n.tx) /\ n.lost \subseteq m.lost
  OBVIOUS
<1> QED BY <1>1, <1>2, Untouched

\* A frame that is no segment: ARP, ping, a datagram.
Queued(n, f) == [n.queue EXCEPT ![Port] = Append(n.queue[Port], f.port)]
PollsPlain(n, x, f, m) ==
    Takes(n, x, f) /\ f.kind # "tcp" /\ m = ReceiveFrame(x, f, Port)
LEMMA PollPlain ==
  ASSUME NEW n \in Stack, NEW p \in [Ephemeral -> Peer], Joined(n, p),
         NEW x, NEW f, NEW m, PollsPlain(n, x, f, m)
  PROVE  /\ m \in Stack /\ Joined(m, p) /\ m.rx = Tail(n.rx)
         /\ \/ f.kind # "udp" /\ m.queue = n.queue
            \/ f.kind = "udp" /\ m.queue = n.queue
            \/ f.kind = "udp" /\ m.queue = Queued(n, f)
<1>1. /\ x \in Stack /\ x.rx = Tail(n.rx) /\ x.tx = n.tx /\ x.conn = n.conn
      /\ x.nextPort = n.nextPort /\ x.queue = n.queue /\ x.lost = n.lost /\ f \in Frame
      /\ Segs(n.rx) = Segs(x.rx) \cup (IF IsSegment(f) THEN {f} ELSE {})
  BY TakeEffect DEF PollsPlain
<1>2. f.kind # "tcp" /\ m = ReceiveFrame(x, f, Port)
  BY DEF PollsPlain
<1>3. f.host \in Addresses /\ f.port \in Nat
      /\ f.kind \in {"request", "reply", "echo", "answer", "udp"}
  BY <1>1, <1>2 DEF Frame, Kinds
<1>4. Joined(x, p)
  <2>1. Segs(x.rx) = Segs(n.rx)
    BY <1>1, <1>2 DEF IsSegment
  <2> QED BY <1>1, <2>1, SameWire
<1>5. PICK y : y = UpdateARPCache(x, f.host)
  OBVIOUS
<1>6. y \in Stack /\ Joined(y, p) /\ y.rx = x.rx /\ y.queue = x.queue
  <2>1. /\ UpdateARPCache(x, f.host) \in Stack
        /\ UpdateARPCache(x, f.host).rx = x.rx /\ UpdateARPCache(x, f.host).tx = x.tx
        /\ UpdateARPCache(x, f.host).conn = x.conn
        /\ UpdateARPCache(x, f.host).nextPort = x.nextPort
        /\ UpdateARPCache(x, f.host).queue = x.queue /\ UpdateARPCache(x, f.host).lost = x.lost
    BY <1>1, <1>3, CacheEffect
  <2>2. y.rx = x.rx /\ y.tx = x.tx /\ y.conn = x.conn /\ y.nextPort = x.nextPort
        /\ y.queue = x.queue /\ y.lost = x.lost /\ y \in Stack
    BY <1>5, <2>1
  <2>3. Segs(y.rx) = Segs(x.rx)
    BY <2>2
  <2> QED BY <1>1, <1>4, <2>2, <2>3, SameWire
<1>7. "reply" \in Kinds /\ "answer" \in Kinds
  BY DEF Kinds
<1>8. CASE f.kind = "request"
  <2>1. m = Transmit(y, Plain("reply", f.host))
    BY <1>2, <1>5, <1>8 DEF ReceiveFrame, HandleARP, SendARPReply
  <2>2. m \in {SendPacket(y, Plain("reply", f.host)), Transmit(y, Plain("reply", f.host))}
    BY <2>1
  <2>3. m \in Stack /\ Joined(m, p) /\ m.rx = y.rx /\ m.queue = y.queue
    BY <1>3, <1>6, <1>7, <2>2, PlainStep
  <2> QED BY <1>1, <1>6, <1>8, <2>3
<1>9. CASE f.kind = "reply"
  <2>1. m = y
    BY <1>2, <1>5, <1>9 DEF ReceiveFrame, HandleARP
  <2> QED BY <1>1, <1>6, <1>9, <2>1
<1>10. CASE f.kind = "echo"
  <2>1. m = SendPacket(x, Plain("answer", f.host))
    BY <1>2, <1>10 DEF ReceiveFrame, ReceivePacket, HandleICMP
  <2>2. m \in {SendPacket(x, Plain("answer", f.host)), Transmit(x, Plain("answer", f.host))}
    BY <2>1
  <2>3. m \in Stack /\ Joined(m, p) /\ m.rx = x.rx /\ m.queue = x.queue
    BY <1>1, <1>3, <1>4, <1>7, <2>2, PlainStep
  <2> QED BY <1>1, <1>10, <2>3
<1>11. CASE f.kind = "answer"
  <2>1. m = x
    BY <1>2, <1>11 DEF ReceiveFrame, ReceivePacket, HandleICMP
  <2> QED BY <1>1, <1>4, <1>11, <2>1
<1>12. CASE f.kind = "udp"
  <2>1. m = QueueDatagram(x, Port, f.port)
    BY <1>2, <1>12 DEF ReceiveFrame, ReceivePacket
  <2>2. CASE Port \notin x.bound
    BY <1>1, <1>4, <1>12, <2>1, <2>2 DEF QueueDatagram
  <2>3. CASE Port \in x.bound
    <3>1. x.queue \in [UdpPorts -> Seq(Nat)] /\ Port \in UdpPorts
      BY <1>1 DEF Stack
    <3>2. PICK q : q = [x.queue EXCEPT ![Port] = Append(x.queue[Port], f.port)]
      OBVIOUS
    <3>3. q \in [UdpPorts -> Seq(Nat)]
      <4>1. Append(x.queue[Port], f.port) \in Seq(Nat)
        BY <1>3, <3>1, AppendProperties
      <4> QED BY <3>1, <3>2, <4>1
    <3>4. m = [x EXCEPT !.queue = q]
      BY <1>1, <2>1, <2>3, <3>2 DEF QueueDatagram, Stack
    <3>5. m \in Stack /\ m.rx = x.rx /\ m.tx = x.tx /\ m.conn = x.conn /\ m.nextPort = x.nextPort
          /\ m.lost = x.lost /\ m.queue = q
      BY <1>1, <3>3, <3>4 DEF Stack
    <3>6. Joined(m, p)
      <4>1. Segs(m.rx) = Segs(x.rx)
        BY <3>5
      <4> QED BY <1>1, <1>4, <3>5, <4>1, SameWire
    <3> QED BY <1>1, <1>12, <3>2, <3>5, <3>6 DEF Queued
  <2> QED BY <2>2, <2>3
<1> QED BY <1>3, <1>8, <1>9, <1>10, <1>11, <1>12

LEMMA PollFrameStep ==
  ASSUME NEW n \in Stack, NEW p \in [Ephemeral -> Peer], Joined(n, p), n.rx # <<>>,
         NEW m, m = PollFrame(n, Port)
  PROVE  /\ m \in Stack /\ Joined(m, p) /\ m.rx = Tail(n.rx)
         /\ \/ m.queue = n.queue
            \/ /\ Head(n.rx).kind = "udp"
               /\ m.queue = Queued(n, Head(n.rx))
<1>1. PICK x, f : Takes(n, x, f) /\ m = ReceiveFrame(x, f, Port) /\ f = Head(n.rx)
  BY DEF Takes, PollFrame
<1>2. CASE f.kind = "tcp"
  <2>1. PICK y : y = ReceiveSegment(x, f)
    OBVIOUS
  <2>2. m = y
    BY <1>1, <1>2, <2>1 DEF ReceiveFrame, ReceivePacket
  <2>3. y \in Stack /\ Joined(y, p) /\ y.rx = x.rx /\ y.queue = x.queue
    BY <1>1, <1>2, <2>1, ReceiveStep
  <2>4. x.rx = Tail(n.rx) /\ x.queue = n.queue
    BY <1>1, TakeEffect
  <2> QED BY <2>2, <2>3, <2>4
<1>3. CASE f.kind # "tcp"
  <2>1. PollsPlain(n, x, f, m)
    BY <1>1, <1>3 DEF PollsPlain
  <2>2. /\ m \in Stack /\ Joined(m, p) /\ m.rx = Tail(n.rx)
        /\ \/ f.kind # "udp" /\ m.queue = n.queue
           \/ f.kind = "udp" /\ m.queue = n.queue
           \/ f.kind = "udp" /\ m.queue = Queued(n, f)
    BY <2>1, PollPlain
  <2> QED BY <1>1, <2>2
<1> QED BY <1>2, <1>3

-----------------------------------------------------------------------------
(* The hosts *)

\* The server's end of port q becomes that of p2, and segments for q leave the
\* transmit ring or are put into the receive ring.
Hears(n, m, p, p2, q) ==
    /\ q \in Ephemeral /\ q < n.nextPort
    /\ m.conn = n.conn /\ m.nextPort = n.nextPort /\ n.lost \subseteq m.lost
    /\ Segs(m.tx) \subseteq Segs(n.tx) /\ Segs(n.rx) \subseteq Segs(m.rx)
    /\ \A g \in Segs(n.tx) \ Segs(m.tx) : g.port = q
    /\ \A g \in Segs(m.rx) \ Segs(n.rx) : /\ g.port = q /\ g.host = Server /\ "ACK" \in g.flags
                                          /\ "FIN" \in g.flags => p2[q].closed
    /\ \A r \in Ephemeral \ {q} : p2[r] = p[r]
    /\ p2[q].state # "none" /\ (p[q].closed => p2[q].closed)
    /\ p2[q].heard => HasConn(n, q, Ended)
    /\ p2[q].state = "established" => HasConn(n, q, Beyond)
    /\ p2[q].closed => HasConn(n, q, Beyond)
    /\ \A i \in Opened(n) : n.conn[i].port = q /\ q \notin m.lost => Waits(m, p2, q, n.conn[i].state)

LEMMA HearsStep ==
  ASSUME NEW n \in Stack, NEW m \in Stack, NEW p \in [Ephemeral -> Peer],
         NEW p2 \in [Ephemeral -> Peer], Joined(n, p), NEW q, Hears(n, m, p, p2, q)
  PROVE  Joined(m, p2)
<1> USE DEF Hears
<1>1. /\ Opened(m) = Opened(n) /\ n.nextPort \in Nat
      /\ \A i \in Opened(n) : n.conn[i].port \in Ephemeral
  BY ConnFacts, SMTT(30) DEF Opened, Stack, Connection, Ephemeral
<1>2. \A r, states : HasConn(m, r, states) <=> HasConn(n, r, states)
  BY <1>1 DEF HasConn
<1>3. Ports(m, p2)
  <2>1. \A r \in Ephemeral : r >= m.nextPort => r # q
    BY <1>1 DEF Ephemeral
  <2> QED BY <1>1, <2>1 DEF Joined, Ports
<1>4. Sending(m)
  BY <1>2 DEF Joined, Sending
<1>5. Arriving(m, p2)
  <2> SUFFICES ASSUME NEW g \in Segs(m.rx)
               PROVE  /\ g.port < n.nextPort /\ g.host = Server /\ g.port \in Ephemeral
                      /\ "ACK" \in g.flags /\ p2[g.port].state # "none"
                      /\ "FIN" \in g.flags => p2[g.port].closed
    BY DEF Arriving
  <2>1. CASE g \notin Segs(n.rx)
    BY <2>1
  <2>2. CASE g \in Segs(n.rx)
    <3>1. /\ g.port < n.nextPort /\ g.host = Server /\ g.port \in Ephemeral
          /\ "ACK" \in g.flags /\ p[g.port].state # "none"
          /\ "FIN" \in g.flags => p[g.port].closed
      BY <2>2 DEF Joined, Arriving
    <3>2. CASE g.port = q
      BY <3>1, <3>2
    <3>3. CASE g.port # q
      BY <3>1, <3>3
    <3> QED BY <3>2, <3>3
  <2> QED BY <2>1, <2>2
<1>6. Agreed(m, p2)
  <2>1. ASSUME NEW i \in Opened(n)
        PROVE  /\ n.conn[i].state # "SynSent" => p2[n.conn[i].port].state # "none"
               /\ n.conn[i].state \in Both => p2[n.conn[i].port].closed
    <3>1. CASE n.conn[i].port = q
      BY <3>1 DEF Joined, Agreed
    <3>2. CASE n.conn[i].port # q
      BY <1>1, <3>2 DEF Joined, Agreed
    <3> QED BY <3>1, <3>2
  <2>2. ASSUME NEW r \in Ephemeral
        PROVE  /\ p2[r].heard => HasConn(n, r, Ended)
               /\ p2[r].state = "established" => HasConn(n, r, Beyond)
               /\ p2[r].closed => HasConn(n, r, Beyond)
    <3>1. CASE r = q
      BY <3>1
    <3>2. CASE r # q
      BY <3>2 DEF Joined, Agreed
    <3> QED BY <3>1, <3>2
  <2> QED BY <1>1, <1>2, <2>1, <2>2 DEF Agreed
<1>7. UnderWay(m, p2)
  <2> SUFFICES ASSUME NEW i \in Opened(n), n.conn[i].port \notin m.lost
               PROVE  Waits(m, p2, n.conn[i].port, n.conn[i].state)
    BY <1>1 DEF UnderWay
  <2>1. CASE n.conn[i].port = q
    BY <2>1
  <2>2. CASE n.conn[i].port # q
    <3>1. Waits(n, p, n.conn[i].port, n.conn[i].state)
      BY DEF Joined, UnderWay
    <3>2. p2[n.conn[i].port] = p[n.conn[i].port]
      BY <1>1, <2>2
    <3>3. \A g \in Segs(n.tx) : g.port = n.conn[i].port => g \in Segs(m.tx)
      BY <2>2
    <3> HIDE DEF Hears
    <3>4. Segs(n.rx) \subseteq Segs(m.rx)
      BY DEF Hears
    <3> QED BY <3>1, <3>2, <3>3, <3>4 DEF Waits
  <2> QED BY <2>1, <2>2
<1> QED BY <1>3, <1>4, <1>5, <1>6, <1>7 DEF Joined

\* What a host sends is in the ring or lost.
Arrives(n, m, a) ==
    /\ m.tx = n.tx /\ m.conn = n.conn /\ m.nextPort = n.nextPort /\ m.queue = n.queue
    /\ n.lost \subseteq m.lost
    /\ \/ m.rx = Append(n.rx, a) /\ Segs(m.rx) = Segs(n.rx) \cup (IF IsSegment(a) THEN {a} ELSE {})
       \/ m.rx = n.rx /\ (IsSegment(a) => a.port \in m.lost)

LEMMA ArrivesStep ==
  ASSUME NEW n \in Stack, NEW a \in Frame, NEW m, m = Arrive(n, a)
  PROVE  m \in Stack /\ Arrives(n, m, a)
<1>1. /\ Arrive(n, a) \in Stack
      /\ Arrive(n, a).tx = n.tx /\ Arrive(n, a).conn = n.conn
      /\ Arrive(n, a).nextPort = n.nextPort /\ Arrive(n, a).queue = n.queue
      /\ n.lost \subseteq Arrive(n, a).lost
      /\ \/ /\ Arrive(n, a).rx = Append(n.rx, a)
            /\ Segs(Arrive(n, a).rx) = Segs(n.rx) \cup (IF IsSegment(a) THEN {a} ELSE {})
         \/ Arrive(n, a).rx = n.rx /\ (IsSegment(a) => a.port \in Arrive(n, a).lost)
  BY ArriveEffect
<1> QED BY <1>1 DEF Arrives

\* A frame that is no segment arrives.
LEMMA PlainArrives ==
  ASSUME NEW n \in Stack, NEW p \in [Ephemeral -> Peer], Joined(n, p),
         NEW a \in Frame, ~ IsSegment(a), NEW m \in Stack, Arrives(n, m, a)
  PROVE  Joined(m, p)
<1>1. Segs(m.rx) = Segs(n.rx) /\ Segs(m.tx) = Segs(n.tx) /\ Segs(m.rx) \subseteq Segs(n.rx)
  BY DEF Arrives
<1>2. Opened(m) = Opened(n) /\ \A j \in Opened(n) : m.conn[j] = n.conn[j]
  BY DEF Opened, Arrives
<1>3. m.nextPort = n.nextPort /\ n.lost \subseteq m.lost
  BY DEF Arrives
<1> QED BY <1>1, <1>2, <1>3, Untouched

\* The server sends a segment with an ACK to a port of ours that it knows,
\* and closes its end if it says FIN.
ServerSays(n, m, p, p2, q, a) ==
    /\ Arrives(n, m, a) /\ a.kind = "tcp" /\ a.port = q /\ a.host = Server /\ "ACK" \in a.flags
    /\ q \in Ephemeral /\ p[q].state = "established"
    /\ \/ "FIN" \notin a.flags /\ p2 = p
       \/ "FIN" \in a.flags /\ p2 = [p EXCEPT ![q].closed = TRUE]
LEMMA ServerSaysStep ==
  ASSUME NEW n \in Stack, NEW m \in Stack, NEW p \in [Ephemeral -> Peer], Joined(n, p),
         NEW p2, NEW q, NEW a, ServerSays(n, m, p, p2, q, a)
  PROVE  p2 \in [Ephemeral -> Peer] /\ Joined(m, p2)
<1> USE DEF ServerSays
<1>1. /\ q \in Ephemeral /\ q \in Nat /\ q # 0 /\ n.nextPort \in Nat /\ IsSegment(a)
      /\ p[q] \in Peer
  BY SMTT(30) DEF Ephemeral, Stack, IsSegment
<1>2. q < n.nextPort
  BY <1>1 DEF Joined, Ports
<1>3. HasConn(n, q, Beyond) /\ (p[q].heard => HasConn(n, q, Ended))
  BY <1>1 DEF Joined, Agreed
<1>4. /\ p2 \in [Ephemeral -> Peer] /\ p2[q].state = "established"
      /\ p2[q].heard = p[q].heard /\ (p[q].closed => p2[q].closed)
      /\ ("FIN" \in a.flags => p2[q].closed) /\ ("FIN" \notin a.flags => p2[q].closed = p[q].closed)
      /\ \A r \in Ephemeral \ {q} : p2[r] = p[r]
  <2>1. CASE "FIN" \notin a.flags
    BY <1>1, <2>1
  <2>2. CASE "FIN" \in a.flags
    <3>1. p2 = [p EXCEPT ![q] = [p[q] EXCEPT !.closed = TRUE]]
      BY <2>2
    <3>2. [p[q] EXCEPT !.closed = TRUE] \in Peer
      BY <1>1 DEF Peer
    <3>3. p2 \in [Ephemeral -> Peer] /\ \A r \in Ephemeral \ {q} : p2[r] = p[r]
      BY <1>1, <3>1, <3>2
    <3>4. p2[q] = [p[q] EXCEPT !.closed = TRUE]
      BY <1>1, <3>1
    <3> QED BY <1>1, <2>2, <3>3, <3>4 DEF Peer
  <2> QED BY <2>1, <2>2
<1>5. /\ m.tx = n.tx /\ m.conn = n.conn /\ m.nextPort = n.nextPort /\ n.lost \subseteq m.lost
      /\ \/ Segs(m.rx) = Segs(n.rx) \cup {a}
         \/ Segs(m.rx) = Segs(n.rx) /\ q \in m.lost
  BY <1>1 DEF Arrives
<1>6. ASSUME NEW i \in Opened(n), n.conn[i].port = q, q \notin m.lost
      PROVE  Waits(m, p2, q, n.conn[i].state)
  <2>1. Waits(n, p, q, n.conn[i].state)
    BY <1>5, <1>6 DEF Joined, UnderWay
  <2> HIDE DEF ServerSays
  <2>2. a.port = q /\ Segs(m.rx) = Segs(n.rx) \cup {a}
    BY <1>5, <1>6 DEF ServerSays
  <2> QED BY <1>4, <1>5, <2>1, <2>2 DEF Waits
<1>7. Hears(n, m, p, p2, q)
  BY <1>1, <1>2, <1>3, <1>4, <1>5, <1>6 DEF Hears
<1> QED BY <1>4, <1>7, HearsStep

-----------------------------------------------------------------------------
(* The card: the frame at the head of the transmit ring leaves, and a host *)
(* may answer it                                                           *)

Leaves(n, x, f) == n.tx # <<>> /\ f = Head(n.tx) /\ x = [n EXCEPT !.tx = Tail(n.tx)]

LEMMA LeaveEffect ==
  ASSUME NEW n \in Stack, NEW x, NEW f, Leaves(n, x, f)
  PROVE  /\ x \in Stack /\ x.rx = n.rx /\ x.conn = n.conn
         /\ x.nextPort = n.nextPort /\ x.queue = n.queue /\ x.lost = n.lost
         /\ f \in Frame
         /\ Segs(n.tx) = Segs(x.tx) \cup (IF IsSegment(f) THEN {f} ELSE {})
<1> USE DEF Leaves
<1>1. n.tx \in Seq(Frame)
  BY DEF Stack
<1>2. /\ Tail(n.tx) \in Seq(Frame) /\ Head(n.tx) \in Frame
      /\ Segs(n.tx) = Segs(Tail(n.tx)) \cup (IF IsSegment(Head(n.tx)) THEN {Head(n.tx)} ELSE {})
  BY <1>1, SegsOfTail
<1>3. x \in Stack /\ x.rx = n.rx /\ x.tx = Tail(n.tx) /\ x.conn = n.conn
      /\ x.nextPort = n.nextPort /\ x.queue = n.queue /\ x.lost = n.lost
  BY <1>2 DEF Stack
<1> QED BY <1>2, <1>3

\* What the hosts answer: an answer of the same host and port, with an ACK if
\* it is a segment.
LEMMA AnswerFacts ==
  ASSUME NEW f \in Frame, NEW a, a \in Answer(f)
  PROVE  /\ Answer(f) = {a} /\ a \in Frame /\ a.kind # "udp" /\ (IsSegment(a) => Ours(f))
         /\ Ours(f) => /\ a.kind = "tcp" /\ a.port = f.port /\ a.host = f.host
                       /\ "ACK" \in a.flags /\ "FIN" \notin a.flags
                       /\ f.flags = {"SYN"} => "SYN" \in a.flags
<1> USE DEF Frame, Kinds
<1>1. CASE f.kind = "request"
  BY <1>1 DEF Answer, Ours, IsSegment
<1>2. CASE f.kind = "echo"
  BY <1>2 DEF Answer, Ours, IsSegment
<1>3. CASE f.kind \notin {"request", "echo"}
  <2>1. Ours(f)
    BY <1>3 DEF Answer
  <2>2. CASE f.flags = {"SYN"}
    <3>1. Answer(f) = {[f EXCEPT !.flags = {"SYN", "ACK"}]}
      BY <1>3, <2>1, <2>2 DEF Answer
    <3>2. a = [f EXCEPT !.flags = {"SYN", "ACK"}]
      BY <3>1
    <3> QED BY <2>1, <3>1, <3>2 DEF Ours
  <2>3. CASE f.flags # {"SYN"}
    <3>1. f.flags \cap {"PSH", "FIN"} # {}
      BY <1>3, <2>1, <2>3 DEF Answer
    <3>2. Answer(f) = {[f EXCEPT !.flags = {"ACK"}]}
      BY <1>3, <2>1, <2>3, <3>1 DEF Answer
    <3>3. a = [f EXCEPT !.flags = {"ACK"}]
      BY <3>2
    <3> QED BY <2>1, <2>3, <3>2, <3>3 DEF Ours
  <2> QED BY <2>2, <2>3
<1> QED BY <1>1, <1>2, <1>3

\* A segment that asks for an answer gets one.
LEMMA AnswerDue ==
  ASSUME NEW f, Ours(f), f.flags = {"SYN"} \/ "FIN" \in f.flags
  PROVE  Answer(f) # {}
  BY DEF Answer, Ours

\* A segment of ours leaves, and the server hears it.
ServerHears(n, m, p, p2, f) ==
    /\ IsSegment(f) /\ f \in Segs(n.tx)
    /\ p2 = [p EXCEPT ![f.port] = Heard(p[f.port], f)]
    /\ m.conn = n.conn /\ m.nextPort = n.nextPort /\ n.lost \subseteq m.lost
    /\ Segs(n.tx) = Segs(m.tx) \cup {f} /\ Segs(n.rx) \subseteq Segs(m.rx)
    /\ \A g \in Segs(m.rx) \ Segs(n.rx) : /\ g.port = f.port /\ g.host = Server
                                          /\ "ACK" \in g.flags /\ "FIN" \notin g.flags
    /\ f.flags = {"SYN"} => \/ f.port \in m.lost
                            \/ \E g \in Segs(m.rx) : g.port = f.port /\ "SYN" \in g.flags
    /\ "FIN" \in f.flags => f.port \in m.lost \/ \E g \in Segs(m.rx) : g.port = f.port
LEMMA ServerHearsStep ==
  ASSUME NEW n \in Stack, NEW m \in Stack, NEW p \in [Ephemeral -> Peer], Joined(n, p),
         NEW p2, NEW f, ServerHears(n, m, p, p2, f)
  PROVE  p2 \in [Ephemeral -> Peer] /\ Joined(m, p2)
<1> USE DEF ServerHears
<1>1. PICK q : q = f.port
  OBVIOUS
<1>2. /\ q \in Ephemeral /\ q < n.nextPort
      /\ (~ IsSyn(f) => HasConn(n, q, Beyond)) /\ ("FIN" \in f.flags => HasConn(n, q, Ended))
  BY <1>1 DEF Joined, Sending, IsSyn
<1>3. p[q] \in Peer
  BY <1>2
<1>4. PICK h : h = Heard(p[q], f)
  OBVIOUS
<1>5. h \in Peer /\ h.state # "none" /\ h.closed = p[q].closed
      /\ (h.state = "established" => ~ IsSyn(f)) /\ (h.heard => p[q].heard \/ "FIN" \in f.flags)
  <2>1. PICK v \in BOOLEAN : v = (p[q].heard \/ "FIN" \in f.flags)
    <3>1. (p[q].heard \/ "FIN" \in f.flags) \in BOOLEAN
      BY Zenon
    <3> QED BY <3>1, Zenon
  <2>2. PICK z \in {"syn received", "established"} :
            z = (IF f.flags = {"SYN"} THEN "syn received" ELSE "established")
    OBVIOUS
  <2>3. h = [p[q] EXCEPT !.state = z, !.heard = v]
    BY <1>4, <2>1, <2>2, Zenon DEF Heard
  <2>4. h = [state |-> z, closed |-> p[q].closed, heard |-> v]
    BY <1>3, <2>3 DEF Peer
  <2>5. h \in Peer /\ h.state = z /\ h.closed = p[q].closed /\ h.heard = v
    BY <1>3, <2>4 DEF Peer
  <2>6. v => p[q].heard \/ "FIN" \in f.flags
    BY <2>1, Zenon
  <2> QED BY <2>2, <2>5, <2>6 DEF IsSyn
<1>6. p2 = [p EXCEPT ![q] = h]
  BY <1>1, <1>4
<1>7. p2 \in [Ephemeral -> Peer] /\ p2[q] = h /\ \A r \in Ephemeral \ {q} : p2[r] = p[r]
  BY <1>2, <1>5, <1>6
<1>8. /\ p[q].heard => HasConn(n, q, Ended)
      /\ p[q].closed => HasConn(n, q, Beyond)
  BY <1>2 DEF Joined, Agreed
<1>9. ASSUME NEW i \in Opened(n), n.conn[i].port = q, q \notin m.lost
      PROVE  Waits(m, p2, q, n.conn[i].state)
  <2>1. Waits(n, p, q, n.conn[i].state)
    BY <1>9 DEF Joined, UnderWay
  <2>2. /\ Segs(n.tx) = Segs(m.tx) \cup {f} /\ Segs(n.rx) \subseteq Segs(m.rx)
        /\ f.flags = {"SYN"} => \E g \in Segs(m.rx) : g.port = q /\ "SYN" \in g.flags
        /\ "FIN" \in f.flags => \E g \in Segs(m.rx) : g.port = q
    BY <1>1, <1>9
  <2> HIDE DEF ServerHears
  <2>3. n.conn[i].state = "SynSent" =>
            \/ \E g \in Segs(m.tx) : g.port = q /\ g.flags = {"SYN"}
            \/ \E g \in Segs(m.rx) : g.port = q /\ "SYN" \in g.flags
    BY <2>1, <2>2 DEF Waits
  <2>4. p2[q].closed => n.conn[i].state \in Both
                        \/ \E g \in Segs(m.rx) : g.port = q /\ "FIN" \in g.flags
    BY <1>5, <1>7, <2>1, <2>2 DEF Waits
  <2>5. p2[q].heard /\ n.conn[i].state = "LastAck" => \E g \in Segs(m.rx) : g.port = q
    BY <1>5, <1>7, <2>1, <2>2 DEF Waits
  <2> QED BY <2>3, <2>4, <2>5 DEF Waits
<1>10. Hears(n, m, p, p2, q)
  BY <1>1, <1>2, <1>5, <1>7, <1>8, <1>9 DEF Hears
<1> QED BY <1>7, <1>10, HearsStep

\* What the answer of a host does to the receive ring: datagrams are none of it.
Answers(n, m) == \/ m.rx = n.rx
                 \/ \E a \in Frame : a.kind # "udp" /\ m.rx = Append(n.rx, a)
CardStep(n, x, f, m, p, p2) ==
    /\ Leaves(n, x, f)
    /\ m = IF Answer(f) = {} THEN x ELSE Arrive(x, CHOOSE a \in Answer(f) : TRUE)
    /\ p2 = IF Ours(f) THEN [p EXCEPT ![f.port] = Heard(p[f.port], f)] ELSE p
LEMMA CardStepJoined ==
  ASSUME NEW n \in Stack, NEW p \in [Ephemeral -> Peer], Joined(n, p),
         NEW x, NEW f, NEW m, NEW p2, CardStep(n, x, f, m, p, p2)
  PROVE  /\ m \in Stack /\ p2 \in [Ephemeral -> Peer] /\ Joined(m, p2)
         /\ m.queue = n.queue /\ Answers(n, m)
<1>1. /\ x \in Stack /\ x.rx = n.rx /\ x.conn = n.conn
      /\ x.nextPort = n.nextPort /\ x.queue = n.queue /\ x.lost = n.lost
      /\ f \in Frame
      /\ Segs(n.tx) = Segs(x.tx) \cup (IF IsSegment(f) THEN {f} ELSE {})
  BY LeaveEffect DEF CardStep
<1>2. IsSegment(f) <=> Ours(f)
  <2>1. IsSegment(f) => f.host = Server /\ f.port \in Ephemeral
    BY <1>1 DEF Joined, Sending
  <2> QED BY <2>1 DEF IsSegment, Ours, Ephemeral
<1>3. CASE Answer(f) = {}
  <2>1. m = x
    BY <1>3 DEF CardStep
  <2>2. CASE Ours(f)
    <3>1. p2 = [p EXCEPT ![f.port] = Heard(p[f.port], f)]
      BY <2>2 DEF CardStep
    <3>2. f.flags # {"SYN"} /\ "FIN" \notin f.flags
      BY <1>3, <2>2, AnswerDue
    <3>3. ServerHears(n, m, p, p2, f)
      BY <1>1, <1>2, <2>1, <2>2, <3>1, <3>2 DEF ServerHears
    <3>4. p2 \in [Ephemeral -> Peer] /\ Joined(m, p2)
      BY <1>1, <2>1, <3>3, ServerHearsStep
    <3> QED BY <1>1, <2>1, <3>4 DEF Answers
  <2>3. CASE ~ Ours(f)
    <3>1. p2 = p /\ Segs(x.tx) = Segs(n.tx)
      BY <1>1, <1>2, <2>3 DEF CardStep
    <3>2. Opened(x) = Opened(n) /\ \A j \in Opened(n) : x.conn[j] = n.conn[j]
      BY <1>1 DEF Opened
    <3>3. Segs(x.rx) = Segs(n.rx) /\ n.lost \subseteq x.lost
      BY <1>1
    <3>4. Joined(x, p)
      BY <1>1, <3>1, <3>2, <3>3, Untouched
    <3> QED BY <1>1, <2>1, <3>1, <3>4 DEF Answers
  <2> QED BY <2>2, <2>3
<1>4. CASE Answer(f) # {}
  <2>1. PICK a : a \in Answer(f)
    BY <1>4
  <2>2. /\ Answer(f) = {a} /\ a \in Frame /\ a.kind # "udp" /\ (IsSegment(a) => Ours(f))
        /\ Ours(f) => /\ a.kind = "tcp" /\ a.port = f.port /\ a.host = f.host
                      /\ "ACK" \in a.flags /\ "FIN" \notin a.flags
                      /\ f.flags = {"SYN"} => "SYN" \in a.flags
    BY <1>1, <2>1, AnswerFacts
  <2>3. (CHOOSE b \in Answer(f) : TRUE) = a
    BY <2>2, Zenon
  <2>4. m = Arrive(x, a)
    BY <1>4, <2>3 DEF CardStep
  <2>5. m \in Stack /\ Arrives(x, m, a)
    BY <1>1, <2>2, <2>4, ArrivesStep
  <2>6. Answers(n, m) /\ m.queue = n.queue
    BY <1>1, <2>2, <2>5 DEF Answers, Arrives
  <2>7. CASE Ours(f)
    <3>1. p2 = [p EXCEPT ![f.port] = Heard(p[f.port], f)]
      BY <2>7 DEF CardStep
    <3>2. IsSegment(a) /\ IsSegment(f) /\ f \in Segs(n.tx) /\ f.host = Server
      BY <1>1, <1>2, <2>2, <2>7 DEF IsSegment, Ours
    <3>3. /\ m.tx = x.tx /\ m.conn = n.conn /\ m.nextPort = n.nextPort /\ n.lost \subseteq m.lost
          /\ \/ Segs(m.rx) = Segs(n.rx) \cup {a}
             \/ Segs(m.rx) = Segs(n.rx) /\ f.port \in m.lost
      BY <1>1, <2>2, <2>5, <2>7, <3>2 DEF Arrives
    <3>4. Segs(n.tx) = Segs(m.tx) \cup {f}
      BY <1>1, <3>2, <3>3
    <3>5. ServerHears(n, m, p, p2, f)
      BY <2>2, <2>7, <3>1, <3>2, <3>3, <3>4 DEF ServerHears
    <3>6. p2 \in [Ephemeral -> Peer] /\ Joined(m, p2)
      BY <2>5, <3>5, ServerHearsStep
    <3> QED BY <2>5, <2>6, <3>6
  <2>8. CASE ~ Ours(f)
    <3>1. p2 = p /\ Segs(x.tx) = Segs(n.tx) /\ ~ IsSegment(a)
      BY <1>1, <1>2, <2>2, <2>8 DEF CardStep
    <3>2. Opened(x) = Opened(n) /\ \A j \in Opened(n) : x.conn[j] = n.conn[j]
      BY <1>1 DEF Opened
    <3>3. Segs(x.rx) = Segs(n.rx) /\ n.lost \subseteq x.lost
      BY <1>1
    <3>4. Joined(x, p)
      BY <1>1, <3>1, <3>2, <3>3, Untouched
    <3>5. Joined(m, p)
      BY <1>1, <2>2, <2>5, <3>1, <3>4, PlainArrives
    <3> QED BY <2>5, <2>6, <3>1, <3>5
  <2> QED BY <2>7, <2>8
<1> QED BY <1>3, <1>4

-----------------------------------------------------------------------------
(* Datagrams, on their way to a program *)

\* Nothing of the ring and the queues has changed.
LEMMA WaitSame ==
  ASSUME NEW n, NEW m, NEW last, NEW sent, Waiting(n, last, sent),
         m.rx = n.rx, m.queue = n.queue
  PROVE  Waiting(m, last, sent)
  BY DEF Waiting

\* A frame arrived: a datagram has a new number.
LEMMA WaitArrives ==
  ASSUME NEW n \in Stack, NEW m, NEW last \in Nat, NEW sent \in Nat, Waiting(n, last, sent),
         NEW a \in Frame, m.rx = Append(n.rx, a), m.queue = n.queue,
         NEW new \in Nat, \/ a.kind # "udp" /\ new = sent
                          \/ a.kind = "udp" /\ a.port = sent + 1 /\ new = sent + 1
  PROVE  Waiting(m, last, new)
<1>1. /\ n.rx \in Seq(Frame) /\ Len(n.rx) \in Nat /\ DOMAIN n.rx = 1 .. Len(n.rx)
      /\ m.rx \in Seq(Frame) /\ DOMAIN m.rx = 1 .. Len(n.rx) + 1
      /\ \A i \in 1 .. Len(n.rx) : m.rx[i] = n.rx[i]
      /\ m.rx[Len(n.rx) + 1] = a
  <2>1. n.rx \in Seq(Frame) /\ Len(n.rx) \in Nat /\ DOMAIN n.rx = 1 .. Len(n.rx)
    BY LenProperties DEF Stack
  <2>2. /\ Append(n.rx, a) \in Seq(Frame) /\ Len(Append(n.rx, a)) = Len(n.rx) + 1
        /\ \A i \in 1 .. Len(n.rx) : Append(n.rx, a)[i] = n.rx[i]
        /\ Append(n.rx, a)[Len(n.rx) + 1] = a
    BY <2>1, AppendProperties
  <2> QED BY <2>1, <2>2, LenProperties
<1>2. \A i \in 1 .. Len(n.rx) + 1 : i # Len(n.rx) + 1 => i \in 1 .. Len(n.rx)
  BY <1>1
<1>3. \A i \in DOMAIN n.queue[Port] : n.queue[Port][i] \in last + 1 .. sent
  BY DEF Waiting
<1>4. \A i \in DOMAIN n.rx : n.rx[i].kind = "udp" => n.rx[i].port \in last + 1 .. sent
  BY DEF Waiting
<1>5. last + 1 .. sent \subseteq last + 1 .. new /\ (a.kind = "udp" => new \in last + 1 .. new) /\ last <= new
  BY DEF Waiting
<1>6. ASSUME NEW j \in DOMAIN m.rx, m.rx[j].kind = "udp"
      PROVE  /\ m.rx[j].port \in last + 1 .. new
             /\ \A i \in DOMAIN m.queue[Port] : m.queue[Port][i] < m.rx[j].port
             /\ \A i \in DOMAIN m.rx : m.rx[i].kind = "udp" /\ i < j => m.rx[i].port < m.rx[j].port
  <2>1. CASE j # Len(n.rx) + 1
    <3>1. j \in DOMAIN n.rx /\ m.rx[j] = n.rx[j]
      BY <1>1, <1>2, <2>1
    <3>2. \A i \in DOMAIN m.rx : i < j => i \in DOMAIN n.rx /\ m.rx[i] = n.rx[i]
      BY <1>1, <1>2, <3>1
    <3> QED BY <1>5, <1>6, <3>1, <3>2 DEF Waiting
  <2>2. CASE j = Len(n.rx) + 1
    <3>1. m.rx[j] = a /\ a.kind = "udp" /\ a.port = sent + 1 /\ new = sent + 1
      BY <1>1, <1>6, <2>2
    <3>2. \A i \in DOMAIN m.rx : i < j => i \in DOMAIN n.rx /\ m.rx[i] = n.rx[i]
      BY <1>1, <1>2, <2>2
    <3>3. \A k \in last + 1 .. sent : k < sent + 1
      OBVIOUS
    <3> QED BY <1>3, <1>4, <1>5, <3>1, <3>2, <3>3
  <2> QED BY <2>1, <2>2
<1>7. \A i \in DOMAIN m.queue[Port] : m.queue[Port][i] \in last + 1 .. new
  BY <1>3, <1>5
<1> QED BY <1>5, <1>6, <1>7 DEF Waiting

\* A datagram that was lost leaves a gap.
LEMMA WaitLost ==
  ASSUME NEW n, NEW m, NEW last \in Nat, NEW sent \in Nat, Waiting(n, last, sent),
         m.rx = n.rx, m.queue = n.queue
  PROVE  Waiting(m, last, sent + 1)
<1>1. last + 1 .. sent \subseteq last + 1 .. sent + 1 /\ last <= sent + 1
  BY DEF Waiting
<1> QED BY <1>1 DEF Waiting

LEMMA TailFacts ==
  ASSUME NEW S, NEW s \in Seq(S), s # <<>>
  PROVE  /\ Len(s) \in Nat \ {0} /\ DOMAIN s = 1 .. Len(s) /\ DOMAIN Tail(s) = 1 .. Len(s) - 1
         /\ Head(s) = s[1] /\ \A i \in 1 .. Len(s) - 1 : Tail(s)[i] = s[i + 1] /\ i + 1 \in 1 .. Len(s)
<1>1. /\ Tail(s) \in Seq(S) /\ Len(Tail(s)) = Len(s) - 1 /\ Len(s) \in Nat \ {0}
      /\ \A i \in 1 .. Len(s) - 1 : Tail(s)[i] = s[i + 1]
      /\ DOMAIN s = 1 .. Len(s) /\ DOMAIN Tail(s) = 1 .. Len(s) - 1
  BY HeadTailProperties, LenProperties, EmptySeq
<1>2. Head(s) = s[1]
  OBVIOUS
<1>3. \A i \in 1 .. Len(s) - 1 : i + 1 \in 1 .. Len(s)
  BY <1>1
<1> QED BY <1>1, <1>2, <1>3

\* The poll takes the frame at the head, and may queue it if it is a datagram.
LEMMA WaitPolled ==
  ASSUME NEW n \in Stack, NEW m, NEW last \in Nat, NEW sent \in Nat, Waiting(n, last, sent),
         n.rx # <<>>, m.rx = Tail(n.rx),
         m.queue = n.queue \/ (Head(n.rx).kind = "udp" /\ m.queue = Queued(n, Head(n.rx)))
  PROVE  Waiting(m, last, sent)
<1>1. PICK k : k = Len(n.rx)
  OBVIOUS
<1>2. /\ k \in Nat \ {0} /\ DOMAIN n.rx = 1 .. k /\ DOMAIN m.rx = 1 .. k - 1
      /\ Head(n.rx) = n.rx[1] /\ \A i \in 1 .. k - 1 : m.rx[i] = n.rx[i + 1] /\ i + 1 \in 1 .. k
  <2>1. n.rx \in Seq(Frame)
    BY DEF Stack
  <2> QED BY <1>1, <2>1, TailFacts
<1>3. ASSUME NEW j \in DOMAIN m.rx, m.rx[j].kind = "udp"
      PROVE  /\ m.rx[j].port \in last + 1 .. sent
             /\ \A i \in DOMAIN n.queue[Port] : n.queue[Port][i] < m.rx[j].port
             /\ \A i \in DOMAIN m.rx : m.rx[i].kind = "udp" /\ i < j => m.rx[i].port < m.rx[j].port
             /\ n.rx[1].kind = "udp" => n.rx[1].port < m.rx[j].port
  <2>1. j \in 1 .. k - 1 /\ m.rx[j] = n.rx[j + 1] /\ j + 1 \in DOMAIN n.rx
    BY <1>2
  <2>2. /\ n.rx[j + 1].port \in last + 1 .. sent
        /\ \A i \in DOMAIN n.queue[Port] : n.queue[Port][i] < n.rx[j + 1].port
        /\ \A i \in DOMAIN n.rx : n.rx[i].kind = "udp" /\ i < j + 1 => n.rx[i].port < n.rx[j + 1].port
    BY <1>3, <2>1 DEF Waiting
  <2>3. \A i \in DOMAIN m.rx : i < j => i + 1 \in DOMAIN n.rx /\ i + 1 < j + 1 /\ m.rx[i] = n.rx[i + 1]
    <3> SUFFICES ASSUME NEW i \in DOMAIN m.rx, i < j
                 PROVE  i + 1 \in DOMAIN n.rx /\ i + 1 < j + 1 /\ m.rx[i] = n.rx[i + 1]
      OBVIOUS
    <3>1. i \in 1 .. k - 1 /\ j \in Int /\ i \in Int
      BY <1>2, <2>1
    <3>2. i + 1 < j + 1
      BY <3>1
    <3> QED BY <1>2, <3>1, <3>2
  <2>4. 1 \in DOMAIN n.rx /\ 1 < j + 1
    BY <1>2, <2>1
  <2> QED BY <2>1, <2>2, <2>3, <2>4
<1>4. CASE m.queue = n.queue
  BY <1>3, <1>4 DEF Waiting
<1>5. CASE Head(n.rx).kind = "udp" /\ m.queue = Queued(n, Head(n.rx))
  <2>1. PICK e : e = n.rx[1].port
    OBVIOUS
  <2>2. /\ e \in last + 1 .. sent /\ n.rx[1].kind = "udp"
        /\ \A i \in DOMAIN n.queue[Port] : n.queue[Port][i] < e
    <3>1. 1 \in DOMAIN n.rx /\ n.rx[1].kind = "udp"
      BY <1>2, <1>5
    <3> QED BY <2>1, <3>1 DEF Waiting
  <2>3. n.queue \in [UdpPorts -> Seq(Nat)] /\ Port \in UdpPorts /\ e \in Nat /\ n.queue[Port] \in Seq(Nat)
    BY <2>2, SMTT(30) DEF Stack
  <2>4. PICK w : w = Append(n.queue[Port], e)
    OBVIOUS
  <2>5. m.queue[Port] = w /\ \A p \in UdpPorts \ {Port} : m.queue[p] = n.queue[p]
    BY <1>2, <1>5, <2>1, <2>3, <2>4 DEF Queued
  <2>6. PICK l \in Nat : /\ DOMAIN n.queue[Port] = 1 .. l /\ DOMAIN w = 1 .. l + 1 /\ w[l + 1] = e
                         /\ \A i \in 1 .. l : w[i] = n.queue[Port][i]
    <3>1. /\ Append(n.queue[Port], e) \in Seq(Nat)
          /\ Len(Append(n.queue[Port], e)) = Len(n.queue[Port]) + 1
          /\ \A i \in 1 .. Len(n.queue[Port]) : Append(n.queue[Port], e)[i] = n.queue[Port][i]
          /\ Append(n.queue[Port], e)[Len(n.queue[Port]) + 1] = e
      BY <2>3, AppendProperties
    <3>2. Len(n.queue[Port]) \in Nat /\ DOMAIN n.queue[Port] = 1 .. Len(n.queue[Port])
          /\ DOMAIN Append(n.queue[Port], e) = 1 .. Len(n.queue[Port]) + 1
      BY <2>3, <3>1, LenProperties
    <3> QED BY <2>4, <3>1, <3>2
  <2>7. ASSUME NEW i \in DOMAIN w
        PROVE  \/ i = l + 1 /\ w[i] = e
               \/ i \in DOMAIN n.queue[Port] /\ w[i] = n.queue[Port][i] /\ i < l + 1
    <3>1. i \in 1 .. l + 1
      BY <2>6
    <3>2. i = l + 1 \/ (i \in 1 .. l /\ i < l + 1)
      BY <2>6, <3>1
    <3>3. CASE i = l + 1
      <4>1. w[l + 1] = e
        BY <2>6
      <4>2. w[i] = e
        BY <3>3, <4>1, Zenon
      <4> QED BY <3>3, <4>2, Zenon
    <3>4. CASE i \in 1 .. l /\ i < l + 1
      <4>1. i \in DOMAIN n.queue[Port] /\ w[i] = n.queue[Port][i]
        BY <2>6, <3>4
      <4> QED BY <3>4, <4>1
    <3> QED BY <3>2, <3>3, <3>4
  <2>8. \A i \in DOMAIN n.queue[Port] : n.queue[Port][i] \in last + 1 .. sent
    BY DEF Waiting
  <2>9. \A i, j \in DOMAIN n.queue[Port] : i < j => n.queue[Port][i] < n.queue[Port][j]
    BY DEF Waiting
  <2>10. \A i \in DOMAIN w : w[i] \in last + 1 .. sent
    BY <2>2, <2>7, <2>8
  <2>11. ASSUME NEW i \in DOMAIN w, NEW j \in DOMAIN w, i < j
         PROVE  w[i] < w[j]
    <3>1. i \in 1 .. l + 1 /\ j \in 1 .. l + 1
      BY <2>6
    <3>2. i # l + 1
      BY <2>11, <3>1
    <3>3. i \in DOMAIN n.queue[Port] /\ w[i] = n.queue[Port][i]
      BY <2>7, <3>2
    <3>4. CASE j = l + 1
      <4>1. w[j] = e
        BY <2>6, <3>4, Zenon
      <4>2. n.queue[Port][i] < e
        BY <2>2, <3>3
      <4> QED BY <3>3, <4>1, <4>2
    <3>5. CASE j # l + 1
      <4>1. j \in DOMAIN n.queue[Port] /\ w[j] = n.queue[Port][j]
        BY <2>7, <3>5
      <4>2. n.queue[Port][i] < n.queue[Port][j]
        BY <2>9, <2>11, <3>3, <4>1
      <4> QED BY <3>3, <4>1, <4>2
    <3> QED BY <3>4, <3>5
  <2>12. ASSUME NEW j \in DOMAIN m.rx, m.rx[j].kind = "udp"
         PROVE  \A i \in DOMAIN w : w[i] < m.rx[j].port
    BY <1>3, <2>1, <2>2, <2>7, <2>12
  <2>13. last <= sent /\ \A p \in UdpPorts \ {Port} : m.queue[p] = <<>>
    BY <2>5 DEF Waiting
  <2> QED BY <1>3, <2>5, <2>10, <2>11, <2>12, <2>13 DEF Waiting
<1> QED BY <1>4, <1>5

\* A program reads the datagram at the head of a queue: only one port has any.
LEMMA WaitRead ==
  ASSUME NEW n \in Stack, NEW last \in Nat, NEW sent \in Nat, Waiting(n, last, sent),
         NEW p \in UdpPorts, n.queue[p] # <<>>, NEW m, m = Receive(n, p)
  PROVE  /\ m \in Stack /\ m.rx = n.rx /\ m.tx = n.tx /\ m.conn = n.conn
         /\ m.nextPort = n.nextPort /\ m.lost = n.lost
         /\ Head(n.queue[p]) \in Nat /\ Waiting(m, Head(n.queue[p]), sent)
<1>1. p = Port /\ n.queue \in [UdpPorts -> Seq(Nat)] /\ n.queue[Port] \in Seq(Nat)
  BY DEF Waiting, Stack
<1>2. PICK w, h : w = Tail(n.queue[Port]) /\ h = Head(n.queue[Port])
  OBVIOUS
<1>3. PICK k \in Nat : /\ DOMAIN n.queue[Port] = 1 .. k /\ k # 0 /\ DOMAIN w = 1 .. k - 1
                       /\ h = n.queue[Port][1]
                       /\ \A i \in 1 .. k - 1 : w[i] = n.queue[Port][i + 1] /\ i + 1 \in 1 .. k
  <2>1. /\ Len(n.queue[Port]) \in Nat \ {0}
        /\ DOMAIN n.queue[Port] = 1 .. Len(n.queue[Port])
        /\ DOMAIN Tail(n.queue[Port]) = 1 .. Len(n.queue[Port]) - 1
        /\ Head(n.queue[Port]) = n.queue[Port][1]
        /\ \A i \in 1 .. Len(n.queue[Port]) - 1 :
               Tail(n.queue[Port])[i] = n.queue[Port][i + 1] /\ i + 1 \in 1 .. Len(n.queue[Port])
    BY <1>1, TailFacts
  <2> QED BY <1>2, <2>1
<1>4. w \in Seq(Nat) /\ h \in Nat
  BY <1>1, <1>2, HeadTailProperties
<1>5. PICK q : q = [n.queue EXCEPT ![Port] = w]
  OBVIOUS
<1>6. q \in [UdpPorts -> Seq(Nat)] /\ q[Port] = w /\ \A r \in UdpPorts \ {Port} : q[r] = n.queue[r]
  BY <1>1, <1>4, <1>5
<1>7. m = [n EXCEPT !.queue = q]
  BY <1>1, <1>2, <1>5 DEF Receive, Stack
<1>8. m \in Stack /\ m.rx = n.rx /\ m.tx = n.tx /\ m.conn = n.conn
      /\ m.nextPort = n.nextPort /\ m.lost = n.lost /\ m.queue = q
  BY <1>6, <1>7 DEF Stack
<1>9. h \in last + 1 .. sent /\ 1 \in DOMAIN n.queue[Port]
  BY <1>3, SMTT(30) DEF Waiting
<1>10. ASSUME NEW i \in DOMAIN w
       PROVE  w[i] = n.queue[Port][i + 1] /\ i + 1 \in DOMAIN n.queue[Port] /\ 1 < i + 1 /\ i \in Nat
  BY <1>3
<1>11. \A i \in DOMAIN n.queue[Port] : n.queue[Port][i] \in last + 1 .. sent
  BY DEF Waiting
<1>12. \A i, j \in DOMAIN n.queue[Port] : i < j => n.queue[Port][i] < n.queue[Port][j]
  BY DEF Waiting
<1>13. \A i \in DOMAIN w : w[i] \in h + 1 .. sent
  <2> SUFFICES ASSUME NEW i \in DOMAIN w PROVE w[i] \in h + 1 .. sent
    OBVIOUS
  <2>1. w[i] \in last + 1 .. sent /\ h < w[i]
    BY <1>3, <1>9, <1>10, <1>11, <1>12
  <2> QED BY <1>4, <2>1
<1>14. \A i, j \in DOMAIN w : i < j => w[i] < w[j]
  <2> SUFFICES ASSUME NEW i \in DOMAIN w, NEW j \in DOMAIN w, i < j PROVE w[i] < w[j]
    OBVIOUS
  <2>1. i + 1 < j + 1
    BY <1>10
  <2> QED BY <1>10, <1>12, <2>1
<1>15. ASSUME NEW j \in DOMAIN n.rx, n.rx[j].kind = "udp"
       PROVE  /\ n.rx[j].port \in h + 1 .. sent
              /\ \A i \in DOMAIN w : w[i] < n.rx[j].port
              /\ \A i \in DOMAIN n.rx : n.rx[i].kind = "udp" /\ i < j => n.rx[i].port < n.rx[j].port
  <2>1. /\ n.rx[j].port \in last + 1 .. sent
        /\ \A i \in DOMAIN n.queue[Port] : n.queue[Port][i] < n.rx[j].port
        /\ \A i \in DOMAIN n.rx : n.rx[i].kind = "udp" /\ i < j => n.rx[i].port < n.rx[j].port
    BY <1>15 DEF Waiting
  <2>2. h < n.rx[j].port
    BY <1>3, <1>9, <2>1
  <2>3. n.rx[j].port \in h + 1 .. sent
    BY <1>4, <2>1, <2>2
  <2> QED BY <1>10, <2>1, <2>3
<1>16. Waiting(m, h, sent)
  <2>1. h <= sent /\ \A r \in UdpPorts \ {Port} : m.queue[r] = <<>>
    <3>1. h <= sent
      BY <1>4, <1>9
    <3>2. \A r \in UdpPorts \ {Port} : n.queue[r] = <<>>
      BY DEF Waiting
    <3> QED BY <1>6, <1>8, <3>1, <3>2
  <2> QED BY <1>6, <1>8, <1>13, <1>14, <1>15, <2>1 DEF Waiting
<1> QED BY <1>1, <1>2, <1>4, <1>8, <1>16

\* A port is given up with the datagrams that wait for it.
LEMMA WaitUnbind ==
  ASSUME NEW n \in Stack, NEW last \in Nat, NEW sent \in Nat, Waiting(n, last, sent),
         NEW p \in UdpPorts, NEW m, m = Unbind(n, p)
  PROVE  /\ m \in Stack /\ m.rx = n.rx /\ m.tx = n.tx /\ m.conn = n.conn
         /\ m.nextPort = n.nextPort /\ m.lost = n.lost /\ Waiting(m, last, sent)
<1>1. n.queue \in [UdpPorts -> Seq(Nat)] /\ n.bound \in SUBSET UdpPorts
  BY DEF Stack
<1>2. PICK q, b : q = [n.queue EXCEPT ![p] = <<>>] /\ b = n.bound \ {p}
  OBVIOUS
<1>3. /\ q \in [UdpPorts -> Seq(Nat)] /\ b \in SUBSET UdpPorts
      /\ q[p] = <<>> /\ \A r \in UdpPorts \ {p} : q[r] = n.queue[r]
  BY <1>1, <1>2
<1>4. m = [n EXCEPT !.bound = b, !.queue = q]
  BY <1>2 DEF Unbind, Stack
<1>5. /\ m \in Stack /\ m.rx = n.rx /\ m.tx = n.tx /\ m.conn = n.conn
      /\ m.nextPort = n.nextPort /\ m.lost = n.lost /\ m.queue = q
  BY <1>3, <1>4 DEF Stack
<1>6. Waiting(m, last, sent)
  <2>1. CASE p = Port
    <3>1. DOMAIN m.queue[Port] = {} /\ \A r \in UdpPorts \ {Port} : m.queue[r] = n.queue[r]
      BY <1>3, <1>5, <2>1
    <3> QED BY <1>5, <3>1 DEF Waiting
  <2>2. CASE p # Port
    <3>1. m.queue[Port] = n.queue[Port] /\ \A r \in UdpPorts \ {Port} : m.queue[r] = <<>>
      BY <1>3, <1>5, <2>2 DEF Waiting
    <3> QED BY <1>5, <3>1 DEF Waiting
  <2> QED BY <2>1, <2>2
<1> QED BY <1>5, <1>6

-----------------------------------------------------------------------------
(* The sockets *)

LEMMA StreamTyped ==
  ASSUME NEW s \in [Streams -> StreamSocket], NEW a \in Streams, NEW r \in StreamSocket
  PROVE  [s EXCEPT ![a] = r] \in [Streams -> StreamSocket]
  OBVIOUS

LEMMA DatagramTyped ==
  ASSUME NEW s \in [Datagrams -> DatagramSocket], NEW a \in Datagrams, NEW r \in DatagramSocket
  PROVE  [s EXCEPT ![a] = r] \in [Datagrams -> DatagramSocket]
  OBVIOUS

LEMMA NewTyped == NewStream \in StreamSocket /\ NewDatagram \in DatagramSocket
  BY DEF NewStream, NewDatagram, StreamSocket, DatagramSocket

\* The invariant, of the parts of a state.
Good(n, s, d, p, k, g) ==
    /\ n \in Stack /\ s \in [Streams -> StreamSocket] /\ d \in [Datagrams -> DatagramSocket]
    /\ p \in [Ephemeral -> Peer] /\ k \in Nat /\ g \in Nat
    /\ Joined(n, p) /\ Waiting(n, g, k)
Now == Good(net, stream, dgram, peer, number, got)
Then == Good(net', stream', dgram', peer', number', got')

\* The stack takes a step that leaves the wire's end and the queues alone.
LEMMA StackStep ==
  ASSUME Now, NEW m \in Stack, net' = m, Joined(m, peer), Waiting(m, got, number),
         stream' \in [Streams -> StreamSocket], dgram' \in [Datagrams -> DatagramSocket],
         UNCHANGED <<peer, number, got>>
  PROVE  Then
  BY DEF Now, Then, Good

LEMMA BindEffect ==
  ASSUME NEW n \in Stack, NEW p \in [Ephemeral -> Peer], Joined(n, p),
         NEW b \in UdpPorts, NEW m, m = Bind(n, b)
  PROVE  m \in Stack /\ Joined(m, p) /\ m.rx = n.rx /\ m.queue = n.queue
<1>1. m \in Stack /\ m.rx = n.rx /\ m.tx = n.tx /\ m.conn = n.conn /\ m.nextPort = n.nextPort
      /\ m.lost = n.lost /\ m.queue = n.queue
  BY DEF Bind, Stack
<1>2. Segs(m.rx) = Segs(n.rx)
  BY <1>1
<1>3. Joined(m, p)
  BY <1>1, <1>2, SameWire
<1> QED BY <1>1, <1>3

LEMMA ListenNetStep ==
  ASSUME Now
  PROVE  /\ ListenNet \in Stack /\ Joined(ListenNet, peer) /\ Waiting(ListenNet, got, number)
         /\ ListenConn \in 0 .. MaxConns
<1>1. net \in Stack /\ peer \in [Ephemeral -> Peer] /\ Joined(net, peer) /\ Waiting(net, got, number)
  BY DEF Now, Good
<1>2. CASE FreeConn(net) = {}
  BY <1>1, <1>2 DEF ListenNet, ListenConn
<1>3. CASE FreeConn(net) # {}
  <2>1. ListenNet = Listen(net) /\ ListenConn = Min(FreeConn(net))
    BY <1>3 DEF ListenNet, ListenConn
  <2>2. Min(FreeConn(net)) \in Conns
    BY <1>1, <1>3, FreeSlot
  <2>3. PICK m : m = Listen(net)
    OBVIOUS
  <2>4. m \in Stack /\ Joined(m, peer) /\ m.rx = net.rx /\ m.queue = net.queue
    BY <1>1, <1>3, <2>3, ListenStep
  <2>5. Waiting(m, got, number)
    BY <1>1, <2>4, WaitSame
  <2> QED BY <2>1, <2>2, <2>3, <2>4, <2>5 DEF Conns
<1> QED BY <1>2, <1>3

LEMMA StreamSteps ==
  ASSUME Now, NEW s \in Streams,
         \/ StreamBind(s) \/ StreamConnect(s) \/ StreamListen(s) \/ StreamSend(s)
         \/ StreamShutdown(s) \/ StreamClose(s)
  PROVE  Then
<1>1. /\ net \in Stack /\ peer \in [Ephemeral -> Peer] /\ Joined(net, peer)
      /\ Waiting(net, got, number) /\ stream \in [Streams -> StreamSocket]
      /\ dgram \in [Datagrams -> DatagramSocket]
  BY DEF Now, Good
<1>2. stream[s] \in StreamSocket /\ stream[s].conn \in 0 .. MaxConns
      /\ (stream[s].conn # 0 => stream[s].conn \in Conns)
  BY <1>1 DEF StreamSocket, Conns
<1>3. CASE StreamBind(s)
  <2>1. [stream[s] EXCEPT !.bound = TRUE] \in StreamSocket
    BY <1>2 DEF StreamSocket
  <2>2. stream' = [stream EXCEPT ![s] = [stream[s] EXCEPT !.bound = TRUE]]
    BY <1>3 DEF StreamBind
  <2>3. stream' \in [Streams -> StreamSocket]
    BY <1>1, <2>1, <2>2, StreamTyped
  <2>4. net' = net /\ dgram' = dgram /\ UNCHANGED <<peer, number, got>>
    BY <1>3 DEF StreamBind
  <2> QED BY <1>1, <2>3, <2>4, StackStep
<1>4. CASE StreamConnect(s)
  <2>1. CASE FreeConn(net) # {}
    <3>1. net.nextPort \in Ephemeral /\ FreeConn(net) # {} /\ net' = Connect(net, Server)
          /\ dgram' = dgram /\ UNCHANGED <<peer, number, got>>
      BY <1>4, <2>1 DEF StreamConnect
    <3>2. Min(FreeConn(net)) \in 0 .. MaxConns
      BY <1>1, <3>1, FreeSlot DEF Conns
    <3>3. PICK k \in 0 .. MaxConns : k = Min(FreeConn(net))
      BY <3>2
    <3>4. [stream[s] EXCEPT !.conn = k, !.connected = TRUE] \in StreamSocket
      BY <1>2 DEF StreamSocket
    <3>5. stream' = [stream EXCEPT ![s] = [stream[s] EXCEPT !.conn = k, !.connected = TRUE]]
      BY <1>1, <1>4, <2>1, <3>3 DEF StreamConnect
    <3>6. stream' \in [Streams -> StreamSocket]
      BY <1>1, <3>4, <3>5, StreamTyped
    <3>7. PICK m : m = Connect(net, Server)
      OBVIOUS
    <3>8. m \in Stack /\ Joined(m, peer) /\ m.rx = net.rx /\ m.queue = net.queue
      BY <1>1, <3>1, <3>7, ConnectStep
    <3>9. Waiting(m, got, number)
      BY <1>1, <3>8, WaitSame
    <3> QED BY <1>1, <3>1, <3>6, <3>7, <3>8, <3>9, StackStep
  <2>2. CASE FreeConn(net) = {}
    <3>1. net' = net /\ dgram' = dgram /\ UNCHANGED <<peer, number, got>>
      BY <1>4, <2>2 DEF StreamConnect
    <3>2. [stream[s] EXCEPT !.conn = 0] \in StreamSocket
      BY <1>2 DEF StreamSocket
    <3>3. stream' = [stream EXCEPT ![s] = [stream[s] EXCEPT !.conn = 0]]
      BY <1>4, <2>2 DEF StreamConnect
    <3>4. stream' \in [Streams -> StreamSocket]
      BY <1>1, <3>2, <3>3, StreamTyped
    <3> QED BY <1>1, <3>1, <3>4, StackStep
  <2> QED BY <2>1, <2>2
<1>5. CASE StreamListen(s)
  <2>1. net' = ListenNet /\ dgram' = dgram /\ UNCHANGED <<peer, number, got>>
    BY <1>5 DEF StreamListen
  <2>2. PICK k \in 0 .. MaxConns, m \in Stack :
            k = ListenConn /\ m = ListenNet /\ Joined(m, peer) /\ Waiting(m, got, number)
    BY ListenNetStep
  <2>3. PICK l \in BOOLEAN : l = (stream[s].listening \/ k # 0)
    <3>1. (stream[s].listening \/ k # 0) \in BOOLEAN
      BY Zenon
    <3> QED BY <3>1, Zenon
  <2>4. [stream[s] EXCEPT !.conn = k, !.listening = l] \in StreamSocket
    BY <1>2 DEF StreamSocket
  <2>5. stream' = [stream EXCEPT ![s] = [stream[s] EXCEPT !.conn = k, !.listening = l]]
    <3>1. stream' = [stream EXCEPT ![s].conn = k, ![s].listening = stream[s].listening \/ k # 0]
      BY <1>5, <2>2 DEF StreamListen
    <3>2. stream' = [stream EXCEPT ![s].conn = k, ![s].listening = l]
      BY <2>3, <3>1, Zenon
    <3> QED BY <1>1, <3>2
  <2>6. stream' \in [Streams -> StreamSocket]
    BY <1>1, <2>4, <2>5, StreamTyped
  <2> QED BY <1>1, <2>1, <2>2, <2>6, StackStep
<1>6. CASE StreamSend(s)
  <2>1. /\ stream[s].conn # 0 /\ net.conn[stream[s].conn].state = "Established"
        /\ net' = SendData(net, stream[s].conn)
        /\ stream' = stream /\ dgram' = dgram /\ UNCHANGED <<peer, number, got>>
    BY <1>6 DEF StreamSend
  <2>2. PICK i \in Conns : i = stream[s].conn
    BY <1>2, <2>1
  <2>3. PICK m : i = stream[s].conn /\ m = SendData(net, i)
    BY <2>2
  <2>4. m \in Stack /\ Joined(m, peer) /\ m.rx = net.rx /\ m.queue = net.queue
    BY <1>1, <2>1, <2>3, SendDataStep
  <2>5. Waiting(m, got, number)
    BY <1>1, <2>4, WaitSame
  <2> QED BY <1>1, <2>1, <2>3, <2>4, <2>5, StackStep
<1>7. ASSUME net' = IF stream[s].conn = 0 THEN net ELSE Close(net, stream[s].conn)
      PROVE  net' \in Stack /\ Joined(net', peer) /\ Waiting(net', got, number)
  <2>1. CASE stream[s].conn = 0
    BY <1>1, <1>7, <2>1
  <2>2. CASE stream[s].conn # 0
    <3>1. PICK i \in Conns : i = stream[s].conn
      BY <1>2, <2>2
    <3>2. PICK m : i = stream[s].conn /\ m = Close(net, i)
      BY <3>1
    <3>3. m \in Stack /\ Joined(m, peer) /\ m.rx = net.rx /\ m.queue = net.queue
      BY <1>1, <3>2, CloseStep
    <3>4. Waiting(m, got, number)
      BY <1>1, <3>3, WaitSame
    <3> QED BY <1>7, <2>2, <3>2, <3>3, <3>4
  <2> QED BY <2>1, <2>2
<1>8. CASE StreamShutdown(s)
  <2>1. /\ net' = IF stream[s].conn = 0 THEN net ELSE Close(net, stream[s].conn)
        /\ dgram' = dgram /\ UNCHANGED <<peer, number, got>>
    BY <1>8 DEF StreamShutdown
  <2>2. [stream[s] EXCEPT !.conn = 0, !.connected = FALSE] \in StreamSocket
    <3>1. 0 \in 0 .. MaxConns
      OBVIOUS
    <3> QED BY <1>2, <3>1 DEF StreamSocket
  <2>3. stream' = [stream EXCEPT ![s] = [stream[s] EXCEPT !.conn = 0, !.connected = FALSE]]
    BY <1>1, <1>8 DEF StreamShutdown
  <2>4. stream' \in [Streams -> StreamSocket]
    BY <1>1, <2>2, <2>3, StreamTyped
  <2>5. net' \in Stack /\ Joined(net', peer) /\ Waiting(net', got, number)
    BY <1>7, <2>1
  <2> QED BY <1>1, <2>1, <2>4, <2>5, StackStep
<1>9. CASE StreamClose(s)
  <2>1. /\ net' = IF stream[s].conn = 0 THEN net ELSE Close(net, stream[s].conn)
        /\ dgram' = dgram /\ UNCHANGED <<peer, number, got>> /\ stream' = [stream EXCEPT ![s] = NewStream]
    BY <1>9 DEF StreamClose
  <2>2. stream' \in [Streams -> StreamSocket]
    BY <1>1, <2>1, NewTyped, StreamTyped
  <2>3. net' \in Stack /\ Joined(net', peer) /\ Waiting(net', got, number)
    BY <1>7, <2>1
  <2> QED BY <1>1, <2>1, <2>2, <2>3, StackStep
<1> QED BY <1>3, <1>4, <1>5, <1>6, <1>8, <1>9

LEMMA AcceptStep ==
  ASSUME Now, NEW s \in Streams, NEW new \in Streams, StreamAccept(s, new)
  PROVE  Then
<1>1. /\ net \in Stack /\ stream \in [Streams -> StreamSocket]
      /\ dgram \in [Datagrams -> DatagramSocket]
  BY DEF Now, Good
<1>2. PICK k \in 0 .. MaxConns, m \in Stack :
          k = ListenConn /\ m = ListenNet /\ Joined(m, peer) /\ Waiting(m, got, number)
  BY ListenNetStep
<1>3. /\ net' = m /\ dgram' = dgram /\ UNCHANGED <<peer, number, got>>
      /\ stream' = Accepted(s, new) /\ new # s
  BY <1>2 DEF StreamAccept
<1>4. PICK t \in StreamSocket : t = [bound |-> TRUE, connected |-> TRUE, listening |-> FALSE,
                                     conn |-> stream[s].conn]
  <2>1. stream[s] \in StreamSocket /\ stream[s].conn \in 0 .. MaxConns
    BY <1>1 DEF StreamSocket
  <2> QED BY <2>1 DEF StreamSocket
<1>5. PICK v \in [Streams -> StreamSocket] : v = [stream EXCEPT ![new] = t]
  BY <1>1, StreamTyped
<1>6. [v[s] EXCEPT !.conn = k] \in StreamSocket
  <2>1. v[s] \in StreamSocket
    BY <1>5
  <2> QED BY <2>1 DEF StreamSocket
<1>7. stream' = [v EXCEPT ![s] = [v[s] EXCEPT !.conn = k]]
  <2>1. stream' = [stream EXCEPT ![new] = t, ![s].conn = k]
    BY <1>2, <1>3, <1>4 DEF Accepted
  <2> QED BY <1>1, <1>3, <1>5, <2>1
<1>8. stream' \in [Streams -> StreamSocket]
  BY <1>5, <1>6, <1>7, StreamTyped
<1> QED BY <1>1, <1>2, <1>3, <1>8, StackStep

\* sendto and udp: a datagram leaves.
LEMMA SendDatagramStep ==
  ASSUME NEW n \in Stack, NEW p \in [Ephemeral -> Peer], Joined(n, p),
         NEW m, m = SendDatagram(n, Server) \/ m = SendICMP(n, Server)
  PROVE  m \in Stack /\ Joined(m, p) /\ m.rx = n.rx /\ m.queue = n.queue
<1>1. "udp" \in Kinds /\ "echo" \in Kinds
  BY DEF Kinds
<1>2. CASE m = SendDatagram(n, Server)
  <2>1. m \in {SendPacket(n, Plain("udp", Server)), Transmit(n, Plain("udp", Server))}
    BY <1>2 DEF SendDatagram
  <2> QED BY <1>1, <2>1, ServerAddress, PlainStep
<1>3. CASE m = SendICMP(n, Server)
  <2>1. m \in {SendPacket(n, Plain("echo", Server)), Transmit(n, Plain("echo", Server))}
    BY <1>3 DEF SendICMP
  <2> QED BY <1>1, <2>1, ServerAddress, PlainStep
<1> QED BY <1>2, <1>3

LEMMA DatagramSteps ==
  ASSUME Now, NEW d \in Datagrams,
         \/ DatagramBind(d) \/ DatagramConnect(d) \/ SendTo(d) \/ RecvFrom(d) \/ DatagramClose(d)
  PROVE  Then
<1>1. /\ net \in Stack /\ peer \in [Ephemeral -> Peer] /\ Joined(net, peer)
      /\ Waiting(net, got, number) /\ stream \in [Streams -> StreamSocket]
      /\ dgram \in [Datagrams -> DatagramSocket] /\ got \in Nat /\ number \in Nat
  BY DEF Now, Good
<1>2. dgram[d] \in DatagramSocket /\ (dgram[d].binding # NoPort => dgram[d].binding \in UdpPorts)
  BY <1>1 DEF DatagramSocket
<1>3. \A b \in UdpPorts \cup {NoPort} : [bound |-> TRUE, binding |-> b] \in DatagramSocket
  BY DEF DatagramSocket
<1>4. 0 \in UdpPorts /\ Port \in UdpPorts
  OBVIOUS
<1>5. ASSUME NEW b \in UdpPorts, NEW m, m = Bind(net, b) \/ m = net
      PROVE  m \in Stack /\ Joined(m, peer) /\ Waiting(m, got, number)
  <2>1. CASE m = net
    BY <1>1, <2>1
  <2>2. CASE m = Bind(net, b)
    <3>1. m \in Stack /\ Joined(m, peer) /\ m.rx = net.rx /\ m.queue = net.queue
      BY <1>1, <2>2, BindEffect
    <3> QED BY <1>1, <3>1, WaitSame
  <2> QED BY <1>5, <2>1, <2>2
<1>6. CASE DatagramBind(d)
  <2>1. /\ net' = Bind(net, Port) /\ stream' = stream /\ UNCHANGED <<peer, number, got>>
        /\ dgram' = [dgram EXCEPT ![d] = [bound |-> TRUE, binding |-> Port]]
    BY <1>6 DEF DatagramBind
  <2>2. dgram' \in [Datagrams -> DatagramSocket]
    BY <1>1, <1>3, <1>4, <2>1, DatagramTyped
  <2>3. PICK m : m = Bind(net, Port)
    OBVIOUS
  <2>4. m \in Stack /\ Joined(m, peer) /\ Waiting(m, got, number)
    BY <1>4, <1>5, <2>3
  <2> QED BY <1>1, <2>1, <2>2, <2>3, <2>4, StackStep
<1>7. CASE DatagramConnect(d)
  <2>1. PICK b \in UdpPorts \cup {NoPort} : b = IF CanBind(net, 0) THEN 0 ELSE NoPort
    BY <1>4
  <2>2. /\ net' = IF CanBind(net, 0) THEN Bind(net, 0) ELSE net
        /\ stream' = stream /\ UNCHANGED <<peer, number, got>>
        /\ dgram' = [dgram EXCEPT ![d] = [bound |-> TRUE, binding |-> b]]
    BY <1>7, <2>1 DEF DatagramConnect
  <2>3. dgram' \in [Datagrams -> DatagramSocket]
    BY <1>1, <1>3, <2>2, DatagramTyped
  <2>4. PICK m : m = net' /\ (m = Bind(net, 0) \/ m = net)
    BY <2>2
  <2>5. m \in Stack /\ Joined(m, peer) /\ Waiting(m, got, number)
    BY <1>4, <1>5, <2>4
  <2> QED BY <1>1, <2>2, <2>3, <2>4, <2>5, StackStep
<1>8. CASE SendTo(d)
  <2>1. PICK x : x = IF SendToBinds(d) THEN Bind(net, 0) ELSE net
    OBVIOUS
  <2>2. x = Bind(net, 0) \/ x = net
    BY <2>1
  <2>3. x \in Stack /\ Joined(x, peer) /\ Waiting(x, got, number)
    BY <1>4, <1>5, <2>2
  <2>4. PICK m : m = SendDatagram(x, Server)
    OBVIOUS
  <2>5. /\ net' = m /\ stream' = stream /\ UNCHANGED <<peer, number, got>>
        /\ dgram' = IF SendToBinds(d) THEN [dgram EXCEPT ![d] = [bound |-> TRUE, binding |-> 0]]
                    ELSE dgram
    BY <1>8, <2>1, <2>4 DEF SendTo
  <2>6. dgram' \in [Datagrams -> DatagramSocket]
    <3>1. CASE SendToBinds(d)
      BY <1>1, <1>3, <1>4, <2>5, <3>1, DatagramTyped
    <3>2. CASE ~ SendToBinds(d)
      BY <1>1, <2>5, <3>2
    <3> QED BY <3>1, <3>2
  <2>7. m \in Stack /\ Joined(m, peer) /\ m.rx = x.rx /\ m.queue = x.queue
    BY <1>1, <2>3, <2>4, SendDatagramStep
  <2>8. Waiting(m, got, number)
    BY <2>3, <2>7, WaitSame
  <2> QED BY <1>1, <2>5, <2>6, <2>7, <2>8, StackStep
<1>9. CASE RecvFrom(d)
  <2>1. /\ dgram[d].binding # NoPort /\ net.queue[dgram[d].binding] # <<>>
        /\ got' = Head(net.queue[dgram[d].binding])
        /\ net' = Receive(net, dgram[d].binding)
        /\ stream' = stream /\ dgram' = dgram /\ UNCHANGED <<peer, number>>
    BY <1>9 DEF RecvFrom
  <2>2. PICK b \in UdpPorts : b = dgram[d].binding
    BY <1>2, <2>1
  <2>3. PICK m : m = Receive(net, b)
    OBVIOUS
  <2>4. /\ m \in Stack /\ m.rx = net.rx /\ m.tx = net.tx /\ m.conn = net.conn
        /\ m.nextPort = net.nextPort /\ m.lost = net.lost
        /\ Head(net.queue[b]) \in Nat /\ Waiting(m, Head(net.queue[b]), number)
    BY <1>1, <2>1, <2>2, <2>3, WaitRead
  <2>5. Segs(m.rx) = Segs(net.rx)
    BY <2>4
  <2>6. Joined(m, peer)
    BY <1>1, <2>4, <2>5, SameWire
  <2>7. net' = m /\ got' = Head(net.queue[b])
    BY <2>1, <2>2, <2>3
  <2> QED BY <1>1, <2>1, <2>4, <2>6, <2>7 DEF Then, Good
<1>10. CASE DatagramClose(d)
  <2>1. /\ net' = IF dgram[d].binding = NoPort THEN net ELSE Unbind(net, dgram[d].binding)
        /\ stream' = stream /\ UNCHANGED <<peer, number, got>>
        /\ dgram' = [dgram EXCEPT ![d] = NewDatagram]
    BY <1>10 DEF DatagramClose
  <2>2. dgram' \in [Datagrams -> DatagramSocket]
    BY <1>1, <2>1, NewTyped, DatagramTyped
  <2>3. CASE dgram[d].binding = NoPort
    BY <1>1, <2>1, <2>2, <2>3, StackStep
  <2>4. CASE dgram[d].binding # NoPort
    <3>1. PICK b \in UdpPorts : b = dgram[d].binding
      BY <1>2, <2>4
    <3>2. PICK m : m = Unbind(net, b)
      OBVIOUS
    <3>3. /\ m \in Stack /\ m.rx = net.rx /\ m.tx = net.tx /\ m.conn = net.conn
          /\ m.nextPort = net.nextPort /\ m.lost = net.lost /\ Waiting(m, got, number)
      BY <1>1, <3>1, <3>2, WaitUnbind
    <3>4. Segs(m.rx) = Segs(net.rx)
      BY <3>3
    <3>5. Joined(m, peer)
      BY <1>1, <3>3, <3>4, SameWire
    <3> QED BY <1>1, <2>1, <2>2, <2>4, <3>1, <3>2, <3>3, <3>5, StackStep
  <2> QED BY <2>3, <2>4
<1> QED BY <1>6, <1>7, <1>8, <1>9, <1>10

LEMMA ShellSteps ==
  ASSUME Now, Ping \/ Udp
  PROVE  Then
<1>1. /\ net \in Stack /\ peer \in [Ephemeral -> Peer] /\ Joined(net, peer)
      /\ Waiting(net, got, number) /\ stream \in [Streams -> StreamSocket]
      /\ dgram \in [Datagrams -> DatagramSocket]
  BY DEF Now, Good
<1>2. /\ net' = SendICMP(net, Server) \/ net' = SendDatagram(net, Server)
      /\ stream' = stream /\ dgram' = dgram /\ UNCHANGED <<peer, number, got>>
  BY DEF Ping, Udp
<1>3. PICK m : net' = m /\ (m = SendDatagram(net, Server) \/ m = SendICMP(net, Server))
  BY <1>2
<1>4. m \in Stack /\ Joined(m, peer) /\ m.rx = net.rx /\ m.queue = net.queue
  BY <1>1, <1>3, SendDatagramStep
<1>5. Waiting(m, got, number)
  BY <1>1, <1>4, WaitSame
<1> QED BY <1>1, <1>2, <1>3, <1>4, <1>5, StackStep

LEMMA PollSteps ==
  ASSUME Now, Poll
  PROVE  Then
<1>1. /\ net \in Stack /\ peer \in [Ephemeral -> Peer] /\ Joined(net, peer)
      /\ Waiting(net, got, number) /\ stream \in [Streams -> StreamSocket]
      /\ dgram \in [Datagrams -> DatagramSocket] /\ got \in Nat /\ number \in Nat
  BY DEF Now, Good
<1>2. CASE PollBegin \/ PollEnd
  <2>1. net' = net /\ stream' = stream /\ dgram' = dgram /\ UNCHANGED <<peer, number, got>>
    BY <1>2 DEF PollBegin, PollEnd
  <2> QED BY <1>1, <2>1, StackStep
<1>3. CASE PollStep
  <2>1. /\ net.rx # <<>> /\ net' = PollFrame(net, Port)
        /\ stream' = stream /\ dgram' = dgram /\ UNCHANGED <<peer, number, got>>
    BY <1>3 DEF PollStep
  <2>2. PICK m : m = PollFrame(net, Port)
    OBVIOUS
  <2>3. /\ m \in Stack /\ Joined(m, peer) /\ m.rx = Tail(net.rx)
        /\ \/ m.queue = net.queue
           \/ /\ Head(net.rx).kind = "udp"
              /\ m.queue = Queued(net, Head(net.rx))
    BY <1>1, <2>1, <2>2, PollFrameStep
  <2>4. Waiting(m, got, number)
    BY <1>1, <2>1, <2>3, WaitPolled
  <2> QED BY <1>1, <2>1, <2>2, <2>3, <2>4, StackStep
<1> QED BY <1>2, <1>3 DEF Poll

LEMMA CardSteps ==
  ASSUME Now, CardSends
  PROVE  Then
<1>1. /\ net \in Stack /\ peer \in [Ephemeral -> Peer] /\ Joined(net, peer)
      /\ Waiting(net, got, number) /\ stream \in [Streams -> StreamSocket]
      /\ dgram \in [Datagrams -> DatagramSocket] /\ got \in Nat /\ number \in Nat
  BY DEF Now, Good
<1>2. net.tx # <<>>
  <2>1. CardSees(net) > 0 /\ TxCount \in Nat \ {0}
    BY DEF CardSends
  <2>2. net.tx = <<>> => CardSees(net) = 0
    <3>1. Len(<<>>) = 0 /\ 0 % TxCount = 0
      BY <2>1
    <3> QED BY <3>1 DEF CardSees
  <2> QED BY <2>1, <2>2
<1>3. PICK f, x : f = Head(net.tx) /\ x = [net EXCEPT !.tx = Tail(net.tx)]
  OBVIOUS
<1>4. PICK m, p2 :
          /\ m = IF Answer(f) = {} THEN x ELSE Arrive(x, CHOOSE a \in Answer(f) : TRUE)
          /\ p2 = IF Ours(f) THEN [peer EXCEPT ![f.port] = Heard(peer[f.port], f)] ELSE peer
  OBVIOUS
<1>5. /\ net' = m /\ peer' = p2
      /\ stream' = stream /\ dgram' = dgram /\ number' = number /\ got' = got
  BY <1>3, <1>4 DEF CardSends
<1>6. CardStep(net, x, f, m, peer, p2)
  BY <1>2, <1>3, <1>4 DEF CardStep, Leaves
<1>7. /\ m \in Stack /\ p2 \in [Ephemeral -> Peer] /\ Joined(m, p2)
      /\ m.queue = net.queue /\ Answers(net, m)
  BY <1>1, <1>6, CardStepJoined
<1>8. Waiting(m, got, number)
  <2>1. CASE m.rx = net.rx
    BY <1>1, <1>7, <2>1, WaitSame
  <2>2. CASE m.rx # net.rx
    <3>1. PICK a \in Frame : a.kind # "udp" /\ m.rx = Append(net.rx, a)
      BY <1>7, <2>2 DEF Answers
    <3> QED BY <1>1, <1>7, <3>1, WaitArrives
  <2> QED BY <2>1, <2>2
<1> QED BY <1>1, <1>5, <1>7, <1>8 DEF Then, Good

\* What the server sends of itself is a frame.
LEMMA HostFrames ==
  /\ \A q \in Ephemeral \cup {0}, flags \in SUBSET {"SYN", "ACK", "PSH", "FIN"} :
         [kind |-> "tcp", host |-> Server, port |-> q, flags |-> flags] \in Frame
  /\ \A k \in Nat : [kind |-> "udp", host |-> Server, port |-> k, flags |-> {}] \in Frame
<1>1. Server \in Addresses /\ "tcp" \in Kinds /\ "udp" \in Kinds
  BY ServerAddress DEF Kinds
<1>2. Ephemeral \cup {0} \subseteq Nat
  BY DEF Ephemeral
<1> QED BY <1>1, <1>2 DEF Frame

LEMMA ServerSteps ==
  ASSUME Now, NEW q \in Ephemeral, ServerSends(q) \/ ServerCloses(q)
  PROVE  Then
<1>1. /\ net \in Stack /\ peer \in [Ephemeral -> Peer] /\ Joined(net, peer)
      /\ Waiting(net, got, number) /\ stream \in [Streams -> StreamSocket]
      /\ dgram \in [Datagrams -> DatagramSocket] /\ got \in Nat /\ number \in Nat
  BY DEF Now, Good
<1>2. PICK a \in Frame, p2 \in {peer, [peer EXCEPT ![q].closed = TRUE]} :
          /\ a.kind = "tcp" /\ a.port = q /\ a.host = Server /\ "ACK" \in a.flags
          /\ \/ "FIN" \notin a.flags /\ p2 = peer
             \/ "FIN" \in a.flags /\ p2 = [peer EXCEPT ![q].closed = TRUE]
          /\ net' = Arrive(net, a) /\ peer' = p2
  <2>1. CASE ServerSends(q)
    <3>1. PICK a \in Frame : a = ServerSegment(q)
      BY HostFrames DEF ServerSegment
    <3>2. a.kind = "tcp" /\ a.port = q /\ a.host = Server /\ a.flags = {"PSH", "ACK"}
      BY <3>1 DEF ServerSegment
    <3> QED BY <2>1, <3>1, <3>2 DEF ServerSends, HostSends
  <2>2. CASE ServerCloses(q)
    <3>1. [ServerSegment(q) EXCEPT !.flags = {"FIN", "ACK"}]
              = [kind |-> "tcp", host |-> Server, port |-> q, flags |-> {"FIN", "ACK"}]
      BY DEF ServerSegment
    <3>2. PICK a \in Frame : a = [ServerSegment(q) EXCEPT !.flags = {"FIN", "ACK"}]
      BY <3>1, HostFrames
    <3>3. a.kind = "tcp" /\ a.port = q /\ a.host = Server /\ a.flags = {"FIN", "ACK"}
      BY <3>1, <3>2
    <3> QED BY <2>2, <3>2, <3>3 DEF ServerCloses, HostSends
  <2> QED BY <2>1, <2>2
<1>3. PICK m : m = Arrive(net, a)
  OBVIOUS
<1>4. /\ peer[q].state = "established"
      /\ stream' = stream /\ dgram' = dgram /\ number' = number /\ got' = got
  BY DEF ServerSends, ServerCloses
<1>5. m \in Stack /\ Arrives(net, m, a)
  BY <1>1, <1>3, ArrivesStep
<1>6. ServerSays(net, m, peer, p2, q, a)
  BY <1>2, <1>4, <1>5 DEF ServerSays
<1>7. p2 \in [Ephemeral -> Peer] /\ Joined(m, p2)
  BY <1>1, <1>5, <1>6, ServerSaysStep
<1>8. Waiting(m, got, number)
  <2>1. CASE m.rx = net.rx
    BY <1>1, <1>5, <2>1, WaitSame DEF Arrives
  <2>2. CASE m.rx = Append(net.rx, a)
    <3>1. a.kind # "udp" /\ m.queue = net.queue
      BY <1>2, <1>5 DEF Arrives
    <3> QED BY <1>1, <2>2, <3>1, WaitArrives
  <2> QED BY <1>5, <2>1, <2>2 DEF Arrives
<1> QED BY <1>1, <1>2, <1>3, <1>4, <1>5, <1>7, <1>8 DEF Then, Good

\* A frame that is no segment of ours: a call to our servers, ARP, ping.
LEMMA FrameArrives ==
  ASSUME Now, NEW a \in Frame, ~ IsSegment(a), a.kind # "udp", net' = Arrive(net, a),
         stream' = stream, dgram' = dgram, UNCHANGED <<peer, number, got>>
  PROVE  Then
<1>1. /\ net \in Stack /\ peer \in [Ephemeral -> Peer] /\ Joined(net, peer)
      /\ Waiting(net, got, number) /\ stream \in [Streams -> StreamSocket]
      /\ dgram \in [Datagrams -> DatagramSocket] /\ got \in Nat /\ number \in Nat
  BY DEF Now, Good
<1>2. PICK m : m = Arrive(net, a)
  OBVIOUS
<1>3. m \in Stack /\ Arrives(net, m, a)
  BY <1>1, <1>2, ArrivesStep
<1>4. Joined(m, peer)
  BY <1>1, <1>3, PlainArrives
<1>5. Waiting(m, got, number)
  <2>1. CASE m.rx = net.rx
    BY <1>1, <1>3, <2>1, WaitSame DEF Arrives
  <2>2. CASE m.rx = Append(net.rx, a)
    <3>1. m.queue = net.queue
      BY <1>3 DEF Arrives
    <3> QED BY <1>1, <2>2, <3>1, WaitArrives
  <2> QED BY <1>3, <2>1, <2>2 DEF Arrives
<1>6. stream' \in [Streams -> StreamSocket] /\ dgram' \in [Datagrams -> DatagramSocket] /\ net' = m
  BY <1>1, <1>2
<1> QED BY <1>3, <1>4, <1>5, <1>6, StackStep

LEMMA CallSteps ==
  ASSUME Now, ServerCalls \/ \E h \in Hosts, kind \in {"request", "echo"} : HostAsks(h, kind)
  PROVE  Then
<1>1. CASE ServerCalls
  <2>1. [ServerSegment(ListenPort) EXCEPT !.flags = {"SYN"}]
            = [kind |-> "tcp", host |-> Server, port |-> 0, flags |-> {"SYN"}]
    BY SMTT(30) DEF ServerSegment, ListenPort
  <2>2. PICK a \in Frame : a = [ServerSegment(ListenPort) EXCEPT !.flags = {"SYN"}]
    BY <2>1, HostFrames
  <2>3. a.port = 0 /\ a.kind = "tcp"
    BY <2>1, <2>2
  <2>4. ~ IsSegment(a)
    BY <2>3 DEF IsSegment
  <2>5. net' = Arrive(net, a) /\ stream' = stream /\ dgram' = dgram /\ UNCHANGED <<peer, number, got>>
    BY <1>1, <2>2 DEF ServerCalls, HostSends
  <2> QED BY <2>3, <2>4, <2>5, FrameArrives
<1>2. CASE \E h \in Hosts, kind \in {"request", "echo"} : HostAsks(h, kind)
  <2>1. PICK h \in Hosts, kind \in {"request", "echo"} : HostAsks(h, kind)
    BY <1>2
  <2>2. h \in Addresses /\ kind \in Kinds /\ kind # "udp"
    BY DEF Addresses, Kinds
  <2>3. PICK a \in Frame : a = Plain(kind, h) /\ ~ IsSegment(a)
    BY <2>2, FrameTyped
  <2>4. a.kind # "udp"
    BY <2>2, <2>3 DEF Plain
  <2>5. net' = Arrive(net, a) /\ stream' = stream /\ dgram' = dgram /\ UNCHANGED <<peer, number, got>>
    BY <2>1, <2>3 DEF HostAsks, HostSends
  <2> QED BY <2>3, <2>4, <2>5, FrameArrives
<1> QED BY <1>1, <1>2

LEMMA DatagramArrives ==
  ASSUME Now, ServerDatagram
  PROVE  Then
<1>1. /\ net \in Stack /\ peer \in [Ephemeral -> Peer] /\ Joined(net, peer)
      /\ Waiting(net, got, number) /\ stream \in [Streams -> StreamSocket]
      /\ dgram \in [Datagrams -> DatagramSocket] /\ got \in Nat /\ number \in Nat
  BY DEF Now, Good
<1>2. PICK k \in Nat, sent \in Nat, last \in Nat : sent = number /\ k = sent + 1 /\ last = got
  BY <1>1
<1>3. [Plain("udp", Server) EXCEPT !.port = k]
          = [kind |-> "udp", host |-> Server, port |-> k, flags |-> {}]
  BY DEF Plain
<1>4. PICK a \in Frame : a = [Plain("udp", Server) EXCEPT !.port = k]
  BY <1>3, HostFrames
<1>5. a.kind = "udp" /\ a.port = k
  BY <1>3, <1>4
<1>6. ~ IsSegment(a)
  BY <1>5 DEF IsSegment
<1>7. /\ net' = Arrive(net, a) /\ number' = k
      /\ stream' = stream /\ dgram' = dgram /\ UNCHANGED <<peer, got>>
  BY <1>2, <1>4 DEF ServerDatagram, HostSends
<1>8. PICK m : m = Arrive(net, a)
  OBVIOUS
<1>9. m \in Stack /\ Arrives(net, m, a)
  BY <1>1, <1>8, ArrivesStep
<1>10. Joined(m, peer)
  BY <1>1, <1>6, <1>9, PlainArrives
<1>11. Waiting(net, last, sent)
  BY <1>1, <1>2
<1>12. Waiting(m, last, k)
  <2>1. CASE m.rx = net.rx
    <3>1. m.queue = net.queue
      BY <1>9 DEF Arrives
    <3>2. Waiting(m, last, sent + 1)
      BY <1>11, <2>1, <3>1, WaitLost
    <3> QED BY <1>2, <3>2
  <2>2. CASE m.rx = Append(net.rx, a)
    <3>1. m.queue = net.queue /\ a.port = sent + 1 /\ k = sent + 1
      BY <1>2, <1>5, <1>9 DEF Arrives
    <3> QED BY <1>1, <1>5, <1>11, <2>2, <3>1, WaitArrives
  <2> QED BY <1>9, <2>1, <2>2 DEF Arrives
<1>13. net' = m /\ got' = last /\ peer' = peer
  BY <1>2, <1>7, <1>8
<1> QED BY <1>1, <1>7, <1>9, <1>10, <1>12, <1>13 DEF Then, Good

-----------------------------------------------------------------------------
(* The invariant holds at first and is kept by every step *)

LEMMA Initially == Init => IInv
<1> SUFFICES ASSUME Init PROVE IInv
  OBVIOUS
<1>1. /\ net.rx = <<>> /\ net.tx = <<>> /\ net.lost = {} /\ net.nextPort = 1 /\ net.bound = {}
      /\ net.arp = [i \in 1 .. ArpSize |-> Nobody]
      /\ net.conn = [i \in Conns |-> NoConn] /\ net.queue = [p \in UdpPorts |-> <<>>]
      /\ net = NewStack
  BY DEF Init, NewStack
<1>2. net \in Stack
  <2>1. <<>> \in Seq(Frame) /\ <<>> \in Seq(Nat) /\ Nobody \in Addresses /\ NoConn \in Connection
    BY NoConnTyped DEF Addresses
  <2>2. 1 \in 1 .. MaxPorts + 1
    OBVIOUS
  <2>3. [i \in Conns |-> NoConn] \in [Conns -> Connection]
    BY <2>1
  <2> QED BY <1>1, <2>1, <2>2, <2>3 DEF NewStack, Stack
<1>3. /\ peer \in [Ephemeral -> Peer]
      /\ \A q \in Ephemeral : peer[q].state = "none" /\ ~ peer[q].closed /\ ~ peer[q].heard
  BY DEF Init, Peer
<1>4. Segs(net.rx) = {} /\ Segs(net.tx) = {} /\ Opened(net) = {}
  <2>1. Opened(net) = {}
    BY <1>1, NoConnTyped DEF Opened
  <2> QED BY <1>1, <2>1, SegsEmpty
<1>5. Joined(net, peer)
  BY <1>3, <1>4 DEF Joined, Ports, Sending, Arriving, Agreed, UnderWay
<1>6. Waiting(net, got, number)
  <2>1. got = 0 /\ number = 0 /\ \A p \in UdpPorts : net.queue[p] = <<>>
    BY <1>1 DEF Init
  <2>2. DOMAIN net.queue[Port] = {} /\ DOMAIN net.rx = {}
    BY <1>1, <2>1
  <2> QED BY <2>1, <2>2 DEF Waiting
<1>7. TypeOK
  <2>1. stream \in [Streams -> StreamSocket] /\ dgram \in [Datagrams -> DatagramSocket]
    BY NewTyped DEF Init
  <2>2. number \in Nat /\ got \in Nat
    BY DEF Init
  <2> QED BY <1>2, <1>3, <2>1, <2>2 DEF TypeOK
<1> QED BY <1>5, <1>6, <1>7 DEF IInv

LEMMA ThenInvariant == Then => IInv'
<1> SUFFICES ASSUME Then PROVE IInv'
  OBVIOUS
<1>1. TypeOK'
  BY DEF Then, Good, TypeOK
<1>2. Joined(net, peer)'
  <2>1. Joined(net', peer')
    BY DEF Then, Good
  <2> QED BY <2>1 DEF Joined, Ports, Sending, Arriving, Agreed, UnderWay, Waits, HasConn, Opened, Segs, IsSegment, Range
<1>3. Waiting(net, got, number)'
  <2>1. Waiting(net', got', number')
    BY DEF Then, Good
  <2> QED BY <2>1 DEF Waiting
<1> QED BY <1>1, <1>2, <1>3 DEF IInv

LEMMA Consecution == IInv /\ [Next]_vars => IInv'
<1> SUFFICES ASSUME IInv, [Next]_vars PROVE Then
  BY ThenInvariant
<1>1. Now
  BY DEF IInv, TypeOK, Now, Good
<1>2. CASE Programs
  BY <1>1, <1>2, StreamSteps, AcceptStep, DatagramSteps, ShellSteps DEF Programs
<1>3. CASE Poll
  BY <1>1, <1>3, PollSteps
<1>4. CASE CardSends
  BY <1>1, <1>4, CardSteps
<1>5. CASE Others
  <2>1. CASE \E q \in Ephemeral : ServerSends(q) \/ ServerCloses(q)
    BY <1>1, <2>1, ServerSteps
  <2>2. CASE ServerDatagram
    BY <1>1, <2>2, DatagramArrives
  <2>3. CASE ServerCalls \/ \E h \in Hosts, kind \in {"request", "echo"} : HostAsks(h, kind)
    BY <1>1, <2>3, CallSteps
  <2> QED BY <1>5, <2>1, <2>2, <2>3 DEF Others
<1>6. CASE UNCHANGED vars
  BY <1>1, <1>6 DEF vars, Now, Then, Good
<1> QED BY <1>2, <1>3, <1>4, <1>5, <1>6 DEF Next

-----------------------------------------------------------------------------
(* What follows from it *)

LEMMA JoinedAgree == IInv => EndsAgree
<1> SUFFICES ASSUME IInv PROVE EndsAgree
  OBVIOUS
<1>1. net \in Stack /\ peer \in [Ephemeral -> Peer] /\ Joined(net, peer)
  BY DEF IInv, TypeOK
<1>2. ASSUME NEW i \in Conns, net.conn[i].port \in Ephemeral
      PROVE  /\ net.conn[i].state # "SynSent" => peer[net.conn[i].port].state # "none"
             /\ net.conn[i].state \in {"CloseWait", "LastAck", "TimeWait", "Closing", "Closed"} =>
                    peer[net.conn[i].port].closed
             /\ net.conn[i].state \in {"SynSent", "Established", "CloseWait"} =>
                    ~ peer[net.conn[i].port].heard
  <2>1. i \in Opened(net)
    BY <1>2 DEF Opened, Ephemeral
  <2>2. PICK q \in Nat : q = net.conn[i].port
    BY <1>2 DEF Ephemeral
  <2>3. /\ net.conn[i].state \in {"SynSent"} \cup Beyond
        /\ peer[q].heard => net.conn[i].state \in Ended
        /\ net.conn[i].state # "SynSent" => peer[q].state # "none"
        /\ net.conn[i].state \in Both => peer[q].closed
    BY <1>1, <2>1, <2>2, ConnFacts
  <2> QED BY <2>2, <2>3 DEF Beyond, Both, Ended
<1>3. ASSUME NEW q \in Ephemeral, peer[q].state = "established"
      PROVE  \E i \in Conns : net.conn[i].port = q /\ net.conn[i].state # "SynSent"
  <2>1. HasConn(net, q, Beyond)
    BY <1>1, <1>3 DEF Joined, Agreed
  <2>2. "SynSent" \notin Beyond
    BY DEF Beyond, Both, Ended
  <2> QED BY <2>1, <2>2 DEF HasConn, Opened
<1> QED BY <1>2, <1>3 DEF EndsAgree

LEMMA WaitingInOrder == IInv => DatagramsInOrder
<1> SUFFICES ASSUME IInv, NEW p \in UdpPorts, NEW i \in DOMAIN net.queue[p]
             PROVE  net.queue[p][i] > IF i = 1 THEN got ELSE net.queue[p][i - 1]
  BY DEF DatagramsInOrder
<1>1. net \in Stack /\ got \in Nat /\ number \in Nat /\ Waiting(net, got, number)
  BY DEF IInv, TypeOK
<1>2. p = Port
  BY <1>1 DEF Waiting
<1>3. PICK k \in Nat : DOMAIN net.queue[Port] = 1 .. k
  <2>1. net.queue[Port] \in Seq(Nat)
    BY <1>1 DEF Stack
  <2> QED BY <2>1, LenProperties
<1>4. net.queue[Port][i] \in got + 1 .. number
  BY <1>1, <1>2 DEF Waiting
<1>5. CASE i = 1
  BY <1>1, <1>2, <1>4, <1>5
<1>6. CASE i # 1
  <2>1. i - 1 \in DOMAIN net.queue[Port] /\ i - 1 < i /\ i \in DOMAIN net.queue[Port]
    BY <1>2, <1>3, <1>6
  <2>2. net.queue[Port][i - 1] < net.queue[Port][i] /\ net.queue[Port][i - 1] \in got + 1 .. number
    BY <1>1, <2>1 DEF Waiting
  <2> QED BY <1>1, <1>2, <1>4, <1>6, <2>2
<1> QED BY <1>5, <1>6

LEMMA QuietSettles == IInv => SettledWhenQuiet
<1> SUFFICES ASSUME IInv, Quiet, NEW i \in Conns, net.conn[i].port \in Ephemeral \ net.lost
             PROVE  /\ net.conn[i].state # "SynSent"
                    /\ peer[net.conn[i].port].closed /\ peer[net.conn[i].port].heard =>
                           net.conn[i].state \in {"TimeWait", "Closed"}
  BY DEF SettledWhenQuiet
<1>1. net \in Stack /\ peer \in [Ephemeral -> Peer] /\ Joined(net, peer)
  BY DEF IInv, TypeOK
<1>2. Segs(net.rx) = {} /\ Segs(net.tx) = {}
  BY SegsEmpty DEF Quiet
<1>3. i \in Opened(net)
  BY DEF Opened, Ephemeral
<1>4. PICK q \in Nat : q = net.conn[i].port /\ q \notin net.lost
  BY DEF Ephemeral
<1>5. /\ net.conn[i].state \in {"SynSent"} \cup Beyond
      /\ peer[q].heard => net.conn[i].state \in Ended
  BY <1>1, <1>3, <1>4, ConnFacts
<1>6. Waits(net, peer, q, net.conn[i].state)
  BY <1>1, <1>3, <1>4 DEF Joined, UnderWay
<1>7. /\ net.conn[i].state # "SynSent"
      /\ peer[q].closed => net.conn[i].state \in Both
      /\ ~ (peer[q].heard /\ net.conn[i].state = "LastAck")
  BY <1>2, <1>6 DEF Waits
<1> QED BY <1>4, <1>5, <1>7 DEF Both, Ended

\* The invariant of the stack and its wire: what waits on the rings, what the
\* connections say, and what the server's ends know fit together in every
\* state that programs, poll, card and hosts reach.
THEOREM Invariance == Spec => []IInv
<1>1. Init => IInv
  BY Initially
<1>2. IInv /\ [Next]_vars => IInv'
  BY Consecution
<1> QED BY <1>1, <1>2, PTL DEF Spec

\* A connection opened here is beyond SYN-SENT only if the server answered,
\* says that the server closed only if it did, and takes data only while the
\* server heard no FIN; a connection the server established is never forgotten
\* by close, by accept or by a lost segment (TCP::processSegment, TCP::close).
THEOREM EndsAgreeCorrect == Spec => []EndsAgree
<1>1. IInv => EndsAgree
  BY JoinedAgree
<1> QED BY <1>1, Invariance, PTL

\* Datagrams are queued and read in the order in which they were sent, each
\* once, whatever the card dropped and whichever socket reads them
\* (UDP::receivePacket, UDP::receive).
THEOREM DatagramsInOrderCorrect == Spec => []DatagramsInOrder
<1>1. IInv => DatagramsInOrder
  BY WaitingInOrder
<1> QED BY <1>1, Invariance, PTL

\* When both rings are empty, a connection that lost no segment waits for
\* nobody: every answer that processSegment needs was given and delivered.
THEOREM SettledCorrect == Spec => []SettledWhenQuiet
<1>1. IInv => SettledWhenQuiet
  BY QuietSettles
<1> QED BY <1>1, Invariance, PTL
===============================================================================
