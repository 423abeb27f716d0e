------------------------------ MODULE NetStack ------------------------------
(***************************************************************************)
(* QNetwork on the E1000 card: the two rings, ARP, IP, UDP and TCP, as     *)
(* operations on one record.  A frame is its kind, the other host and,     *)
(* where there is one, the local port; a TCP segment is its flags, with    *)
(* PSH for a segment that carries data.  Sequence numbers are left out:    *)
(* processSegment stores them and compares none of them.  A ring is the    *)
(* list of the descriptors in use, the oldest first, which leaves out      *)
(* where in the ring they lie.                                             *)
(***************************************************************************)
EXTENDS Integers, Sequences, FiniteSetsExt, SequencesExt

CONSTANTS Hosts,       \* the hosts on the wire
          Gateway,     \* the one that IP::m_gateway names
          Remote,      \* hosts that are reached through the gateway
          RxCount,     \* RX_DESC_COUNT
          TxCount,     \* TX_DESC_COUNT
          ArpSize,     \* ARP_CACHE_SIZE
          MaxConns,    \* MAX_CONNECTIONS
          MaxPorts,    \* bound on the ephemeral ports handed out
          UdpPorts     \* the UDP ports programs bind, 0 among them

ASSUME NetStackAssumption ==
    /\ Gateway \in Hosts /\ Remote \cap Hosts = {}
    /\ {RxCount, TxCount, ArpSize, MaxConns, MaxPorts} \subseteq Nat \ {0}
    /\ 0 \in UdpPorts

Nobody == "nobody"       \* the zero address
Bogus == "0.0.x.y"       \* the address made of a port number
ListenPort == 0          \* the TCP port that servers listen on; others are ephemeral
Ephemeral == 1 .. MaxPorts
Plain(kind, host) == [kind |-> kind, host |-> host, port |-> 0, flags |-> {}]
Segment(conn, flags) == [kind |-> "tcp", host |-> conn.host, port |-> conn.port, flags |-> flags]

Conns == 1 .. MaxConns
NoConn == [state |-> "free", host |-> Nobody, port |-> 0]

\* The state of the stack.  lost is a history variable: the TCP ports that
\* lost a segment on either side of this stack.
NewStack == [rx |-> <<>>, tx |-> <<>>,
             arp |-> [i \in 1 .. ArpSize |-> Nobody],
             conn |-> [i \in Conns |-> NoConn], nextPort |-> 1,
             bound |-> {}, queue |-> [p \in UdpPorts |-> <<>>],
             lost |-> {}]

-----------------------------------------------------------------------------
(* The rings *)

Drop(n, f) == IF f.kind = "tcp" THEN [n EXCEPT !.lost = @ \cup {f.port}] ELSE n

\* A descriptor that is not done means a full ring.
Transmit(n, f) == IF Len(n.tx) < TxCount THEN [n EXCEPT !.tx = Append(@, f)] ELSE Drop(n, f)

\* What the card sees: with every descriptor in use the tail register equals
\* the head register, which to the card is an empty ring.
CardSees(n) == Len(n.tx) % TxCount

\* The card writes to the descriptors before the tail; without one the frame is lost.
Arrive(n, f) == IF Len(n.rx) < RxCount - 1 THEN [n EXCEPT !.rx = Append(@, f)] ELSE Drop(n, f)

-----------------------------------------------------------------------------
(* ARP and IP *)

UpdateARPCache(n, h) ==
    IF h \in Range(n.arp) THEN n
    ELSE LET unused == {i \in 1 .. ArpSize : n.arp[i] = Nobody}
         IN  [n EXCEPT !.arp[IF unused = {} THEN 1 ELSE Min(unused)] = h]

SendARPRequest(n, h) == Transmit(n, Plain("request", h))
SendARPReply(n, h) == Transmit(n, Plain("reply", h))
Resolved(n, h) == h \in Range(n.arp)

NextHop(h) == IF h \in Hosts THEN h ELSE Gateway

\* Without a MAC address the packet is dropped and a request goes out instead.
SendPacket(n, f) ==
    IF Resolved(n, NextHop(f.host)) THEN Transmit(n, f)
    ELSE SendARPRequest(Drop(n, f), NextHop(f.host))

HandleARP(n, f) ==
    IF f.kind = "request" THEN SendARPReply(UpdateARPCache(n, f.host), f.host)
    ELSE UpdateARPCache(n, f.host)

SendICMP(n, h) == SendPacket(n, Plain("echo", h))
HandleICMP(n, f) == IF f.kind = "echo" THEN SendPacket(n, Plain("answer", f.host)) ELSE n

-----------------------------------------------------------------------------
(* UDP *)

Bind(n, p) == [n EXCEPT !.bound = @ \cup {p}]
CanBind(n, p) == p \notin n.bound
Unbind(n, p) == [n EXCEPT !.bound = @ \ {p}, !.queue[p] = <<>>]

\* A datagram is its number; it is queued behind the others of its port.
QueueDatagram_First(n, p, number) ==
    IF p \in n.bound THEN [n EXCEPT !.queue[p] = <<number>> \o @] ELSE n
QueueDatagram(n, p, number) ==
    IF p \in n.bound THEN [n EXCEPT !.queue[p] = Append(@, number)] ELSE n
Receive(n, p) == [n EXCEPT !.queue[p] = Tail(@)]
SendDatagram(n, h) == SendPacket(n, Plain("udp", h))

-----------------------------------------------------------------------------
(* TCP *)

FreeConn(n) == {i \in Conns : n.conn[i] = NoConn}

\* connect and listen; both need a free slot.
Connect(n, h) ==
    LET conn == [state |-> "SynSent", host |-> h, port |-> n.nextPort]
    IN  SendPacket([n EXCEPT !.conn[Min(FreeConn(n))] = conn, !.nextPort = @ + 1],
                   Segment(conn, {"SYN"}))
Listen(n) ==
    [n EXCEPT !.conn[Min(FreeConn(n))] = [state |-> "Listen", host |-> Nobody, port |-> ListenPort]]

Finish(n, i, state) ==
    SendPacket([n EXCEPT !.conn[i].state = state], Segment(n.conn[i], {"FIN", "ACK"}))
Close_Frees(n, i) == [n EXCEPT !.conn[i] = NoConn]
Close(n, i) ==
    CASE n.conn[i].state \in {"Listen", "SynSent"} -> [n EXCEPT !.conn[i] = NoConn]
      [] n.conn[i].state \in {"SynReceived", "Established"} -> Finish(n, i, "FinWait1")
      [] n.conn[i].state = "CloseWait" -> Finish(n, i, "LastAck")
      [] OTHER -> n

SendData(n, i) == SendPacket(n, Segment(n.conn[i], {"PSH", "ACK"}))

\* processSegment: the next state and the flags of the answer, {} for none.
FinWait1_AckFirst(f) == IF "ACK" \in f THEN <<"FinWait2", {}>> ELSE <<"Closing", {"ACK"}>>
FinWait1(f) ==
    CASE {"FIN", "ACK"} \subseteq f -> <<"TimeWait", {"ACK"}>>
      [] "FIN" \notin f /\ "ACK" \in f -> <<"FinWait2", {}>>
      [] "FIN" \in f /\ "ACK" \notin f -> <<"Closing", {"ACK"}>>
      [] OTHER -> <<"FinWait1", {}>>

Process(s, f) ==
    CASE s = "Listen" /\ "SYN" \in f -> <<"SynReceived", {"SYN", "ACK"}>>
      [] s = "SynSent" /\ {"SYN", "ACK"} \subseteq f -> <<"Established", {"ACK"}>>
      [] s = "SynReceived" /\ "ACK" \in f -> <<"Established", {}>>
      [] s = "Established" /\ "FIN" \in f -> <<"CloseWait", {"ACK"}>>
      [] s = "Established" /\ "FIN" \notin f /\ {"PSH", "ACK"} \subseteq f -> <<s, {"ACK"}>>
      [] s = "FinWait1" -> FinWait1(f)
      [] s = "FinWait2" /\ "FIN" \in f -> <<"TimeWait", {"ACK"}>>
      [] s = "Closing" /\ "ACK" \in f -> <<"TimeWait", {}>>
      [] s = "LastAck" /\ "ACK" \in f -> <<"Closed", {}>>
      [] OTHER -> <<s, {}>>

\* The connection of a segment: the one with its address and port, else the
\* first that listens.
Matching(n, f) == {i \in Conns : /\ n.conn[i].host = f.host /\ n.conn[i].port = f.port
                                 /\ n.conn[i].state \notin {"Listen", "free"}}
Listening(n, f) == {i \in Conns : n.conn[i].state = "Listen" /\ n.conn[i].port = f.port}
ConnOf(n, f) == IF Matching(n, f) # {} THEN Matching(n, f) ELSE Listening(n, f)

Answered(n, conn, flags) == IF flags = {} THEN n ELSE SendPacket(n, Segment(conn, flags))
StepTo(n, i, conn, result) ==
    Answered([n EXCEPT !.conn[i] = [conn EXCEPT !.state = result[1]]], conn, result[2])

\* A connection that listened takes the peer's port for its address.
ReceiveSegment(n, f) ==
    IF ConnOf(n, f) = {} THEN n
    ELSE LET i == Min(ConnOf(n, f))
             conn == n.conn[i]
         IN  IF conn.state = "Listen" /\ "SYN" \notin f.flags THEN n
             ELSE StepTo(n, i, IF conn.state = "Listen" THEN [conn EXCEPT !.host = Bogus] ELSE conn,
                         Process(conn.state, f.flags))

-----------------------------------------------------------------------------
(* What the card received, a frame at a time.  For a datagram, the number  *)
(* is in the place of the port: they all go to one port.                   *)

ReceivePacket(n, f, udpPort) ==
    CASE f.kind \in {"echo", "answer"} -> HandleICMP(n, f)
      [] f.kind = "udp" -> QueueDatagram(n, udpPort, f.port)
      [] f.kind = "tcp" -> ReceiveSegment(n, f)

ReceiveFrame(n, f, udpPort) ==
    IF f.kind \in {"request", "reply"} THEN HandleARP(n, f) ELSE ReceivePacket(n, f, udpPort)

\* poll takes the frame at the tail and gives the descriptor back.
PollFrame(n, udpPort) == ReceiveFrame([n EXCEPT !.rx = Tail(@)], Head(n.rx), udpPort)
=============================================================================
