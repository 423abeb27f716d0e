------------------------------ MODULE Network ------------------------------
(***************************************************************************)
(* QNetwork at work: programs with sockets, the shell's ping and udp       *)
(* commands, the driver manager that polls the card, the card, and the     *)
(* hosts on the wire.  One thread runs the programs and the poll, which    *)
(* empties the ring before it returns; the card and the hosts run beside   *)
(* it.  The hosts are external: they answer ARP, ping and TCP as they      *)
(* should and send nothing twice.  A frame that left the card is answered  *)
(* at once; answers that were not polled yet wait in the ring.             *)
(***************************************************************************)
EXTENDS NetStack

CONSTANTS Streams,     \* stream sockets
          Datagrams,   \* datagram sockets
          Server,      \* the host that programs talk to
          Port,        \* the UDP port it sends to
          Loads        \* what programs and hosts start of themselves: kinds and how many

ASSUME NetworkAssumption ==
    /\ Server \in Hosts \cup Remote /\ Port \in UdpPorts \ {0}
    /\ \A l \in Loads : l.max \in Nat

VARIABLES net,       \* the stack
          stream,    \* the stream sockets
          dgram,     \* the datagram sockets
          polling,   \* the loop of Controller::poll is running
          peer,      \* the server's end of each connection we opened
          number,    \* the datagrams it sent
          got,       \* the last one a program read
          load,      \* the load of this behaviour
          events     \* how much of it was started
vars == <<net, stream, dgram, polling, peer, number, got, load, events>>

NoPort == -1
NewStream == [bound |-> FALSE, connected |-> FALSE, listening |-> FALSE, conn |-> 0]
NewDatagram == [bound |-> FALSE, binding |-> NoPort]

Init ==
    /\ net = NewStack
    /\ stream = [s \in Streams |-> NewStream]
    /\ dgram = [d \in Datagrams |-> NewDatagram]
    /\ polling = FALSE
    /\ peer = [q \in Ephemeral |-> [state |-> "none", closed |-> FALSE, heard |-> FALSE]]
    /\ number = 0 /\ got = 0 /\ load \in Loads /\ events = 0

Starts(kind) ==
    /\ kind \in load.kinds /\ events < load.max
    /\ events' = events + 1 /\ UNCHANGED load
Idle == ~polling

-----------------------------------------------------------------------------
(* Stream sockets *)

StreamBind(s) ==
    /\ Idle /\ ~stream[s].bound /\ "listen" \in load.kinds
    /\ stream' = [stream EXCEPT ![s].bound = TRUE]
    /\ UNCHANGED <<net, dgram, polling, peer, number, got, load, events>>

\* A connect that finds no slot takes from the socket the connection it had.
StreamConnect(s) ==
    /\ Idle /\ Starts("connect") /\ ~stream[s].connected /\ net.nextPort \in Ephemeral
    /\ \/ /\ FreeConn(net) # {}
          /\ net' = Connect(net, Server)
          /\ stream' = [stream EXCEPT ![s].conn = Min(FreeConn(net)), ![s].connected = TRUE]
       \/ /\ FreeConn(net) = {}
          /\ stream' = [stream EXCEPT ![s].conn = 0]
          /\ UNCHANGED net
    /\ UNCHANGED <<dgram, polling, peer, number, got>>

\* A listen that finds no slot leaves the socket without a connection.
ListenConn == IF FreeConn(net) = {} THEN 0 ELSE Min(FreeConn(net))
ListenNet == IF FreeConn(net) = {} THEN net ELSE Listen(net)

StreamListen(s) ==
    /\ Idle /\ Starts("listen") /\ stream[s].bound
    /\ net' = ListenNet
    /\ stream' = [stream EXCEPT ![s].conn = ListenConn,
                                ![s].listening = @ \/ ListenConn # 0]
    /\ UNCHANGED <<dgram, polling, peer, number, got>>

\* accept hands the connection to a new socket and listens with another one.
Accepted(s, new) ==
    [stream EXCEPT ![new] = [bound |-> TRUE, connected |-> TRUE, listening |-> FALSE,
                             conn |-> stream[s].conn],
                   ![s].conn = ListenConn]
StreamAccept(s, new) ==
    /\ Idle /\ stream[s].listening /\ stream[s].conn # 0
    /\ net.conn[stream[s].conn].state = "Established"
    /\ new # s /\ stream[new] = NewStream
    /\ net' = ListenNet
    /\ stream' = Accepted(s, new)
    /\ UNCHANGED <<dgram, polling, peer, number, got, load, events>>

StreamSend(s) ==
    /\ Idle /\ Starts("send") /\ stream[s].connected /\ stream[s].conn # 0
    /\ net.conn[stream[s].conn].state = "Established"
    /\ net' = SendData(net, stream[s].conn)
    /\ UNCHANGED <<stream, dgram, polling, peer, number, got>>

\* shutdown leaves the socket bound and listening; close does not.
StreamShutdown(s) ==
    /\ Idle /\ stream[s].conn # 0
    /\ net' = Close(net, stream[s].conn)
    /\ stream' = [stream EXCEPT ![s].conn = 0, ![s].connected = FALSE]
    /\ UNCHANGED <<dgram, polling, peer, number, got, load, events>>

StreamClose(s) ==
    /\ Idle /\ stream[s] # NewStream
    /\ net' = IF stream[s].conn = 0 THEN net ELSE Close(net, stream[s].conn)
    /\ stream' = [stream EXCEPT ![s] = NewStream]
    /\ UNCHANGED <<dgram, polling, peer, number, got, load, events>>

-----------------------------------------------------------------------------
(* Datagram sockets and the shell *)

DatagramBind(d) ==
    /\ Idle /\ Starts("bind") /\ ~dgram[d].bound /\ CanBind(net, Port)
    /\ net' = Bind(net, Port)
    /\ dgram' = [dgram EXCEPT ![d] = [bound |-> TRUE, binding |-> Port]]
    /\ UNCHANGED <<stream, polling, peer, number, got>>

\* connect binds port 0, and calls itself bound when that port was taken.
DatagramConnect(d) ==
    /\ Idle /\ Starts("bind") /\ ~dgram[d].bound
    /\ net' = IF CanBind(net, 0) THEN Bind(net, 0) ELSE net
    /\ dgram' = [dgram EXCEPT ![d] = [bound |-> TRUE,
                                      binding |-> IF CanBind(net, 0) THEN 0 ELSE NoPort]]
    /\ UNCHANGED <<stream, polling, peer, number, got>>

SendToBinds(d) == ~dgram[d].bound /\ CanBind(net, 0)
SendTo(d) ==
    /\ Idle /\ Starts("sendto")
    /\ net' = SendDatagram(IF SendToBinds(d) THEN Bind(net, 0) ELSE net, Server)
    /\ dgram' = IF SendToBinds(d) THEN [dgram EXCEPT ![d] = [bound |-> TRUE, binding |-> 0]] ELSE dgram
    /\ UNCHANGED <<stream, polling, peer, number, got>>

RecvFrom(d) ==
    /\ Idle /\ dgram[d].binding # NoPort /\ net.queue[dgram[d].binding] # <<>>
    /\ got' = Head(net.queue[dgram[d].binding])
    /\ net' = Receive(net, dgram[d].binding)
    /\ UNCHANGED <<stream, dgram, polling, peer, number, load, events>>

DatagramClose(d) ==
    /\ Idle /\ dgram[d].bound
    /\ net' = IF dgram[d].binding = NoPort THEN net ELSE Unbind(net, dgram[d].binding)
    /\ dgram' = [dgram EXCEPT ![d] = NewDatagram]
    /\ UNCHANGED <<stream, polling, peer, number, got, load, events>>

\* The commands of the shell.
Ping ==
    /\ Idle /\ Starts("command") /\ net' = SendICMP(net, Server)
    /\ UNCHANGED <<stream, dgram, polling, peer, number, got>>
Udp ==
    /\ Idle /\ Starts("command") /\ net' = SendDatagram(net, Server)
    /\ UNCHANGED <<stream, dgram, polling, peer, number, got>>

-----------------------------------------------------------------------------
(* The driver's poll *)

PollBegin ==
    /\ Idle /\ net.rx # <<>> /\ polling' = TRUE
    /\ UNCHANGED <<net, stream, dgram, peer, number, got, load, events>>
PollStep ==
    /\ polling /\ net.rx # <<>> /\ net' = PollFrame(net, Port)
    /\ UNCHANGED <<stream, dgram, polling, peer, number, got, load, events>>
PollEnd ==
    /\ polling /\ net.rx = <<>> /\ polling' = FALSE
    /\ UNCHANGED <<net, stream, dgram, peer, number, got, load, events>>
Poll == PollBegin \/ PollStep \/ PollEnd

-----------------------------------------------------------------------------
(* The hosts, on what leaves the card and of themselves *)

Ours(f) == f.kind = "tcp" /\ f.host = Server /\ f.port \in Ephemeral

Answer(f) ==
    CASE f.kind = "request" -> {[f EXCEPT !.kind = "reply"]}
      [] f.kind = "echo" -> {[f EXCEPT !.kind = "answer"]}
      [] Ours(f) /\ f.flags = {"SYN"} -> {[f EXCEPT !.flags = {"SYN", "ACK"}]}
      [] Ours(f) /\ f.flags \cap {"PSH", "FIN"} # {} -> {[f EXCEPT !.flags = {"ACK"}]}
      [] OTHER -> {}

Heard(p, f) ==
    [p EXCEPT !.state = IF f.flags = {"SYN"} THEN "syn received" ELSE "established",
              !.heard = @ \/ "FIN" \in f.flags]

CardSends ==
    /\ CardSees(net) > 0
    /\ LET f == Head(net.tx)
           sent == [net EXCEPT !.tx = Tail(@)]
       IN  /\ net' = IF Answer(f) = {} THEN sent ELSE Arrive(sent, CHOOSE a \in Answer(f) : TRUE)
           /\ peer' = IF Ours(f) THEN [peer EXCEPT ![f.port] = Heard(@, f)] ELSE peer
    /\ UNCHANGED <<stream, dgram, polling, number, got, load, events>>

HostSends(f) == net' = Arrive(net, f)

ServerSegment(q) == [kind |-> "tcp", host |-> Server, port |-> q, flags |-> {"PSH", "ACK"}]
ServerSends(q) ==
    /\ Starts("serve") /\ peer[q].state = "established" /\ ~peer[q].closed
    /\ HostSends(ServerSegment(q))
    /\ UNCHANGED <<stream, dgram, polling, peer, number, got>>
ServerCloses(q) ==
    /\ peer[q].state = "established" /\ ~peer[q].closed
    /\ HostSends([ServerSegment(q) EXCEPT !.flags = {"FIN", "ACK"}])
    /\ peer' = [peer EXCEPT ![q].closed = TRUE]
    /\ UNCHANGED <<stream, dgram, polling, number, got, load, events>>
ServerCalls ==
    /\ Starts("call")
    /\ HostSends([ServerSegment(ListenPort) EXCEPT !.flags = {"SYN"}])
    /\ UNCHANGED <<stream, dgram, polling, peer, number, got>>
ServerDatagram ==
    /\ Starts("datagram") /\ number' = number + 1
    /\ HostSends([Plain("udp", Server) EXCEPT !.port = number + 1])
    /\ UNCHANGED <<stream, dgram, polling, peer, got>>
HostAsks(h, kind) ==
    /\ Starts("ask") /\ HostSends(Plain(kind, h))
    /\ UNCHANGED <<stream, dgram, polling, peer, number, got>>

Programs ==
    \/ \E s \in Streams : StreamBind(s) \/ StreamConnect(s) \/ StreamListen(s) \/ StreamSend(s)
                          \/ StreamShutdown(s) \/ StreamClose(s)
    \/ \E s, new \in Streams : StreamAccept(s, new)
    \/ \E d \in Datagrams : DatagramBind(d) \/ DatagramConnect(d) \/ SendTo(d) \/ RecvFrom(d)
                            \/ DatagramClose(d)
    \/ Ping \/ Udp
Others ==
    \/ \E q \in Ephemeral : ServerSends(q) \/ ServerCloses(q)
    \/ ServerCalls \/ ServerDatagram
    \/ \E h \in Hosts, kind \in {"request", "echo"} : HostAsks(h, kind)

Next == Programs \/ Poll \/ CardSends \/ Others

Spec == Init /\ [][Next]_vars

-----------------------------------------------------------------------------
(* Properties *)


\* The two ends of a connection we opened: this end is beyond SYN-SENT only
\* if the server answered, it says that the server closed only if it did,
\* and while it takes data the server has not heard a FIN from it; a server
\* with an established connection is never forgotten here.
EndsAgree ==
    /\ \A i \in Conns : net.conn[i].port \in Ephemeral =>
           LET state == net.conn[i].state
               other == peer[net.conn[i].port]
           IN  /\ state # "SynSent" => other.state # "none"
               /\ state \in {"CloseWait", "LastAck", "TimeWait", "Closing", "Closed"} => other.closed
               /\ state \in {"SynSent", "Established", "CloseWait"} => ~other.heard
    /\ \A q \in Ephemeral : peer[q].state = "established" =>
           \E i \in Conns : net.conn[i].port = q /\ net.conn[i].state # "SynSent"

\* Datagrams wait in the order in which they were sent, each once, after the
\* one read last.
DatagramsInOrder ==
    \A p \in UdpPorts : \A i \in DOMAIN net.queue[p] :
        net.queue[p][i] > IF i = 1 THEN got ELSE net.queue[p][i - 1]

\* When the card and the poll have nothing left to do, a connection none of
\* whose segments was lost is not waiting for anyone: it is beyond SYN-SENT,
\* and at its end if both ends closed.  A transmit ring that was filled to
\* the last descriptor never empties, and is the exception.
Quiet == net.rx = <<>> /\ net.tx = <<>>
SettledWhenQuiet ==
    Quiet => \A i \in Conns :
        LET conn == net.conn[i]
        IN  conn.port \in Ephemeral \ net.lost =>
                /\ conn.state # "SynSent"
                /\ peer[conn.port].closed /\ peer[conn.port].heard =>
                       conn.state \in {"TimeWait", "Closed"}
=============================================================================
