----------------------------- MODULE MCNetwork -----------------------------
(***************************************************************************)
(* The loads of the run network: connections alone, servers alone,         *)
(* datagrams alone, and a shorter one of everything.                       *)
(***************************************************************************)
EXTENDS Network

NetworkLoads ==
    {[kinds |-> {"connect", "send", "serve", "ask"}, max |-> 4],
     [kinds |-> {"connect", "listen", "call"}, max |-> 4],
     [kinds |-> {"bind", "sendto", "datagram", "ask"}, max |-> 4],
     [kinds |-> {"connect", "listen", "send", "bind", "sendto", "command",
                 "serve", "call", "datagram", "ask"}, max |-> 2]}
=============================================================================
