-------------------------------- MODULE Arena --------------------------------
(***************************************************************************)
(* What the clients of operator new and operator delete rely on: regions   *)
(* of memory that lie inside the arena and never share a byte, that stay   *)
(* where they are until they are given back, and that are all the arena    *)
(* knows of its clients.                                                   *)
(***************************************************************************)
EXTENDS Naturals

CONSTANT Requests \* numbers of bytes that are asked for

VARIABLES arena, \* bytes the arena spans, 0 before it is set up
          live   \* start of each region handed out -> bytes asked for

avars == <<arena, live>>

\* n bytes at a are inside the arena and touch no region but those in but.
Fits(a, n, but) ==
  /\ a + n <= arena
  /\ \A s \in DOMAIN live \ but : a + n <= s \/ s + live[s] <= a

\* live with one more region, without those in gone.
With(a, n, gone) ==
  [s \in (DOMAIN live \ gone) \cup {a} |-> IF s = a THEN n ELSE live[s]]

ArenaInit == arena = 0 /\ live = [s \in {} |-> 0]

Start == /\ arena = 0
         /\ arena' \in Nat
         /\ UNCHANGED live

Grant == \E n \in Requests, a \in 0 .. arena :
           /\ Fits(a, n, {}) /\ a \notin DOMAIN live
           /\ live' = With(a, n, {})
           /\ UNCHANGED arena

Return == \E a \in DOMAIN live :
            /\ live' = [s \in DOMAIN live \ {a} |-> live[s]]
            /\ UNCHANGED arena

Resize == \E n \in Requests, a \in DOMAIN live :
            /\ Fits(a, n, {a})
            /\ live' = With(a, n, {a})
            /\ UNCHANGED arena

\* The new region is chosen while the old one is still there: its bytes are
\* copied.
Move == \E n \in Requests, a \in 0 .. arena, old \in DOMAIN live :
          /\ Fits(a, n, {}) /\ a \notin DOMAIN live
          /\ live' = With(a, n, {old})
          /\ UNCHANGED arena

ArenaNext == Start \/ Grant \/ Return \/ Resize \/ Move

ArenaSpec == ArenaInit /\ [][ArenaNext]_avars
=============================================================================
