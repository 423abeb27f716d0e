----------------------------- MODULE EventOrder -----------------------------
(***************************************************************************)
(* What the kernel's main event queue promises to its users: a bounded set *)
(* of pending events that hands out, one at a time, the oldest event of    *)
(* the highest class.  Everything up to Normal priority is one class: the  *)
(* queue appends those events and never reorders them.                     *)
(***************************************************************************)
EXTENDS Naturals, FiniteSets

CONSTANTS MaxEvents,   \* EventQueue::MaxEvents, 256 in the code
          MaxPosts,    \* bound on the number of events ever posted
          Types        \* the event types in play

Low == 0
Normal == 1
High == 2
Critical == 3
Priorities == Low .. Critical

\* A queued event: what orders it (priority), what filters it (type) and the
\* timestamp getTimestamp() gave it, which is its place in the posting order.
Event == [priority : Priorities, type : Types, timestamp : 1 .. MaxPosts]

Class(e) == IF e.priority <= Normal THEN Normal ELSE e.priority

\* f leaves the queue before e when both are pending
Before(f, e) == \/ Class(f) > Class(e)
                \/ Class(f) = Class(e) /\ f.timestamp < e.timestamp

VARIABLES pending,   \* the events posted and neither delivered nor cleared
          posts,     \* the timestamps handed out so far
          out        \* the event the last pop returned

OrderInit == pending = {} /\ posts = 0 /\ out = {}

Accept(p, t) ==
  /\ posts < MaxPosts
  /\ Cardinality(pending) < MaxEvents
  /\ posts' = posts + 1
  /\ pending' = pending \cup {[priority |-> p, type |-> t, timestamp |-> posts + 1]}
  /\ UNCHANGED out

\* A post that is not accepted still draws its timestamp.
Refuse == /\ posts < MaxPosts
          /\ posts' = posts + 1
          /\ UNCHANGED <<pending, out>>

Deliver == \E e \in pending :
             /\ \A f \in pending \ {e} : Before(e, f)
             /\ pending' = pending \ {e}
             /\ out' = {e}
             /\ UNCHANGED posts

Discard == /\ pending' \in SUBSET pending
           /\ UNCHANGED <<posts, out>>

OrderNext == \/ \E p \in Priorities, t \in Types : Accept(p, t)
             \/ Refuse
             \/ Deliver
             \/ Discard

OrderSpec == OrderInit /\ [][OrderNext]_<<pending, posts, out>>
=============================================================================
