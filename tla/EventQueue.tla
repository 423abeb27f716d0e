----------------------------- MODULE EventQueue -----------------------------
(***************************************************************************)
(* QEvent's EventQueue: a ring of MaxEvents slots into which events above  *)
(* Normal priority are inserted by shifting, and from whose head the event *)
(* manager pops.  Every operation is one atomic step here; InputPath takes *)
(* push and pop apart.                                                     *)
(***************************************************************************)
EXTENDS Integers, FiniteSets

CONSTANTS MaxEvents,   \* EventQueue::MaxEvents, 256 in the code
          MaxPosts,    \* bound on the number of events ever posted
          Types        \* the event types in play

ASSUME MaxEventsAssumption == MaxEvents \in Nat /\ MaxEvents >= 2
ASSUME MaxPostsAssumption == MaxPosts \in Nat \ {0}
ASSUME TypesAssumption == Types # {}

VARIABLES events,   \* m_events
          head,     \* m_head, read position
          tail,     \* m_tail, write position
          count,    \* m_count
          posts,    \* the counter behind EventManager::getTimestamp
          out,      \* the event pop returned last, as a set of at most one
          wild      \* a push has written m_events[MaxEvents], outside the array

vars == <<events, head, tail, count, posts, out, wild>>

Slots == 0 .. MaxEvents - 1

\* The slot of the i-th queued event, and the distance from slot a on to slot b.
Slot(i) == (head + i) % MaxEvents
Ahead(a, b) == (b - a + MaxEvents) % MaxEvents

Queued == {events[Slot(i)] : i \in 0 .. count - 1}

Order == INSTANCE EventOrder WITH pending <- Queued

NoEvent == [priority |-> Order!Low, type |-> CHOOSE t \in Types : TRUE, timestamp |-> 1]

Init == /\ events = [s \in Slots |-> NoEvent]
        /\ head = 0 /\ tail = 0 /\ count = 0
        /\ posts = 0 /\ out = {} /\ wild = FALSE

\* The slot of the first event of lower priority, the tail if there is none.
FindInsertIndex(p) ==
  LET lower == {i \in 0 .. count - 1 : events[Slot(i)].priority < p}
  IN  IF lower = {} THEN tail
      ELSE Slot(CHOOSE i \in lower : \A j \in lower : i <= j)

InsertIndex(p) == IF count = 0 \/ p <= Order!Normal THEN tail ELSE FindInsertIndex(p)

\* The array after everything from slot ins to the tail moved one slot on and
\* e took slot ins; with ins = tail nothing moves.
\* (Mutant: overwrites slot ins without making room.)
InsertedAt_NoShift(ins, e) == [events EXCEPT ![ins] = e]

InsertedAt(ins, e) ==
  [s \in Slots |->
     IF s = ins THEN e
     ELSE IF Ahead(ins, s) <= Ahead(ins, tail)
          THEN events[(s + MaxEvents - 1) % MaxEvents]
          ELSE events[s]]

\* postEvent on a full queue: push returns false, the event is dropped.
PushFull == /\ posts < MaxPosts
            /\ count >= MaxEvents
            /\ posts' = posts + 1
            /\ UNCHANGED <<events, head, tail, count, out, wild>>

Push(p, t) ==
  LET e == [priority |-> p, type |-> t, timestamp |-> posts + 1]
  IN  /\ posts < MaxPosts
      /\ count < MaxEvents
      /\ tail \in Slots
      /\ posts' = posts + 1
      /\ events' = InsertedAt(InsertIndex(p), e)
      /\ tail' = (tail + 1) % MaxEvents
      /\ count' = count + 1
      /\ UNCHANGED <<head, out, wild>>

\* With the tail one past the array (see ClearTypes) the store, or the first
\* shift, lands on the members behind the array: nothing is known after it.
PushPastEnd == /\ posts < MaxPosts
               /\ count < MaxEvents
               /\ tail \notin Slots
               /\ wild' = TRUE
               /\ posts' = posts + 1
               /\ UNCHANGED <<events, head, tail, count, out>>

Pop == /\ count # 0
       /\ out' = {events[head]}
       /\ head' = (head + 1) % MaxEvents
       /\ count' = count - 1
       /\ UNCHANGED <<events, tail, posts, wild>>

\* (Mutant: the write position stays where it was.)
Clear_KeepTail == /\ head' = 0 /\ count' = 0
                  /\ UNCHANGED <<events, tail, posts, out, wild>>

Clear == /\ head' = 0 /\ tail' = 0 /\ count' = 0
         /\ UNCHANGED <<events, posts, out, wild>>

\* clearType, and clearCategory with the types of that category: the survivors
\* are copied to the front, in order, and the tail is their number, which is
\* MaxEvents when a full queue loses nothing.
ClearTypes(T) ==
  LET kept == {i \in 0 .. count - 1 : events[Slot(i)].type \notin T}
      n == Cardinality(kept)
  IN  /\ count # 0
      /\ \E survivor \in [0 .. n - 1 -> kept] :
           /\ \A i, j \in 0 .. n - 1 : i < j => survivor[i] < survivor[j]
           /\ events' = [s \in Slots |-> IF s < n THEN events[Slot(survivor[s])]
                                                ELSE events[s]]
      /\ head' = 0 /\ tail' = n /\ count' = n
      /\ UNCHANGED <<posts, out, wild>>

Next == /\ ~wild
        /\ \/ \E p \in Order!Priorities, t \in Types : Push(p, t)
           \/ PushFull
           \/ PushPastEnd
           \/ Pop
           \/ Clear
           \/ \E T \in (SUBSET Types) \ {{}} : ClearTypes(T)

Spec == Init /\ [][Next]_vars

-----------------------------------------------------------------------------
\* The state's types; the tail may stand one past the array (see ClearTypes).
TypeOK == /\ events \in [Slots -> Order!Event]
          /\ head \in Slots
          /\ tail \in 0 .. MaxEvents
          /\ count \in 0 .. MaxEvents
          /\ posts \in 0 .. MaxPosts
          /\ out \in SUBSET Order!Event
          /\ wild \in BOOLEAN

\* Read and write position are always exactly count slots apart: push, pop
\* and the clears of QKEventQueue.cpp update the three members consistently,
\* whichever of them wrapped last.
RingShape == tail % MaxEvents = (head + count) % MaxEvents

\* From head to tail the queue is ordered: a higher class stands nearer the
\* head, and inside a class the events stand in the order they were posted.
\* Shifting, wrapping and compacting never disturb it.
Ordered == \A i, j \in 0 .. count - 1 :
             i < j => Order!Before(events[Slot(i)], events[Slot(j)])

\* The ring implements the bounded priority order of EventOrder: what pop
\* returns, across wraps, shifts and clears, is the oldest event of the
\* highest class, each event once.
ImplementsOrder == Order!OrderSpec

=============================================================================
