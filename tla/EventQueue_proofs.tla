-------------------------- MODULE EventQueue_proofs --------------------------
(***************************************************************************)
(* Where input events begin and where they end.  The ring keeps its types  *)
(* and shape, stays ordered, and implements EventOrder, for every          *)
(* capacity, every set of types and every number of posts.  The controls   *)
(* of a window, which the events are for in the end, keep their places,    *)
(* pointers and text in order, for every set of buttons, screens, items    *)
(* and characters.                                                         *)
(***************************************************************************)
EXTENDS EventQueue, Controls, FiniteSetTheorems, SequenceTheorems, WellFoundedInduction, TLAPS

USE MaxEventsAssumption, MaxPostsAssumption, TypesAssumption

\* A non-empty set of naturals has a least element.
LEMMA LeastNatural ==
  ASSUME NEW T \in SUBSET Nat, T # {}
  PROVE  \E x \in T : \A y \in T : x <= y
<1> DEFINE R == {p \in Nat \X Nat : p[1] < p[2]}
<1>1. IsWellFoundedOn(R, Nat)
  BY NatLessThanWellFounded DEF OpToRel
<1>2. PICK x \in T : \A y \in T : ~ (<<y, x>> \in R)
  <2> HIDE DEF R
  <2> QED BY <1>1, WFMin
<1>3. \A y \in T : ~ (y < x)
  BY <1>2
<1> QED BY <1>3

\* Positions on the ring: a residue is a slot, and an index that ran once past
\* the end of the array comes back MaxEvents lower.
LEMMA Residue == ASSUME NEW a \in Int PROVE a % MaxEvents \in Slots
  BY DEF Slots

LEMMA Unwrapped == ASSUME NEW a \in Slots PROVE a % MaxEvents = a
  BY DEF Slots

LEMMA Wrapped ==
  ASSUME NEW a \in MaxEvents .. 2 * MaxEvents - 1
  PROVE  a % MaxEvents = a - MaxEvents
  OBVIOUS

\* The same for a slot reached from the head.
LEMMA SlotValue ==
  ASSUME head \in Slots, NEW i \in 0 .. MaxEvents
  PROVE  /\ Slot(i) \in Slots
         /\ Slot(i) = IF head + i < MaxEvents THEN head + i ELSE head + i - MaxEvents
<1>1. CASE head + i < MaxEvents
  BY <1>1, Unwrapped, head + i \in Slots DEF Slot, Slots
<1>2. CASE head + i >= MaxEvents
  BY <1>2, Wrapped, head + i \in MaxEvents .. 2 * MaxEvents - 1 DEF Slot, Slots
<1> QED
  BY <1>1, <1>2 DEF Slots

\* Different queue positions lie in different slots.
LEMMA SlotInjective ==
  ASSUME head \in Slots, NEW i \in 0 .. MaxEvents - 1, NEW j \in 0 .. MaxEvents - 1,
         Slot(i) = Slot(j)
  PROVE  i = j
  BY SlotValue DEF Slots

\* How far slot Slot(k) lies on from slot Slot(p).
LEMMA AheadValue ==
  ASSUME head \in Slots, NEW p \in 0 .. MaxEvents - 1, NEW k \in 0 .. MaxEvents - 1
  PROVE  Ahead(Slot(p), Slot(k)) = IF k >= p THEN k - p ELSE k - p + MaxEvents
<1>1. Slot(p) \in Slots /\ Slot(k) \in Slots
  BY SlotValue
<1> DEFINE d == Slot(k) - Slot(p) + MaxEvents
<1>2. d \in 1 .. 2 * MaxEvents - 1
  BY <1>1 DEF Slots
<1>3. d % MaxEvents = IF d < MaxEvents THEN d ELSE d - MaxEvents
  <2>1. CASE d < MaxEvents
    BY <1>2, <2>1, Unwrapped, d \in Slots DEF Slots
  <2>2. CASE d >= MaxEvents
    BY <1>2, <2>2, Wrapped, d \in MaxEvents .. 2 * MaxEvents - 1
  <2> QED BY <1>2, <2>1, <2>2
<1>4. Ahead(Slot(p), Slot(k)) = d % MaxEvents
  BY DEF Ahead
<1> HIDE DEF d
<1>5. d = Slot(k) - Slot(p) + MaxEvents
  BY DEF d
<1> QED
  BY <1>3, <1>4, <1>5, SlotValue DEF Slots

\* The slot before Slot(k) holds the previous queue position.
LEMMA PreviousSlot ==
  ASSUME head \in Slots, NEW k \in 1 .. MaxEvents - 1
  PROVE  (Slot(k) + MaxEvents - 1) % MaxEvents = Slot(k - 1)
<1>1. Slot(k) \in Slots /\ Slot(k - 1) \in Slots
  BY SlotValue
<1>2. CASE Slot(k) = 0
  BY <1>2, SlotValue, Unwrapped, MaxEvents - 1 \in Slots DEF Slots
<1>3. CASE Slot(k) # 0
  <2>1. Slot(k) + MaxEvents - 1 \in MaxEvents .. 2 * MaxEvents - 1
    BY <1>1, <1>3 DEF Slots
  <2>2. (Slot(k) + MaxEvents - 1) % MaxEvents = Slot(k) - 1
    BY <1>1, <2>1, Wrapped DEF Slots
  <2> QED BY <1>1, <1>3, <2>2, SlotValue DEF Slots
<1> QED BY <1>2, <1>3

-----------------------------------------------------------------------------
\* No queued event carries a timestamp that was not handed out yet.
Stamped == \A i \in 0 .. count - 1 : events[Slot(i)].timestamp <= posts

\* The inductive invariant: the order of the queue is kept by a new event only
\* because its timestamp is later than every queued one.
IInv == TypeOK /\ RingShape /\ Ordered /\ Stamped

LEMMA EventAt ==
  ASSUME TypeOK, NEW i \in 0 .. count - 1
  PROVE  Slot(i) \in Slots /\ events[Slot(i)] \in Order!Event
  BY SlotValue DEF TypeOK

\* A tail inside the array is the slot behind the last queued event.
LEMMA TailSlot ==
  ASSUME TypeOK, RingShape, tail \in Slots
  PROVE  tail = Slot(count)
  BY Unwrapped DEF TypeOK, RingShape, Slot

\* What InsertedAt does, seen from the queue: the new event takes position p and
\* every event from p on moves one position back.
LEMMA InsertEffect ==
  ASSUME TypeOK, count < MaxEvents, tail = Slot(count),
         NEW p \in 0 .. count, NEW e, NEW k \in 0 .. count
  PROVE  InsertedAt(Slot(p), e)[Slot(k)] =
           IF k < p THEN events[Slot(k)]
           ELSE IF k = p THEN e ELSE events[Slot(k - 1)]
<1>1. /\ head \in Slots
      /\ p \in 0 .. MaxEvents - 1 /\ k \in 0 .. MaxEvents - 1
      /\ count \in 0 .. MaxEvents - 1
  BY DEF TypeOK
<1>2. Slot(k) \in Slots
  BY <1>1, SlotValue
<1>3. InsertedAt(Slot(p), e)[Slot(k)] =
        IF Slot(k) = Slot(p) THEN e
        ELSE IF Ahead(Slot(p), Slot(k)) <= Ahead(Slot(p), Slot(count))
             THEN events[(Slot(k) + MaxEvents - 1) % MaxEvents]
             ELSE events[Slot(k)]
  BY <1>2 DEF InsertedAt
<1>4. Slot(k) = Slot(p) <=> k = p
  BY <1>1, SlotInjective
<1>5. Ahead(Slot(p), Slot(k)) <= Ahead(Slot(p), Slot(count)) <=> k >= p
  BY <1>1, AheadValue
<1>6. k > p => (Slot(k) + MaxEvents - 1) % MaxEvents = Slot(k - 1)
  BY <1>1, PreviousSlot
<1> QED
  BY <1>1, <1>3, <1>4, <1>5, <1>6

\* A new event of priority p goes behind every event of its class or a higher
\* one and before every event of a lower class.
LEMMA InsertPosition ==
  ASSUME IInv, count < MaxEvents, tail \in Slots, NEW p \in Order!Priorities
  PROVE  \E k \in 0 .. count :
           /\ InsertIndex(p) = Slot(k)
           /\ \A i \in 0 .. k - 1 :
                Order!Class(events[Slot(i)]) >= Order!Class([priority |-> p])
           /\ \A i \in k .. count - 1 :
                Order!Class(events[Slot(i)]) < Order!Class([priority |-> p])
<1> DEFINE lower == {i \in 0 .. count - 1 : events[Slot(i)].priority < p}
           P(i) == events[Slot(i)].priority
<1>1. count \in Nat /\ tail = Slot(count)
  BY TailSlot DEF IInv, TypeOK
<1>2. \A i \in 0 .. count - 1 : P(i) \in Order!Priorities
  BY EventAt DEF IInv, Order!Event
<1>3. CASE count = 0 \/ p <= Order!Normal \/ lower = {}
  <2>1. InsertIndex(p) = Slot(count)
    BY <1>1, <1>3 DEF InsertIndex, FindInsertIndex
  <2>2. \A i \in 0 .. count - 1 :
          Order!Class(events[Slot(i)]) >= Order!Class([priority |-> p])
    BY <1>1, <1>2, <1>3
       DEF Order!Class, Order!Priorities, Order!Normal, Order!Low, Order!Critical
  <2> QED BY <1>1, <2>1, <2>2
<1>4. CASE count # 0 /\ p > Order!Normal /\ lower # {}
  <2> DEFINE k == CHOOSE i \in lower : \A j \in lower : i <= j
  <2>1. k \in lower /\ \A j \in lower : k <= j
    <3>1. lower \in SUBSET Nat
      BY <1>1
    <3>2. \E i \in lower : \A j \in lower : i <= j
      BY <1>4, <3>1, LeastNatural
    <3> QED BY <3>2
  <2>2. InsertIndex(p) = Slot(k)
    BY <1>4 DEF InsertIndex, FindInsertIndex, Order!Priorities, Order!Normal, Order!Low,
                Order!Critical
  <2> HIDE DEF k
  <2>3. k \in 0 .. count - 1 /\ P(k) < p
    BY <2>1
  <2>4. \A i \in 0 .. k - 1 : P(i) >= p
    BY <1>1, <1>2, <2>1, <2>3
       DEF Order!Priorities, Order!Low, Order!Critical
  <2>5. \A i \in k .. count - 1 : Order!Class(events[Slot(i)]) <= Order!Class(events[Slot(k)])
    BY <1>1, <1>2, <2>3
       DEF IInv, Ordered, Order!Before, Order!Class, Order!Priorities, Order!Normal,
           Order!Low, Order!Critical
  <2>6. Order!Class(events[Slot(k)]) < p
    BY <1>2, <1>4, <2>3 DEF Order!Class, Order!Priorities, Order!Normal,
           Order!Low, Order!Critical
  <2>7. \A i \in 0 .. count - 1 : Order!Class(events[Slot(i)]) \in Nat
    BY <1>2 DEF Order!Class, Order!Priorities, Order!Normal, Order!Low, Order!Critical
  <2>8. Order!Class([priority |-> p]) = p
    BY <1>4 DEF Order!Class, Order!Priorities, Order!Normal, Order!Low, Order!Critical
  <2>9. \A i \in 0 .. k - 1 : Order!Class(events[Slot(i)]) >= p
    BY <1>1, <1>2, <1>4, <2>3, <2>4
       DEF Order!Class, Order!Priorities, Order!Normal, Order!Low, Order!Critical
  <2>10. \A i \in k .. count - 1 : Order!Class(events[Slot(i)]) < p
    BY <1>1, <2>3, <2>5, <2>6, <2>7 DEF Order!Priorities, Order!Low, Order!Critical
  <2> QED BY <1>1, <2>2, <2>3, <2>8, <2>9, <2>10
<1> QED BY <1>1, <1>3, <1>4 DEF Order!Priorities, Order!Normal, Order!Low, Order!Critical

\* The queue after a push, in queue positions.
LEMMA PushEffect ==
  ASSUME IInv, NEW p \in Order!Priorities, NEW t \in Types, Push(p, t)
  PROVE  \E k \in 0 .. count :
           /\ \A i \in 0 .. count :
                events'[Slot(i)'] =
                  IF i < k THEN events[Slot(i)]
                  ELSE IF i = k
                       THEN [priority |-> p, type |-> t, timestamp |-> posts + 1]
                       ELSE events[Slot(i - 1)]
           /\ \A i \in 0 .. k - 1 :
                Order!Class(events[Slot(i)]) >= Order!Class([priority |-> p])
           /\ \A i \in k .. count - 1 :
                Order!Class(events[Slot(i)]) < Order!Class([priority |-> p])
<1> DEFINE e == [priority |-> p, type |-> t, timestamp |-> posts + 1]
<1>1. count < MaxEvents /\ tail \in Slots /\ tail = Slot(count)
  BY TailSlot DEF Push, IInv
<1>2. PICK k \in 0 .. count :
           /\ InsertIndex(p) = Slot(k)
           /\ \A i \in 0 .. k - 1 :
                Order!Class(events[Slot(i)]) >= Order!Class([priority |-> p])
           /\ \A i \in k .. count - 1 :
                Order!Class(events[Slot(i)]) < Order!Class([priority |-> p])
  BY <1>1, InsertPosition
<1>3. events' = InsertedAt(Slot(k), e)
  BY <1>2 DEF Push
<1>4. \A i : Slot(i)' = Slot(i)
  BY DEF Slot, Push
<1> HIDE DEF e
<1>5. \A i \in 0 .. count :
        InsertedAt(Slot(k), e)[Slot(i)] =
          IF i < k THEN events[Slot(i)] ELSE IF i = k THEN e ELSE events[Slot(i - 1)]
  BY <1>1, InsertEffect DEF IInv
<1> QED
  BY <1>2, <1>3, <1>4, <1>5 DEF e

LEMMA TypeStep == IInv /\ [Next]_vars => TypeOK'
<1> SUFFICES ASSUME IInv, [Next]_vars PROVE TypeOK'
  OBVIOUS
<1> USE DEF IInv
<1>1. ASSUME NEW p \in Order!Priorities, NEW t \in Types, Push(p, t) PROVE TypeOK'
  <2> DEFINE e == [priority |-> p, type |-> t, timestamp |-> posts + 1]
  <2>1. e \in Order!Event
    BY <1>1 DEF Push, TypeOK, Order!Event
  <2>2. PICK ins \in Slots : events' = InsertedAt(ins, e)
    <3>1. PICK k \in 0 .. count : InsertIndex(p) = Slot(k)
      BY <1>1, InsertPosition DEF Push
    <3>2. Slot(k) \in Slots
      BY <3>1, SlotValue DEF TypeOK
    <3> QED BY <1>1, <3>1, <3>2 DEF Push
  <2> HIDE DEF e
  <2>3. \A s \in Slots : (s + MaxEvents - 1) % MaxEvents \in Slots
    BY Residue DEF Slots
  <2>4. events' \in [Slots -> Order!Event]
    BY <2>1, <2>2, <2>3 DEF InsertedAt, TypeOK
  <2>5. tail' \in Slots
    BY <1>1, Residue DEF Push, TypeOK
  <2> QED BY <1>1, <2>4, <2>5 DEF Push, TypeOK, Slots
<1>2. CASE PushFull
  BY <1>2 DEF PushFull, TypeOK
<1>3. CASE PushPastEnd
  BY <1>3 DEF PushPastEnd, TypeOK
<1>4. CASE Pop
  <2>1. head' \in Slots
    BY <1>4, Residue DEF Pop, TypeOK, Slots
  <2> QED BY <1>4, <2>1 DEF Pop, TypeOK
<1>5. CASE Clear
  BY <1>5 DEF Clear, TypeOK, Slots
<1>6. ASSUME NEW T \in (SUBSET Types) \ {{}}, ClearTypes(T) PROVE TypeOK'
  <2> DEFINE kept == {i \in 0 .. count - 1 : events[Slot(i)].type \notin T}
             n == Cardinality(kept)
  <2>1. n \in 0 .. count
    <3>1. IsFiniteSet(0 .. count - 1) /\ Cardinality(0 .. count - 1) = count
      BY FS_Interval DEF TypeOK
    <3> QED BY <3>1, FS_Subset, FS_CardinalityType
  <2>2. PICK survivor \in [0 .. n - 1 -> kept] :
          events' = [s \in Slots |-> IF s < n THEN events[Slot(survivor[s])] ELSE events[s]]
    BY <1>6 DEF ClearTypes
  <2>3. \A s \in 0 .. n - 1 : events[Slot(survivor[s])] \in Order!Event
    <3>1. \A s \in 0 .. n - 1 : survivor[s] \in 0 .. count - 1
      OBVIOUS
    <3> QED BY <3>1, EventAt
  <2>4. events' \in [Slots -> Order!Event]
    <3> HIDE DEF n
    <3> QED BY <2>1, <2>2, <2>3 DEF TypeOK, Slots
  <2>5. head' = 0 /\ tail' = n /\ count' = n /\ UNCHANGED <<posts, out, wild>>
    BY <1>6 DEF ClearTypes
  <2> HIDE DEF n
  <2> QED BY <2>1, <2>4, <2>5 DEF TypeOK, Slots
<1>7. CASE UNCHANGED vars
  BY <1>7 DEF vars, TypeOK
<1> QED
  BY <1>1, <1>2, <1>3, <1>4, <1>5, <1>6, <1>7 DEF Next

\* Adding one to both sides of an equation modulo MaxEvents.
LEMMA NextResidue ==
  ASSUME NEW a \in 0 .. 2 * MaxEvents - 1, NEW b \in Slots, a % MaxEvents = b % MaxEvents
  PROVE  (a + 1) % MaxEvents = (b + 1) % MaxEvents
<1>1. b % MaxEvents = b
  BY Unwrapped
<1>2. CASE a < MaxEvents
  BY <1>1, <1>2, Unwrapped, a \in Slots DEF Slots
<1>3. CASE a >= MaxEvents
  <2>1. a = b + MaxEvents
    BY <1>1, <1>3, Wrapped
  <2>2. (b + 1 + MaxEvents) % MaxEvents = (b + 1) % MaxEvents
    BY <2>1 DEF Slots
  <2> QED BY <2>1, <2>2 DEF Slots
<1> QED BY <1>2, <1>3

LEMMA ShapeStep == IInv /\ [Next]_vars => RingShape'
<1> SUFFICES ASSUME IInv, [Next]_vars PROVE RingShape'
  OBVIOUS
<1> USE DEF IInv
<1>1. ASSUME NEW p \in Order!Priorities, NEW t \in Types, Push(p, t) PROVE RingShape'
  <2>1. (head + count + 1) % MaxEvents = (tail + 1) % MaxEvents
    <3>1. head + count \in 0 .. 2 * MaxEvents - 1 /\ tail \in Slots
      BY <1>1 DEF TypeOK, Push, Slots
    <3>2. (head + count) % MaxEvents = tail % MaxEvents
      BY DEF RingShape
    <3> QED BY <3>1, <3>2, NextResidue
  <2>2. (tail + 1) % MaxEvents \in Slots
    BY <1>1, Residue DEF Push, Slots
  <2> QED BY <1>1, <2>1, <2>2, Unwrapped DEF RingShape, Push, TypeOK, Slots
<1>2. CASE PushFull
  BY <1>2 DEF PushFull, RingShape
<1>3. CASE PushPastEnd
  BY <1>3 DEF PushPastEnd, RingShape
<1>4. CASE Pop
  <2>1. CASE head + 1 < MaxEvents
    <3>1. head' = head + 1
      BY <1>4, <2>1, Unwrapped DEF Pop, TypeOK, Slots
    <3> QED BY <1>4, <3>1 DEF Pop, RingShape, TypeOK, Slots
  <2>2. CASE head + 1 = MaxEvents
    <3>1. head' = 0
      BY <1>4, <2>2, Wrapped DEF Pop, TypeOK, Slots
    <3>2. head + count = MaxEvents + (count - 1) /\ count - 1 \in Slots
      BY <1>4, <2>2 DEF Pop, TypeOK, Slots
    <3>3. (head + count) % MaxEvents = count - 1 /\ (count - 1) % MaxEvents = count - 1
      BY <3>2, Wrapped, Unwrapped DEF Slots
    <3> QED BY <1>4, <3>1, <3>3 DEF Pop, RingShape
  <2> QED BY <2>1, <2>2 DEF TypeOK, Slots
<1>5. CASE Clear
  BY <1>5 DEF Clear, RingShape
<1>6. ASSUME NEW T \in (SUBSET Types) \ {{}}, ClearTypes(T) PROVE RingShape'
  <2>1. head' = 0 /\ tail' = count'
    BY <1>6 DEF ClearTypes
  <2>2. count' \in 0 .. MaxEvents
    BY TypeStep DEF TypeOK
  <2> QED BY <2>1, <2>2 DEF RingShape
<1>7. CASE UNCHANGED vars
  BY <1>7 DEF vars, RingShape
<1> QED
  BY <1>1, <1>2, <1>3, <1>4, <1>5, <1>6, <1>7 DEF Next

\* The queue after a pop: every event moves one position forward.
LEMMA PopEffect ==
  ASSUME IInv, Pop, NEW i \in 0 .. count - 2
  PROVE  Slot(i)' = Slot(i + 1)
<1>1. head \in Slots /\ count \in 1 .. MaxEvents
  BY DEF IInv, TypeOK, Pop
<1>2. CASE head + 1 < MaxEvents
  BY <1>1, <1>2, Unwrapped DEF Pop, Slot, Slots
<1>3. CASE head + 1 = MaxEvents
  <2>1. head' = 0
    BY <1>3, Wrapped, head + 1 \in MaxEvents .. 2 * MaxEvents - 1 DEF Pop
  <2>2. Slot(i)' = i
    BY <1>1, <2>1, Unwrapped, i \in Slots DEF Slot, Slots
  <2>3. Slot(i + 1) = i
    <3>1. i + 1 \in 0 .. MaxEvents /\ head + (i + 1) = MaxEvents + i
      BY <1>1, <1>3 DEF Slots
    <3>2. Slot(i + 1) = head + (i + 1) - MaxEvents
      BY <1>1, <3>1, SlotValue DEF Slots
    <3> QED BY <1>1, <3>1, <3>2 DEF Slots
  <2> QED BY <2>2, <2>3
<1> QED BY <1>1, <1>2, <1>3 DEF Slots

\* The queue after clearType: position i holds a survivor, in the old order.
LEMMA ClearEffect ==
  ASSUME IInv, ~wild, NEW T \in (SUBSET Types) \ {{}}, ClearTypes(T)
  PROVE  \E survivor \in [0 .. count' - 1 -> 0 .. count - 1] :
           /\ \A i, j \in 0 .. count' - 1 : i < j => survivor[i] < survivor[j]
           /\ \A i \in 0 .. count' - 1 : events'[Slot(i)'] = events[Slot(survivor[i])]
<1> DEFINE kept == {i \in 0 .. count - 1 : events[Slot(i)].type \notin T}
<1>1. count' \in 0 .. MaxEvents
  <2>1. [Next]_vars
    BY DEF Next
  <2> QED BY <2>1, TypeStep DEF TypeOK
<1>2. head' = 0 /\ count' = Cardinality(kept)
  BY DEF ClearTypes
<1>3. PICK survivor \in [0 .. count' - 1 -> kept] :
        /\ \A i, j \in 0 .. count' - 1 : i < j => survivor[i] < survivor[j]
        /\ events' = [s \in Slots |-> IF s < count' THEN events[Slot(survivor[s])]
                                                    ELSE events[s]]
  <2> DEFINE n == Cardinality(kept)
  <2>1. PICK survivor \in [0 .. n - 1 -> kept] :
          /\ \A i, j \in 0 .. n - 1 : i < j => survivor[i] < survivor[j]
          /\ events' = [s \in Slots |-> IF s < n THEN events[Slot(survivor[s])]
                                               ELSE events[s]]
    BY DEF ClearTypes
  <2>2. n = count'
    BY <1>2
  <2> HIDE DEF n, kept
  <2> QED BY <2>1, <2>2
<1>4. survivor \in [0 .. count' - 1 -> 0 .. count - 1]
  OBVIOUS
<1>5. \A i \in 0 .. count' - 1 : events'[Slot(i)'] = events[Slot(survivor[i])]
  <2> SUFFICES ASSUME NEW i \in 0 .. count' - 1
               PROVE  events'[Slot(i)'] = events[Slot(survivor[i])]
    OBVIOUS
  <2>1. i < count' /\ i \in Slots /\ Slot(i)' = i
    BY <1>1, <1>2, Unwrapped DEF Slot, Slots
  <2>2. events'[i] = events[Slot(survivor[i])]
    BY <1>3, <2>1
  <2> QED BY <2>1, <2>2
<1> QED BY <1>3, <1>4, <1>5

\* Only the class and the timestamp of an event decide the order.
LEMMA BeforeFacts ==
  ASSUME NEW e \in Order!Event, NEW f \in Order!Event
  PROVE  /\ Order!Class(e) \in Nat /\ e.timestamp \in Nat
         /\ Order!Before(f, e) <=> \/ Order!Class(f) > Order!Class(e)
                                   \/ /\ Order!Class(f) = Order!Class(e)
                                      /\ f.timestamp < e.timestamp
  BY DEF Order!Before, Order!Class, Order!Event, Order!Priorities, Order!Normal,
         Order!Low, Order!Critical

LEMMA OrderStep == IInv /\ [Next]_vars => Ordered' /\ Stamped'
<1> SUFFICES ASSUME IInv, [Next]_vars PROVE Ordered' /\ Stamped'
  OBVIOUS
<1>0. count \in 0 .. MaxEvents /\ posts \in Nat /\ head \in Slots
  BY DEF IInv, TypeOK
<1>1. ASSUME NEW p \in Order!Priorities, NEW t \in Types, Push(p, t)
      PROVE  Ordered' /\ Stamped'
  <2> DEFINE e == [priority |-> p, type |-> t, timestamp |-> posts + 1]
             old(i) == events[Slot(i)]
             new(i) == events'[Slot(i)']
  <2>1. PICK k \in 0 .. count :
          /\ \A i \in 0 .. count : new(i) = IF i < k THEN old(i)
                                            ELSE IF i = k THEN e ELSE old(i - 1)
          /\ \A i \in 0 .. k - 1 : Order!Class(old(i)) >= Order!Class([priority |-> p])
          /\ \A i \in k .. count - 1 : Order!Class(old(i)) < Order!Class([priority |-> p])
    BY <1>1, PushEffect
  <2>2. e \in Order!Event /\ Order!Class(e) = Order!Class([priority |-> p])
    BY <1>1 DEF Push, Order!Event, IInv, TypeOK, Order!Class
  <2>3. \A i \in 0 .. count - 1 : old(i) \in Order!Event /\ old(i).timestamp <= posts
    BY EventAt DEF IInv, Stamped
  <2>4. \A i, j \in 0 .. count - 1 : i < j => Order!Before(old(i), old(j))
    BY DEF IInv, Ordered
  <2>5. e.timestamp = posts + 1
    OBVIOUS
  <2> HIDE DEF e, old, new
  <2>6. \A i \in 0 .. k - 1 : Order!Before(old(i), e)
    BY <1>0, <2>1, <2>2, <2>3, <2>5, BeforeFacts
  <2>7. \A i \in k .. count - 1 : Order!Before(e, old(i))
    BY <1>0, <2>1, <2>2, <2>3, BeforeFacts
  <2>8. \A i, j \in 0 .. count : i < j => Order!Before(new(i), new(j))
    <3> SUFFICES ASSUME NEW i \in 0 .. count, NEW j \in 0 .. count, i < j
                 PROVE  Order!Before(new(i), new(j))
      OBVIOUS
    <3>1. CASE j < k
      BY <1>0, <2>1, <2>4, <3>1
    <3>2. CASE j = k
      BY <1>0, <2>1, <2>6, <3>2
    <3>3. CASE j > k /\ i < k
      BY <1>0, <2>1, <2>4, <3>3
    <3>4. CASE j > k /\ i = k
      BY <1>0, <2>1, <2>7, <3>4
    <3>5. CASE j > k /\ i > k
      BY <1>0, <2>1, <2>4, <3>5
    <3> QED BY <3>1, <3>2, <3>3, <3>4, <3>5
  <2>9. \A i \in 0 .. count : new(i).timestamp <= posts + 1
    BY <1>0, <2>1, <2>2, <2>3, <2>5, BeforeFacts
  <2>10. count' - 1 = count /\ posts' = posts + 1
    BY <1>0, <1>1 DEF Push
  <2>11. Ordered'
    BY <2>8, <2>10 DEF Ordered, new
  <2>12. Stamped'
    BY <2>9, <2>10 DEF Stamped, new
  <2> QED BY <2>11, <2>12
<1>2. CASE PushFull
  BY <1>0, <1>2, EventAt, BeforeFacts DEF PushFull, IInv, Ordered, Stamped, Slot
<1>3. CASE PushPastEnd
  BY <1>0, <1>3, EventAt, BeforeFacts DEF PushPastEnd, IInv, Ordered, Stamped, Slot
<1>4. CASE Pop
  <2>1. count' - 1 = count - 2 /\ count \in Nat \ {0} /\ posts' = posts /\ events' = events
    BY <1>0, <1>4 DEF Pop
  <2>2. \A i \in 0 .. count - 2 : Slot(i)' = Slot(i + 1) /\ i + 1 \in 0 .. count - 1
    BY <1>0, <1>4, <2>1, PopEffect
  <2>3. Ordered'
    <3> SUFFICES ASSUME NEW i \in 0 .. count - 2, NEW j \in 0 .. count - 2, i < j
                 PROVE  Order!Before(events[Slot(i)'], events[Slot(j)'])
      BY <2>1 DEF Ordered
    <3>1. Order!Before(events[Slot(i + 1)], events[Slot(j + 1)])
      BY <2>2 DEF IInv, Ordered
    <3> QED BY <2>2, <3>1
  <2>4. Stamped'
    <3> SUFFICES ASSUME NEW i \in 0 .. count - 2
                 PROVE  events[Slot(i)'].timestamp <= posts
      BY <2>1 DEF Stamped
    <3> QED BY <2>2 DEF IInv, Stamped
  <2> QED BY <2>3, <2>4
<1>5. CASE Clear
  BY <1>5 DEF Clear, Ordered, Stamped
<1>6. ASSUME NEW T \in (SUBSET Types) \ {{}}, ClearTypes(T), ~wild
      PROVE  Ordered' /\ Stamped'
  <2>1. PICK survivor \in [0 .. count' - 1 -> 0 .. count - 1] :
          /\ \A i, j \in 0 .. count' - 1 : i < j => survivor[i] < survivor[j]
          /\ \A i \in 0 .. count' - 1 : events'[Slot(i)'] = events[Slot(survivor[i])]
    BY <1>6, ClearEffect
  <2>2. posts' = posts
    BY <1>6 DEF ClearTypes
  <2>3. Ordered'
    <3> SUFFICES ASSUME NEW i \in 0 .. count' - 1, NEW j \in 0 .. count' - 1, i < j
                 PROVE  Order!Before(events'[Slot(i)'], events'[Slot(j)'])
      BY DEF Ordered
    <3>1. Order!Before(events[Slot(survivor[i])], events[Slot(survivor[j])])
      BY <2>1 DEF IInv, Ordered
    <3> QED BY <2>1, <3>1
  <2>4. Stamped'
    <3> SUFFICES ASSUME NEW i \in 0 .. count' - 1
                 PROVE  events'[Slot(i)'].timestamp <= posts
      BY <2>2 DEF Stamped
    <3> QED BY <2>1 DEF IInv, Stamped
  <2> QED BY <2>3, <2>4
<1>7. CASE UNCHANGED vars
  BY <1>7 DEF vars, IInv, Ordered, Stamped, Slot
<1> QED
  BY <1>1, <1>2, <1>3, <1>4, <1>5, <1>6, <1>7 DEF Next

LEMMA QueuedSize ==
  ASSUME TypeOK
  PROVE  Cardinality(Queued) <= count
<1> DEFINE f == [i \in 0 .. count - 1 |-> events[Slot(i)]]
<1>1. f \in Surjection(0 .. count - 1, Queued)
  BY DEF Surjection, Queued
<1>2. IsFiniteSet(0 .. count - 1) /\ Cardinality(0 .. count - 1) = count
  BY FS_Interval DEF TypeOK
<1> HIDE DEF f
<1>3. Cardinality(Queued) <= Cardinality(0 .. count - 1)
  BY <1>1, <1>2, FS_Surjection
<1> QED BY <1>2, <1>3

\* Every step of the ring is a step of the abstract queue.
LEMMA RefinementStep ==
  IInv /\ [Next]_vars => [Order!OrderNext]_<<Queued, posts, out>>
<1> SUFFICES ASSUME IInv, [Next]_vars PROVE [Order!OrderNext]_<<Queued, posts, out>>
  OBVIOUS
<1>0. count \in 0 .. MaxEvents /\ posts \in Nat /\ head \in Slots
  BY DEF IInv, TypeOK
<1>1. ASSUME NEW p \in Order!Priorities, NEW t \in Types, Push(p, t)
      PROVE  Order!Accept(p, t)
  <2> DEFINE e == [priority |-> p, type |-> t, timestamp |-> posts + 1]
  <2>1. Cardinality(Queued) < MaxEvents
    <3>1. IsFiniteSet(Queued)
      <4> DEFINE f == [i \in 0 .. count - 1 |-> events[Slot(i)]]
      <4>1. f \in Surjection(0 .. count - 1, Queued)
        BY DEF Surjection, Queued
      <4>2. IsFiniteSet(0 .. count - 1)
        BY <1>0, FS_Interval
      <4> HIDE DEF f
      <4> QED BY <4>1, <4>2, FS_Surjection
    <3>2. Cardinality(Queued) \in Nat
      BY <3>1, FS_CardinalityType
    <3> QED BY <1>0, <1>1, <3>2, QueuedSize DEF Push, IInv
  <2>2. PICK k \in 0 .. count :
          \A i \in 0 .. count : events'[Slot(i)'] = IF i < k THEN events[Slot(i)]
                                                    ELSE IF i = k THEN e ELSE events[Slot(i - 1)]
    BY <1>1, PushEffect, ZenonT(60)
  <2>3. Queued' = {events'[Slot(i)'] : i \in 0 .. count}
    BY <1>0, <1>1 DEF Queued, Push
  <2> HIDE DEF e
  <2>4. Queued' = Queued \cup {e}
    <3>1. ASSUME NEW i \in 0 .. count PROVE events'[Slot(i)'] \in Queued \cup {e}
      BY <1>0, <2>2 DEF Queued
    <3>2. ASSUME NEW i \in 0 .. count - 1 PROVE events[Slot(i)] \in Queued'
      <4>1. CASE i < k
        BY <1>0, <2>2, <2>3, <4>1
      <4>2. CASE i >= k
        <5>1. events'[Slot(i + 1)'] = events[Slot(i)] /\ i + 1 \in 0 .. count
          BY <1>0, <2>2, <4>2
        <5> QED BY <2>3, <5>1
      <4> QED BY <1>0, <4>1, <4>2
    <3>3. e \in Queued'
      BY <1>0, <2>2, <2>3
    <3> QED BY <2>3, <3>1, <3>2, <3>3 DEF Queued
  <2> QED BY <1>1, <2>1, <2>4 DEF Order!Accept, Push, e, Cardinality, Order!Cardinality
<1>2. CASE PushFull
  BY <1>2 DEF PushFull, Order!OrderNext, Order!Refuse, Queued, Slot
<1>3. CASE PushPastEnd
  BY <1>3 DEF PushPastEnd, Order!OrderNext, Order!Refuse, Queued, Slot
<1>4. CASE Pop
  <2> DEFINE e == events[Slot(0)]
  <2>1. count \in Nat \ {0} /\ count' - 1 = count - 2 /\ events' = events
    BY <1>0, <1>4 DEF Pop
  <2>2. e = events[head] /\ e \in Queued
    BY <1>0, <2>1, SlotValue, Unwrapped DEF Queued, Slots
  <2>3. ASSUME NEW i \in 1 .. count - 1
        PROVE  Order!Before(e, events[Slot(i)]) /\ events[Slot(i)] # e
    <3>1. Order!Before(e, events[Slot(i)])
      BY <2>1 DEF IInv, Ordered
    <3>2. e \in Order!Event
      BY <2>1, EventAt DEF IInv
    <3> QED BY <3>1, <3>2, BeforeFacts
  <2>4. Queued \ {e} = {events[Slot(i)] : i \in 1 .. count - 1}
    <3> HIDE DEF e
    <3>1. ASSUME NEW f \in Queued \ {e} PROVE f \in {events[Slot(i)] : i \in 1 .. count - 1}
      <4>1. PICK i \in 0 .. count - 1 : f = events[Slot(i)]
        BY DEF Queued
      <4>2. i # 0
        BY <4>1 DEF e
      <4> QED BY <4>1, <4>2
    <3>2. ASSUME NEW i \in 1 .. count - 1 PROVE events[Slot(i)] \in Queued \ {e}
      BY <2>3 DEF Queued
    <3> QED BY <3>1, <3>2
  <2>5. \A i \in 0 .. count - 2 : Slot(i)' = Slot(i + 1)
    BY <1>0, <1>4, <2>1, PopEffect
  <2>6. Queued' = {events[Slot(i)] : i \in 1 .. count - 1}
    <3>1. Queued' = {events[Slot(i)'] : i \in 0 .. count - 2}
      BY <2>1 DEF Queued
    <3>2. ASSUME NEW i \in 1 .. count - 1 PROVE events[Slot(i)] \in Queued'
      <4>1. i - 1 \in 0 .. count - 2 /\ Slot(i - 1)' = Slot(i)
        BY <2>1, <2>5
      <4> QED BY <3>1, <4>1
    <3>3. ASSUME NEW i \in 0 .. count - 2
          PROVE  events[Slot(i)'] \in {events[Slot(j)] : j \in 1 .. count - 1}
      BY <2>1, <2>5
    <3> QED BY <3>1, <3>2, <3>3
  <2> HIDE DEF e
  <2>7. \A f \in Queued \ {e} : Order!Before(e, f)
    BY <2>3, <2>4
  <2> QED BY <1>4, <2>2, <2>4, <2>6, <2>7 DEF Order!OrderNext, Order!Deliver, Pop
<1>5. CASE Clear
  BY <1>5 DEF Clear, Order!OrderNext, Order!Discard, Queued
<1>6. ASSUME NEW T \in (SUBSET Types) \ {{}}, ClearTypes(T), ~wild PROVE Order!Discard
  <2>1. PICK survivor \in [0 .. count' - 1 -> 0 .. count - 1] :
          \A i \in 0 .. count' - 1 : events'[Slot(i)'] = events[Slot(survivor[i])]
    BY <1>6, ClearEffect
  <2>2. Queued' \in SUBSET Queued
    BY <2>1 DEF Queued
  <2> QED BY <1>6, <2>2 DEF Order!Discard, ClearTypes
<1>7. CASE UNCHANGED vars
  BY <1>7 DEF vars, Queued, Slot
<1> QED
  BY <1>1, <1>2, <1>3, <1>4, <1>5, <1>6, <1>7 DEF Next, Order!OrderNext

-----------------------------------------------------------------------------
LEMMA InitInv == Init => IInv /\ Order!OrderInit
<1> SUFFICES ASSUME Init PROVE IInv /\ Order!OrderInit
  OBVIOUS
<1>1. NoEvent \in Order!Event
  BY DEF NoEvent, Order!Event, Order!Priorities, Order!Low, Order!Critical
<1>2. TypeOK
  <2>1. wild \in BOOLEAN
    BY DEF Init
  <2> QED BY <1>1, <2>1 DEF Init, TypeOK, Slots
<1>3. RingShape /\ Ordered /\ Stamped
  BY DEF Init, RingShape, Ordered, Stamped
<1>4. Order!OrderInit
  BY DEF Init, Order!OrderInit, Queued
<1> QED BY <1>2, <1>3, <1>4 DEF IInv

LEMMA Invariance == Spec => []IInv
<1>1. IInv /\ [Next]_vars => IInv'
  BY TypeStep, ShapeStep, OrderStep DEF IInv
<1> QED BY InitInv, <1>1, PTL DEF Spec

\* The members of the ring keep their ranges, for every capacity and load.
THEOREM TypeCorrect == Spec => []TypeOK
<1>1. IInv => TypeOK
  BY DEF IInv
<1> QED BY Invariance, <1>1, PTL

\* Read and write position stay count slots apart through every wrap.
THEOREM ShapeCorrect == Spec => []RingShape
<1>1. IInv => RingShape
  BY DEF IInv
<1> QED BY Invariance, <1>1, PTL

\* Insertion, removal and compaction never disturb the order of the queue.
THEOREM OrderCorrect == Spec => []Ordered
<1>1. IInv => Ordered
  BY DEF IInv
<1> QED BY Invariance, <1>1, PTL

\* Whatever the capacity, the ring is a bounded priority order: every event is
\* delivered at most once, and always the oldest of the highest class.
THEOREM RingImplementsOrder == Spec => ImplementsOrder
<1>1. IInv /\ [Next]_vars => [Order!OrderNext]_<<Queued, posts, out>>
  BY RefinementStep
<1> QED BY InitInv, Invariance, <1>1, PTL DEF Spec, ImplementsOrder, Order!OrderSpec

-----------------------------------------------------------------------------
(***************************************************************************)
(* The controls.  The six fields that say where everything is (Core) are   *)
(* kept first: what every operation on the tree, on the marks and on the   *)
(* positions leaves.  Then what a handler may leave of a move, of a press  *)
(* and of a release, from a single control up to the root; then the four   *)
(* invariants as parts of one, InOrder.                                    *)
(***************************************************************************)
HIDE TypesAssumption
HIDE MaxPostsAssumption
HIDE MaxEventsAssumption

\* What a box holds when the text was typed: the text, the terminator behind it,
\* and room for both.
BoxHolds(box, text) ==
    /\ text \in Seq(Chars) /\ Len(text) <= MaxLength
    /\ box.length = Len(text) /\ box.cursor = Len(text)
    /\ \E capacity \in Nat : DOMAIN box.buffer = 0 .. capacity - 1 /\ capacity >= Len(text) + 1
    /\ \A i \in 1 .. Len(text) : box.buffer[i - 1] = text[i]
    /\ box.buffer[Len(text)] = None

\* The size of a buffer.
LEMMA BufferSize ==
  ASSUME NEW b, NEW capacity \in Nat, DOMAIN b = 0 .. capacity - 1
  PROVE  Cardinality(DOMAIN b) = capacity
<1>1. /\ 0 \in Int /\ capacity - 1 \in Int
  OBVIOUS
<1>2. Cardinality(0 .. capacity - 1) = IF 0 > capacity - 1 THEN 0 ELSE (capacity - 1) - 0 + 1
  BY <1>1, FS_Interval
<1> QED BY <1>2

\* No character is the terminator.
LEMMA CharsApart == /\ None \notin Chars /\ "back" \notin Chars /\ "enter" \notin Chars
                    /\ MaxLength \in Nat /\ InitialCapacity \in Nat \ {0}
  BY ControlsAssumption DEF None

\* A box shows what it holds.
LEMMA ShownIsHeld ==
  ASSUME NEW box, NEW text, BoxHolds(box, text)
  PROVE  ShownText(box) = text
<1>1. PICK capacity \in Nat : DOMAIN box.buffer = 0 .. capacity - 1 /\ capacity >= Len(text) + 1
  BY DEF BoxHolds
<1>2. Cardinality(DOMAIN box.buffer) = capacity
  BY <1>1, BufferSize
<1> DEFINE S == {i \in DOMAIN box.buffer : box.buffer[i] = None} \cup {Cardinality(DOMAIN box.buffer)}
<1>3. text \in Seq(Chars) /\ Len(text) \in Nat
  BY DEF BoxHolds
<1>4. S \subseteq Int
  BY <1>1, <1>2
<1>5. Len(text) \in S
  BY <1>1, <1>3 DEF BoxHolds
<1>6. \A i \in S : Len(text) <= i
  <2> SUFFICES ASSUME NEW i \in S, i < Len(text) PROVE FALSE
    BY <1>3, <1>4
  <2>1. i \in 0 .. Len(text) - 1 /\ box.buffer[i] = None
    BY <1>1, <1>2, <1>3
  <2>2. i + 1 \in 1 .. Len(text) /\ i = (i + 1) - 1
    BY <2>1, <1>3
  <2>3. box.buffer[i] = text[i + 1]
    BY <2>2 DEF BoxHolds
  <2>4. text[i + 1] \in Chars
    BY <2>2, <1>3
  <2> QED BY <2>1, <2>3, <2>4, CharsApart
<1>7. Min(S) = Len(text)
  <2>1. \E x \in S : \A y \in S : x <= y
    BY <1>5, <1>6
  <2>2. Min(S) \in S /\ \A y \in S : Min(S) <= y
    BY <2>1 DEF Min
  <2>3. Min(S) \in Int /\ Len(text) <= Min(S) /\ Min(S) <= Len(text)
    BY <2>2, <1>4, <1>5, <1>6
  <2> QED BY <2>3, <1>3
<1>8. ShownText(box) = [i \in 1 .. Min(S) |-> box.buffer[i - 1]]
  BY DEF ShownText
<1>9. ShownText(box) = [i \in 1 .. Len(text) |-> text[i]]
  BY <1>7, <1>8 DEF BoxHolds
<1> QED BY <1>3, <1>9

\* A fresh box, and one that is emptied.
LEMMA FreshBox == BoxHolds(EmptyBox, <<>>)
<1>1. InitialCapacity \in Nat /\ InitialCapacity >= 1 /\ MaxLength \in Nat
  BY CharsApart
<1>2. DOMAIN EmptyBox.buffer = 0 .. InitialCapacity - 1 /\ EmptyBox.buffer[0] = None
  BY <1>1 DEF EmptyBox
<1>3. EmptyBox.length = 0 /\ EmptyBox.cursor = 0
  BY DEF EmptyBox
<1> QED BY <1>1, <1>2, <1>3 DEF BoxHolds

LEMMA EmptiedBox ==
  ASSUME NEW box, NEW text, BoxHolds(box, text)
  PROVE  BoxHolds(WithText(box, <<>>), <<>>)
<1>1. PICK capacity \in Nat : DOMAIN box.buffer = 0 .. capacity - 1 /\ capacity >= Len(text) + 1
  BY DEF BoxHolds
<1>2. Cardinality(DOMAIN box.buffer) = capacity
  BY <1>1, BufferSize
<1>3. Len(text) \in Nat /\ MaxLength \in Nat
  BY CharsApart DEF BoxHolds
<1>4. Cut(<<>>) = 0
  BY <1>3 DEF Cut
<1>5. ~TooSmall(box, <<>>)
  BY <1>1, <1>2, <1>3, <1>4 DEF TooSmall
<1>6. WithText(box, <<>>) = [buffer |-> [i \in DOMAIN box.buffer |->
           IF i < 0 THEN <<>>[i + 1] ELSE IF i = 0 THEN None ELSE box.buffer[i]], length |-> 0, cursor |-> 0]
  BY <1>4, <1>5 DEF WithText
<1> DEFINE new == WithText(box, <<>>)
<1>7. DOMAIN new.buffer = 0 .. capacity - 1 /\ new.buffer[0] = None /\ new.length = 0 /\ new.cursor = 0
  BY <1>1, <1>3, <1>6
<1> HIDE DEF new
<1>8. BoxHolds(new, <<>>)
  <2>1. <<>> \in Seq(Chars) /\ Len(<<>>) = 0 /\ Len(<<>>) <= MaxLength /\ capacity >= Len(<<>>) + 1
    BY <1>1, <1>3
  <2> QED BY <1>7, <2>1 DEF BoxHolds
<1> QED BY <1>8 DEF new

\* One more character, when the buffer has room or can grow.
LEMMA LongerBox ==
  ASSUME NEW box, NEW text, BoxHolds(box, text), NEW ch \in Chars, NEW ok \in BOOLEAN, ok \/ Full(box)
  PROVE  BoxHolds(InsertChar(box, ch, ok), IF Len(text) < MaxLength /\ ok THEN Append(text, ch) ELSE text)
<1>1. PICK capacity \in Nat : DOMAIN box.buffer = 0 .. capacity - 1 /\ capacity >= Len(text) + 1
  BY DEF BoxHolds
<1>2. Cardinality(DOMAIN box.buffer) = capacity
  BY <1>1, BufferSize
<1>3. text \in Seq(Chars) /\ Len(text) \in Nat /\ MaxLength \in Nat
  BY CharsApart DEF BoxHolds
<1>4. box.length = Len(text) /\ box.cursor = Len(text)
  BY DEF BoxHolds
<1>5. CASE ~(Len(text) < MaxLength /\ ok)
  <2>1. InsertChar(box, ch, ok) = box
    BY <1>3, <1>4, <1>5 DEF InsertChar
  <2> QED BY <2>1, <1>5
<1>6. CASE Len(text) < MaxLength /\ ok
  <2> DEFINE b == IF Full(box) THEN Grown(box.buffer, 2 * Cardinality(DOMAIN box.buffer)) ELSE box.buffer
             moved == [i \in DOMAIN b |-> IF i \in box.cursor + 1 .. box.length THEN b[i - 1] ELSE b[i]]
             new == [buffer |-> [moved EXCEPT ![box.cursor] = ch, ![box.length + 1] = None],
                     length |-> box.length + 1, cursor |-> box.cursor + 1]
  <2>1. InsertChar(box, ch, ok) = new
    BY <1>3, <1>4, <1>6 DEF InsertChar
  <2>2. \E size \in Nat : DOMAIN b = 0 .. size - 1 /\ size >= Len(text) + 2
    <3>1. CASE Full(box)
      <4>1. DOMAIN b = 0 .. 2 * capacity - 1
        BY <1>2, <3>1 DEF Grown
      <4>2. 2 * capacity \in Nat /\ 2 * capacity >= Len(text) + 2
        BY <1>1, <1>3
      <4> QED BY <4>1, <4>2
    <3>2. CASE ~Full(box)
      <4>1. capacity >= Len(text) + 2
        BY <1>1, <1>2, <1>3, <1>4, <3>2 DEF Full
      <4> QED BY <1>1, <3>2, <4>1
    <3> QED BY <3>1, <3>2
  <2>3. \A i \in 1 .. Len(text) : b[i - 1] = text[i]
    <3>1. \A i \in 1 .. Len(text) : box.buffer[i - 1] = text[i] /\ i - 1 \in DOMAIN box.buffer /\ i - 1 \in 0 .. 2 * capacity - 1
      BY <1>1, <1>3 DEF BoxHolds
    <3> QED BY <1>2, <3>1 DEF Grown
  <2> HIDE DEF b
  <2>4. PICK size \in Nat : DOMAIN b = 0 .. size - 1 /\ size >= Len(text) + 2
    BY <2>2
  <2>5. DOMAIN moved = 0 .. size - 1 /\ \A i \in 0 .. size - 1 : moved[i] = b[i]
    BY <1>3, <1>4, <2>4
  <2> DEFINE longer == Append(text, ch)
  <2>6. /\ longer \in Seq(Chars) /\ Len(longer) = Len(text) + 1
        /\ \A i \in 1 .. Len(text) : longer[i] = text[i]
        /\ longer[Len(text) + 1] = ch
    BY <1>3
  <2>7. /\ new.length = Len(text) + 1 /\ new.cursor = Len(text) + 1 /\ DOMAIN new.buffer = 0 .. size - 1
        /\ new.buffer[Len(text)] = ch /\ new.buffer[Len(text) + 1] = None
        /\ \A i \in 1 .. Len(text) : new.buffer[i - 1] = text[i]
    <3> HIDE DEF moved
    <3>1. \A i \in 1 .. Len(text) : i - 1 \in 0 .. size - 1 /\ i - 1 # Len(text) /\ i - 1 # Len(text) + 1
      BY <1>3, <2>4
    <3>2. Len(text) \in 0 .. size - 1 /\ Len(text) + 1 \in 0 .. size - 1 /\ Len(text) # Len(text) + 1
      BY <1>3, <2>4
    <3> QED BY <1>4, <2>3, <2>5, <3>1, <3>2
  <2> HIDE DEF new, longer
  <2>8. \A i \in 1 .. Len(longer) : new.buffer[i - 1] = longer[i]
    <3> SUFFICES ASSUME NEW i \in 1 .. Len(longer) PROVE new.buffer[i - 1] = longer[i]
      OBVIOUS
    <3>1. CASE i \in 1 .. Len(text)
      BY <2>6, <2>7, <3>1
    <3>2. CASE i = Len(text) + 1
      <4>1. i - 1 = Len(text)
        BY <1>3, <3>2
      <4> QED BY <2>6, <2>7, <3>2, <4>1
    <3> QED BY <1>3, <2>6, <3>1, <3>2
  <2>9. BoxHolds(new, longer)
    BY <1>3, <1>6, <2>4, <2>6, <2>7, <2>8 DEF BoxHolds
  <2> QED BY <1>6, <2>1, <2>9 DEF longer
<1> QED BY <1>5, <1>6

\* One character less.
LEMMA ShorterBox ==
  ASSUME NEW box, NEW text, BoxHolds(box, text)
  PROVE  BoxHolds(DeleteChar(box), IF text = <<>> THEN <<>> ELSE Front(text))
<1>1. PICK capacity \in Nat : DOMAIN box.buffer = 0 .. capacity - 1 /\ capacity >= Len(text) + 1
  BY DEF BoxHolds
<1>3. text \in Seq(Chars) /\ Len(text) \in Nat /\ MaxLength \in Nat /\ Len(text) <= MaxLength
  BY CharsApart DEF BoxHolds
<1>4. box.length = Len(text) /\ box.cursor = Len(text)
  BY DEF BoxHolds
<1>5. CASE text = <<>>
  BY <1>4, <1>5 DEF DeleteChar
<1>6. CASE text # <<>>
  <2>1. Len(text) >= 1
    BY <1>3, <1>6
  <2> DEFINE new == [buffer |-> [i \in DOMAIN box.buffer |-> IF i \in box.cursor - 1 .. box.length - 1
                                                  THEN box.buffer[i + 1] ELSE box.buffer[i]],
                     length |-> box.length - 1, cursor |-> box.cursor - 1]
             shorter == Front(text)
  <2>2. DeleteChar(box) = new
    BY <1>3, <1>4, <2>1 DEF DeleteChar
  <2>3. /\ shorter \in Seq(Chars) /\ Len(shorter) = Len(text) - 1
        /\ \A i \in 1 .. Len(text) - 1 : shorter[i] = text[i]
    <3>1. shorter = SubSeq(text, 1, Len(text) - 1)
      BY DEF Front
    <3>2. Len(text) - 1 \in Nat /\ Len(text) - 1 <= Len(text)
      BY <1>3, <2>1
    <3> HIDE DEF shorter
    <3>3. \A i \in 1 .. Len(text) - 1 : text[i] \in Chars
      BY <1>3, <2>1
    <3>4. /\ SubSeq(text, 1, Len(text) - 1) \in Seq(Chars)
          /\ Len(SubSeq(text, 1, Len(text) - 1)) = IF 1 <= Len(text) - 1 THEN (Len(text) - 1) - 1 + 1 ELSE 0
          /\ \A i \in 1 .. (Len(text) - 1) - 1 + 1 : SubSeq(text, 1, Len(text) - 1)[i] = text[1 + i - 1]
      BY <3>2, <3>3, SubSeqProperties
    <3>5. \A i \in 1 .. Len(text) - 1 : i \in 1 .. (Len(text) - 1) - 1 + 1 /\ 1 + i - 1 = i
      BY <1>3
    <3>6. (Len(text) - 1) - 1 + 1 = Len(text) - 1 /\ (1 <= Len(text) - 1 \/ Len(text) - 1 = 0)
      <4>1. PICK n \in Nat : n = Len(text) /\ n >= 1
        BY <1>3, <2>1
      <4>2. (n - 1) - 1 + 1 = n - 1 /\ (1 <= n - 1 \/ n - 1 = 0)
        BY <4>1
      <4> QED BY <4>1, <4>2
    <3>7. Len(shorter) = Len(text) - 1
      BY <3>1, <3>4, <3>6
    <3> QED BY <3>1, <3>4, <3>5, <3>7
  <2>4. /\ new.length = Len(text) - 1 /\ new.cursor = Len(text) - 1 /\ DOMAIN new.buffer = 0 .. capacity - 1
        /\ \A i \in 0 .. capacity - 1 : new.buffer[i] = IF i = Len(text) - 1 THEN box.buffer[i + 1] ELSE box.buffer[i]
    BY <1>1, <1>3, <1>4
  <2> HIDE DEF new, shorter
  <2>5. new.buffer[Len(text) - 1] = None
    <3>1. Len(text) - 1 \in 0 .. capacity - 1 /\ (Len(text) - 1) + 1 = Len(text)
      BY <1>1, <1>3, <2>1
    <3> QED BY <2>4, <3>1 DEF BoxHolds
  <2>6. \A i \in 1 .. Len(text) - 1 : new.buffer[i - 1] = text[i]
    <3> SUFFICES ASSUME NEW i \in 1 .. Len(text) - 1 PROVE new.buffer[i - 1] = text[i]
      OBVIOUS
    <3>1. i - 1 \in 0 .. capacity - 1 /\ i - 1 # Len(text) - 1 /\ i \in 1 .. Len(text)
      BY <1>1, <1>3
    <3> QED BY <2>4, <3>1 DEF BoxHolds
  <2>7. BoxHolds(new, shorter)
    <3>1. \A i \in 1 .. Len(shorter) : new.buffer[i - 1] = shorter[i]
      BY <2>3, <2>6
    <3>2. Len(shorter) <= MaxLength /\ capacity >= Len(shorter) + 1
      BY <1>1, <1>3, <2>1, <2>3
    <3>3. new.length = Len(shorter) /\ new.cursor = Len(shorter) /\ new.buffer[Len(shorter)] = None
      BY <2>3, <2>4, <2>5
    <3> QED BY <2>3, <2>4, <3>1, <3>2, <3>3 DEF BoxHolds
  <2> QED BY <1>6, <2>2, <2>7 DEF shorter
<1> QED BY <1>5, <1>6

-----------------------------------------------------------------------------
\* A form is a record of these fields; Only says what a step of the program left alone.
Fields == {"children", "parent", "offset", "dirty", "at", "focus", "hover", "capture", "focused", "lit",
           "pressed", "box", "slider", "items", "selected", "list", "marked", "open", "root"}
IsForm(s) == s = [f \in Fields |-> s[f]]
Only(s, t, F) == IsForm(t) /\ \A f \in Fields \ F : t[f] = s[f]

\* Where a control belongs: its parent, when it has one.
Home(c) == CASE c \in {"logo", "field", "combo", "taskbar"} -> "root"
             [] c \in {"text", "drop"} -> "combo"
             [] c = "options" -> "popup"
             [] c \in Entries \cup {"slider"} -> "taskbar"
             [] OTHER -> None

Tree(s) ==
    /\ s.children \in [Panels -> Seq(All)]
    /\ s.parent \in [All -> Panels \cup {None}]
    /\ s.offset \in [All -> Int]
    /\ \A c \in All : s.parent[c] \in {Home(c), None}
    /\ \A p \in Panels : IsInjective(s.children[p])
    /\ \A p \in Panels, c \in All : c \in ToSet(s.children[p]) <=> s.parent[c] = p

\* A button lies beside whatever else is in its panel.
Places(s) ==
    /\ s.offset["logo"] = 0
    /\ \A c \in {"field", "combo", "taskbar"} : s.offset[c] >= 1
    /\ s.offset["text"] = 0 /\ s.offset["drop"] = 2
    /\ \A e \in Entries : s.parent[e] = "taskbar" =>
           /\ s.parent["slider"] = None
           /\ s.offset[e] \in 0 .. Len(s.children["taskbar"]) - 1
           /\ \A d \in Entries : s.parent[d] = "taskbar" /\ s.offset[d] = s.offset[e] => d = e

Fresh(s) ==
    /\ s.dirty \subseteq All /\ s.at = [c \in All |-> s.at[c]] /\ s.open \in BOOLEAN
    /\ \A c \in All \ s.dirty : s.at[c] = Absolute(s, c)

\* A drop-down panel that is marked has nothing in it that is not, and is closed.
Marks(s) == "popup" \in s.dirty => "options" \in s.dirty /\ ~s.open

Placed(s) == IsForm(s) /\ Tree(s) /\ Places(s) /\ Fresh(s)
Core(s) == Placed(s) /\ Marks(s)
CoreFields == {"children", "parent", "offset", "dirty", "at", "open"}

\* Positions were computed, and nothing else.
Looked(s, t) == Core(t) /\ Only(s, t, {"dirty", "at"})

\* The names.
LEMMA NamesApart ==
  /\ Entries \cap {"none", "logo", "drop", "field", "text", "root", "combo", "popup", "taskbar", "slider", "options"} = {}
  /\ None \notin All /\ Entries \cap Panels = {} /\ Buttons \cap Panels = {} /\ Boxes \cap Panels = {}
  /\ Panels \subseteq All /\ Buttons \subseteq All /\ Boxes \subseteq All /\ Entries \subseteq Buttons
  /\ "slider" \in All /\ "options" \in All
  /\ All = Panels \cup Buttons \cup Boxes \cup {"slider", "options"}
<1>1. Entries \cap {"none", "logo", "drop", "field", "text", "root", "combo", "popup", "taskbar", "slider", "options"} = {}
  BY ControlsAssumption
<1> QED BY <1>1 DEF All, Panels, Buttons, Boxes, None

LEMMA Homes ==
  /\ Home("root") = None /\ Home("popup") = None /\ Home("combo") = "root" /\ Home("taskbar") = "root"
  /\ Home("logo") = "root" /\ Home("field") = "root" /\ Home("text") = "combo" /\ Home("drop") = "combo"
  /\ Home("options") = "popup" /\ Home("slider") = "taskbar" /\ \A e \in Entries : Home(e) = "taskbar"
<1>1. Entries \cap {"none", "logo", "drop", "field", "text", "root", "combo", "popup", "taskbar", "slider", "options"} = {}
  BY NamesApart
<1> QED BY <1>1 DEF Home, None

\* Who lives in a panel.
LEMMA Residents ==
  ASSUME NEW c \in All
  PROVE  /\ Home(c) = "root" => c \in {"logo", "field", "combo", "taskbar"}
         /\ Home(c) = "combo" => c \in {"text", "drop"}
         /\ Home(c) = "popup" => c = "options"
         /\ Home(c) = "taskbar" => c \in Entries \cup {"slider"}
<1>1. Entries \cap {"none", "logo", "drop", "field", "text", "root", "combo", "popup", "taskbar", "slider", "options"} = {}
  BY NamesApart
<1> QED BY <1>1 DEF Home, None

\* Steps add up.
LEMMA OnlyThen ==
  ASSUME NEW s, NEW t, NEW u, NEW F, NEW G, Only(s, t, F), Only(t, u, G)
  PROVE  Only(s, u, F \cup G)
  BY DEF Only

LEMMA OnlyMore ==
  ASSUME NEW s, NEW t, NEW F, NEW G, Only(s, t, F), F \subseteq G
  PROVE  Only(s, t, G)
  BY DEF Only

LEMMA OnlySelf == ASSUME NEW s, IsForm(s), NEW F PROVE Only(s, s, F)
  BY DEF Only

\* The six fields decide where everything is.
LEMMA CoreKept ==
  ASSUME NEW s, NEW t, NEW F, Core(s), Only(s, t, F), F \cap CoreFields = {}
  PROVE  Core(t)
<1>1. /\ t.children = s.children /\ t.parent = s.parent /\ t.offset = s.offset
      /\ t.dirty = s.dirty /\ t.at = s.at /\ t.open = s.open
  BY DEF Only, Fields, CoreFields
<1>2. IsForm(t)
  BY DEF Only
<1>3. Tree(t)
  BY <1>1 DEF Core, Placed, Tree
<1>4. Places(t)
  BY <1>1 DEF Core, Placed, Places
<1>5. Fresh(t) /\ Marks(t)
  <2>1. \A c \in All : Absolute(t, c) = Absolute(s, c)
    BY <1>1 DEF Absolute, Shift, Parent
  <2> QED BY <1>1, <2>1 DEF Core, Placed, Fresh, Marks
<1> QED BY <1>2, <1>3, <1>4, <1>5 DEF Core, Placed

LEMMA TouchIs ==
  ASSUME NEW s, NEW cs, IsForm(s)
  PROVE  /\ Only(s, Touch(s, cs), {"dirty", "at"})
         /\ Touch(s, cs).dirty = s.dirty \ cs
         /\ Touch(s, cs).at = [c \in All |-> IF c \in cs \cap s.dirty THEN Absolute(s, c) ELSE s.at[c]]
  BY DEF IsForm, Only, Fields, Touch

LEMMA TouchPlaces ==
  ASSUME NEW s, NEW cs, Placed(s)
  PROVE  /\ Placed(Touch(s, cs)) /\ Only(s, Touch(s, cs), {"dirty", "at"})
         /\ Touch(s, cs).dirty = s.dirty \ cs /\ Touch(s, cs).open = s.open
<1> DEFINE t == Touch(s, cs)
<1>1. /\ Only(s, t, {"dirty", "at"})
      /\ t.dirty = s.dirty \ cs
      /\ t.at = [c \in All |-> IF c \in cs \cap s.dirty THEN Absolute(s, c) ELSE s.at[c]]
  BY TouchIs DEF Placed
<1> HIDE DEF t
<1>2. /\ t.children = s.children /\ t.parent = s.parent /\ t.offset = s.offset /\ t.open = s.open
  BY <1>1 DEF Only, Fields
<1>3. IsForm(t)
  BY <1>1 DEF Only
<1>4. Tree(t)
  BY <1>2 DEF Placed, Tree
<1>5. Places(t)
  BY <1>2 DEF Placed, Places
<1>6. Fresh(t)
  <2>1. \A c \in All : Absolute(t, c) = Absolute(s, c)
    BY <1>2 DEF Absolute, Shift, Parent
  <2>2. s.dirty \subseteq All /\ s.open \in BOOLEAN /\ (\A c \in All \ s.dirty : s.at[c] = Absolute(s, c))
    BY DEF Placed, Fresh
  <2>3. t.dirty \subseteq All /\ t.open \in BOOLEAN
    BY <1>1, <1>2, <2>2
  <2>4. t.at = [c \in All |-> t.at[c]]
    BY <1>1
  <2>5. \A c \in All \ t.dirty : t.at[c] = Absolute(t, c)
    BY <1>1, <2>1, <2>2
  <2> QED BY <2>3, <2>4, <2>5 DEF Fresh
<1> QED BY <1>1, <1>2, <1>3, <1>4, <1>5, <1>6 DEF Placed, t

LEMMA TouchKeeps ==
  ASSUME NEW s, NEW cs, Core(s), "options" \in cs => "popup" \in cs \/ "popup" \notin s.dirty
  PROVE  Looked(s, Touch(s, cs)) /\ Touch(s, cs).dirty = s.dirty \ cs
<1>1. Placed(s) /\ Marks(s)
  BY DEF Core
<1> DEFINE t == Touch(s, cs)
<1>2. /\ Placed(t) /\ Only(s, t, {"dirty", "at"})
      /\ t.dirty = s.dirty \ cs /\ t.open = s.open
  BY <1>1, TouchPlaces
<1> HIDE DEF t
<1>3. Marks(t)
  BY <1>1, <1>2 DEF Marks
<1> QED BY <1>2, <1>3 DEF Core, Looked, t

LEMMA LookedThen ==
  ASSUME NEW s, NEW t, NEW u, Looked(s, t), Looked(t, u)
  PROVE  Looked(s, u)
<1>1. Only(s, u, {"dirty", "at"} \cup {"dirty", "at"})
  BY OnlyThen DEF Looked
<1>2. Only(s, u, {"dirty", "at"})
  BY <1>1, OnlyMore
<1> QED BY <1>2 DEF Looked

\* What a window paints is in its tree, with the panel it is in.
LEMMA ShownIs ==
  ASSUME NEW s, Placed(s)
  PROVE  /\ Shown(s) \subseteq All
         /\ "options" \in Shown(s) => "popup" \in Shown(s)
         /\ s.parent["taskbar"] # None => "taskbar" \in Shown(s)
         /\ s.open => "popup" \in Shown(s)
         /\ s.open /\ s.parent["options"] # None => "options" \in Shown(s)
<1> DEFINE P == {"root"} \cup (ToSet(s.children["root"]) \cap Panels) \cup (IF s.open THEN {"popup"} ELSE {})
<1>1. Shown(s) = UNION {{p} \cup ToSet(s.children[p]) : p \in P}
  BY DEF Shown
<1>2. P \subseteq Panels /\ "root" \in P
  BY DEF Panels
<1>3. \A p \in Panels : ToSet(s.children[p]) \subseteq All
  BY DEF Placed, Tree, ToSet
<1>4. \A x : x \in Shown(s) <=> \E p \in P : x = p \/ x \in ToSet(s.children[p])
  <2> HIDE DEF P
  <2>1. ASSUME NEW x PROVE x \in Shown(s) <=> \E p \in P : x \in {p} \cup ToSet(s.children[p])
    BY <1>1
  <2> QED BY <2>1
<1>5. Panels \subseteq All
  BY NamesApart
<1>6. "options" \notin Panels /\ "options" \in All /\ "taskbar" \in All /\ "root" \in Panels /\ "popup" \in Panels
  BY DEF All, Panels
<1>7. \A p \in Panels, c \in All : c \in ToSet(s.children[p]) <=> s.parent[c] = p
  BY DEF Placed, Tree
<1>8. \A c \in All : s.parent[c] \in {Home(c), None}
  BY DEF Placed, Tree
<1>9. "popup" # None /\ "root" # None
  BY DEF None
<1> HIDE DEF P
<1>10. Shown(s) \subseteq All
  BY <1>2, <1>3, <1>4, <1>5
<1>11. "options" \in Shown(s) => "popup" \in Shown(s)
  <2>1. SUFFICES ASSUME "options" \in Shown(s) PROVE "popup" \in Shown(s)
    OBVIOUS
  <2>2. PICK p \in P : "options" \in ToSet(s.children[p])
    BY <1>2, <1>4, <1>6, <2>1
  <2>3. s.parent["options"] = p /\ p \in Panels
    BY <1>2, <1>6, <1>7, <2>2
  <2>4. p = "popup"
    BY <1>6, <1>8, <2>3, Homes, NamesApart
  <2> QED BY <1>4, <2>4
<1>12. s.parent["taskbar"] # None => "taskbar" \in Shown(s)
  BY <1>2, <1>4, <1>6, <1>7, <1>8, Homes
<1>13. s.open => "popup" \in P
  BY DEF P
<1>14. s.open /\ s.parent["options"] # None => "options" \in Shown(s)
  BY <1>4, <1>6, <1>7, <1>8, <1>13, Homes
<1> QED BY <1>4, <1>10, <1>11, <1>12, <1>13, <1>14

LEMMA PaintKeeps ==
  ASSUME NEW s, Core(s)
  PROVE  Looked(s, Paint(s)) /\ Paint(s).dirty = s.dirty \ Shown(s)
<1>1. Placed(s)
  BY DEF Core
<1>2. "options" \in Shown(s) => "popup" \in Shown(s)
  BY <1>1, ShownIs
<1> QED BY <1>2, TouchKeeps DEF Paint

LEMMA InvalidateKeeps ==
  ASSUME NEW s, Core(s), NEW c, c # "options"
  PROVE  /\ Looked(s, Invalidate(s, c))
         /\ Invalidate(s, c).dirty = s.dirty \ ({c} \cup Shown(s))
<1>1. Looked(s, Touch(s, {c})) /\ Touch(s, {c}).dirty = s.dirty \ {c}
  BY TouchKeeps
<1> DEFINE t == Touch(s, {c})
<1>2. Core(t) /\ t.children = s.children /\ t.open = s.open
  BY <1>1 DEF Looked, Only, Fields
<1>3. Shown(t) = Shown(s)
  BY <1>2 DEF Shown
<1> HIDE DEF t
<1>4. Looked(t, Paint(t)) /\ Paint(t).dirty = t.dirty \ Shown(t)
  BY <1>2, PaintKeeps
<1>5. Looked(s, Paint(t))
  BY <1>1, <1>4, LookedThen DEF t
<1>6. Paint(t).dirty = s.dirty \ ({c} \cup Shown(s))
  BY <1>1, <1>3, <1>4 DEF t
<1> QED BY <1>5, <1>6 DEF Invalidate, t

\* A child has a parent, and only panels have children.
LEMMA Belongs ==
  ASSUME NEW s, Tree(s), NEW c \in All, NEW x \in Kids(s, c)
  PROVE  c \in Panels /\ x \in All /\ s.parent[x] = c /\ Home(x) = c
<1>1. c \in Panels /\ x \in ToSet(s.children[c])
  BY DEF Kids
<1>2. x \in All
  BY <1>1 DEF Tree, ToSet
<1>3. s.parent[x] = c /\ c # None
  BY <1>1, <1>2, NamesApart DEF Tree
<1> QED BY <1>1, <1>2, <1>3 DEF Tree

LEMMA BelowIs ==
  ASSUME NEW s, Tree(s), NEW c \in All
  PROVE  /\ Below(s, c) \subseteq All
         /\ \A x \in Below(s, c) : x = c \/ s.parent[x] # None
         /\ c \notin s.dirty => c \in Below(s, c) /\ Kids(s, c) \subseteq s.dirty \cup Below(s, c)
<1>1. \A x \in Kids(s, c) : x \in All /\ s.parent[x] # None
  BY Belongs, NamesApart
<1>2. \A d \in Kids(s, c) : \A x \in Kids(s, d) : x \in All /\ s.parent[x] # None
  BY <1>1, Belongs, NamesApart
<1> DEFINE near == Kids(s, c) \ s.dirty
<1>3. Below(s, c) = IF c \in s.dirty THEN {} ELSE {c} \cup near \cup (UNION {Kids(s, d) : d \in near} \ s.dirty)
  BY DEF Below
<1>4. \A x \in UNION {Kids(s, d) : d \in near} : \E d \in Kids(s, c) : x \in Kids(s, d)
  OBVIOUS
<1> QED BY <1>1, <1>2, <1>3, <1>4

\* Marking, after something moved: whatever is not marked is where it was computed.
LEMMA MarkPlaces ==
  ASSUME NEW s, NEW cs \in SUBSET All, IsForm(s), Tree(s), Places(s),
         s.dirty \subseteq All, s.at = [c \in All |-> s.at[c]], s.open \in BOOLEAN,
         \A c \in All \ (s.dirty \cup cs) : s.at[c] = Absolute(s, c)
  PROVE  /\ Placed(Mark(s, cs)) /\ Only(s, Mark(s, cs), {"dirty", "at"})
         /\ Mark(s, cs).dirty = s.dirty \cup cs /\ Mark(s, cs).open = s.open
<1> DEFINE t == Mark(s, cs)
<1>1. /\ Only(s, t, {"dirty", "at"})
      /\ t.dirty = s.dirty \cup cs
      /\ t.at = [c \in All |-> IF c \in cs THEN 0 ELSE s.at[c]]
  BY DEF IsForm, Only, Fields, Mark
<1> HIDE DEF t
<1>2. /\ t.children = s.children /\ t.parent = s.parent /\ t.offset = s.offset /\ t.open = s.open
  BY <1>1 DEF Only, Fields
<1>3. IsForm(t)
  BY <1>1 DEF Only
<1>4. Tree(t)
  BY <1>2 DEF Tree
<1>5. Places(t)
  BY <1>2 DEF Places
<1>6. Fresh(t)
  <2>1. \A c \in All : Absolute(t, c) = Absolute(s, c)
    BY <1>2 DEF Absolute, Shift, Parent
  <2>2. t.dirty \subseteq All /\ t.open \in BOOLEAN /\ t.at = [c \in All |-> t.at[c]]
    BY <1>1, <1>2
  <2>3. \A c \in All \ t.dirty : t.at[c] = Absolute(t, c)
    BY <1>1, <2>1
  <2> QED BY <2>2, <2>3 DEF Fresh
<1> QED BY <1>1, <1>2, <1>3, <1>4, <1>5, <1>6 DEF Placed, t

\* Only a control and what is in it move with it.
LEMMA Elsewhere ==
  ASSUME NEW s, NEW t, Tree(s), NEW c \in All, t.parent = s.parent,
         NEW to, t.offset = [s.offset EXCEPT ![c] = to],
         NEW d \in All, d # c, s.parent[d] # c, s.parent[d] # None => s.parent[s.parent[d]] # c
  PROVE  Absolute(t, d) = Absolute(s, d)
<1>1. s.offset \in [All -> Int] /\ s.parent \in [All -> Panels \cup {None}] /\ Panels \subseteq All /\ None \notin All
  BY NamesApart DEF Tree
<1> DEFINE p == s.parent[d]
<1>2. CASE p = None
  BY <1>1, <1>2 DEF Absolute, Shift, Parent
<1>3. CASE p # None
  <2>1. p \in All /\ p # c
    BY <1>1, <1>3
  <2>2. t.offset[d] = s.offset[d] /\ t.offset[p] = s.offset[p]
    BY <1>1, <2>1
  <2> DEFINE q == s.parent[p]
  <2>3. q = None \/ (q \in All /\ q # c /\ t.offset[q] = s.offset[q])
    BY <1>1, <1>3, <2>1
  <2> QED BY <1>1, <1>3, <2>1, <2>2, <2>3 DEF Absolute, Shift, Parent
<1> QED BY <1>2, <1>3

\* The task bar is put somewhere else while nothing of it is marked but what is
\* marked below it too.
LEMMA TaskbarMoves ==
  ASSUME NEW s, Core(s), "taskbar" \notin s.dirty, NEW to \in Screens
  PROVE  LET t == SetBounds(s, "taskbar", to)
         IN  Core(t) /\ Only(s, t, {"dirty", "at", "offset"})
<1> DEFINE v == [s EXCEPT !.offset["taskbar"] = to]
           cs == Below(v, "taskbar")
           t == SetBounds(s, "taskbar", to)
<1>0. "taskbar" \in All /\ "taskbar" \in Panels /\ to \in Nat /\ to >= 1 /\ "taskbar" \notin {"logo", "text", "drop", "popup"}
      /\ "taskbar" \notin Entries /\ "popup" \in Panels /\ "popup" \in All
  BY ControlsAssumption DEF All, Panels
<1>1. IsForm(s) /\ Tree(s) /\ Places(s) /\ Fresh(s) /\ Marks(s)
  BY DEF Core, Placed
<1>2. Only(s, v, {"offset"}) /\ v.offset = [s.offset EXCEPT !["taskbar"] = to]
  BY <1>1 DEF IsForm, Only, Fields
<1> HIDE DEF v
<1>3. /\ v.children = s.children /\ v.parent = s.parent /\ v.open = s.open /\ v.dirty = s.dirty /\ v.at = s.at /\ IsForm(v)
  BY <1>2 DEF Only, Fields
<1>4. Tree(v)
  BY <1>0, <1>1, <1>2, <1>3 DEF Tree
<1>5. \A c \in All \ {"taskbar"} : v.offset[c] = s.offset[c]
  BY <1>0, <1>1, <1>2 DEF Tree
<1>6. v.offset["taskbar"] = to
  BY <1>0, <1>1, <1>2 DEF Tree
<1>7. Places(v)
  <2>1. {"logo", "text", "drop", "field", "combo"} \cup Entries \subseteq All
    BY DEF All, Buttons, Boxes, Panels
  <2> QED BY <1>0, <1>1, <1>3, <1>5, <1>6, <2>1 DEF Places
<1>8. /\ cs \subseteq All /\ (\A x \in cs : x = "taskbar" \/ v.parent[x] # None)
      /\ "taskbar" \in cs /\ Kids(v, "taskbar") \subseteq v.dirty \cup cs
  BY <1>0, <1>3, <1>4, BelowIs
<1> HIDE DEF cs
<1>9. \A c \in All \ (v.dirty \cup cs) : v.at[c] = Absolute(v, c)
  <2> SUFFICES ASSUME NEW c \in All \ (v.dirty \cup cs) PROVE v.at[c] = Absolute(v, c)
    OBVIOUS
  <2>1. c # "taskbar" /\ c \notin Kids(v, "taskbar")
    BY <1>8
  <2>2. s.parent[c] # "taskbar"
    BY <1>0, <1>3, <1>4, <2>1 DEF Kids, Tree
  <2>3. s.parent[c] # None => s.parent[s.parent[c]] # "taskbar"
    <3>1. SUFFICES ASSUME s.parent[c] # None, s.parent[s.parent[c]] = "taskbar" PROVE FALSE
      OBVIOUS
    <3>2. s.parent[c] \in Panels /\ s.parent[c] \in All
      BY <1>1, <3>1, NamesApart DEF Tree
    <3>3. Home(s.parent[c]) = "taskbar"
      BY <1>1, <3>1, <3>2 DEF Tree, None
    <3> QED BY <3>2, <3>3, Residents, NamesApart DEF Panels
  <2>4. Absolute(v, c) = Absolute(s, c)
    BY <1>0, <1>1, <1>2, <1>3, <2>1, <2>2, <2>3, Elsewhere
  <2> QED BY <1>1, <1>3, <2>4 DEF Fresh
<1>10. s.dirty \subseteq All /\ s.at = [c \in All |-> s.at[c]] /\ s.open \in BOOLEAN
  BY <1>1 DEF Fresh
<1>11. /\ Placed(Mark(v, cs)) /\ Only(v, Mark(v, cs), {"dirty", "at"})
       /\ Mark(v, cs).dirty = v.dirty \cup cs /\ Mark(v, cs).open = v.open
  BY <1>3, <1>4, <1>7, <1>8, <1>9, <1>10, MarkPlaces
<1>12. t = Mark(v, cs)
  BY DEF SetBounds, MarkDirty, t, v, cs
<1>13. "popup" \notin cs
  BY <1>0, <1>3, <1>4, <1>8, Homes DEF Tree
<1>14. Marks(t)
  BY <1>1, <1>3, <1>11, <1>12, <1>13 DEF Marks
<1>15. Only(s, t, {"offset"} \cup {"dirty", "at"})
  BY <1>2, <1>11, <1>12, OnlyThen
<1>16. Only(s, t, {"dirty", "at", "offset"})
  BY <1>15, OnlyMore
<1> QED BY <1>11, <1>12, <1>14, <1>16 DEF Core

LEMMA ResizeKeeps ==
  ASSUME NEW s, Core(s), s.parent["taskbar"] # None, NEW to \in Screens
  PROVE  Core(Resize(s, to)) /\ Only(s, Resize(s, to), {"dirty", "at", "offset"})
<1> DEFINE cs == Below(s, "root")
           t == Mark(s, cs)
           u == Paint(t)
<1>1. IsForm(s) /\ Tree(s) /\ Places(s) /\ Fresh(s) /\ Marks(s)
  BY DEF Core, Placed
<1>2. "root" \in All /\ "root" # "popup" /\ "popup" \in All
  BY DEF All, Panels
<1>3. cs \subseteq All /\ \A x \in cs : x = "root" \/ s.parent[x] # None
  BY <1>1, <1>2, BelowIs
<1>4. "popup" \notin cs
  BY <1>1, <1>2, <1>3, Homes DEF Tree
<1> HIDE DEF cs
<1>5. /\ Placed(t) /\ Only(s, t, {"dirty", "at"}) /\ t.dirty = s.dirty \cup cs /\ t.open = s.open
  BY <1>1, <1>3, MarkPlaces DEF Fresh
<1> HIDE DEF t
<1>6. Core(t)
  BY <1>1, <1>4, <1>5 DEF Marks, Core
<1>7. t.parent["taskbar"] # None
  BY <1>5 DEF Only, Fields
<1>8. Looked(t, u) /\ u.dirty = t.dirty \ Shown(t)
  BY <1>6, PaintKeeps
<1>9. "taskbar" \notin u.dirty
  BY <1>5, <1>7, <1>8, ShownIs
<1> HIDE DEF u
<1>10. Core(SetBounds(u, "taskbar", to)) /\ Only(u, SetBounds(u, "taskbar", to), {"dirty", "at", "offset"})
  BY <1>8, <1>9, TaskbarMoves DEF Looked
<1>11. Resize(s, to) = SetBounds(u, "taskbar", to)
  BY DEF Resize, MarkDirty, u, t, cs
<1>12. Only(s, u, {"dirty", "at"} \cup {"dirty", "at"})
  BY <1>5, <1>8, OnlyThen DEF Looked
<1>13. Only(s, Resize(s, to), ({"dirty", "at"} \cup {"dirty", "at"}) \cup {"dirty", "at", "offset"})
  BY <1>10, <1>11, <1>12, OnlyThen
<1>14. Only(s, Resize(s, to), {"dirty", "at", "offset"})
  BY <1>13, OnlyMore
<1> QED BY <1>10, <1>11, <1>14

LEMMA AbsoluteInt ==
  ASSUME NEW s, Tree(s), NEW c \in All
  PROVE  Absolute(s, c) \in Int
<1>1. s.offset \in [All -> Int] /\ s.parent \in [All -> Panels \cup {None}] /\ Panels \subseteq All
  BY NamesApart DEF Tree
<1>2. \A d \in All \cup {None} : Shift(s, d) \in Int /\ Parent(s, d) \in All \cup {None}
  BY <1>1 DEF Shift, Parent
<1> DEFINE p == Parent(s, c)
           q == Parent(s, p)
<1>3. p \in All \cup {None} /\ q \in All \cup {None}
  BY <1>2
<1>4. Shift(s, c) \in Int /\ Shift(s, p) \in Int /\ Shift(s, q) \in Int
  BY <1>2, <1>3
<1> QED BY <1>4 DEF Absolute

LEMMA Heights ==
  /\ Height["combo"] = 3 /\ Height["text"] = 2 /\ Height["field"] = 2 /\ Height["taskbar"] = 6 /\ Height["slider"] = 6
  /\ \A b \in Buttons : Height[b] = 1
  /\ \A c \in All : Height[c] \in Nat
<1>1. {"combo", "text", "field", "taskbar", "slider"} \cup Buttons \subseteq All
  BY DEF All, Panels, Boxes
<1>2. Entries \cap {"none", "logo", "drop", "field", "text", "root", "combo", "popup", "taskbar", "slider", "options"} = {}
  BY NamesApart
<1>3. MaxItems \in Nat
  BY ControlsAssumption
<1>4. \A b \in Buttons : b \notin {"root", "field", "text", "combo", "popup", "options", "taskbar", "slider"}
  BY <1>2 DEF Buttons
<1>5. \A b \in Buttons : Height[b] = 1
  BY <1>1, <1>4 DEF Height
<1>6. \A c \in All : Height[c] \in Nat
  BY <1>3 DEF Height
<1> QED BY <1>1, <1>5, <1>6 DEF Height

\* The drop-down panel or its list is moved; nothing else is in it.
LEMMA DropMoves ==
  ASSUME NEW s, Placed(s), NEW c \in {"popup", "options"}, NEW to \in Int,
         c = "popup" /\ "popup" \in s.dirty => "options" \in s.dirty
  PROVE  LET t == SetBounds(s, c, to)
         IN  Placed(t) /\ Only(s, t, {"dirty", "at", "offset"}) /\ t.open = s.open
<1> DEFINE v == [s EXCEPT !.offset[c] = to]
           cs == Below(v, c)
           t == SetBounds(s, c, to)
<1>0. c \in All /\ c \notin {"logo", "text", "drop", "field", "combo", "taskbar"} /\ c \notin Entries
  BY NamesApart DEF All, Panels
<1>1. IsForm(s) /\ Tree(s) /\ Places(s) /\ Fresh(s)
  BY DEF Placed
<1>2. Only(s, v, {"offset"}) /\ v.offset = [s.offset EXCEPT ![c] = to]
  BY <1>1 DEF IsForm, Only, Fields
<1> HIDE DEF v
<1>3. /\ v.children = s.children /\ v.parent = s.parent /\ v.open = s.open /\ v.dirty = s.dirty /\ v.at = s.at /\ IsForm(v)
  BY <1>2 DEF Only, Fields
<1>4. Tree(v)
  BY <1>0, <1>1, <1>2, <1>3 DEF Tree
<1>5. \A d \in All \ {c} : v.offset[d] = s.offset[d]
  BY <1>0, <1>1, <1>2 DEF Tree
<1>7. Places(v)
  <2>1. {"logo", "text", "drop", "field", "combo", "taskbar"} \cup Entries \subseteq All
    BY DEF All, Buttons, Boxes, Panels
  <2>2. \A d \in {"logo", "text", "drop", "field", "combo", "taskbar"} \cup Entries : v.offset[d] = s.offset[d]
    BY <1>0, <1>5, <2>1
  <2>3. \A e \in Entries : v.offset[e] = s.offset[e]
    BY <2>2
  <2>4. \A e \in Entries :
          v.parent[e] = "taskbar" =>
            /\ v.parent["slider"] = None
            /\ v.offset[e] \in 0 .. Len(v.children["taskbar"]) - 1
            /\ \A d \in Entries : v.parent[d] = "taskbar" /\ v.offset[d] = v.offset[e] => d = e
    BY <1>1, <1>3, <2>3 DEF Places
  <2>5. /\ v.offset["logo"] = 0
        /\ \A d \in {"field", "combo", "taskbar"} : v.offset[d] >= 1
        /\ v.offset["text"] = 0 /\ v.offset["drop"] = 2
    BY <1>1, <2>2 DEF Places
  <2> QED BY <2>4, <2>5 DEF Places
<1>8. /\ cs \subseteq All
      /\ c \notin v.dirty => c \in cs /\ Kids(v, c) \subseteq v.dirty \cup cs
  BY <1>0, <1>4, BelowIs
<1> HIDE DEF cs
<1>9. \A d \in All \ (v.dirty \cup cs) : v.at[d] = Absolute(v, d)
  <2> SUFFICES ASSUME NEW d \in All \ (v.dirty \cup cs) PROVE v.at[d] = Absolute(v, d)
    OBVIOUS
  <2>1. d # c
    BY <1>8
  <2>2. s.parent[d] # c
    <3>1. SUFFICES ASSUME s.parent[d] = c PROVE FALSE
      OBVIOUS
    <3>2. c \in Panels
      BY <1>0, <1>1, <3>1, NamesApart DEF Tree
    <3>3. d \in Kids(v, c)
      BY <1>3, <1>4, <3>1, <3>2 DEF Kids, Tree
    <3>4. c = "popup"
      BY <3>2, NamesApart DEF Panels, Boxes
    <3>5. Home(d) = "popup"
      BY <1>1, <3>1, <3>4 DEF Tree, None
    <3>6. d = "options"
      BY <3>5, Residents
    <3> QED BY <1>3, <1>8, <3>3, <3>4, <3>6
  <2>3. s.parent[d] # None => s.parent[s.parent[d]] # c
    <3>1. SUFFICES ASSUME s.parent[d] # None, s.parent[s.parent[d]] = c PROVE FALSE
      OBVIOUS
    <3>2. s.parent[d] \in Panels /\ s.parent[d] \in All
      BY <1>1, <3>1, NamesApart DEF Tree
    <3>3. s.parent[s.parent[d]] \in {Home(s.parent[d]), None}
      BY <1>1, <3>2 DEF Tree
    <3>4. c # None /\ Home(s.parent[d]) = c
      BY <1>0, <3>1, <3>3, NamesApart
    <3> QED BY <3>2, <3>4, Homes DEF Panels
  <2>4. Absolute(v, d) = Absolute(s, d)
    BY <1>0, <1>1, <1>2, <1>3, <2>1, <2>2, <2>3, Elsewhere
  <2> QED BY <1>1, <1>3, <2>4 DEF Fresh
<1>10. s.dirty \subseteq All /\ s.at = [d \in All |-> s.at[d]] /\ s.open \in BOOLEAN
  BY <1>1 DEF Fresh
<1>11. /\ Placed(Mark(v, cs)) /\ Only(v, Mark(v, cs), {"dirty", "at"}) /\ Mark(v, cs).open = v.open
  BY <1>3, <1>4, <1>7, <1>8, <1>9, <1>10, MarkPlaces
<1>12. t = Mark(v, cs)
  BY DEF SetBounds, MarkDirty, t, v, cs
<1>15. Only(s, t, {"offset"} \cup {"dirty", "at"})
  BY <1>2, <1>11, <1>12, OnlyThen
<1>16. Only(s, t, {"dirty", "at", "offset"})
  BY <1>15, OnlyMore
<1> QED BY <1>3, <1>11, <1>12, <1>16

\* Opening the list moves it below the box and paints it.
LEMMA DropDownKeeps ==
  ASSUME NEW s, Core(s)
  PROVE  Core(DropDown(s)) /\ Only(s, DropDown(s), {"dirty", "at", "offset", "open"})
<1> DEFINE t == Touch(s, {"combo"})
           to == t.at["combo"] + Height["combo"]
           o == [t EXCEPT !.open = TRUE]
           u == SetBounds(o, "popup", to)
           w == SetBounds(u, "options", 0)
           x == Touch(w, {"combo"})
           F == {"dirty", "at", "offset", "open"}
<1>1. Looked(s, t) /\ t.dirty = s.dirty \ {"combo"}
  BY TouchKeeps
<1> HIDE DEF t
<1>2. to \in Int
  <2>1. "combo" \in All /\ Height["combo"] = 3
    BY Heights DEF All, Panels
  <2>2. t.at["combo"] = Absolute(t, "combo") /\ Tree(t)
    BY <1>1, <2>1 DEF Looked, Core, Placed, Fresh
  <2>3. Absolute(t, "combo") \in Int
    BY <2>1, <2>2, AbsoluteInt
  <2> QED BY <2>1, <2>2, <2>3
<1> HIDE DEF to
<1>3. Placed(t) /\ Marks(t)
  BY <1>1 DEF Looked, Core
<1>4. Only(t, o, {"open"}) /\ o.open = TRUE
  BY <1>3 DEF Placed, IsForm, Only, Fields
<1> HIDE DEF o
<1>5. o.children = t.children /\ o.parent = t.parent /\ o.offset = t.offset /\ o.dirty = t.dirty /\ o.at = t.at /\ IsForm(o)
  BY <1>4 DEF Only, Fields
<1>6. Placed(o)
  <2>1. \A c \in All : Absolute(o, c) = Absolute(t, c)
    BY <1>5 DEF Absolute, Shift, Parent
  <2>2. Fresh(o)
    BY <1>3, <1>4, <1>5, <2>1 DEF Placed, Fresh
  <2>3. Tree(o)
    BY <1>3, <1>5 DEF Placed, Tree
  <2>4. Places(o)
    BY <1>3, <1>5 DEF Placed, Places
  <2> QED BY <1>5, <2>2, <2>3, <2>4 DEF Placed
<1>7. "popup" \in o.dirty => "options" \in o.dirty
  BY <1>3, <1>5 DEF Marks
<1>8. Placed(u) /\ Only(o, u, {"dirty", "at", "offset"}) /\ u.open = o.open
  BY <1>2, <1>6, <1>7, DropMoves
<1> HIDE DEF u
<1>9. Placed(w) /\ Only(u, w, {"dirty", "at", "offset"}) /\ w.open = u.open
  BY <1>8, DropMoves
<1> HIDE DEF w
<1>10. Placed(x) /\ Only(w, x, {"dirty", "at"}) /\ x.open = w.open
  BY <1>9, TouchPlaces
<1> HIDE DEF x
<1>11. /\ Placed(Paint(x)) /\ Only(x, Paint(x), {"dirty", "at"})
       /\ Paint(x).dirty = x.dirty \ Shown(x)
  BY <1>10, TouchPlaces DEF Paint
<1>12. "popup" \in Shown(x)
  BY <1>4, <1>8, <1>9, <1>10, ShownIs
<1>13. Core(Paint(x))
  BY <1>11, <1>12 DEF Core, Marks
<1>14. DropDown(s) = Paint(x)
  BY DEF DropDown, Invalidate, t, to, o, u, w, x
<1>15. Only(s, t, F) /\ Only(t, o, F) /\ Only(o, u, F) /\ Only(u, w, F) /\ Only(w, x, F) /\ Only(x, Paint(x), F)
  BY <1>1, <1>4, <1>8, <1>9, <1>10, <1>11, OnlyMore DEF Looked
<1>16. Only(s, Paint(x), F)
  BY <1>15 DEF Only
<1> QED BY <1>13, <1>14, <1>16

LEMMA CloseKeeps ==
  ASSUME NEW s, Core(s)
  PROVE  Core(CloseDropDown(s)) /\ Only(s, CloseDropDown(s), {"dirty", "at", "open"})
<1>0. IsForm(s)
  BY DEF Core, Placed
<1>1. CASE ~s.open
  BY <1>0, <1>1, OnlySelf DEF CloseDropDown
<1>2. CASE s.open
  <2> DEFINE o == [s EXCEPT !.open = FALSE]
  <2>1. Only(s, o, {"open"}) /\ o.open = FALSE
    BY <1>0 DEF IsForm, Only, Fields
  <2>2. CloseDropDown(s) = Invalidate(o, "combo")
    BY <1>2 DEF CloseDropDown
  <2> HIDE DEF o
  <2>5. o.children = s.children /\ o.parent = s.parent /\ o.offset = s.offset /\ o.dirty = s.dirty /\ o.at = s.at /\ IsForm(o)
    BY <2>1 DEF Only, Fields
  <2>6. Core(o)
    <3>1. \A c \in All : Absolute(o, c) = Absolute(s, c)
      BY <2>5 DEF Absolute, Shift, Parent
    <3>2. Fresh(o)
      BY <2>1, <2>5, <3>1 DEF Core, Placed, Fresh
    <3>3. Tree(o)
      BY <2>5 DEF Core, Placed, Tree
    <3>4. Places(o)
      BY <2>5 DEF Core, Placed, Places
    <3>5. Marks(o)
      BY <2>1, <2>5 DEF Core, Marks
    <3> QED BY <2>5, <3>2, <3>3, <3>4, <3>5 DEF Core, Placed
  <2>7. Looked(o, Invalidate(o, "combo"))
    BY <2>6, InvalidateKeeps
  <2>8. Only(s, Invalidate(o, "combo"), {"open"} \cup {"dirty", "at"})
    BY <2>1, <2>7, OnlyThen DEF Looked
  <2>9. Only(s, Invalidate(o, "combo"), {"dirty", "at", "open"})
    BY <2>8, OnlyMore
  <2> QED BY <2>2, <2>7, <2>9 DEF Looked
<1>3. s.open \in BOOLEAN
  BY DEF Core, Placed, Fresh
<1> QED BY <1>1, <1>2, <1>3

LEMMA SequenceDomain == ASSUME NEW T, NEW q \in Seq(T) PROVE DOMAIN q = 1 .. Len(q)
  OBVIOUS

\* A sequence without one of its elements.
LEMMA Shorter ==
  ASSUME NEW T, NEW q \in Seq(T), IsInjective(q), NEW c \in ToSet(q), NEW r,
         r = RemoveAt(q, CHOOSE i \in DOMAIN q : q[i] = c)
  PROVE  r \in Seq(T) /\ IsInjective(r) /\ ToSet(r) = ToSet(q) \ {c} /\ Len(r) = Len(q) - 1
<1> DEFINE k == CHOOSE i \in DOMAIN q : q[i] = c
<1>1. k \in 1 .. Len(q) /\ q[k] = c
  BY DEF ToSet
<1> HIDE DEF k
<1>2. \A i, j \in 1 .. Len(q) : q[i] = q[j] => i = j
  BY DEF IsInjective
<1>3. Len(q) \in Nat /\ k \in Int /\ 1 <= k /\ k <= Len(q)
  BY <1>1
<1> DEFINE a == SubSeq(q, 1, k - 1)
           b == SubSeq(q, k + 1, Len(q))
<1>4. /\ a \in Seq(T) /\ Len(a) = k - 1 /\ \A i \in 1 .. k - 1 : a[i] = q[i]
      /\ b \in Seq(T) /\ Len(b) = Len(q) - k /\ \A i \in 1 .. Len(q) - k : b[i] = q[i + k]
  <2>1. \A i \in 1 .. k - 1 : q[i] \in T
    BY <1>3
  <2>2. \A i \in k + 1 .. Len(q) : q[i] \in T
    BY <1>3
  <2> QED BY <1>3, <2>1, <2>2, SubSeqProperties
<1>5. r = a \o b
  BY DEF RemoveAt, k
<1> HIDE DEF a, b
<1>6. /\ r \in Seq(T) /\ Len(r) = Len(q) - 1
      /\ \A i \in 1 .. Len(q) - 1 : r[i] = IF i <= k - 1 THEN a[i] ELSE b[i - (k - 1)]
  <2>1. /\ a \o b \in Seq(T) /\ Len(a \o b) = Len(a) + Len(b)
        /\ \A i \in 1 .. Len(a) + Len(b) : (a \o b)[i] = IF i <= Len(a) THEN a[i] ELSE b[i - Len(a)]
    BY <1>4, ConcatProperties
  <2>2. Len(a) = k - 1 /\ Len(a) + Len(b) = Len(q) - 1
    BY <1>3, <1>4
  <2> QED BY <1>5, <2>1, <2>2
<1>7. ASSUME NEW i \in 1 .. Len(q) - 1 PROVE r[i] = IF i < k THEN q[i] ELSE q[i + 1]
  <2>1. CASE i < k
    <3>1. i \in 1 .. k - 1 /\ i <= k - 1
      BY <1>3, <2>1
    <3>2. r[i] = a[i]
      BY <1>6, <3>1
    <3> QED BY <1>4, <2>1, <3>1, <3>2
  <2>2. CASE ~(i < k)
    <3>1. i - (k - 1) \in 1 .. Len(q) - k /\ (i - (k - 1)) + k = i + 1 /\ ~(i <= k - 1)
      BY <1>3, <2>2
    <3>2. b[i - (k - 1)] = q[(i - (k - 1)) + k]
      BY <1>4, <3>1
    <3> QED BY <1>6, <2>2, <3>1, <3>2
  <2> QED BY <2>1, <2>2
<1> DEFINE from(i) == IF i < k THEN i ELSE i + 1
<1>8. \A i \in 1 .. Len(q) - 1 : from(i) \in 1 .. Len(q) /\ from(i) # k /\ r[i] = q[from(i)]
  BY <1>3, <1>7
<1>9. \A i, j \in 1 .. Len(q) - 1 : from(i) = from(j) => i = j
  BY <1>3
<1>10. \A j \in 1 .. Len(q) : j # k => \E i \in 1 .. Len(q) - 1 : from(i) = j
  <2> SUFFICES ASSUME NEW j \in 1 .. Len(q), j # k PROVE \E i \in 1 .. Len(q) - 1 : from(i) = j
    OBVIOUS
  <2>1. CASE j < k
    <3>1. j \in 1 .. Len(q) - 1 /\ from(j) = j
      BY <1>3, <2>1
    <3> QED BY <3>1
  <2>2. CASE j > k
    <3>1. j - 1 \in 1 .. Len(q) - 1 /\ from(j - 1) = j
      BY <1>3, <2>2
    <3> QED BY <3>1
  <2> QED BY <1>3, <2>1, <2>2
<1> HIDE DEF from
<1>11. DOMAIN r = 1 .. Len(q) - 1
  <2>1. DOMAIN r = 1 .. Len(r)
    BY <1>6, SequenceDomain
  <2> QED BY <1>6, <2>1
<1>12. IsInjective(r)
  BY <1>2, <1>8, <1>9, <1>11 DEF IsInjective
<1>13. \A x \in ToSet(r) : x \in ToSet(q) \ {c}
  BY <1>1, <1>2, <1>8, <1>11 DEF ToSet
<1>14. \A x \in ToSet(q) \ {c} : x \in ToSet(r)
  <2> SUFFICES ASSUME NEW x \in ToSet(q) \ {c} PROVE x \in ToSet(r)
    OBVIOUS
  <2>1. PICK j \in 1 .. Len(q) : x = q[j]
    BY DEF ToSet
  <2>2. PICK i \in 1 .. Len(q) - 1 : from(i) = j
    BY <1>1, <1>10, <2>1
  <2> QED BY <1>8, <1>11, <2>1, <2>2 DEF ToSet
<1> QED BY <1>6, <1>12, <1>13, <1>14

\* One more at its end.
LEMMA Longer ==
  ASSUME NEW T, NEW q \in Seq(T), IsInjective(q), NEW c \in T, c \notin ToSet(q)
  PROVE  /\ Append(q, c) \in Seq(T) /\ IsInjective(Append(q, c)) /\ Len(Append(q, c)) = Len(q) + 1
         /\ ToSet(Append(q, c)) = ToSet(q) \cup {c}
<1> DEFINE r == Append(q, c)
<1>1. /\ r \in Seq(T) /\ Len(r) = Len(q) + 1 /\ Len(q) \in Nat
      /\ \A i \in 1 .. Len(q) : r[i] = q[i]
      /\ r[Len(q) + 1] = c
  OBVIOUS
<1> HIDE DEF r
<1>2. DOMAIN r = 1 .. Len(q) + 1 /\ DOMAIN q = 1 .. Len(q)
  BY <1>1
<1>3. \A i \in 1 .. Len(q) + 1 : i = Len(q) + 1 \/ i \in 1 .. Len(q)
  BY <1>1
<1>4. \A i \in 1 .. Len(q) : i \in 1 .. Len(q) + 1 /\ i # Len(q) + 1
  BY <1>1
<1>5. Len(q) + 1 \in 1 .. Len(q) + 1
  BY <1>1
<1>6. \A i \in 1 .. Len(q) : q[i] # c
  BY <1>2 DEF ToSet
<1>7. IsInjective(r)
  BY <1>1, <1>2, <1>3, <1>6 DEF IsInjective
<1>8. ToSet(r) = ToSet(q) \cup {c}
  <2>1. \A x \in ToSet(r) : x \in ToSet(q) \cup {c}
    BY <1>1, <1>2, <1>3 DEF ToSet
  <2>2. \A x \in ToSet(q) : x \in ToSet(r)
    BY <1>1, <1>2, <1>4 DEF ToSet
  <2>3. c \in ToSet(r)
    BY <1>1, <1>2, <1>5 DEF ToSet
  <2> QED BY <2>1, <2>2, <2>3
<1> QED BY <1>1, <1>7, <1>8 DEF r

\* A position depends on a control, its parent and the parent of that.
LEMMA SamePosition ==
  ASSUME NEW s, NEW t, Tree(s), NEW d \in All, t.parent[d] = s.parent[d], t.offset[d] = s.offset[d],
         \A p \in Panels : t.parent[p] = s.parent[p] /\ t.offset[p] = s.offset[p]
  PROVE  Absolute(t, d) = Absolute(s, d)
<1>1. s.parent \in [All -> Panels \cup {None}] /\ Panels \subseteq All /\ None \notin All
  BY NamesApart DEF Tree
<1>2. s.parent[d] \in Panels \cup {None}
  BY <1>1
<1> DEFINE p == s.parent[d]
<1>3. CASE p = None
  BY <1>1, <1>3 DEF Absolute, Shift, Parent
<1>4. CASE p \in Panels
  <2>1. p # None /\ s.parent[p] \in Panels \cup {None}
    BY <1>1, <1>4
  <2> QED BY <1>1, <1>4, <2>1 DEF Absolute, Shift, Parent
<1> QED BY <1>2, <1>3, <1>4

\* A button comes to the end of the task bar.
LEMMA AddKeeps ==
  ASSUME NEW s, Core(s), NEW c \in Entries, s.parent[c] = None, s.parent["slider"] = None
  PROVE  LET w == AddTaskbarWindow(s, c)
         IN  /\ Core(w) /\ Only(s, w, {"children", "parent", "offset", "dirty", "at"})
             /\ w.parent = [s.parent EXCEPT ![c] = "taskbar"]
<1> DEFINE n == Len(s.children["taskbar"])
           t == [s EXCEPT !.offset[c] = n, !.dirty = @ \cup {c}]
           u == Invalidate(t, c)
           v == [u EXCEPT !.parent[c] = "taskbar"]
           m == Mark(v, {c})
           w == [m EXCEPT !.children["taskbar"] = Append(@, c)]
           F == {"children", "parent", "offset", "dirty", "at"}
<1>0. /\ c \in All /\ c \notin Panels /\ c # None /\ "taskbar" \in Panels /\ "taskbar" # None /\ "slider" \in All
      /\ c \notin {"none", "logo", "drop", "field", "text", "root", "combo", "popup", "taskbar", "slider", "options"}
      /\ Entries \subseteq All /\ Panels \subseteq All
  BY NamesApart DEF Panels, None
<1>1. IsForm(s) /\ Tree(s) /\ Places(s) /\ Fresh(s) /\ Marks(s)
  BY DEF Core, Placed
<1>2. Only(s, t, {"offset", "dirty"}) /\ t.offset = [s.offset EXCEPT ![c] = n] /\ t.dirty = s.dirty \cup {c}
  BY <1>1 DEF IsForm, Only, Fields
<1>3. n \in Nat /\ s.children["taskbar"] \in Seq(All)
  BY <1>0, <1>1 DEF Tree
<1> HIDE DEF n, t
<1>4. t.children = s.children /\ t.parent = s.parent /\ t.open = s.open /\ t.at = s.at /\ IsForm(t)
  BY <1>2 DEF Only, Fields
<1>5. t.offset \in [All -> Int] /\ t.offset[c] = n /\ \A d \in All \ {c} : t.offset[d] = s.offset[d]
  BY <1>0, <1>1, <1>2, <1>3 DEF Tree
<1>6. Tree(t)
  BY <1>1, <1>4, <1>5 DEF Tree
<1>7. Places(t)
  <2>1. \A d \in {"logo", "text", "drop", "field", "combo", "taskbar"} : t.offset[d] = s.offset[d]
    BY <1>0, <1>5 DEF All, Buttons, Boxes, Panels
  <2>2. \A e \in Entries : s.parent[e] = "taskbar" => e # c /\ t.offset[e] = s.offset[e]
    BY <1>0, <1>5
  <2> QED BY <1>1, <1>4, <2>1, <2>2 DEF Places
<1>8. \A d \in All \ {c} : Absolute(t, d) = Absolute(s, d)
  BY <1>0, <1>1, <1>4, <1>5, SamePosition
<1>9. Fresh(t) /\ Marks(t)
  BY <1>0, <1>1, <1>2, <1>4, <1>8 DEF Fresh, Marks
<1>10. Core(t)
  BY <1>4, <1>6, <1>7, <1>9 DEF Core, Placed
<1>11. Looked(t, u) /\ c \notin u.dirty
  BY <1>0, <1>10, InvalidateKeeps
<1> HIDE DEF u
<1>12. IsForm(u) /\ Tree(u) /\ Places(u) /\ Fresh(u) /\ Marks(u)
  BY <1>11 DEF Looked, Core, Placed
<1>13. u.children = s.children /\ u.parent = s.parent /\ u.offset = t.offset
  BY <1>4, <1>11 DEF Looked, Only, Fields
<1>14. Only(u, v, {"parent"}) /\ v.parent = [u.parent EXCEPT ![c] = "taskbar"]
  BY <1>12 DEF IsForm, Only, Fields
<1> HIDE DEF v
<1>15. /\ v.children = u.children /\ v.offset = u.offset /\ v.dirty = u.dirty /\ v.at = u.at /\ v.open = u.open /\ IsForm(v)
  BY <1>14 DEF Only, Fields
<1>16. /\ Only(v, m, {"dirty", "at"}) /\ m.dirty = v.dirty \cup {c}
       /\ m.at = [d \in All |-> IF d \in {c} THEN 0 ELSE v.at[d]]
  BY <1>15 DEF IsForm, Only, Fields, Mark
<1> HIDE DEF m
<1>17. /\ m.children = s.children /\ m.parent = v.parent /\ m.offset = t.offset /\ m.open = u.open /\ IsForm(m)
  BY <1>13, <1>15, <1>16 DEF Only, Fields
<1>18. Only(m, w, {"children"}) /\ w.children = [m.children EXCEPT !["taskbar"] = Append(@, c)]
  BY <1>17 DEF IsForm, Only, Fields
<1> HIDE DEF w
<1>19. /\ w.parent = [s.parent EXCEPT ![c] = "taskbar"] /\ w.offset = t.offset /\ w.open = u.open /\ IsForm(w)
       /\ w.dirty = u.dirty \cup {c} /\ w.at = [d \in All |-> IF d = c THEN 0 ELSE u.at[d]]
       /\ w.children = [s.children EXCEPT !["taskbar"] = Append(@, c)]
  BY <1>13, <1>14, <1>15, <1>16, <1>17, <1>18 DEF Only, Fields
<1>20. w.parent[c] = "taskbar" /\ \A d \in All \ {c} : w.parent[d] = s.parent[d]
  BY <1>0, <1>1, <1>19 DEF Tree
<1>21. c \notin ToSet(s.children["taskbar"]) /\ IsInjective(s.children["taskbar"])
  BY <1>0, <1>1 DEF Tree
<1>22. /\ w.children["taskbar"] \in Seq(All) /\ IsInjective(w.children["taskbar"]) /\ Len(w.children["taskbar"]) = n + 1
       /\ ToSet(w.children["taskbar"]) = ToSet(s.children["taskbar"]) \cup {c}
       /\ \A p \in Panels \ {"taskbar"} : w.children[p] = s.children[p]
  <2>1. w.children["taskbar"] = Append(s.children["taskbar"], c) /\ \A p \in Panels \ {"taskbar"} : w.children[p] = s.children[p]
    BY <1>0, <1>1, <1>19 DEF Tree
  <2>2. /\ Append(s.children["taskbar"], c) \in Seq(All) /\ IsInjective(Append(s.children["taskbar"], c))
        /\ Len(Append(s.children["taskbar"], c)) = Len(s.children["taskbar"]) + 1
        /\ ToSet(Append(s.children["taskbar"], c)) = ToSet(s.children["taskbar"]) \cup {c}
    BY <1>0, <1>3, <1>21, Longer
  <2> QED BY <2>1, <2>2 DEF n
<1>23. Tree(w)
  <2>1. w.children \in [Panels -> Seq(All)]
    <3>1. s.children \in [Panels -> Seq(All)]
      BY <1>1 DEF Tree
    <3>2. w.children = [p \in Panels |-> w.children[p]]
      BY <1>19, <3>1
    <3>3. \A p \in Panels : w.children[p] \in Seq(All)
      BY <1>22, <3>1
    <3> QED BY <3>2, <3>3
  <2>2. w.parent \in [All -> Panels \cup {None}]
    BY <1>0, <1>1, <1>19 DEF Tree
  <2>3. \A d \in All : w.parent[d] \in {Home(d), None}
    BY <1>0, <1>1, <1>20, Homes DEF Tree
  <2>4. \A p \in Panels : IsInjective(w.children[p])
    BY <1>1, <1>22 DEF Tree
  <2>5. \A p \in Panels, d \in All : d \in ToSet(w.children[p]) <=> w.parent[d] = p
    <3> SUFFICES ASSUME NEW p \in Panels, NEW d \in All PROVE d \in ToSet(w.children[p]) <=> w.parent[d] = p
      OBVIOUS
    <3>1. d \in ToSet(s.children[p]) <=> s.parent[d] = p
      BY <1>1 DEF Tree
    <3>2. p # None
      BY NamesApart
    <3>3. CASE p = "taskbar"
      BY <1>20, <1>22, <3>1, <3>3
    <3>4. CASE p # "taskbar"
      BY <1>20, <1>22, <3>1, <3>2, <3>4
    <3> QED BY <3>3, <3>4
  <2> QED BY <1>5, <1>19, <2>1, <2>2, <2>3, <2>4, <2>5 DEF Tree
<1>24. Places(w)
  <2>1. \A d \in {"logo", "text", "drop", "field", "combo", "taskbar"} : w.offset[d] = s.offset[d]
    BY <1>0, <1>5, <1>19 DEF All, Buttons, Boxes, Panels
  <2>2. \A e \in Entries \ {c} : w.parent[e] = s.parent[e] /\ w.offset[e] = s.offset[e]
    BY <1>0, <1>5, <1>19, <1>20
  <2>3. w.parent["slider"] = None
    BY <1>0, <1>20
  <2>4. ASSUME NEW e \in Entries, w.parent[e] = "taskbar"
        PROVE  w.offset[e] \in 0 .. (n + 1) - 1 /\ (e # c => w.offset[e] < n)
    <3>1. CASE e = c
      BY <1>3, <1>5, <1>19, <3>1
    <3>2. CASE e # c
      <4>1. w.offset[e] \in 0 .. n - 1
        BY <1>1, <2>2, <2>4, <3>2 DEF Places, n
      <4> QED BY <1>3, <4>1
    <3> QED BY <3>1, <3>2
  <2>5. w.offset[c] = n
    BY <1>5, <1>19
  <2>6. ASSUME NEW e \in Entries, w.parent[e] = "taskbar", NEW d \in Entries, w.parent[d] = "taskbar", w.offset[d] = w.offset[e]
        PROVE  d = e
    <3>1. CASE e = c /\ d # c
      BY <1>3, <2>4, <2>5, <2>6, <3>1
    <3>2. CASE e # c /\ d = c
      BY <1>3, <2>4, <2>5, <2>6, <3>2
    <3>3. CASE e # c /\ d # c
      BY <1>1, <2>2, <2>6, <3>3 DEF Places
    <3> QED BY <3>1, <3>2, <3>3
  <2> QED BY <1>1, <1>22, <2>1, <2>3, <2>4, <2>6 DEF Places
<1>25. Fresh(w) /\ Marks(w)
  <2>1. \A d \in All \ {c} : Absolute(w, d) = Absolute(u, d)
    <3> SUFFICES ASSUME NEW d \in All \ {c} PROVE Absolute(w, d) = Absolute(u, d)
      OBVIOUS
    <3>1. w.offset = u.offset /\ \A x \in All \ {c} : w.parent[x] = u.parent[x]
      BY <1>13, <1>19, <1>20
    <3>2. \A p \in Panels : p \in All \ {c}
      BY <1>0
    <3> QED BY <1>12, <3>1, <3>2, SamePosition
  <2> QED BY <1>0, <1>12, <1>19, <2>1 DEF Fresh, Marks
<1>26. AddTaskbarWindow(s, c) = w
  <2>1. Below(v, c) = {c}
    BY <1>0, <1>11, <1>15 DEF Below, Kids
  <2>2. MarkDirty(v, c) = m
    BY <2>1 DEF MarkDirty, m
  <2> QED BY <2>2 DEF AddTaskbarWindow, AddChild, n, t, u, v, w
<1>27. Only(s, t, F) /\ Only(t, u, F) /\ Only(u, v, F) /\ Only(v, m, F) /\ Only(m, w, F)
  BY <1>2, <1>11, <1>14, <1>16, <1>18, OnlyMore DEF Looked
<1>28. Only(s, w, F)
  BY <1>27 DEF Only
<1> QED BY <1>19, <1>23, <1>24, <1>25, <1>26, <1>28 DEF Core, Placed

\* A button goes, and those behind it move up.
LEMMA RemoveKeeps ==
  ASSUME NEW s, Core(s), NEW c \in Entries, s.parent[c] # None
  PROVE  LET w == RemoveTaskbarWindow(s, c)
         IN  /\ Core(w)
             /\ Only(s, w, {"children", "parent", "offset", "dirty", "at", "focus", "hover", "capture", "focused", "lit", "pressed"})
             /\ w.parent = [s.parent EXCEPT ![c] = None]
             /\ w.focus = Without(s.focus, "taskbar", c)
             /\ w.hover = Without(s.hover, "taskbar", c)
             /\ w.capture = Without(s.capture, "taskbar", c)
             /\ w.focused = s.focused \ {c} /\ w.lit = s.lit \ {c} /\ w.pressed = s.pressed \ {c}
<1> DEFINE q == s.children["taskbar"]
           k == CHOOSE i \in DOMAIN q : q[i] = c
           r == [s EXCEPT !.focus = Without(@, "taskbar", c), !.hover = Without(@, "taskbar", c),
                          !.capture = Without(@, "taskbar", c), !.parent[c] = None,
                          !.children["taskbar"] = RemoveAt(@, CHOOSE i \in DOMAIN @ : @[i] = c)]
           cs == Below(r, c)
           t == Mark(r, cs)
           gone == [t EXCEPT !.lit = @ \ {c}, !.pressed = @ \ {c}, !.focused = @ \ {c}, !.offset[c] = 0]
           behind == {e \in Entries \ {c} : s.parent[e] = "taskbar" /\ s.offset[e] > s.offset[c]}
           moved == [gone EXCEPT !.offset = [d \in All |-> IF d \in behind THEN @[d] - 1 ELSE @[d]]]
           w == Mark(moved, behind \ s.dirty)
           F == {"children", "parent", "offset", "dirty", "at", "focus", "hover", "capture", "focused", "lit", "pressed"}
<1>0. /\ c \in All /\ c \notin Panels /\ c # None /\ "taskbar" \in Panels /\ "taskbar" # None /\ "slider" \in All
      /\ c \notin {"none", "logo", "drop", "field", "text", "root", "combo", "popup", "taskbar", "slider", "options"}
      /\ Entries \subseteq All /\ Panels \subseteq All /\ Entries \cap Panels = {}
      /\ Entries \cap {"none", "logo", "drop", "field", "text", "root", "combo", "popup", "taskbar", "slider", "options"} = {}
  BY NamesApart DEF Panels, None
<1>1. IsForm(s) /\ Tree(s) /\ Places(s) /\ Fresh(s) /\ Marks(s)
  BY DEF Core, Placed
<1>2. s.parent[c] = "taskbar"
  BY <1>0, <1>1, Homes DEF Tree
<1>3. /\ IsForm(r)
      /\ r.focus = Without(s.focus, "taskbar", c) /\ r.hover = Without(s.hover, "taskbar", c)
      /\ r.capture = Without(s.capture, "taskbar", c)
      /\ r.parent = [s.parent EXCEPT ![c] = None]
      /\ r.children = [s.children EXCEPT !["taskbar"] = RemoveAt(@, CHOOSE i \in DOMAIN @ : @[i] = c)]
      /\ \A f \in Fields \ {"focus", "hover", "capture", "parent", "children"} : r[f] = s[f]
  <2> DEFINE r1 == [s EXCEPT !.focus = Without(@, "taskbar", c)]
             r2 == [r1 EXCEPT !.hover = Without(@, "taskbar", c)]
             r3 == [r2 EXCEPT !.capture = Without(@, "taskbar", c)]
             r4 == [r3 EXCEPT !.parent[c] = None]
             r5 == [r4 EXCEPT !.children["taskbar"] = RemoveAt(@, CHOOSE i \in DOMAIN @ : @[i] = c)]
  <2>1. Only(s, r1, {"focus"}) /\ r1.focus = Without(s.focus, "taskbar", c)
    BY <1>1 DEF IsForm, Only, Fields
  <2> HIDE DEF r1
  <2>2. Only(r1, r2, {"hover"}) /\ r2.hover = Without(r1.hover, "taskbar", c)
    BY <2>1 DEF IsForm, Only, Fields
  <2> HIDE DEF r2
  <2>3. Only(r2, r3, {"capture"}) /\ r3.capture = Without(r2.capture, "taskbar", c)
    BY <2>2 DEF IsForm, Only, Fields
  <2> HIDE DEF r3
  <2>4. Only(r3, r4, {"parent"}) /\ r4.parent = [r3.parent EXCEPT ![c] = None]
    BY <2>3 DEF IsForm, Only, Fields
  <2> HIDE DEF r4
  <2>5. Only(r4, r5, {"children"}) /\ r5.children = [r4.children EXCEPT !["taskbar"] = RemoveAt(@, CHOOSE i \in DOMAIN @ : @[i] = c)]
    BY <2>4 DEF IsForm, Only, Fields
  <2>6. r = r5
    BY DEF r1, r2, r3, r4
  <2> HIDE DEF r5, r
  <2>7. \A f \in Fields \ {"focus", "hover", "capture", "parent", "children"} : r5[f] = s[f]
    BY <2>1, <2>2, <2>3, <2>4, <2>5 DEF Only
  <2>8. /\ r5.focus = r1.focus /\ r5.hover = r2.hover /\ r5.capture = r3.capture /\ r5.parent = r4.parent
        /\ r1.hover = s.hover /\ r2.capture = s.capture /\ r3.parent = s.parent /\ r4.children = s.children
    BY <2>1, <2>2, <2>3, <2>4, <2>5 DEF Only, Fields
  <2> QED BY <2>1, <2>2, <2>3, <2>4, <2>5, <2>6, <2>7, <2>8 DEF Only
<1> HIDE DEF r
<1>4. /\ r.offset = s.offset /\ r.dirty = s.dirty /\ r.at = s.at /\ r.open = s.open
      /\ r.focused = s.focused /\ r.lit = s.lit /\ r.pressed = s.pressed
  BY <1>3 DEF Fields
<1>5. cs = IF c \in s.dirty THEN {} ELSE {c}
  BY <1>0, <1>4 DEF Below, Kids
<1> HIDE DEF cs
<1>6. /\ Only(r, t, {"dirty", "at"}) /\ t.dirty = s.dirty \cup {c}
      /\ t.at = [d \in All |-> IF d \in cs THEN 0 ELSE s.at[d]]
  BY <1>3, <1>4, <1>5 DEF IsForm, Only, Fields, Mark
<1> HIDE DEF t
<1>7. /\ IsForm(gone)
      /\ gone.lit = t.lit \ {c} /\ gone.pressed = t.pressed \ {c} /\ gone.focused = t.focused \ {c}
      /\ gone.offset = [t.offset EXCEPT ![c] = 0]
      /\ \A f \in Fields \ {"lit", "pressed", "focused", "offset"} : gone[f] = t[f]
  BY <1>6 DEF IsForm, Only, Fields
<1> HIDE DEF gone
<1>8. /\ IsForm(moved)
      /\ moved.offset = [d \in All |-> IF d \in behind THEN gone.offset[d] - 1 ELSE gone.offset[d]]
      /\ \A f \in Fields \ {"offset"} : moved[f] = gone[f]
  BY <1>7 DEF IsForm, Fields
<1> HIDE DEF moved
<1>9. /\ IsForm(w) /\ w.dirty = moved.dirty \cup (behind \ s.dirty)
      /\ w.at = [d \in All |-> IF d \in behind \ s.dirty THEN 0 ELSE moved.at[d]]
      /\ \A f \in Fields \ {"dirty", "at"} : w[f] = moved[f]
  BY <1>8 DEF IsForm, Fields, Mark
<1> HIDE DEF w
<1>10. /\ t.children = r.children /\ t.parent = r.parent /\ t.offset = s.offset /\ t.open = s.open
       /\ t.focus = r.focus /\ t.hover = r.hover /\ t.capture = r.capture
       /\ t.lit = s.lit /\ t.pressed = s.pressed /\ t.focused = s.focused
       /\ \A f \in Fields \ F : t[f] = s[f]
  BY <1>3, <1>4, <1>6 DEF Only, Fields
<1>11. /\ w.children = r.children /\ w.parent = r.parent /\ w.open = s.open
       /\ w.focus = r.focus /\ w.hover = r.hover /\ w.capture = r.capture
       /\ w.lit = s.lit \ {c} /\ w.pressed = s.pressed \ {c} /\ w.focused = s.focused \ {c}
       /\ w.offset = moved.offset
       /\ w.dirty = (s.dirty \cup {c}) \cup (behind \ s.dirty)
       /\ w.at = [d \in All |-> IF d \in behind \ s.dirty THEN 0 ELSE t.at[d]]
  BY <1>6, <1>7, <1>8, <1>9, <1>10 DEF Fields
<1>12. \A f \in Fields \ F : w[f] = s[f]
  BY <1>7, <1>8, <1>9, <1>10 DEF Fields
<1>13. behind \subseteq Entries \ {c}
  OBVIOUS
<1>14. \A d \in All \ {c} : w.offset[d] = IF d \in behind THEN s.offset[d] - 1 ELSE s.offset[d]
  BY <1>0, <1>1, <1>7, <1>8, <1>10, <1>11 DEF Tree
<1>15. w.offset[c] = 0 /\ DOMAIN w.offset = All
  BY <1>0, <1>1, <1>7, <1>8, <1>10, <1>11, <1>13 DEF Tree
<1>16. w.parent[c] = None /\ \A d \in All \ {c} : w.parent[d] = s.parent[d]
  BY <1>0, <1>1, <1>3, <1>11 DEF Tree
<1>17. /\ w.children["taskbar"] \in Seq(All) /\ IsInjective(w.children["taskbar"])
       /\ Len(w.children["taskbar"]) = Len(s.children["taskbar"]) - 1 /\ Len(s.children["taskbar"]) \in Nat
       /\ ToSet(w.children["taskbar"]) = ToSet(s.children["taskbar"]) \ {c}
       /\ \A p \in Panels \ {"taskbar"} : w.children[p] = s.children[p]
  <2>1. /\ w.children["taskbar"] = RemoveAt(q, CHOOSE i \in DOMAIN q : q[i] = c)
        /\ \A p \in Panels \ {"taskbar"} : w.children[p] = s.children[p]
    BY <1>0, <1>1, <1>3, <1>11 DEF Tree
  <2>2. q \in Seq(All) /\ IsInjective(q) /\ c \in ToSet(q) /\ c \in All
    BY <1>0, <1>1, <1>2 DEF Tree
  <2> HIDE DEF q
  <2>3. PICK x : x = RemoveAt(q, CHOOSE i \in DOMAIN q : q[i] = c)
    OBVIOUS
  <2>4. x \in Seq(All) /\ IsInjective(x) /\ ToSet(x) = ToSet(q) \ {c} /\ Len(x) = Len(q) - 1
    BY <2>2, <2>3, Shorter
  <2>5. Len(q) \in Nat
    BY <2>2
  <2> QED BY <2>1, <2>3, <2>4, <2>5 DEF q
<1> HIDE DEF q, behind
<1>18. Tree(w)
  <2>1. w.children \in [Panels -> Seq(All)]
    <3>1. s.children \in [Panels -> Seq(All)]
      BY <1>1 DEF Tree
    <3>2. w.children = [p \in Panels |-> w.children[p]]
      BY <1>3, <1>11, <3>1
    <3>3. \A p \in Panels : w.children[p] \in Seq(All)
      BY <1>17, <3>1
    <3> QED BY <3>2, <3>3
  <2>2. w.parent \in [All -> Panels \cup {None}]
    BY <1>0, <1>1, <1>3, <1>11 DEF Tree
  <2>3. \A d \in All : w.parent[d] \in {Home(d), None}
    BY <1>0, <1>1, <1>16 DEF Tree
  <2>4. \A p \in Panels : IsInjective(w.children[p])
    BY <1>1, <1>17 DEF Tree
  <2>5. \A p \in Panels, d \in All : d \in ToSet(w.children[p]) <=> w.parent[d] = p
    <3> SUFFICES ASSUME NEW p \in Panels, NEW d \in All PROVE d \in ToSet(w.children[p]) <=> w.parent[d] = p
      OBVIOUS
    <3>1. d \in ToSet(s.children[p]) <=> s.parent[d] = p
      BY <1>1 DEF Tree
    <3>2. p # None
      BY NamesApart
    <3>3. CASE p = "taskbar"
      BY <1>16, <1>17, <3>1, <3>2, <3>3
    <3>4. CASE p # "taskbar"
      BY <1>2, <1>16, <1>17, <3>1, <3>2, <3>4
    <3> QED BY <3>3, <3>4
  <2>6. w.offset \in [All -> Int]
    <3>1. \A d \in All : s.offset[d] \in Int
      BY <1>1 DEF Tree
    <3>2. \A d \in All : w.offset[d] \in Int
      BY <1>14, <1>15, <3>1
    <3>3. w.offset = [d \in All |-> w.offset[d]]
      BY <1>8, <1>11
    <3> QED BY <3>2, <3>3
  <2> QED BY <2>1, <2>2, <2>3, <2>4, <2>5, <2>6 DEF Tree
<1>19. Places(w)
  <2>1. \A d \in {"logo", "text", "drop", "field", "combo", "taskbar"} : w.offset[d] = s.offset[d]
    <3>1. {"logo", "text", "drop", "field", "combo", "taskbar"} \subseteq All \ {c}
      BY <1>0 DEF All, Buttons, Boxes, Panels
    <3>2. \A d \in {"logo", "text", "drop", "field", "combo", "taskbar"} : d \notin behind
      BY <1>0, <1>13
    <3> QED BY <1>14, <3>1, <3>2
  <2>2. w.parent["slider"] = s.parent["slider"]
    BY <1>0, <1>16
  <2> DEFINE n == Len(s.children["taskbar"])
  <2>3. n \in Nat /\ Len(w.children["taskbar"]) = n - 1
    BY <1>17
  <2>4. s.offset[c] \in 0 .. n - 1
    BY <1>1, <1>2 DEF Places
  <2> HIDE DEF n
  <2>5. ASSUME NEW e \in Entries, w.parent[e] = "taskbar"
        PROVE  /\ e # c /\ s.parent[e] = "taskbar" /\ s.offset[e] \in 0 .. n - 1 /\ s.offset[e] # s.offset[c]
               /\ e \in behind <=> s.offset[e] > s.offset[c]
               /\ w.offset[e] = IF e \in behind THEN s.offset[e] - 1 ELSE s.offset[e]
               /\ s.parent["slider"] = None
    <3>1. e # c /\ s.parent[e] = "taskbar"
      BY <1>0, <1>16, <2>5
    <3>2. s.offset[e] \in 0 .. n - 1 /\ s.offset[e] # s.offset[c] /\ s.parent["slider"] = None
      BY <1>1, <1>2, <3>1 DEF Places, n
    <3>3. e \in behind <=> s.offset[e] > s.offset[c]
      BY <3>1 DEF behind
    <3> QED BY <1>0, <1>14, <3>1, <3>2, <3>3
  <2>6. ASSUME NEW e \in Entries, w.parent[e] = "taskbar" PROVE w.offset[e] \in 0 .. (n - 1) - 1
    <3>1. PICK a \in Int : a = s.offset[e] /\ a \in 0 .. n - 1
      BY <2>5, <2>6
    <3>2. PICK b \in Int : b = s.offset[c] /\ b \in 0 .. n - 1 /\ a # b
      BY <2>4, <2>5, <2>6, <3>1
    <3>3. w.offset[e] = IF a > b THEN a - 1 ELSE a
      BY <2>5, <2>6, <3>1, <3>2
    <3> QED BY <2>3, <3>1, <3>2, <3>3
  <2>7. ASSUME NEW e \in Entries, w.parent[e] = "taskbar", NEW d \in Entries, w.parent[d] = "taskbar", w.offset[d] = w.offset[e]
        PROVE  d = e
    <3>1. PICK a \in Int : a = s.offset[e] /\ a \in 0 .. n - 1
      BY <2>5, <2>7
    <3>2. PICK b \in Int : b = s.offset[c] /\ b \in 0 .. n - 1 /\ a # b
      BY <2>4, <2>5, <2>7, <3>1
    <3>3. PICK x \in Int : x = s.offset[d] /\ x \in 0 .. n - 1 /\ x # b
      BY <2>5, <2>7, <3>2
    <3>4. w.offset[e] = IF a > b THEN a - 1 ELSE a
      BY <2>5, <2>7, <3>1, <3>2
    <3>5. w.offset[d] = IF x > b THEN x - 1 ELSE x
      BY <2>5, <2>7, <3>2, <3>3
    <3>6. a = x
      BY <2>7, <3>1, <3>2, <3>3, <3>4, <3>5
    <3>7. s.parent[e] = "taskbar" /\ s.parent[d] = "taskbar" /\ s.offset[d] = s.offset[e]
      BY <2>5, <2>7, <3>1, <3>3, <3>6
    <3> QED BY <1>1, <3>7 DEF Places
  <2>8. \A e \in Entries : w.parent[e] = "taskbar" => s.parent["slider"] = None
    BY <2>5
  <2> QED BY <1>1, <2>1, <2>2, <2>3, <2>6, <2>7, <2>8 DEF Places
<1>20. Fresh(w)
  <2>1. \A d \in All \ w.dirty : Absolute(w, d) = Absolute(s, d)
    <3> SUFFICES ASSUME NEW d \in All \ w.dirty PROVE Absolute(w, d) = Absolute(s, d)
      OBVIOUS
    <3>1. d # c /\ d \notin behind
      BY <1>11
    <3>2. w.parent[d] = s.parent[d] /\ w.offset[d] = s.offset[d]
      BY <1>14, <1>16, <3>1
    <3>3. \A p \in Panels : w.parent[p] = s.parent[p] /\ w.offset[p] = s.offset[p]
      BY <1>0, <1>13, <1>14, <1>16
    <3> QED BY <1>1, <3>2, <3>3, SamePosition
  <2>2. \A d \in All \ w.dirty : w.at[d] = s.at[d]
    BY <1>5, <1>6, <1>11
  <2>3. w.dirty \subseteq All
    BY <1>0, <1>1, <1>11, <1>13 DEF Fresh
  <2>4. w.at = [d \in All |-> w.at[d]]
    BY <1>11
  <2>5. \A d \in All \ w.dirty : d \in All \ s.dirty
    BY <1>11
  <2> QED BY <1>1, <1>11, <2>1, <2>2, <2>3, <2>4, <2>5 DEF Fresh
<1>21. Marks(w)
  <2>1. "popup" \notin behind /\ "popup" # c
    BY <1>0, <1>13
  <2> QED BY <1>1, <1>11, <2>1 DEF Marks
<1>22. RemoveTaskbarWindow(s, c) = w
  BY DEF RemoveTaskbarWindow, RemoveChild, MarkDirty, w, moved, gone, behind, t, cs, r
<1>23. Only(s, w, F)
  BY <1>9, <1>12 DEF Only
<1>24. Core(w)
  BY <1>9, <1>18, <1>19, <1>20, <1>21 DEF Core, Placed
<1> QED BY <1>3, <1>11, <1>22, <1>23, <1>24

-----------------------------------------------------------------------------
\* The lines a control covers, wherever that was kept.
Covers(s, c, y) == y \in Absolute(s, c) .. Absolute(s, c) + Height[c] - 1

LEMMA InsideIs ==
  ASSUME NEW s, Core(s), NEW c \in All, NEW y
  PROVE  Inside(s, c, y) <=> Covers(s, c, y)
<1>1. At(s, c) = Absolute(s, c)
  BY DEF At, Core, Placed, Fresh
<1> QED BY <1>1 DEF Inside, Covers

LEMMA GreatestIndex ==
  ASSUME NEW n \in Nat, NEW S \in SUBSET (1 .. n), S # {}
  PROVE  Max(S) \in S
<1> DEFINE T == {n - i : i \in S}
<1>1. T \subseteq Nat /\ T # {}
  OBVIOUS
<1>2. PICK x \in T : \A z \in T : x <= z
  <2> HIDE DEF T
  <2> QED BY <1>1, LeastNatural
<1>3. PICK i \in S : x = n - i
  BY <1>2
<1>4. \A j \in S : i >= j
  <2> SUFFICES ASSUME NEW j \in S PROVE i >= j
    OBVIOUS
  <2>1. n - j \in T
    OBVIOUS
  <2>2. n - i <= n - j
    BY <1>2, <1>3, <2>1
  <2> QED BY <2>2
<1>5. \E k \in S : \A j \in S : k >= j
  BY <1>4
<1> QED BY <1>5 DEF Max

LEMMA TopmostIs ==
  ASSUME NEW s, Core(s), NEW p \in Panels, NEW y
  PROVE  LET child == ChildAtPoint(s, p, y)
         IN  \/ child = None /\ \A c \in All : s.parent[c] = p => ~Covers(s, c, y)
             \/ child \in All /\ s.parent[child] = p /\ Covers(s, child, y)
<1> DEFINE q == s.children[p]
           H == Hits(s, p, y)
<1>1. q \in Seq(All) /\ Len(q) \in Nat /\ DOMAIN q = 1 .. Len(q)
  BY DEF Core, Placed, Tree
<1>2. \A c \in All : c \in ToSet(q) <=> s.parent[c] = p
  BY DEF Core, Placed, Tree
<1>3. H = {i \in 1 .. Len(q) : Inside(s, q[i], y)}
  BY <1>1 DEF Hits
<1>4. CASE H = {}
  <2>1. ChildAtPoint(s, p, y) = None
    BY <1>4 DEF ChildAtPoint
  <2>2. ASSUME NEW c \in All, s.parent[c] = p PROVE ~Covers(s, c, y)
    <3>1. PICK i \in 1 .. Len(q) : q[i] = c
      BY <1>1, <1>2, <2>2 DEF ToSet
    <3>2. ~Inside(s, c, y)
      BY <1>3, <1>4, <3>1
    <3> QED BY <3>2, InsideIs
  <2> QED BY <2>1, <2>2
<1>5. CASE H # {}
  <2>1. H \subseteq 1 .. Len(q)
    BY <1>3
  <2>2. Max(H) \in H
    BY <1>1, <1>5, <2>1, GreatestIndex
  <2> DEFINE child == q[Max(H)]
  <2>3. ChildAtPoint(s, p, y) = child
    BY <1>5 DEF ChildAtPoint
  <2>4. child \in All /\ child \in ToSet(q) /\ Inside(s, child, y)
    <3>1. PICK m : m = Max(H)
      OBVIOUS
    <3>2. m \in 1 .. Len(q) /\ Inside(s, q[m], y)
      BY <1>3, <2>2, <3>1
    <3>3. child = q[m]
      BY <3>1
    <3> HIDE DEF child
    <3> QED BY <1>1, <3>2, <3>3 DEF ToSet
  <2>5. Covers(s, child, y)
    BY <2>4, InsideIs
  <2> QED BY <1>2, <2>3, <2>4, <2>5
<1> QED BY <1>4, <1>5

\* No button lies under or over another control of its panel.
LEMMA ButtonsApart ==
  ASSUME NEW s, Core(s), NEW b \in Buttons, NEW c \in All, b # c,
         s.parent[b] # None, s.parent[c] = s.parent[b], NEW y, Covers(s, b, y)
  PROVE  ~Covers(s, c, y)
<1> DEFINE p == s.parent[b]
           X == Shift(s, p) + Shift(s, Parent(s, p))
<1>1. Tree(s) /\ Places(s)
  BY DEF Core, Placed
<1>2. b \in All /\ b # None /\ c # None
  BY NamesApart
<1>3. p \in Panels /\ p \in All /\ Home(b) = p /\ Home(c) = p
  BY <1>1, <1>2, NamesApart DEF Tree
<1>4. s.offset \in [All -> Int] /\ s.parent \in [All -> Panels \cup {None}] /\ Panels \subseteq All
  BY <1>1, NamesApart DEF Tree
<1>5. \A d \in All \cup {None} : Shift(s, d) \in Int /\ Parent(s, d) \in All \cup {None}
  BY <1>4 DEF Shift, Parent
<1>6. X \in Int
  BY <1>3, <1>5
<1>7. Absolute(s, b) = s.offset[b] + X /\ Absolute(s, c) = s.offset[c] + X
  <2>1. \A d \in {b, c} : Shift(s, d) = s.offset[d] /\ Parent(s, d) = p
    BY <1>2 DEF Shift, Parent
  <2>2. Shift(s, p) \in Int /\ Shift(s, Parent(s, p)) \in Int /\ s.offset[b] \in Int /\ s.offset[c] \in Int
    BY <1>2, <1>3, <1>4, <1>5
  <2> QED BY <2>1, <2>2 DEF Absolute
<1> HIDE DEF X
<1>8. Height[b] = 1 /\ Height[c] \in Nat
  BY Heights
<1>9. s.offset[b] \in Int /\ s.offset[c] \in Int
  BY <1>2, <1>4
<1>10. y \in Int /\ y = s.offset[b] + X
  <2>1. y \in s.offset[b] + X .. s.offset[b] + X + 1 - 1
    BY <1>7, <1>8 DEF Covers
  <2> QED BY <1>6, <1>9, <2>1
<1>11. SUFFICES ASSUME y \in s.offset[c] + X .. s.offset[c] + X + Height[c] - 1 PROVE FALSE
  BY <1>7 DEF Covers
<1>12. s.offset[c] <= s.offset[b] /\ s.offset[b] < s.offset[c] + Height[c]
  BY <1>6, <1>8, <1>9, <1>10, <1>11
<1>13. p \in {"root", "combo", "taskbar"}
  <2>1. b \in {"logo", "drop"} \cup Entries
    BY DEF Buttons
  <2> QED BY <1>3, <2>1, Homes
<1>14. CASE p = "root"
  <2>1. b = "logo"
    BY <1>2, <1>3, <1>14, Residents, NamesApart DEF Buttons
  <2>2. c \in {"field", "combo", "taskbar"}
    BY <1>3, <1>14, <2>1, Residents
  <2>3. s.offset[b] = 0 /\ s.offset[c] >= 1
    BY <1>1, <2>1, <2>2 DEF Places
  <2> QED BY <1>9, <1>12, <2>3
<1>15. CASE p = "combo"
  <2>1. b = "drop"
    BY <1>2, <1>3, <1>15, Residents, NamesApart DEF Buttons
  <2>2. c = "text"
    BY <1>3, <1>15, <2>1, Residents
  <2>3. s.offset[b] = 2 /\ s.offset[c] = 0 /\ Height[c] = 2
    BY <1>1, <2>1, <2>2, Heights DEF Places
  <2> QED BY <1>12, <2>3
<1>16. CASE p = "taskbar"
  <2>1. b \in Entries
    BY <1>2, <1>3, <1>16, Residents, NamesApart DEF Buttons
  <2>2. c \in Entries
    <3>1. s.parent["slider"] = None
      BY <1>1, <1>16, <2>1 DEF Places
    <3> QED BY <1>3, <1>16, <3>1, Residents, NamesApart
  <2>3. s.offset[c] # s.offset[b] /\ Height[c] = 1
    BY <1>1, <1>16, <2>1, <2>2, Heights, NamesApart DEF Places
  <2> QED BY <1>9, <1>12, <2>3
<1> QED BY <1>13, <1>14, <1>15, <1>16

LEMMA ProbedKeeps ==
  ASSUME NEW s, Core(s), NEW p \in Panels, p # "popup", NEW y
  PROVE  Looked(s, Probed(s, p, y))
<1> DEFINE cs == {s.children[p][i] : i \in {j \in DOMAIN s.children[p] : \A k \in Hits(s, p, y) : j >= k}}
<1>1. "options" \notin cs
  <2>1. "options" \in All /\ p # None
    BY NamesApart
  <2>2. s.parent["options"] # p
    BY <2>1, Homes DEF Core, Placed, Tree
  <2>3. "options" \notin ToSet(s.children[p])
    BY <2>1, <2>2 DEF Core, Placed, Tree
  <2> QED BY <2>3 DEF ToSet
<1> HIDE DEF cs
<1>2. Looked(s, Touch(s, cs))
  BY <1>1, TouchKeeps
<1> QED BY <1>2 DEF Probed, cs

\* Looking changes no position.
LEMMA LookedCovers ==
  ASSUME NEW s, NEW t, NEW F, Only(s, t, F), F \cap {"offset", "parent"} = {}, NEW c, NEW y
  PROVE  Covers(t, c, y) <=> Covers(s, c, y)
<1>1. t.offset = s.offset /\ t.parent = s.parent
  BY DEF Only, Fields
<1>2. Absolute(t, c) = Absolute(s, c)
  BY <1>1 DEF Absolute, Shift, Parent
<1> QED BY <1>2 DEF Covers

-----------------------------------------------------------------------------
\* The slider's fields, and whether it is held.
SliderShape(s) ==
    /\ s.slider = [value |-> s.slider.value, dragging |-> s.slider.dragging, grab |-> s.slider.grab,
                   pressed |-> s.slider.pressed, toMax |-> s.slider.toMax]
    /\ s.slider.dragging \in BOOLEAN /\ s.slider.pressed \in BOOLEAN
SliderHeld(s) == s.slider.pressed \/ s.slider.dragging

\* A step that repaints after it changed fields that say nothing about positions.
LEMMA ThenInvalidate ==
  ASSUME NEW s, NEW t, NEW F, Core(s), Only(s, t, F), F \cap CoreFields = {}, NEW c, c # "options"
  PROVE  /\ Core(Invalidate(t, c)) /\ Only(s, Invalidate(t, c), F \cup {"dirty", "at"})
         /\ Only(t, Invalidate(t, c), {"dirty", "at"})
<1>1. Core(t)
  BY CoreKept
<1>2. Looked(t, Invalidate(t, c))
  BY <1>1, InvalidateKeeps
<1> QED BY <1>2, OnlyThen DEF Looked

LEMMA SetValueKeeps ==
  ASSUME NEW s, Core(s), SliderShape(s), NEW v
  PROVE  LET t == SetValue(s, v)
         IN  /\ Core(t) /\ Only(s, t, {"slider", "dirty", "at"}) /\ SliderShape(t)
             /\ t.slider.pressed = s.slider.pressed /\ t.slider.dragging = s.slider.dragging
<1>1. PICK w : w = IF v < 0 THEN 0 ELSE IF v > SliderMax THEN SliderMax ELSE v
  OBVIOUS
<1>2. SetValue(s, v) = IF s.slider.value = w THEN s ELSE Invalidate([s EXCEPT !.slider.value = w], "slider")
  BY <1>1 DEF SetValue
<1>0. IsForm(s)
  BY DEF Core, Placed
<1>3. CASE s.slider.value = w
  BY <1>0, <1>2, <1>3, OnlySelf
<1>4. CASE s.slider.value # w
  <2> DEFINE o == [s EXCEPT !.slider.value = w]
  <2>1. Only(s, o, {"slider"}) /\ o.slider = [s.slider EXCEPT !.value = w]
    BY <1>0 DEF IsForm, Only, Fields
  <2> HIDE DEF o
  <2>2. SliderShape(o) /\ o.slider.pressed = s.slider.pressed /\ o.slider.dragging = s.slider.dragging
    BY <2>1 DEF SliderShape
  <2>3. PICK t : t = Invalidate(o, "slider")
    OBVIOUS
  <2>4. {"slider"} \cap CoreFields = {} /\ "slider" # "options"
    BY DEF CoreFields
  <2>5. Core(t) /\ Only(s, t, {"slider"} \cup {"dirty", "at"}) /\ Only(o, t, {"dirty", "at"})
    BY <2>1, <2>3, <2>4, ThenInvalidate
  <2>6. t.slider = o.slider
    BY <2>5 DEF Only, Fields
  <2>7. Only(s, t, {"slider", "dirty", "at"})
    BY <2>5, OnlyMore
  <2>8. SetValue(s, v) = t
    BY <1>2, <1>4, <2>3 DEF o
  <2> QED BY <2>2, <2>5, <2>6, <2>7, <2>8 DEF SliderShape
<1> QED BY <1>3, <1>4

LEMMA SliderMoveKeeps ==
  ASSUME NEW s, Core(s), SliderShape(s), NEW y
  PROVE  LET t == SliderMove(s, y)
         IN  /\ Core(t) /\ Only(s, t, {"slider", "dirty", "at"}) /\ SliderShape(t)
             /\ SliderHeld(t) <=> SliderHeld(s)
<1>1. PICK o : o = Touch(s, {"slider"})
  OBVIOUS
<1>2. Looked(s, o)
  BY <1>1, TouchKeeps
<1>3. Core(o) /\ o.slider = s.slider /\ Only(s, o, {"slider", "dirty", "at"})
  BY <1>2, OnlyMore DEF Looked, Only, Fields
<1>4. SliderShape(o)
  BY <1>3 DEF SliderShape
<1>5. PICK v : v = ((y - TrackAt(o) - o.slider.grab) * SliderMax) \div Scrollable
  OBVIOUS
<1>6. SliderMove(s, y) = IF ~s.slider.dragging \/ Scrollable <= 0 THEN o ELSE SetValue(o, v)
  BY <1>1, <1>5 DEF SliderMove
<1>7. PICK t : t = SetValue(o, v)
  OBVIOUS
<1>8. /\ Core(t) /\ Only(o, t, {"slider", "dirty", "at"}) /\ SliderShape(t)
      /\ t.slider.pressed = o.slider.pressed /\ t.slider.dragging = o.slider.dragging
  BY <1>3, <1>4, <1>7, SetValueKeeps
<1>9. Only(s, t, {"slider", "dirty", "at"})
  BY <1>3, <1>8 DEF Only
<1> QED BY <1>3, <1>4, <1>6, <1>7, <1>8, <1>9 DEF SliderHeld

LEMMA SliderDownKeeps ==
  ASSUME NEW s, Core(s), SliderShape(s), NEW y
  PROVE  LET t == SliderDown(s, y)
         IN  Core(t) /\ Only(s, t, {"slider", "dirty", "at"}) /\ SliderShape(t)
<1>0. IsForm(s) /\ {"slider"} \cap CoreFields = {} /\ "slider" # "options"
  BY DEF Core, Placed, CoreFields
<1>1. CASE s.slider.toMax
  <2>1. PICK v : v = IF s.slider.value >= SliderMax THEN 0 ELSE SliderMax
    OBVIOUS
  <2> DEFINE o == [s EXCEPT !.slider.dragging = FALSE, !.slider.pressed = FALSE]
  <2>2. Only(s, o, {"slider"}) /\ o.slider = [s.slider EXCEPT !.dragging = FALSE, !.pressed = FALSE]
    BY <1>0 DEF IsForm, Only, Fields
  <2>3. SliderDown(s, y) = SetValue(o, v)
    BY <1>1, <2>1 DEF SliderDown
  <2> HIDE DEF o
  <2>4. Core(o)
    BY <1>0, <2>2, CoreKept
  <2>5. SliderShape(o)
    BY <2>2 DEF SliderShape
  <2>6. PICK t : t = SetValue(o, v)
    OBVIOUS
  <2>7. Core(t) /\ Only(o, t, {"slider", "dirty", "at"}) /\ SliderShape(t)
    BY <2>4, <2>5, <2>6, SetValueKeeps
  <2>8. Only(s, t, {"slider", "dirty", "at"})
    BY <2>2, <2>7 DEF Only
  <2> QED BY <2>3, <2>6, <2>7, <2>8
<1>2. CASE ~s.slider.toMax
  <2>1. PICK area : area = HitArea(s, y)
    OBVIOUS
  <2>2. PICK g : g = y - ThumbAt(s)
    OBVIOUS
  <2>3. PICK v : v = s.slider.value + Step[area]
    OBVIOUS
  <2> DEFINE o == [s EXCEPT !.slider.pressed = TRUE]
             d == [o EXCEPT !.slider.dragging = TRUE, !.slider.grab = g]
             u == IF area = "thumb" THEN d ELSE SetValue(o, v)
  <2>4. SliderDown(s, y) = Invalidate(u, "slider")
    BY <1>2, <2>1, <2>2, <2>3 DEF SliderDown
  <2>5. Only(s, o, {"slider"}) /\ o.slider = [s.slider EXCEPT !.pressed = TRUE]
    BY <1>0 DEF IsForm, Only, Fields
  <2> HIDE DEF o
  <2>6. Core(o) /\ SliderShape(o) /\ IsForm(o)
    BY <1>0, <2>5, CoreKept DEF SliderShape, Only
  <2>7. Only(o, d, {"slider"}) /\ d.slider = [o.slider EXCEPT !.dragging = TRUE, !.grab = g]
    BY <2>6 DEF IsForm, Only, Fields
  <2> HIDE DEF d
  <2>8. Core(d) /\ SliderShape(d)
    BY <1>0, <2>6, <2>7, CoreKept DEF SliderShape
  <2>9. PICK w : w = SetValue(o, v)
    OBVIOUS
  <2>10. Core(w) /\ Only(o, w, {"slider", "dirty", "at"}) /\ SliderShape(w)
    BY <2>6, <2>9, SetValueKeeps
  <2>11. Core(u) /\ SliderShape(u) /\ Only(s, u, {"slider", "dirty", "at"})
    <3>1. Only(s, d, {"slider", "dirty", "at"})
      BY <2>5, <2>7 DEF Only
    <3>2. Only(s, w, {"slider", "dirty", "at"})
      BY <2>5, <2>10 DEF Only
    <3> QED BY <2>8, <2>9, <2>10, <3>1, <3>2
  <2> HIDE DEF u
  <2>12. Looked(u, Invalidate(u, "slider"))
    BY <1>0, <2>11, InvalidateKeeps
  <2>13. PICK t : t = Invalidate(u, "slider")
    OBVIOUS
  <2>14. t.slider = u.slider /\ Core(t) /\ Only(s, t, {"slider", "dirty", "at"})
    BY <2>11, <2>12, <2>13 DEF Looked, Only, Fields
  <2>15. SliderShape(t)
    BY <2>11, <2>14 DEF SliderShape
  <2> QED BY <2>4, <2>13, <2>14, <2>15
<1> QED BY <1>1, <1>2

LEMMA SliderUpKeeps ==
  ASSUME NEW s, Core(s), SliderShape(s)
  PROVE  LET t == SliderUp(s)
         IN  /\ Core(t) /\ Only(s, t, {"slider", "dirty", "at"}) /\ SliderShape(t)
             /\ ~SliderHeld(t)
<1>0. IsForm(s) /\ {"slider"} \cap CoreFields = {} /\ "slider" # "options"
  BY DEF Core, Placed, CoreFields
<1>1. CASE ~(s.slider.dragging \/ s.slider.pressed)
  BY <1>0, <1>1, OnlySelf DEF SliderUp, SliderHeld
<1>2. CASE s.slider.dragging \/ s.slider.pressed
  <2> DEFINE o == [s EXCEPT !.slider.dragging = FALSE, !.slider.pressed = FALSE]
  <2>1. Only(s, o, {"slider"}) /\ o.slider = [s.slider EXCEPT !.dragging = FALSE, !.pressed = FALSE]
    BY <1>0 DEF IsForm, Only, Fields
  <2>2. SliderUp(s) = Invalidate(o, "slider")
    BY <1>2 DEF SliderUp
  <2> HIDE DEF o
  <2>3. SliderShape(o) /\ ~SliderHeld(o)
    BY <2>1 DEF SliderShape, SliderHeld
  <2>4. PICK t : t = Invalidate(o, "slider")
    OBVIOUS
  <2>5. Core(t) /\ Only(s, t, {"slider"} \cup {"dirty", "at"}) /\ Only(o, t, {"dirty", "at"})
    BY <1>0, <2>1, <2>4, ThenInvalidate
  <2>6. t.slider = o.slider
    BY <2>5 DEF Only, Fields
  <2>7. Only(s, t, {"slider", "dirty", "at"})
    BY <2>5, OnlyMore
  <2> QED BY <2>2, <2>3, <2>4, <2>5, <2>6, <2>7 DEF SliderShape, SliderHeld
<1> QED BY <1>1, <1>2

-----------------------------------------------------------------------------
\* The children under the mouse and the buttons that are lit.
Hovering(s) ==
    /\ s.hover \in [Panels -> All \cup {None}]
    /\ \A p \in Panels : s.hover[p] # None => s.parent[s.hover[p]] = p
    /\ s.lit \subseteq Buttons
    /\ \A c \in s.lit : s.parent[c] # None

\* Every lit button is the one its panel would tell.
Lights(s) ==
    /\ Core(s) /\ SliderShape(s) /\ Hovering(s)
    /\ \A d \in s.lit : s.hover[s.parent[d]] = d

\* What is left of a step that told control c that the mouse is at y.
MoveFields == {"lit", "slider", "hover", "dirty", "at"}
Told(s, t, c, y) ==
    /\ Core(t) /\ SliderShape(t) /\ Hovering(t)
    /\ Only(s, t, MoveFields)
    /\ SliderHeld(t) <=> SliderHeld(s)
    /\ \A q \in Panels \ {c} : t.hover[q] = s.hover[q]
    /\ \A d \in Buttons \ {c} : s.parent[d] # c => (d \in t.lit <=> d \in s.lit)
    /\ c \in Buttons => (c \in t.lit <=> Covers(s, c, y))
    /\ \A d \in t.lit : s.parent[d] = c => t.hover[c] = d

LEMMA LightUpKeeps ==
  ASSUME NEW s, Core(s), NEW c \in Buttons, NEW y
  PROVE  LET t == LightUp(s, c, y)
         IN  /\ Core(t) /\ Only(s, t, {"lit", "dirty", "at"})
             /\ t.lit = IF Covers(s, c, y) THEN s.lit \cup {c} ELSE s.lit \ {c}
<1>0. IsForm(s) /\ {"lit"} \cap CoreFields = {} /\ c # "options" /\ c \in All
  BY NamesApart DEF Core, Placed, CoreFields, Buttons
<1>1. Inside(s, c, y) <=> Covers(s, c, y)
  BY <1>0, InsideIs
<1>2. CASE Inside(s, c, y) = (c \in s.lit)
  <2>1. LightUp(s, c, y) = Touch(s, {c})
    BY <1>2 DEF LightUp
  <2>2. PICK t : t = Touch(s, {c})
    OBVIOUS
  <2>3. Looked(s, t)
    BY <1>0, <2>2, TouchKeeps
  <2>4. Core(t) /\ t.lit = s.lit /\ Only(s, t, {"lit", "dirty", "at"})
    BY <2>3 DEF Looked, Only, Fields
  <2>5. s.lit = IF Covers(s, c, y) THEN s.lit \cup {c} ELSE s.lit \ {c}
    BY <1>1, <1>2
  <2> QED BY <2>1, <2>2, <2>4, <2>5
<1>3. CASE Inside(s, c, y) # (c \in s.lit)
  <2> DEFINE o == [s EXCEPT !.lit = IF c \in @ THEN @ \ {c} ELSE @ \cup {c}]
  <2>1. Only(s, o, {"lit"}) /\ o.lit = IF c \in s.lit THEN s.lit \ {c} ELSE s.lit \cup {c}
    BY <1>0 DEF IsForm, Only, Fields
  <2>2. LightUp(s, c, y) = Invalidate(o, c)
    BY <1>3 DEF LightUp
  <2> HIDE DEF o
  <2>3. PICK t : t = Invalidate(o, c)
    OBVIOUS
  <2>4. Core(t) /\ Only(s, t, {"lit"} \cup {"dirty", "at"}) /\ Only(o, t, {"dirty", "at"})
    BY <1>0, <2>1, <2>3, ThenInvalidate
  <2>5. t.lit = o.lit /\ Only(s, t, {"lit", "dirty", "at"})
    BY <2>4, OnlyMore DEF Only, Fields
  <2>6. Inside(s, c, y) \in BOOLEAN
    BY DEF Inside
  <2>7. c \in s.lit <=> ~Covers(s, c, y)
    BY <1>1, <1>3, <2>6
  <2>8. t.lit = IF Covers(s, c, y) THEN s.lit \cup {c} ELSE s.lit \ {c}
    BY <2>1, <2>5, <2>7
  <2> QED BY <2>2, <2>3, <2>4, <2>5, <2>8
<1> QED BY <1>2, <1>3

LEMMA LeafMoveKeeps ==
  ASSUME NEW s, Core(s), SliderShape(s), NEW c, NEW y
  PROVE  LET t == LeafMove(s, c, y)
         IN  /\ Core(t) /\ Only(s, t, {"lit", "slider", "dirty", "at"}) /\ SliderShape(t)
             /\ SliderHeld(t) <=> SliderHeld(s)
             /\ t.lit = IF c \in Buttons THEN IF Covers(s, c, y) THEN s.lit \cup {c} ELSE s.lit \ {c} ELSE s.lit
<1>0. IsForm(s) /\ c \notin Buttons \cap Boxes /\ "slider" \notin Buttons \cup Boxes /\ "options" \notin Boxes
  BY NamesApart DEF Core, Placed, Buttons, Boxes
<1> DEFINE F == {"lit", "slider", "dirty", "at"}
<1>1. CASE c \in Buttons
  <2>1. LeafMove(s, c, y) = LightUp(s, c, y)
    BY <1>0, <1>1 DEF LeafMove
  <2>2. PICK t : t = LightUp(s, c, y)
    OBVIOUS
  <2>3. /\ Core(t) /\ Only(s, t, {"lit", "dirty", "at"})
        /\ t.lit = IF Covers(s, c, y) THEN s.lit \cup {c} ELSE s.lit \ {c}
    BY <1>1, <2>2, LightUpKeeps
  <2>4. Only(s, t, F) /\ t.slider = s.slider
    BY <2>3, OnlyMore DEF Only, Fields
  <2> QED BY <1>1, <2>1, <2>2, <2>3, <2>4 DEF SliderShape, SliderHeld
<1>2. CASE c \in Boxes
  <2>1. LeafMove(s, c, y) = Touch(s, {c})
    BY <1>0, <1>2 DEF LeafMove
  <2>2. PICK t : t = Touch(s, {c})
    OBVIOUS
  <2>3. Looked(s, t)
    BY <1>0, <1>2, <2>2, TouchKeeps
  <2>4. Core(t) /\ Only(s, t, F) /\ t.slider = s.slider /\ t.lit = s.lit
    BY <2>3, OnlyMore DEF Looked, Only, Fields
  <2>5. c \notin Buttons
    BY <1>0, <1>2
  <2> QED BY <2>1, <2>2, <2>4, <2>5 DEF SliderShape, SliderHeld
<1>3. CASE c = "slider"
  <2>1. LeafMove(s, c, y) = SliderMove(s, y)
    BY <1>0, <1>3 DEF LeafMove
  <2>2. PICK t : t = SliderMove(s, y)
    OBVIOUS
  <2>3. Core(t) /\ Only(s, t, {"slider", "dirty", "at"}) /\ SliderShape(t) /\ (SliderHeld(t) <=> SliderHeld(s))
    BY <2>2, SliderMoveKeeps
  <2>4. Only(s, t, F) /\ t.lit = s.lit
    BY <2>3, OnlyMore DEF Only, Fields
  <2>5. c \notin Buttons
    BY <1>0, <1>3
  <2> QED BY <2>1, <2>2, <2>3, <2>4, <2>5
<1>4. CASE c \notin Buttons /\ c \notin Boxes /\ c # "slider"
  <2>1. LeafMove(s, c, y) = s
    BY <1>4 DEF LeafMove
  <2> QED BY <1>0, <1>4, <2>1, OnlySelf
<1> QED BY <1>1, <1>2, <1>3, <1>4

LEMMA LeafTold ==
  ASSUME NEW s, NEW p \in Panels, Lights(s), NEW c, c = None \/ (c \in All \ Panels /\ s.parent[c] = p), NEW y
  PROVE  Told(s, LeafMove(s, c, y), c, y)
<1>1. /\ Core(s) /\ SliderShape(s) /\ Hovering(s)
      /\ c \notin Panels /\ p # None /\ Buttons \subseteq All
  BY NamesApart DEF Lights
<1>2. PICK t : t = LeafMove(s, c, y)
  OBVIOUS
<1>3. /\ Core(t) /\ Only(s, t, {"lit", "slider", "dirty", "at"}) /\ SliderShape(t)
      /\ SliderHeld(t) <=> SliderHeld(s)
      /\ t.lit = IF c \in Buttons THEN IF Covers(s, c, y) THEN s.lit \cup {c} ELSE s.lit \ {c} ELSE s.lit
  BY <1>1, <1>2, LeafMoveKeeps
<1>4. t.hover = s.hover /\ t.parent = s.parent /\ Only(s, t, MoveFields)
  BY <1>3, OnlyMore DEF Only, Fields, MoveFields
<1>5. c \in Buttons => s.parent[c] # None
  BY <1>1, NamesApart
<1>6. Hovering(t)
  BY <1>1, <1>3, <1>4, <1>5 DEF Hovering
<1>7. \A d \in t.lit : s.parent[d] # c
  <2>1. \A d \in t.lit : d \in All /\ s.parent[d] # None
    BY <1>1, <1>4, <1>6 DEF Hovering
  <2>2. \A d \in All : s.parent[d] \in Panels \cup {None}
    BY <1>1 DEF Core, Placed, Tree
  <2> QED BY <1>1, <2>1, <2>2
<1>8. \A d \in Buttons \ {c} : d \in t.lit <=> d \in s.lit
  BY <1>3
<1>9. c \in Buttons => (c \in t.lit <=> Covers(s, c, y))
  BY <1>3
<1> QED BY <1>2, <1>3, <1>4, <1>6, <1>7, <1>8, <1>9 DEF Told

\* What a panel's handler of the mouse comes to: the child that was left, the one
\* under the mouse and the one that was captured are told, in this order.
Rounds(s, p, y, child, h, cc, t, a, u, b, e) ==
    /\ p \in Panels /\ p # "popup" /\ Lights(s)
    /\ child = ChildAtPoint(s, p, y) /\ h = s.hover[p]
    /\ cc = None \/ (cc \in All /\ s.parent[cc] = p)
    /\ cc # child \/ cc = None
    /\ Looked(s, t)
    /\ h # child => (Lights(t) /\ Only(s, t, MoveFields) => Told(t, a, h, y))
    /\ u = IF h = child THEN t ELSE Entered(a, p, child)
    /\ Lights(u) /\ Only(s, u, MoveFields) => Told(u, b, child, y)
    /\ Lights(b) /\ Only(s, b, MoveFields) => Told(b, e, cc, y)

LEMMA Moving ==
  ASSUME NEW s, NEW p, NEW y, NEW child, NEW h, NEW cc, NEW t, NEW a, NEW u, NEW b, NEW e,
         Rounds(s, p, y, child, h, cc, t, a, u, b, e)
  PROVE  /\ Core(e) /\ SliderShape(e) /\ Hovering(e) /\ Only(s, e, MoveFields)
         /\ SliderHeld(e) <=> SliderHeld(s)
         /\ \A d \in e.lit : s.parent[d] # None /\ e.hover[s.parent[d]] = d
         /\ \A q \in Panels \ {p, h, child, cc} : e.hover[q] = s.hover[q]
         /\ \A d \in Buttons \ {h, child, cc} : s.parent[d] \notin {p, h, child, cc} => (d \in e.lit <=> d \in s.lit)
<1> USE DEF Rounds
<1>0. /\ Core(s) /\ SliderShape(s) /\ Hovering(s) /\ Buttons \subseteq All /\ Panels \subseteq All
      /\ p \in All /\ p # None /\ None \notin All /\ Buttons \cap Panels = {}
  BY NamesApart DEF Lights
<1>1. \/ child = None /\ \A c \in All : s.parent[c] = p => ~Covers(s, c, y)
      \/ child \in All /\ s.parent[child] = p /\ Covers(s, child, y)
  BY <1>0, TopmostIs
<1>2. h = None \/ (h \in All /\ s.parent[h] = p)
  BY <1>0 DEF Hovering
<1>3. \A d \in Buttons : s.parent[d] = p /\ d # child => ~Covers(s, d, y)
  <2> SUFFICES ASSUME NEW d \in Buttons, s.parent[d] = p, d # child, Covers(s, d, y) PROVE FALSE
    OBVIOUS
  <2>1. d \in All
    BY <1>0
  <2>2. child \in All /\ s.parent[child] = p /\ Covers(s, child, y)
    BY <1>1, <2>1
  <2> QED BY <1>0, <2>2, ButtonsApart
<1>4. \A q \in {h, child, cc} : q # p /\ (q \in All => s.parent[q] = p)
  <2>1. s.parent[p] # p
    BY <1>0, Homes DEF Core, Placed, Tree, Panels, None
  <2> QED BY <1>0, <1>1, <1>2, <2>1
<1>5. Only(s, t, {"dirty", "at"}) /\ Core(t)
  BY DEF Looked
<1>6. /\ t.hover = s.hover /\ t.lit = s.lit /\ t.slider = s.slider /\ t.parent = s.parent
      /\ Only(s, t, MoveFields)
  BY <1>5, OnlyMore DEF Only, Fields, MoveFields
<1>7. Lights(t) /\ SliderShape(t) /\ Hovering(t) /\ \A d \in s.lit : s.hover[s.parent[d]] = d
  BY <1>0, <1>5, <1>6 DEF Lights, SliderShape, Hovering
<1>8. /\ Core(u) /\ SliderShape(u) /\ Hovering(u) /\ Only(s, u, MoveFields)
      /\ SliderHeld(u) <=> SliderHeld(s)
      /\ u.hover[p] = child
      /\ \A d \in u.lit : u.hover[s.parent[d]] = d
      /\ \A q \in Panels \ {p, h} : u.hover[q] = s.hover[q]
      /\ \A d \in Buttons \ {h} : s.parent[d] \notin {p, h} => (d \in u.lit <=> d \in s.lit)
  <2>1. CASE h = child
    <3>1. u = t
      BY <2>1
    <3> QED BY <1>5, <1>6, <1>7, <2>1, <3>1 DEF SliderHeld
  <2>2. CASE h # child
    <3>1. Told(t, a, h, y)
      BY <1>6, <1>7, <2>2
    <3>2. Core(a) /\ SliderShape(a) /\ Hovering(a) /\ IsForm(a)
      BY <3>1 DEF Told, Core, Placed
    <3>3. Only(a, u, {"hover"}) /\ u.hover = [a.hover EXCEPT ![p] = child]
      BY <2>2, <3>2 DEF Entered, IsForm, Only, Fields
    <3>4. Only(t, a, MoveFields)
      BY <3>1 DEF Told
    <3>5. a.parent = s.parent
      BY <1>6, <3>4 DEF Only, Fields, MoveFields
    <3>6. u.lit = a.lit /\ u.slider = a.slider /\ u.parent = s.parent
      BY <3>3, <3>5 DEF Only, Fields
    <3>7. Core(u)
      <4>1. {"hover"} \cap CoreFields = {}
        BY DEF CoreFields
      <4> QED BY <3>2, <3>3, <4>1, CoreKept
    <3>8. Only(s, u, MoveFields)
      BY <1>6, <3>3, <3>4 DEF Only, MoveFields
    <3>9. u.hover[p] = child /\ \A q \in Panels \ {p} : u.hover[q] = a.hover[q]
      BY <3>2, <3>3 DEF Hovering
    <3>10. Hovering(u)
      <4>1. u.hover \in [Panels -> All \cup {None}]
        BY <1>1, <3>2, <3>3 DEF Hovering
      <4>2. \A q \in Panels : u.hover[q] # None => s.parent[u.hover[q]] = q
        BY <1>1, <3>2, <3>5, <3>9 DEF Hovering
      <4> QED BY <3>2, <3>5, <3>6, <4>1, <4>2 DEF Hovering
    <3>11. SliderShape(u) /\ (SliderHeld(u) <=> SliderHeld(s))
      BY <1>6, <3>1, <3>2, <3>6 DEF Told, SliderShape, SliderHeld
    <3>12. \A d \in Buttons \ {h} : s.parent[d] # h => (d \in a.lit <=> d \in s.lit)
      BY <1>6, <3>1 DEF Told
    <3>13. \A d \in a.lit : d \in Buttons /\ d \in All /\ s.parent[d] \in Panels
      <4>1. \A d \in a.lit : d \in Buttons /\ d \in All /\ s.parent[d] # None
        BY <1>0, <3>2, <3>5 DEF Hovering
      <4>2. \A d \in All : s.parent[d] \in Panels \cup {None}
        BY <1>0 DEF Core, Placed, Tree
      <4> QED BY <4>1, <4>2
    <3>14. ASSUME NEW d \in a.lit PROVE s.parent[d] # p /\ a.hover[s.parent[d]] = d
      <4>1. CASE d = h
        <5>1. Covers(t, h, y) /\ d \in Buttons
          BY <3>1, <3>13, <3>14, <4>1 DEF Told
        <5>2. Covers(s, h, y)
          <6>1. {"dirty", "at"} \cap {"offset", "parent"} = {}
            OBVIOUS
          <6> QED BY <1>5, <5>1, <6>1, LookedCovers
        <5>3. s.parent[h] = p
          BY <1>2, <1>0, <3>13, <3>14, <4>1
        <5> QED BY <1>3, <2>2, <4>1, <5>1, <5>2, <5>3
      <4>2. CASE d # h /\ s.parent[d] = h
        <5>1. a.hover[h] = d
          BY <1>6, <3>1, <3>14, <4>2 DEF Told
        <5>2. h # p
          BY <1>4
        <5> QED BY <4>2, <5>1, <5>2
      <4>3. CASE d # h /\ s.parent[d] # h
        <5>1. d \in s.lit
          BY <3>12, <3>13, <3>14, <4>3
        <5>2. s.hover[s.parent[d]] = d
          BY <1>7, <5>1
        <5>3. s.parent[d] # p
          BY <4>3, <5>2
        <5>4. a.hover[s.parent[d]] = t.hover[s.parent[d]]
          BY <3>1, <3>13, <3>14, <4>3 DEF Told
        <5> QED BY <1>6, <5>2, <5>3, <5>4
      <4> QED BY <4>1, <4>2, <4>3
    <3>15. \A d \in u.lit : u.hover[s.parent[d]] = d
      BY <3>6, <3>9, <3>13, <3>14
    <3>16. \A q \in Panels \ {p, h} : u.hover[q] = s.hover[q]
      BY <1>6, <3>1, <3>9 DEF Told
    <3> QED BY <3>6, <3>7, <3>8, <3>9, <3>10, <3>11, <3>12, <3>15, <3>16
  <2> QED BY <2>1, <2>2
<1>9. u.parent = s.parent /\ u.offset = s.offset
  BY <1>8 DEF Only, Fields, MoveFields
<1>10. Lights(u)
  BY <1>8, <1>9 DEF Lights
<1>11. Told(u, b, child, y)
  BY <1>8, <1>10
<1>12. /\ Core(b) /\ SliderShape(b) /\ Hovering(b) /\ Only(u, b, MoveFields) /\ (SliderHeld(b) <=> SliderHeld(u))
       /\ b.parent = s.parent /\ b.offset = s.offset
  BY <1>9, <1>11 DEF Told, Only, Fields, MoveFields
<1>13. b.hover[p] = child
  BY <1>4, <1>8, <1>11 DEF Told
<1>14. \A d \in b.lit : d \in Buttons /\ s.parent[d] \in Panels
  <2>1. \A d \in b.lit : d \in Buttons /\ d \in All /\ s.parent[d] # None
    BY <1>0, <1>12 DEF Hovering
  <2>2. \A d \in All : s.parent[d] \in Panels \cup {None}
    BY <1>0 DEF Core, Placed, Tree
  <2> QED BY <2>1, <2>2
<1>15. ASSUME NEW d \in b.lit PROVE b.hover[s.parent[d]] = d
  <2>1. CASE d = child
    <3>1. s.parent[d] = p
      BY <1>0, <1>4, <1>14, <1>15, <2>1
    <3> QED BY <1>13, <2>1, <3>1
  <2>2. CASE d # child /\ s.parent[d] = child
    BY <1>9, <1>11, <1>15, <2>2 DEF Told
  <2>3. CASE d # child /\ s.parent[d] # child
    <3>1. d \in u.lit
      BY <1>9, <1>11, <1>14, <1>15, <2>3 DEF Told
    <3>2. b.hover[s.parent[d]] = u.hover[s.parent[d]]
      BY <1>11, <1>14, <1>15, <2>3 DEF Told
    <3> QED BY <1>8, <3>1, <3>2
  <2> QED BY <2>1, <2>2, <2>3
<1>16. Lights(b)
  BY <1>12, <1>15 DEF Lights
<1>17. Told(b, e, cc, y)
  <2>1. Only(s, b, MoveFields)
    BY <1>8, <1>12 DEF Only
  <2> QED BY <1>16, <2>1
<1>18. /\ Core(e) /\ SliderShape(e) /\ Hovering(e) /\ Only(b, e, MoveFields) /\ (SliderHeld(e) <=> SliderHeld(b))
       /\ e.parent = s.parent
  BY <1>12, <1>17 DEF Told, Only, Fields, MoveFields
<1>19. Only(s, e, MoveFields)
  BY <1>8, <1>12, <1>18 DEF Only
<1>20. \A d \in e.lit : d \in Buttons /\ d \in All /\ s.parent[d] \in Panels
  <2>1. \A d \in e.lit : d \in Buttons /\ d \in All /\ s.parent[d] # None
    BY <1>0, <1>18 DEF Hovering
  <2>2. \A d \in All : s.parent[d] \in Panels \cup {None}
    BY <1>0 DEF Core, Placed, Tree
  <2> QED BY <2>1, <2>2
<1>21. ASSUME NEW d \in e.lit PROVE s.parent[d] # None /\ e.hover[s.parent[d]] = d
  <2>0. d \in Buttons /\ d \in All /\ s.parent[d] \in Panels /\ s.parent[d] # None
    BY <1>20, <1>21, NamesApart
  <2>1. CASE d = cc
    <3>1. Covers(b, d, y)
      BY <1>17, <1>21, <2>0, <2>1 DEF Told
    <3>2. Covers(s, d, y)
      <4>1. Absolute(b, d) = Absolute(s, d)
        BY <1>12 DEF Absolute, Shift, Parent
      <4> QED BY <3>1, <4>1 DEF Covers
    <3>3. s.parent[d] = p /\ d # child
      BY <1>0, <2>0, <2>1
    <3> QED BY <1>3, <2>0, <3>2, <3>3
  <2>2. CASE d # cc /\ s.parent[d] = cc
    BY <1>12, <1>17, <1>21, <2>0, <2>2 DEF Told
  <2>3. CASE d # cc /\ s.parent[d] # cc
    <3>1. d \in b.lit
      BY <1>12, <1>17, <1>21, <2>0, <2>3 DEF Told
    <3>2. e.hover[s.parent[d]] = b.hover[s.parent[d]]
      BY <1>17, <2>0, <2>3 DEF Told
    <3> QED BY <1>15, <2>0, <3>1, <3>2
  <2> QED BY <2>1, <2>2, <2>3
<1>22. \A q \in Panels \ {p, h, child, cc} : e.hover[q] = s.hover[q]
  <2> SUFFICES ASSUME NEW q \in Panels \ {p, h, child, cc} PROVE e.hover[q] = s.hover[q]
    OBVIOUS
  <2>1. e.hover[q] = b.hover[q]
    BY <1>17 DEF Told
  <2>2. b.hover[q] = u.hover[q]
    BY <1>11 DEF Told
  <2> QED BY <1>8, <2>1, <2>2
<1>23. \A d \in Buttons \ {h, child, cc} : s.parent[d] \notin {p, h, child, cc} => (d \in e.lit <=> d \in s.lit)
  <2> SUFFICES ASSUME NEW d \in Buttons \ {h, child, cc}, s.parent[d] \notin {p, h, child, cc}
               PROVE  d \in e.lit <=> d \in s.lit
    OBVIOUS
  <2>1. d \in e.lit <=> d \in b.lit
    BY <1>12, <1>17 DEF Told
  <2>2. d \in b.lit <=> d \in u.lit
    BY <1>9, <1>11 DEF Told
  <2> QED BY <1>8, <2>1, <2>2
<1>24. SliderHeld(e) <=> SliderHeld(s)
  BY <1>8, <1>12, <1>18
<1> QED BY <1>18, <1>19, <1>21, <1>22, <1>23, <1>24

\* The child a panel captured, unless it is the one under the mouse.
LEMMA CaptorIs ==
  ASSUME NEW s, NEW p, NEW child
  PROVE  /\ Captor(s, p, child) \in {None, s.capture[p]}
         /\ Captor(s, p, child) # child \/ Captor(s, p, child) = None
         /\ s.capture[p] \in {child, Captor(s, p, child)}
  BY DEF Captor

\* A panel whose children are no panels.
LEMMA PanelTold ==
  ASSUME NEW s, Lights(s), NEW p \in {"combo", "taskbar"}, s.parent[p] # None, NEW y,
         s.capture[p] # None => s.capture[p] \in All /\ s.parent[s.capture[p]] = p
  PROVE  Told(s, PanelMove(s, p, y), p, y)
<1>1. Core(s) /\ SliderShape(s) /\ Hovering(s)
  BY DEF Lights
<1>2. /\ p \in Panels /\ p # None /\ p # "popup" /\ p # "root" /\ "root" # None /\ Buttons \subseteq All /\ None \notin All
      /\ None \notin Buttons /\ p \notin Buttons
  BY NamesApart DEF Panels, None
<1>3. \A c \in All : s.parent[c] = p => c \notin Panels
  <2> SUFFICES ASSUME NEW c \in All, s.parent[c] = p, c \in Panels PROVE FALSE
    OBVIOUS
  <2>1. Home(c) = p
    BY <1>1, <1>2 DEF Core, Placed, Tree
  <2> QED BY <1>2, <2>1, Homes DEF Panels, None
<1>4. s.capture[p] = None \/ (s.capture[p] \in All \ Panels /\ s.parent[s.capture[p]] = p)
  BY <1>3
<1>5. PICK child : child = ChildAtPoint(s, p, y)
  OBVIOUS
<1>6. PICK h : h = s.hover[p]
  OBVIOUS
<1>7. PICK cc : cc = Captor(s, p, child)
  OBVIOUS
<1>8. PICK t : t = Probed(s, p, y)
  OBVIOUS
<1>9. PICK a : a = LeafMove(t, h, y)
  OBVIOUS
<1>10. PICK u : u = IF h = child THEN t ELSE Entered(a, p, child)
  OBVIOUS
<1>11. PICK b : b = LeafMove(u, child, y)
  OBVIOUS
<1>12. PICK e : e = LeafMove(b, cc, y)
  OBVIOUS
<1>13. PanelMove(s, p, y) = e
  BY <1>5, <1>6, <1>7, <1>8, <1>9, <1>10, <1>11, <1>12 DEF PanelMove
<1>14. Looked(s, t)
  BY <1>1, <1>2, <1>8, ProbedKeeps
<1>15. h = None \/ (h \in All \ Panels /\ s.parent[h] = p)
  BY <1>1, <1>2, <1>3, <1>6 DEF Hovering
<1>16. child = None \/ (child \in All \ Panels /\ s.parent[child] = p)
  <2>1. \/ child = None
        \/ child \in All /\ s.parent[child] = p
    BY <1>1, <1>2, <1>5, TopmostIs
  <2> QED BY <1>3, <2>1
<1>17. /\ cc = None \/ (cc \in All \ Panels /\ s.parent[cc] = p)
       /\ cc # child \/ cc = None
  BY <1>4, <1>7, CaptorIs
<1>18. \A x : Only(s, x, MoveFields) => x.parent = s.parent
  BY DEF Only, Fields, MoveFields
<1>19. h # child => (Lights(t) /\ Only(s, t, MoveFields) => Told(t, a, h, y))
  BY <1>2, <1>9, <1>15, <1>18, LeafTold
<1>20. Lights(u) /\ Only(s, u, MoveFields) => Told(u, b, child, y)
  BY <1>2, <1>11, <1>16, <1>18, LeafTold
<1>21. Lights(b) /\ Only(s, b, MoveFields) => Told(b, e, cc, y)
  BY <1>2, <1>12, <1>17, <1>18, LeafTold
<1>22. cc = None \/ (cc \in All /\ s.parent[cc] = p)
  BY <1>17
<1>23. /\ Core(e) /\ SliderShape(e) /\ Hovering(e) /\ Only(s, e, MoveFields)
       /\ SliderHeld(e) <=> SliderHeld(s)
       /\ \A d \in e.lit : s.parent[d] # None /\ e.hover[s.parent[d]] = d
       /\ \A q \in Panels \ {p, h, child, cc} : e.hover[q] = s.hover[q]
       /\ \A d \in Buttons \ {h, child, cc} : s.parent[d] \notin {p, h, child, cc} => (d \in e.lit <=> d \in s.lit)
  <2>1. Rounds(s, p, y, child, h, cc, t, a, u, b, e)
    BY <1>2, <1>5, <1>6, <1>10, <1>14, <1>17, <1>19, <1>20, <1>21, <1>22 DEF Rounds
  <2> QED BY <2>1, Moving
<1>24. \A q \in Panels \ {p} : e.hover[q] = s.hover[q]
  <2>1. \A q \in Panels \ {p} : q \notin {h, child, cc}
    BY <1>2, <1>15, <1>16, <1>17, NamesApart
  <2> QED BY <1>23, <2>1
<1>25. \A d \in Buttons \ {p} : s.parent[d] # p => (d \in e.lit <=> d \in s.lit)
  <2> SUFFICES ASSUME NEW d \in Buttons, s.parent[d] # p PROVE d \in e.lit <=> d \in s.lit
    OBVIOUS
  <2>1. d \in All /\ s.parent[d] \in Panels \cup {None}
    BY <1>1, <1>2 DEF Core, Placed, Tree
  <2>2. CASE s.parent[d] = None
    <3>1. d \notin s.lit
      BY <1>1, <2>2 DEF Hovering
    <3>2. d \notin e.lit
      BY <1>23, <2>2
    <3> QED BY <3>1, <3>2
  <2>3. CASE s.parent[d] \in Panels
    <3>1. d \notin {h, child, cc}
      BY <1>2, <1>15, <1>16, <1>17
    <3>2. s.parent[d] \notin {p, h, child, cc}
      BY <1>15, <1>16, <1>17, <2>3, NamesApart
    <3> QED BY <1>23, <3>1, <3>2
  <2> QED BY <2>1, <2>2, <2>3
<1>26. \A d \in e.lit : s.parent[d] = p => e.hover[p] = d
  BY <1>23
<1> QED BY <1>2, <1>13, <1>23, <1>24, <1>25, <1>26 DEF Told

LEMMA ChildTold ==
  ASSUME NEW s, Lights(s), NEW c, c = None \/ (c \in All /\ s.parent[c] = "root"), NEW y,
         \A p \in Panels : s.capture[p] # None => s.capture[p] \in All /\ s.parent[s.capture[p]] = p
  PROVE  Told(s, ChildMove(s, c, y), c, y)
<1>1. "root" \in Panels /\ "root" # None /\ None \notin Panels
  BY NamesApart DEF Panels
<1>2. CASE c \in Panels
  <2>1. c \in All /\ s.parent[c] = "root" /\ s.parent[c] # None
    BY <1>1, <1>2
  <2>2. Home(c) = "root"
    BY <1>1, <2>1 DEF Lights, Core, Placed, Tree
  <2>3. c \in {"combo", "taskbar"}
    BY <1>1, <1>2, <2>2, Homes DEF Panels
  <2>4. s.capture[c] # None => s.capture[c] \in All /\ s.parent[s.capture[c]] = c
    BY <1>2
  <2>5. Told(s, PanelMove(s, c, y), c, y)
    BY <2>1, <2>3, <2>4, PanelTold
  <2> QED BY <1>2, <2>5 DEF ChildMove
<1>3. CASE c \notin Panels
  <2>1. c = None \/ (c \in All \ Panels /\ s.parent[c] = "root")
    BY <1>3
  <2>2. Told(s, LeafMove(s, c, y), c, y)
    BY <1>1, <2>1, LeafTold
  <2> QED BY <1>3, <2>2 DEF ChildMove
<1> QED BY <1>2, <1>3

\* The mouse moves: every lit button is still the one its panel would tell.
LEMMA MouseMoveKeeps ==
  ASSUME NEW s, Lights(s), NEW y,
         \A p \in Panels : s.capture[p] # None => s.capture[p] \in All /\ s.parent[s.capture[p]] = p
  PROVE  LET e == MouseMove(s, y)
         IN  Lights(e) /\ Only(s, e, MoveFields) /\ (SliderHeld(e) <=> SliderHeld(s))
<1>1. Core(s) /\ SliderShape(s) /\ Hovering(s)
  BY DEF Lights
<1>2. "root" \in Panels /\ "root" # None /\ "root" # "popup"
  BY NamesApart DEF Panels
<1>5. PICK child : child = ChildAtPoint(s, "root", y)
  OBVIOUS
<1>6. PICK h : h = s.hover["root"]
  OBVIOUS
<1>7. PICK cc : cc = Captor(s, "root", child)
  OBVIOUS
<1>8. PICK t : t = Probed(s, "root", y)
  OBVIOUS
<1>9. PICK a : a = ChildMove(t, h, y)
  OBVIOUS
<1>10. PICK u : u = IF h = child THEN t ELSE Entered(a, "root", child)
  OBVIOUS
<1>11. PICK b : b = ChildMove(u, child, y)
  OBVIOUS
<1>12. PICK e : e = ChildMove(b, cc, y)
  OBVIOUS
<1>13. MouseMove(s, y) = e
  BY <1>5, <1>6, <1>7, <1>8, <1>9, <1>10, <1>11, <1>12 DEF MouseMove
<1>14. Looked(s, t)
  BY <1>1, <1>2, <1>8, ProbedKeeps
<1>15. h = None \/ (h \in All /\ s.parent[h] = "root")
  BY <1>1, <1>2, <1>6 DEF Hovering
<1>16. child = None \/ (child \in All /\ s.parent[child] = "root")
  <2>1. \/ child = None
        \/ child \in All /\ s.parent[child] = "root"
    BY <1>1, <1>2, <1>5, TopmostIs
  <2> QED BY <2>1
<1>17. /\ cc = None \/ (cc \in All /\ s.parent[cc] = "root")
       /\ cc # child \/ cc = None
  BY <1>2, <1>7, CaptorIs
<1>18. \A x : Only(s, x, MoveFields) => x.parent = s.parent /\ x.capture = s.capture
  BY DEF Only, Fields, MoveFields
<1>19. h # child => (Lights(t) /\ Only(s, t, MoveFields) => Told(t, a, h, y))
  BY <1>2, <1>9, <1>15, <1>18, ChildTold
<1>20. Lights(u) /\ Only(s, u, MoveFields) => Told(u, b, child, y)
  BY <1>2, <1>11, <1>16, <1>18, ChildTold
<1>21. Lights(b) /\ Only(s, b, MoveFields) => Told(b, e, cc, y)
  BY <1>2, <1>12, <1>17, <1>18, ChildTold
<1>23. /\ Core(e) /\ SliderShape(e) /\ Hovering(e) /\ Only(s, e, MoveFields)
       /\ SliderHeld(e) <=> SliderHeld(s)
       /\ \A d \in e.lit : s.parent[d] # None /\ e.hover[s.parent[d]] = d
  <2>1. Rounds(s, "root", y, child, h, cc, t, a, u, b, e)
    BY <1>2, <1>5, <1>6, <1>10, <1>14, <1>17, <1>19, <1>20, <1>21 DEF Rounds
  <2> QED BY <2>1, Moving
<1>24. e.parent = s.parent
  BY <1>18, <1>23
<1> QED BY <1>13, <1>23, <1>24 DEF Lights

-----------------------------------------------------------------------------
\* The children with the focus and the captured ones; who is pressed.
Focusing(s) ==
    /\ s.focus \in [Panels -> All \cup {None}]
    /\ \A p \in Panels : s.focus[p] # None => s.parent[s.focus[p]] = p
    /\ s.focused \subseteq All /\ \A c \in s.focused : s.parent[c] # None
Capturing(s) ==
    /\ s.capture \in [Panels -> All \cup {None}]
    /\ \A p \in Panels : s.capture[p] # None => s.parent[s.capture[p]] = p
Pressing(s) == s.pressed \subseteq Buttons /\ \A c \in s.pressed : s.parent[c] # None
Pointing(s) == Focusing(s) /\ Capturing(s) /\ Pressing(s) /\ SliderShape(s)

\* The flags say what the pointers say, but for some controls.
FocusBut(s, X) == \A c \in All \ X : s.parent[c] # None => (c \in s.focused <=> s.focus[s.parent[c]] = c)

LEMMA SetFocusedKeeps ==
  ASSUME NEW s, Core(s), NEW c, c # "options", NEW on \in BOOLEAN
  PROVE  LET t == SetFocused(s, c, on)
         IN  /\ Core(t) /\ Only(s, t, {"focused", "dirty", "at"})
             /\ t.focused = IF on THEN s.focused \cup {c} ELSE s.focused \ {c}
<1>0. IsForm(s) /\ {"focused"} \cap CoreFields = {}
  BY DEF Core, Placed, CoreFields
<1>1. CASE (c \in s.focused) = on
  <2>1. SetFocused(s, c, on) = s
    BY <1>1 DEF SetFocused
  <2>2. s.focused = IF on THEN s.focused \cup {c} ELSE s.focused \ {c}
    BY <1>1
  <2> QED BY <1>0, <2>1, <2>2, OnlySelf
<1>2. CASE (c \in s.focused) # on
  <2> DEFINE o == [s EXCEPT !.focused = IF on THEN @ \cup {c} ELSE @ \ {c}]
  <2>1. Only(s, o, {"focused"}) /\ o.focused = IF on THEN s.focused \cup {c} ELSE s.focused \ {c}
    BY <1>0 DEF IsForm, Only, Fields
  <2>2. SetFocused(s, c, on) = IF c \in Boxes THEN Invalidate(o, c) ELSE o
    BY <1>2 DEF SetFocused
  <2> HIDE DEF o
  <2>3. PICK t : t = Invalidate(o, c)
    OBVIOUS
  <2>4. Core(t) /\ Only(s, t, {"focused"} \cup {"dirty", "at"}) /\ Only(o, t, {"dirty", "at"})
    BY <1>0, <2>1, <2>3, ThenInvalidate
  <2>5. t.focused = o.focused /\ Only(s, t, {"focused", "dirty", "at"})
    BY <2>4, OnlyMore DEF Only, Fields
  <2>6. Core(o) /\ Only(s, o, {"focused", "dirty", "at"})
    BY <1>0, <2>1, CoreKept, OnlyMore
  <2> QED BY <2>1, <2>2, <2>3, <2>4, <2>5, <2>6
<1> QED BY <1>1, <1>2

\* The focus goes to a child that may have the flag already.
LEMMA FocusMoves ==
  ASSUME NEW s, Core(s), Focusing(s), NEW p \in Panels, p # "popup", NEW c \in All, s.parent[c] = p,
         FocusBut(s, {c}), s.focus[p] = c => c \in s.focused
  PROVE  LET t == SetFocusedChild(s, p, c)
         IN  /\ Core(t) /\ Only(s, t, {"focus", "focused", "dirty", "at"}) /\ Focusing(t) /\ FocusBut(t, {})
             /\ \A q \in Panels \ {p} : t.focus[q] = s.focus[q]
             /\ \A x \in All : s.parent[x] # p => (x \in t.focused <=> x \in s.focused)
<1> DEFINE F == {"focus", "focused", "dirty", "at"}
<1>0. IsForm(s) /\ {"focus"} \cap CoreFields = {} /\ p # None /\ None \notin All
  BY NamesApart DEF Core, Placed, CoreFields
<1>1. \A x \in All : s.parent[x] = p => x # "options"
  BY <1>0, Homes DEF Core, Placed, Tree
<1>2. CASE s.focus[p] = c
  <2>1. SetFocusedChild(s, p, c) = s
    BY <1>2 DEF SetFocusedChild
  <2>2. FocusBut(s, {})
    BY <1>2 DEF FocusBut
  <2> QED BY <1>0, <2>1, <2>2, OnlySelf
<1>3. CASE s.focus[p] # c
  <2>1. PICK f : f = s.focus[p]
    OBVIOUS
  <2>2. f = None \/ (f \in All /\ s.parent[f] = p /\ f # "options")
    BY <1>1, <2>1 DEF Focusing
  <2>3. PICK b : b = Blurred(s, p)
    OBVIOUS
  <2>4. /\ Core(b) /\ Only(s, b, {"focused", "dirty", "at"})
        /\ \A x \in All : x \in b.focused <=> x \in s.focused /\ x # f
        /\ b.focused \subseteq All
    <3>1. CASE f = None
      <4>1. b = s
        BY <2>1, <2>3, <3>1 DEF Blurred
      <4> QED BY <1>0, <3>1, <4>1, OnlySelf DEF Focusing
    <3>2. CASE f # None
      <4>1. b = SetFocused(s, f, FALSE)
        BY <2>1, <2>3, <3>2 DEF Blurred
      <4>2. Core(b) /\ Only(s, b, {"focused", "dirty", "at"}) /\ b.focused = s.focused \ {f}
        BY <2>2, <3>2, <4>1, SetFocusedKeeps
      <4> QED BY <4>2 DEF Focusing
    <3> QED BY <3>1, <3>2
  <2> DEFINE d == [b EXCEPT !.focus[p] = c]
  <2>5. b.focus = s.focus /\ b.parent = s.parent /\ IsForm(b)
    BY <2>4 DEF Only, Fields
  <2>6. Only(b, d, {"focus"}) /\ d.focus = [s.focus EXCEPT ![p] = c]
    BY <2>5 DEF IsForm, Only, Fields
  <2>7. PICK t : t = SetFocused(d, c, TRUE)
    OBVIOUS
  <2>8. SetFocusedChild(s, p, c) = t
    BY <1>3, <2>3, <2>7 DEF SetFocusedChild
  <2> HIDE DEF d
  <2>9. Core(d) /\ d.focused = b.focused /\ d.parent = s.parent
    <3>1. Core(d)
      BY <1>0, <2>4, <2>6, CoreKept
    <3> QED BY <2>5, <2>6, <3>1 DEF Only, Fields
  <2>10. Core(t) /\ Only(d, t, {"focused", "dirty", "at"}) /\ t.focused = d.focused \cup {c}
    <3>1. c # "options"
      BY <1>1
    <3> QED BY <2>7, <2>9, <3>1, SetFocusedKeeps
  <2>11. t.focus = [s.focus EXCEPT ![p] = c] /\ t.parent = s.parent
    BY <2>6, <2>9, <2>10 DEF Only, Fields
  <2>12. t.focus[p] = c /\ \A q \in Panels \ {p} : t.focus[q] = s.focus[q]
    BY <2>11 DEF Focusing
  <2>13. \A x \in All : x \in t.focused <=> (x \in s.focused /\ x # f) \/ x = c
    BY <2>4, <2>9, <2>10
  <2>14. Only(s, t, F)
    BY <2>4, <2>6, <2>10 DEF Only
  <2>15. Focusing(t)
    <3>1. t.focus \in [Panels -> All \cup {None}]
      BY <2>11 DEF Focusing
    <3>2. \A q \in Panels : t.focus[q] # None => t.parent[t.focus[q]] = q
      BY <2>11, <2>12 DEF Focusing
    <3>3. t.focused \subseteq All
      BY <2>4, <2>9, <2>10
    <3>4. \A x \in t.focused : t.parent[x] # None
      BY <1>0, <2>11, <2>13, <3>3 DEF Focusing
    <3> QED BY <3>1, <3>2, <3>3, <3>4 DEF Focusing
  <2>16. FocusBut(t, {})
    <3> SUFFICES ASSUME NEW x \in All, s.parent[x] # None PROVE x \in t.focused <=> t.focus[s.parent[x]] = x
      BY <2>11 DEF FocusBut
    <3>1. s.parent[x] \in Panels
      BY DEF Core, Placed, Tree
    <3>2. CASE x = c
      BY <2>12, <2>13, <3>2
    <3>3. CASE x # c /\ s.parent[x] = p
      <4>1. x \in s.focused <=> f = x
        BY <2>1, <3>3 DEF FocusBut
      <4> QED BY <2>12, <2>13, <3>3, <4>1
    <3>4. CASE x # c /\ s.parent[x] # p
      <4>1. x \in s.focused <=> s.focus[s.parent[x]] = x
        BY <3>4 DEF FocusBut
      <4>2. x # f
        BY <1>0, <2>2, <3>4
      <4> QED BY <2>12, <2>13, <3>1, <3>4, <4>1, <4>2
    <3> QED BY <3>2, <3>3, <3>4
  <2>17. \A x \in All : s.parent[x] # p => (x \in t.focused <=> x \in s.focused)
    BY <1>0, <2>2, <2>13
  <2> QED BY <2>8, <2>10, <2>12, <2>14, <2>15, <2>16, <2>17
<1> QED BY <1>2, <1>3

\* What is held down: a button, or the slider.
Grab(s) == s.pressed \cup (IF SliderHeld(s) THEN {"slider"} ELSE {})

\* What is left of a press that control c was told of.
PressFields == {"pressed", "focused", "focus", "capture", "slider", "open", "offset", "dirty", "at"}
Heard(s, t, handled, c) ==
    /\ Core(t) /\ Pointing(t) /\ Only(s, t, PressFields) /\ FocusBut(t, {c})
    /\ \A q \in Panels \ {c} : t.capture[q] = s.capture[q] /\ t.focus[q] = s.focus[q]
    /\ \A x \in All : x # c /\ s.parent[x] # c => (x \in t.focused <=> x \in s.focused)
    /\ c \in s.focused => c \in t.focused
    /\ ~handled \/ c \in Panels => (c \in t.focused => c \in s.focused)
    /\ \A g \in Grab(t) : g \in Grab(s) \/ (handled /\ (g = c \/ (s.parent[g] = c /\ t.capture[c] = g)))

\* A step that looked, or moved the drop-down panel, changes no pointer.
LEMMA PointingKept ==
  ASSUME NEW s, NEW t, Core(s), Pointing(s), FocusBut(s, {}), Core(t), Only(s, t, {"dirty", "at", "offset", "open"})
  PROVE  /\ Pointing(t) /\ FocusBut(t, {}) /\ Only(s, t, PressFields) /\ Grab(t) = Grab(s)
         /\ t.parent = s.parent /\ t.capture = s.capture /\ t.focus = s.focus /\ t.focused = s.focused
         /\ t.pressed = s.pressed /\ t.slider = s.slider
<1>1. /\ t.parent = s.parent /\ t.capture = s.capture /\ t.focus = s.focus /\ t.focused = s.focused
      /\ t.pressed = s.pressed /\ t.slider = s.slider
  BY DEF Only, Fields
<1>2. Only(s, t, PressFields)
  BY OnlyMore DEF PressFields
<1>3. Focusing(t) /\ Capturing(t) /\ Pressing(t)
  BY <1>1 DEF Pointing, Focusing, Capturing, Pressing
<1>4. SliderShape(t)
  BY <1>1 DEF Pointing, SliderShape
<1>5. FocusBut(t, {})
  BY <1>1 DEF FocusBut
<1>6. Grab(t) = Grab(s)
  BY <1>1 DEF Grab, SliderHeld
<1> QED BY <1>1, <1>2, <1>3, <1>4, <1>5, <1>6 DEF Pointing

LEMMA Unheard ==
  ASSUME NEW s, NEW t, Core(s), Pointing(s), FocusBut(s, {}), Core(t), Only(s, t, {"dirty", "at", "offset", "open"}),
         NEW handled \in BOOLEAN, NEW c
  PROVE  Heard(s, t, handled, c)
<1>1. /\ Pointing(t) /\ FocusBut(t, {}) /\ Only(s, t, PressFields) /\ Grab(t) = Grab(s)
      /\ t.parent = s.parent /\ t.capture = s.capture /\ t.focus = s.focus /\ t.focused = s.focused
  BY PointingKept
<1>2. FocusBut(t, {c})
  BY <1>1 DEF FocusBut
<1> QED BY <1>1, <1>2 DEF Heard

LEMMA LeafHeard ==
  ASSUME NEW s, Core(s), Pointing(s), FocusBut(s, {}),
         NEW p \in Panels, p # "popup", NEW c \in All \ Panels, s.parent[c] = p, NEW y, NEW button
  PROVE  LET r == LeafDown(s, c, y, button)
         IN  Heard(s, r.ui, r.handled, c) /\ r.handled \in BOOLEAN /\ (button # "left" => r = Left(s))
<1>0. /\ IsForm(s) /\ c # "options" /\ p # None /\ None \notin All /\ c \notin Buttons \cap Boxes /\ "slider" \notin Buttons \cup Boxes
      /\ c \in Buttons \cup Boxes \cup {"slider"}
  <2>1. p # None /\ None \notin All /\ c \notin Buttons \cap Boxes /\ "slider" \notin Buttons \cup Boxes
    BY NamesApart DEF Buttons, Boxes
  <2>2. c # "options"
    BY <2>1, Homes DEF Core, Placed, Tree
  <2> QED BY <2>1, <2>2, NamesApart DEF Core, Placed
<1>1. Focusing(s) /\ Capturing(s) /\ Pressing(s) /\ SliderShape(s)
  BY DEF Pointing
<1>2. s.parent[c] # None /\ \A x \in All : s.parent[x] # c
  <2>1. \A x \in All : s.parent[x] \in Panels \cup {None}
    BY DEF Core, Placed, Tree
  <2> QED BY <1>0, <2>1
<1>3. CASE button # "left"
  <2>1. LeafDown(s, c, y, button) = Left(s)
    BY <1>3 DEF LeafDown
  <2>2. Only(s, s, {"dirty", "at", "offset", "open"})
    BY <1>0, OnlySelf
  <2>3. Heard(s, s, FALSE, c)
    BY <2>2, Unheard
  <2>4. Left(s).ui = s /\ Left(s).handled = FALSE
    BY DEF Left
  <2> QED BY <1>3, <2>1, <2>3, <2>4
<1>4. CASE button = "left" /\ c \in Buttons
  <2> DEFINE o == [s EXCEPT !.pressed = @ \cup {c}]
  <2>1. LeafDown(s, c, y, button) = Took(Invalidate(o, c))
    BY <1>0, <1>4 DEF LeafDown
  <2>2. Only(s, o, {"pressed"}) /\ o.pressed = s.pressed \cup {c}
    BY <1>0 DEF IsForm, Only, Fields
  <2> HIDE DEF o
  <2>3. PICK t : t = Invalidate(o, c)
    OBVIOUS
  <2>4. {"pressed"} \cap CoreFields = {}
    BY DEF CoreFields
  <2>5. Core(t) /\ Only(s, t, {"pressed"} \cup {"dirty", "at"}) /\ Only(o, t, {"dirty", "at"})
    BY <1>0, <2>2, <2>3, <2>4, ThenInvalidate
  <2>6. /\ t.pressed = s.pressed \cup {c} /\ t.focus = s.focus /\ t.focused = s.focused /\ t.capture = s.capture
        /\ t.slider = s.slider /\ t.parent = s.parent /\ Only(s, t, PressFields)
    BY <2>2, <2>5, OnlyMore DEF Only, Fields, PressFields
  <2>7. Pointing(t)
    <3>1. Focusing(t) /\ Capturing(t)
      BY <1>1, <2>6 DEF Focusing, Capturing
    <3>2. Pressing(t)
      BY <1>1, <1>2, <1>4, <2>6 DEF Pressing
    <3>3. SliderShape(t)
      BY <1>1, <2>6 DEF SliderShape
    <3> QED BY <3>1, <3>2, <3>3 DEF Pointing
  <2>8. FocusBut(t, {c})
    BY <2>6 DEF FocusBut
  <2>9. \A g \in Grab(t) : g \in Grab(s) \/ g = c
    BY <2>6 DEF Grab, SliderHeld
  <2>10. Heard(s, t, TRUE, c)
    BY <2>5, <2>6, <2>7, <2>8, <2>9 DEF Heard
  <2>11. Took(t).ui = t /\ Took(t).handled = TRUE
    BY DEF Took
  <2> QED BY <1>4, <2>1, <2>3, <2>10, <2>11
<1>5. CASE button = "left" /\ c \in Boxes
  <2>1. PICK o : o = SetFocused(s, c, TRUE)
    OBVIOUS
  <2>2. LeafDown(s, c, y, button) = Took(Invalidate(o, c))
    BY <1>0, <1>5, <2>1 DEF LeafDown
  <2>3. Core(o) /\ Only(s, o, {"focused", "dirty", "at"}) /\ o.focused = s.focused \cup {c}
    BY <1>0, <2>1, SetFocusedKeeps
  <2>4. PICK t : t = Invalidate(o, c)
    OBVIOUS
  <2>5. Core(t) /\ Only(o, t, {"dirty", "at"})
    BY <1>0, <2>3, <2>4, InvalidateKeeps DEF Looked
  <2>6. /\ t.focused = s.focused \cup {c} /\ t.focus = s.focus /\ t.pressed = s.pressed /\ t.capture = s.capture
        /\ t.slider = s.slider /\ t.parent = s.parent /\ Only(s, t, PressFields)
    <3>1. Only(s, t, {"focused", "dirty", "at"} \cup {"dirty", "at"})
      BY <2>3, <2>5, OnlyThen
    <3>2. Only(s, t, PressFields)
      BY <3>1, OnlyMore DEF PressFields
    <3>3. t.focused = o.focused
      BY <2>5 DEF Only, Fields
    <3> QED BY <2>3, <3>1, <3>2, <3>3 DEF Only, Fields
  <2>7. Pointing(t)
    <3>1. Focusing(t)
      BY <1>1, <1>2, <2>6 DEF Focusing
    <3>2. Capturing(t) /\ Pressing(t)
      BY <1>1, <2>6 DEF Pressing, Capturing
    <3>3. SliderShape(t)
      BY <1>1, <2>6 DEF SliderShape
    <3> QED BY <3>1, <3>2, <3>3 DEF Pointing
  <2>8. FocusBut(t, {c})
    BY <2>6 DEF FocusBut
  <2>9. Grab(t) = Grab(s)
    BY <2>6 DEF Grab, SliderHeld
  <2>10. Heard(s, t, TRUE, c)
    BY <2>5, <2>6, <2>7, <2>8, <2>9 DEF Heard
  <2>11. Took(t).ui = t /\ Took(t).handled = TRUE
    BY DEF Took
  <2> QED BY <1>5, <2>2, <2>4, <2>10, <2>11
<1>6. CASE button = "left" /\ c = "slider"
  <2>1. PICK t : t = SliderDown(s, y)
    OBVIOUS
  <2>2. LeafDown(s, c, y, button) = Took(t)
    BY <1>0, <1>6, <2>1 DEF LeafDown
  <2>3. Core(t) /\ Only(s, t, {"slider", "dirty", "at"}) /\ SliderShape(t)
    BY <1>1, <2>1, SliderDownKeeps
  <2>6. /\ t.focused = s.focused /\ t.focus = s.focus /\ t.pressed = s.pressed /\ t.capture = s.capture
        /\ t.parent = s.parent /\ Only(s, t, PressFields)
    BY <2>3, OnlyMore DEF Only, Fields, PressFields
  <2>7. Pointing(t)
    <3>1. Focusing(t) /\ Capturing(t) /\ Pressing(t)
      BY <1>1, <2>6 DEF Focusing, Capturing, Pressing
    <3> QED BY <2>3, <3>1 DEF Pointing
  <2>8. FocusBut(t, {c})
    BY <2>6 DEF FocusBut
  <2>9. \A g \in Grab(t) : g \in Grab(s) \/ g = c
    BY <1>6, <2>6 DEF Grab
  <2>10. Heard(s, t, TRUE, c)
    BY <2>3, <2>6, <2>7, <2>8, <2>9 DEF Heard
  <2>11. Took(t).ui = t /\ Took(t).handled = TRUE
    BY DEF Took
  <2> QED BY <1>6, <2>2, <2>10, <2>11
<1> QED BY <1>0, <1>3, <1>4, <1>5, <1>6

\* The panel captures the child that took the press and gives it the focus.
LEMMA CaughtKeeps ==
  ASSUME NEW s, Core(s), Pointing(s), FocusBut(s, {}),
         NEW p \in Panels, p # "popup", NEW c \in All, c # p, s.parent[c] = p,
         NEW r, Heard(s, r.ui, r.handled, c), r.handled \in BOOLEAN
  PROVE  LET e == Caught(r, p, c)
         IN  /\ Core(e.ui) /\ Pointing(e.ui) /\ Only(s, e.ui, PressFields) /\ FocusBut(e.ui, {})
             /\ e.handled = r.handled
             /\ \A q \in Panels \ {c, p} : e.ui.capture[q] = s.capture[q] /\ e.ui.focus[q] = s.focus[q]
             /\ \A x \in All : s.parent[x] \notin {c, p} => (x \in e.ui.focused <=> x \in s.focused)
             /\ \A g \in Grab(e.ui) : \/ g \in Grab(s)
                                      \/ /\ e.handled /\ e.ui.capture[p] = c
                                         /\ g = c \/ (s.parent[g] = c /\ e.ui.capture[c] = g)
<1>1. PICK t : t = r.ui
  OBVIOUS
<1>2. Heard(s, t, r.handled, c) /\ p # None
  BY <1>1, NamesApart
<1>3. Core(t) /\ Pointing(t) /\ Only(s, t, PressFields) /\ FocusBut(t, {c})
  BY <1>2 DEF Heard
<1>4. t.parent = s.parent /\ IsForm(t)
  BY <1>3 DEF Only, Fields, PressFields
<1>5. CASE ~r.handled
  <2>1. Caught(r, p, c) = r
    BY <1>5 DEF Caught
  <2>2. FocusBut(t, {})
    <3>1. c \in t.focused <=> c \in s.focused
      BY <1>2, <1>5 DEF Heard
    <3>2. t.focus[p] = s.focus[p]
      BY <1>2 DEF Heard
    <3>3. c \in s.focused <=> s.focus[p] = c
      BY <1>2 DEF FocusBut
    <3> QED BY <1>3, <1>4, <3>1, <3>2, <3>3 DEF FocusBut
  <2>3. \A q \in Panels \ {c, p} : t.capture[q] = s.capture[q] /\ t.focus[q] = s.focus[q]
    BY <1>2 DEF Heard
  <2>4. \A x \in All : s.parent[x] \notin {c, p} => (x \in t.focused <=> x \in s.focused)
    BY <1>2 DEF Heard
  <2>5. \A g \in Grab(t) : g \in Grab(s)
    BY <1>2, <1>5 DEF Heard
  <2> QED BY <1>1, <1>3, <2>1, <2>2, <2>3, <2>4, <2>5
<1>6. CASE r.handled
  <2> DEFINE o == [t EXCEPT !.capture[p] = c]
  <2>1. Only(t, o, {"capture"}) /\ o.capture = [t.capture EXCEPT ![p] = c]
    BY <1>4 DEF IsForm, Only, Fields
  <2>2. PICK e : e = SetFocusedChild(o, p, c)
    OBVIOUS
  <2>3. Caught(r, p, c) = Took(e)
    BY <1>1, <1>6, <2>2 DEF Caught
  <2> HIDE DEF o
  <2>4. /\ o.parent = s.parent /\ o.focus = t.focus /\ o.focused = t.focused /\ o.pressed = t.pressed /\ o.slider = t.slider
    BY <1>4, <2>1 DEF Only, Fields
  <2>5. Core(o)
    <3>1. {"capture"} \cap CoreFields = {}
      BY DEF CoreFields
    <3> QED BY <1>3, <2>1, <3>1, CoreKept
  <2>6. Focusing(o) /\ FocusBut(o, {c})
    BY <1>3, <1>4, <2>4 DEF Pointing, Focusing, FocusBut
  <2>7. o.focus[p] = c => c \in o.focused
    <3>1. t.focus[p] = s.focus[p] /\ (c \in s.focused => c \in t.focused)
      BY <1>2 DEF Heard
    <3>2. c \in s.focused <=> s.focus[p] = c
      BY <1>2 DEF FocusBut
    <3> QED BY <2>4, <3>1, <3>2
  <2>8. /\ Core(e) /\ Only(o, e, {"focus", "focused", "dirty", "at"}) /\ Focusing(e) /\ FocusBut(e, {})
        /\ \A q \in Panels \ {p} : e.focus[q] = o.focus[q]
        /\ \A x \in All : o.parent[x] # p => (x \in e.focused <=> x \in o.focused)
    BY <2>2, <2>4, <2>5, <2>6, <2>7, FocusMoves
  <2>9. /\ e.parent = s.parent /\ e.capture = o.capture /\ e.pressed = t.pressed /\ e.slider = t.slider
    BY <2>4, <2>8 DEF Only, Fields
  <2>10. e.capture[p] = c /\ \A q \in Panels \ {p} : e.capture[q] = t.capture[q]
    BY <1>3, <2>1, <2>9 DEF Pointing, Capturing
  <2>11. Pointing(e)
    <3>1. Capturing(e)
      <4>1. e.capture \in [Panels -> All \cup {None}]
        BY <1>3, <2>1, <2>9 DEF Pointing, Capturing
      <4>2. \A q \in Panels : e.capture[q] # None => e.parent[e.capture[q]] = q
        BY <1>3, <1>4, <2>9, <2>10 DEF Pointing, Capturing
      <4> QED BY <4>1, <4>2 DEF Capturing
    <3>2. Pressing(e)
      BY <1>3, <1>4, <2>9 DEF Pointing, Pressing
    <3>3. SliderShape(e)
      BY <1>3, <2>9 DEF Pointing, SliderShape
    <3> QED BY <2>8, <3>1, <3>2, <3>3 DEF Pointing
  <2>12. Only(s, e, PressFields)
    BY <1>3, <2>1, <2>8 DEF Only, PressFields
  <2>13. \A q \in Panels \ {c, p} : e.capture[q] = s.capture[q] /\ e.focus[q] = s.focus[q]
    BY <1>2, <2>4, <2>8, <2>10 DEF Heard
  <2>14. \A x \in All : s.parent[x] \notin {c, p} => (x \in e.focused <=> x \in s.focused)
    BY <1>2, <2>4, <2>8 DEF Heard
  <2>15. \A g \in Grab(e) : g \in Grab(s) \/ (g = c \/ (s.parent[g] = c /\ e.capture[c] = g))
    <3>1. Grab(e) = Grab(t)
      BY <2>9 DEF Grab, SliderHeld
    <3>2. c \in Panels => e.capture[c] = t.capture[c]
      BY <2>10
    <3>3. \A g \in Grab(t) : g \in Grab(s) \/ g = c \/ (s.parent[g] = c /\ t.capture[c] = g)
      BY <1>2 DEF Heard
    <3>4. \A g \in Grab(t) : s.parent[g] = c => c \in Panels
      <4>1. "slider" \in All /\ t.pressed \subseteq All
        BY <1>3, NamesApart DEF Pointing, Pressing
      <4>2. \A g \in Grab(t) : g \in All
        BY <4>1 DEF Grab
      <4> QED BY <4>2, NamesApart DEF Core, Placed, Tree
    <3> QED BY <3>1, <3>2, <3>3, <3>4
  <2>16. Took(e).ui = e /\ Took(e).handled = TRUE
    BY DEF Took
  <2>17. r.handled = TRUE
    BY <1>6
  <2>18. Caught(r, p, c).ui = e /\ Caught(r, p, c).handled = TRUE
    BY <2>3, <2>16
  <2>19. /\ Core(Caught(r, p, c).ui) /\ Pointing(Caught(r, p, c).ui)
         /\ Only(s, Caught(r, p, c).ui, PressFields) /\ FocusBut(Caught(r, p, c).ui, {})
    BY <2>8, <2>11, <2>12, <2>18
  <2>20. /\ \A q \in Panels \ {c, p} : Caught(r, p, c).ui.capture[q] = s.capture[q] /\ Caught(r, p, c).ui.focus[q] = s.focus[q]
         /\ \A x \in All : s.parent[x] \notin {c, p} => (x \in Caught(r, p, c).ui.focused <=> x \in s.focused)
    BY <2>13, <2>14, <2>18
  <2>21. \A g \in Grab(Caught(r, p, c).ui) :
           \/ g \in Grab(s)
           \/ /\ Caught(r, p, c).handled /\ Caught(r, p, c).ui.capture[p] = c
              /\ g = c \/ (s.parent[g] = c /\ Caught(r, p, c).ui.capture[c] = g)
    BY <2>10, <2>15, <2>18
  <2> QED BY <2>17, <2>18, <2>19, <2>20, <2>21
<1> QED BY <1>5, <1>6


LEMMA HeardAfter ==
  ASSUME NEW s, NEW v, Core(s), Pointing(s), FocusBut(s, {}), Core(v), Only(s, v, {"dirty", "at", "offset", "open"}),
         NEW t, NEW handled, NEW c, Heard(v, t, handled, c)
  PROVE  Heard(s, t, handled, c)
<1>1. /\ Only(s, v, PressFields) /\ Grab(v) = Grab(s)
      /\ v.parent = s.parent /\ v.capture = s.capture /\ v.focus = s.focus /\ v.focused = s.focused
  BY PointingKept
<1>2. Only(v, t, PressFields)
  BY DEF Heard
<1>3. Only(s, t, PressFields)
  BY <1>1, <1>2 DEF Only
<1> QED BY <1>1, <1>3 DEF Heard

\* A press in a panel whose children are no panels.
LEMMA PanelHeard ==
  ASSUME NEW s, Core(s), Pointing(s), FocusBut(s, {}), NEW p \in {"combo", "taskbar"}, s.parent[p] # None,
         NEW y, NEW button
  PROVE  LET r == PanelDown(s, p, y, button)
         IN  /\ Heard(s, r.ui, r.handled, p) /\ r.handled \in BOOLEAN
             /\ button # "left" => ~r.handled /\ Looked(s, r.ui)
<1>1. /\ p \in Panels /\ p # None /\ p # "popup" /\ p # "root" /\ "root" # None /\ None \notin All /\ Panels \subseteq All
      /\ "slider" \in All /\ Buttons \subseteq All
  BY NamesApart DEF Panels, None
<1>2. \A c \in All : s.parent[c] = p => c \notin Panels
  <2> SUFFICES ASSUME NEW c \in All, s.parent[c] = p, c \in Panels PROVE FALSE
    OBVIOUS
  <2>1. Home(c) = p
    BY <1>1 DEF Core, Placed, Tree
  <2> QED BY <1>1, <2>1, Homes DEF Panels, None
<1>3. s.parent[p] = "root"
  BY <1>1, Homes DEF Core, Placed, Tree
<1>4. PICK child : child = ChildAtPoint(s, p, y)
  OBVIOUS
<1>5. PICK t : t = Probed(s, p, y)
  OBVIOUS
<1>6. Looked(s, t)
  BY <1>1, <1>5, ProbedKeeps
<1>7. Core(t) /\ Only(s, t, {"dirty", "at", "offset", "open"})
  BY <1>6, OnlyMore DEF Looked
<1>8. /\ Pointing(t) /\ FocusBut(t, {}) /\ t.parent = s.parent
  BY <1>7, PointingKept
<1>9. CASE child = None
  <2>1. PanelDown(s, p, y, button) = Left(t)
    BY <1>4, <1>5, <1>9 DEF PanelDown
  <2>2. Left(t).ui = t /\ Left(t).handled = FALSE
    BY DEF Left
  <2>3. Heard(s, t, FALSE, p)
    BY <1>7, Unheard
  <2> QED BY <1>6, <2>1, <2>2, <2>3
<1>10. CASE child # None
  <2>1. child \in All \ Panels /\ s.parent[child] = p /\ child # p
    BY <1>1, <1>2, <1>4, <1>10, TopmostIs
  <2>2. PICK r : r = LeafDown(t, child, y, button)
    OBVIOUS
  <2>3. Heard(t, r.ui, r.handled, child) /\ r.handled \in BOOLEAN /\ (button # "left" => r = Left(t))
    BY <1>1, <1>7, <1>8, <2>1, <2>2, LeafHeard
  <2>4. PICK e : e = Caught(r, p, child)
    OBVIOUS
  <2>5. PanelDown(s, p, y, button) = e
    BY <1>4, <1>5, <1>10, <2>2, <2>4 DEF PanelDown
  <2>6. /\ Core(e.ui) /\ Pointing(e.ui) /\ Only(t, e.ui, PressFields) /\ FocusBut(e.ui, {})
        /\ e.handled = r.handled
        /\ \A q \in Panels \ {child, p} : e.ui.capture[q] = t.capture[q] /\ e.ui.focus[q] = t.focus[q]
        /\ \A x \in All : t.parent[x] \notin {child, p} => (x \in e.ui.focused <=> x \in t.focused)
        /\ \A g \in Grab(e.ui) : \/ g \in Grab(t)
                                 \/ /\ e.handled /\ e.ui.capture[p] = child
                                    /\ g = child \/ (t.parent[g] = child /\ e.ui.capture[child] = g)
    BY <1>1, <1>7, <1>8, <2>1, <2>3, <2>4, CaughtKeeps
  <2>7. PICK u : u = e.ui
    OBVIOUS
  <2>8. \A x \in All : t.parent[x] # child
    BY <1>1, <1>7, <2>1 DEF Core, Placed, Tree
  <2>9. \A q \in Panels \ {p} : u.capture[q] = t.capture[q] /\ u.focus[q] = t.focus[q]
    BY <2>1, <2>6, <2>7
  <2>10. \A x \in All : t.parent[x] # p => (x \in u.focused <=> x \in t.focused)
    BY <2>6, <2>7, <2>8
  <2>11. p \in u.focused <=> p \in t.focused
    BY <1>1, <1>3, <1>8, <2>10
  <2>12. \A g \in Grab(u) : g \in All
    <3>1. Pressing(u)
      BY <2>6, <2>7 DEF Pointing
    <3>2. u.pressed \subseteq All
      BY <1>1, <3>1 DEF Pressing
    <3> QED BY <1>1, <3>2 DEF Grab
  <2>13. \A g \in Grab(u) : g \in Grab(t) \/ (e.handled /\ t.parent[g] = p /\ u.capture[p] = g)
    BY <1>8, <2>1, <2>6, <2>7, <2>8, <2>12
  <2>14. FocusBut(u, {p})
    BY <2>6, <2>7 DEF FocusBut
  <2>15. Heard(t, u, e.handled, p)
    BY <2>6, <2>7, <2>9, <2>10, <2>11, <2>13, <2>14 DEF Heard
  <2>16. Heard(s, u, e.handled, p)
    BY <1>7, <2>15, HeardAfter
  <2>17. button # "left" => ~e.handled /\ Looked(s, u)
    <3> SUFFICES ASSUME button # "left" PROVE ~e.handled /\ Looked(s, u)
      OBVIOUS
    <3>1. r = Left(t)
      BY <2>3
    <3>2. r.ui = t /\ ~r.handled
      BY <3>1 DEF Left
    <3>3. e = r
      BY <2>4, <3>2 DEF Caught
    <3> QED BY <1>6, <2>7, <3>2, <3>3
  <2> QED BY <2>3, <2>5, <2>6, <2>7, <2>16, <2>17
<1> QED BY <1>9, <1>10

LEMMA ComboHeard ==
  ASSUME NEW s, Core(s), Pointing(s), FocusBut(s, {}), s.parent["combo"] # None, NEW y, NEW button
  PROVE  LET r == ComboDown(s, y, button)
         IN  /\ Heard(s, r.ui, r.handled, "combo") /\ r.handled \in BOOLEAN
             /\ button # "left" => ~r.handled /\ Looked(s, r.ui)
<1> DEFINE F == {"dirty", "at", "offset", "open"}
<1>0. IsForm(s)
  BY DEF Core, Placed
<1>1. CASE button # "left"
  <2>1. ComboDown(s, y, button) = Left(s) /\ Left(s).ui = s /\ Left(s).handled = FALSE
    BY <1>1 DEF ComboDown, Left
  <2>2. Only(s, s, F) /\ Looked(s, s)
    BY <1>0, OnlySelf DEF Looked
  <2>3. Heard(s, s, FALSE, "combo")
    BY <2>2, Unheard
  <2> QED BY <2>1, <2>2, <2>3
<1>2. CASE button = "left" /\ Inside(s, "drop", y)
  <2>1. PICK t : t = Touch(s, {"drop"})
    OBVIOUS
  <2>2. PICK u : u = ToggleDropDown(t)
    OBVIOUS
  <2>3. ComboDown(s, y, button) = Took(u) /\ Took(u).ui = u /\ Took(u).handled = TRUE
    BY <1>2, <2>1, <2>2 DEF ComboDown, Took
  <2>4. Looked(s, t)
    BY <2>1, TouchKeeps
  <2>5. Core(u) /\ Only(t, u, F)
    <3>1. u = IF t.open THEN CloseDropDown(t) ELSE DropDown(t)
      BY <2>2 DEF ToggleDropDown
    <3>2. CASE t.open
      <4>1. Core(u) /\ Only(t, u, {"dirty", "at", "open"})
        BY <2>4, <3>1, <3>2, CloseKeeps DEF Looked
      <4> QED BY <4>1, OnlyMore
    <3>3. CASE ~t.open
      BY <2>4, <3>1, <3>3, DropDownKeeps DEF Looked
    <3> QED BY <3>2, <3>3
  <2>6. Only(s, u, F)
    BY <2>4, <2>5 DEF Looked, Only
  <2>7. Heard(s, u, TRUE, "combo")
    BY <2>5, <2>6, Unheard
  <2> QED BY <1>2, <2>3, <2>7
<1>3. CASE button = "left" /\ ~Inside(s, "drop", y)
  <2>1. PICK cs : cs = {"drop"} \cup IF s.open THEN {"options"} ELSE {}
    OBVIOUS
  <2>2. PICK t : t = Touch(s, cs)
    OBVIOUS
  <2>3. PICK u : u = CloseDropDown(t)
    OBVIOUS
  <2>4. ComboDown(s, y, button) = PanelDown(u, "combo", y, button)
    BY <1>3, <2>1, <2>2, <2>3 DEF ComboDown
  <2>5. "options" \in cs => "popup" \notin s.dirty
    BY <2>1 DEF Core, Marks
  <2>6. Looked(s, t)
    BY <2>2, <2>5, TouchKeeps
  <2>7. Core(u) /\ Only(t, u, {"dirty", "at", "open"})
    BY <2>3, <2>6, CloseKeeps DEF Looked
  <2>8. Only(s, u, F)
    BY <2>6, <2>7 DEF Looked, Only
  <2>9. Pointing(u) /\ FocusBut(u, {}) /\ u.parent = s.parent
    BY <2>7, <2>8, PointingKept
  <2>10. PICK r : r = PanelDown(u, "combo", y, button)
    OBVIOUS
  <2>11. Heard(u, r.ui, r.handled, "combo") /\ r.handled \in BOOLEAN
    BY <2>7, <2>9, <2>10, PanelHeard
  <2>12. Heard(s, r.ui, r.handled, "combo")
    BY <2>7, <2>8, <2>11, HeardAfter
  <2> QED BY <1>3, <2>4, <2>10, <2>11, <2>12
<1> QED BY <1>1, <1>2, <1>3

LEMMA ChildHeard ==
  ASSUME NEW s, Core(s), Pointing(s), FocusBut(s, {}), NEW c \in All, s.parent[c] = "root", NEW y, NEW button
  PROVE  LET r == ChildDown(s, c, y, button)
         IN  /\ Heard(s, r.ui, r.handled, c) /\ r.handled \in BOOLEAN
             /\ button # "left" => ~r.handled /\ Looked(s, r.ui)
<1>1. "root" \in Panels /\ "root" # None /\ "root" # "popup" /\ "combo" \in Panels
  BY NamesApart DEF Panels
<1>2. CASE c \in Panels
  <2>1. Home(c) = "root"
    BY <1>1 DEF Core, Placed, Tree
  <2>2. c \in {"combo", "taskbar"} /\ s.parent[c] # None
    BY <1>1, <1>2, <2>1, Homes DEF Panels
  <2>3. CASE c = "combo"
    BY <2>2, <2>3, ComboHeard DEF ChildDown
  <2>4. CASE c # "combo"
    <3>1. ChildDown(s, c, y, button) = PanelDown(s, c, y, button)
      BY <1>2, <2>4 DEF ChildDown
    <3> QED BY <2>2, <3>1, PanelHeard
  <2> QED BY <2>3, <2>4
<1>3. CASE c \notin Panels
  <2>1. ChildDown(s, c, y, button) = LeafDown(s, c, y, button)
    BY <1>1, <1>3 DEF ChildDown
  <2>2. PICK r : r = LeafDown(s, c, y, button)
    OBVIOUS
  <2>3. Heard(s, r.ui, r.handled, c) /\ r.handled \in BOOLEAN /\ (button # "left" => r = Left(s))
    BY <1>1, <1>3, <2>2, LeafHeard
  <2>4. Left(s).ui = s /\ Left(s).handled = FALSE
    BY DEF Left
  <2>5. Looked(s, s)
    BY OnlySelf DEF Looked, Core, Placed
  <2> QED BY <2>1, <2>2, <2>3, <2>4, <2>5
<1> QED BY <1>2, <1>3

\* The release will reach it.
Reached(s, g) ==
    /\ s.parent[g] \in Panels
    /\ s.capture[s.parent[g]] = g /\ (s.parent[g] = "root" \/ s.capture["root"] = s.parent[g])

LEMMA MouseDownKeeps ==
  ASSUME NEW s, Core(s), Pointing(s), FocusBut(s, {}), NEW y, NEW button
  PROVE  LET e == MouseDown(s, y, button).ui
         IN  /\ Core(e) /\ Pointing(e) /\ FocusBut(e, {}) /\ Only(s, e, PressFields)
             /\ \A g \in Grab(e) : g \in Grab(s) \/ Reached(e, g)
             /\ button # "left" => Looked(s, e)
<1>1. /\ "root" \in Panels /\ "root" # None /\ "root" # "popup" /\ None \notin All /\ Panels \subseteq All
      /\ "slider" \in All /\ Buttons \subseteq All
  BY NamesApart DEF Panels
<1>4. PICK child : child = ChildAtPoint(s, "root", y)
  OBVIOUS
<1>5. PICK t : t = Probed(s, "root", y)
  OBVIOUS
<1>6. Looked(s, t)
  BY <1>1, <1>5, ProbedKeeps
<1>7. Core(t) /\ Only(s, t, {"dirty", "at", "offset", "open"})
  BY <1>6, OnlyMore DEF Looked
<1>8. /\ Pointing(t) /\ FocusBut(t, {}) /\ t.parent = s.parent /\ Grab(t) = Grab(s) /\ Only(s, t, PressFields)
  BY <1>7, PointingKept
<1>9. CASE child = None
  <2>1. MouseDown(s, y, button) = Left(t) /\ Left(t).ui = t
    BY <1>4, <1>5, <1>9 DEF MouseDown, Left
  <2> QED BY <1>6, <1>7, <1>8, <2>1
<1>10. CASE child # None
  <2>1. child \in All /\ s.parent[child] = "root"
    BY <1>1, <1>4, <1>10, TopmostIs
  <2>2. child # "root"
    <3>1. Home(child) = "root"
      BY <1>1, <2>1 DEF Core, Placed, Tree
    <3> QED BY <1>1, <3>1, Homes
  <2>3. PICK r : r = ChildDown(t, child, y, button)
    OBVIOUS
  <2>4. /\ Heard(t, r.ui, r.handled, child) /\ r.handled \in BOOLEAN
        /\ button # "left" => ~r.handled /\ Looked(t, r.ui)
    BY <1>7, <1>8, <2>1, <2>3, ChildHeard
  <2>5. PICK d : d = Caught(r, "root", child)
    OBVIOUS
  <2>6. MouseDown(s, y, button) = d
    BY <1>4, <1>5, <1>10, <2>3, <2>5 DEF MouseDown
  <2>7. /\ Core(d.ui) /\ Pointing(d.ui) /\ Only(t, d.ui, PressFields) /\ FocusBut(d.ui, {})
        /\ d.handled = r.handled
        /\ \A g \in Grab(d.ui) : \/ g \in Grab(t)
                                 \/ /\ d.handled /\ d.ui.capture["root"] = child
                                    /\ g = child \/ (t.parent[g] = child /\ d.ui.capture[child] = g)
    BY <1>1, <1>7, <1>8, <2>1, <2>2, <2>4, <2>5, CaughtKeeps
  <2>8. PICK e : e = d.ui
    OBVIOUS
  <2>9. Only(s, e, PressFields) /\ e.parent = s.parent
    BY <1>8, <2>7, <2>8 DEF Only, Fields, PressFields
  <2>10. \A g \in Grab(e) : g \in All
    <3>1. Pressing(e)
      BY <2>7, <2>8 DEF Pointing
    <3>2. e.pressed \subseteq All
      BY <1>1, <3>1 DEF Pressing
    <3> QED BY <1>1, <3>2 DEF Grab
  <2>11. \A g \in Grab(e) : g \in Grab(s) \/ Reached(e, g)
    <3> SUFFICES ASSUME NEW g \in Grab(e), g \notin Grab(s) PROVE Reached(e, g)
      OBVIOUS
    <3>1. e.capture["root"] = child /\ (g = child \/ (s.parent[g] = child /\ e.capture[child] = g))
      BY <1>8, <2>7, <2>8
    <3>2. CASE g = child
      BY <1>1, <2>1, <2>9, <3>1, <3>2 DEF Reached
    <3>3. CASE g # child
      <4>1. g \in All
        BY <2>10
      <4>2. s.parent[g] = child
        BY <3>1, <3>3
      <4>3. child \in Panels
        BY <1>1, <2>1, <4>1, <4>2 DEF Core, Placed, Tree
      <4> QED BY <2>9, <3>1, <3>3, <4>3 DEF Reached
    <3> QED BY <3>2, <3>3
  <2>12. button # "left" => Looked(s, e)
    <3> SUFFICES ASSUME button # "left" PROVE Looked(s, e)
      OBVIOUS
    <3>1. d = r
      BY <2>4, <2>5 DEF Caught
    <3>2. Looked(t, e)
      BY <2>4, <2>8, <3>1
    <3> QED BY <1>6, <3>2, LookedThen
  <2> QED BY <2>6, <2>7, <2>8, <2>9, <2>11, <2>12
<1> QED BY <1>9, <1>10


\* What is left of a release that control c was told of.
UpFields == {"pressed", "slider", "capture", "dirty", "at"}
Released(s, t, c, button) ==
    /\ Core(t) /\ Capturing(t) /\ Pressing(t) /\ SliderShape(t) /\ Only(s, t, UpFields)
    /\ Grab(t) \subseteq Grab(s)
    /\ \A q \in Panels : t.capture[q] \in {s.capture[q], None}
    /\ \A q \in Panels \ {c} : t.capture[q] = s.capture[q]
    /\ button = "left" =>
           c \notin Grab(t) /\ (c \in Panels => s.capture[c] \notin Grab(t))

\* The part of the pointers that a release is about.
Catching(s) == Core(s) /\ Capturing(s) /\ Pressing(s) /\ SliderShape(s)

LEMMA LookedCatching ==
  ASSUME NEW s, NEW t, Catching(s), Looked(s, t)
  PROVE  /\ Catching(t) /\ Only(s, t, UpFields) /\ Grab(t) = Grab(s) /\ t.capture = s.capture /\ t.pressed = s.pressed
<1>1. t.capture = s.capture /\ t.parent = s.parent /\ t.pressed = s.pressed /\ t.slider = s.slider
  BY DEF Looked, Only, Fields
<1>2. Capturing(t) /\ Pressing(t)
  BY <1>1 DEF Catching, Capturing, Pressing
<1>3. SliderShape(t)
  BY <1>1 DEF Catching, SliderShape
<1>4. Only(s, t, UpFields)
  BY OnlyMore DEF Looked, UpFields
<1>5. Grab(t) = Grab(s)
  BY <1>1 DEF Grab, SliderHeld
<1> QED BY <1>1, <1>2, <1>3, <1>4, <1>5 DEF Catching, Looked

LEMMA GrabsNoPanel ==
  ASSUME NEW s, Pressing(s)
  PROVE  \A g \in Grab(s) : g \in All /\ g \notin Panels
<1>1. "slider" \in All \ Panels /\ Buttons \subseteq All /\ Buttons \cap Panels = {}
  BY NamesApart DEF Panels
<1> QED BY <1>1 DEF Pressing, Grab

LEMMA LeafUpKeeps ==
  ASSUME NEW s, Catching(s), NEW c, c \notin Panels, NEW button
  PROVE  Released(s, LeafUp(s, c, button), c, button) /\ LeafUp(s, c, button).capture = s.capture
<1>0. /\ Core(s) /\ IsForm(s) /\ "slider" \notin Buttons /\ "options" \notin Buttons
      /\ {"pressed"} \cap CoreFields = {}
  BY NamesApart DEF Catching, Core, Placed, Buttons, CoreFields
<1>1. Capturing(s) /\ Pressing(s) /\ SliderShape(s)
  BY DEF Catching
<1>2. CASE c = "slider"
  <2>1. PICK t : t = SliderUp(s)
    OBVIOUS
  <2>2. LeafUp(s, c, button) = t
    BY <1>0, <1>2, <2>1 DEF LeafUp
  <2>3. Core(t) /\ Only(s, t, {"slider", "dirty", "at"}) /\ SliderShape(t) /\ ~SliderHeld(t)
    BY <1>0, <1>1, <2>1, SliderUpKeeps
  <2>4. t.capture = s.capture /\ t.pressed = s.pressed /\ t.parent = s.parent /\ Only(s, t, UpFields)
    BY <2>3, OnlyMore DEF Only, Fields, UpFields
  <2>5. Capturing(t) /\ Pressing(t)
    BY <1>1, <2>4 DEF Capturing, Pressing
  <2>6. Grab(t) \subseteq Grab(s) /\ c \notin Grab(t)
    <3>1. Grab(t) = s.pressed
      BY <2>3, <2>4 DEF Grab
    <3> QED BY <1>0, <1>1, <1>2, <3>1 DEF Grab, Pressing
  <2> QED BY <1>2, <2>2, <2>3, <2>4, <2>5, <2>6 DEF Released
<1>3. CASE c # "slider" /\ c \in Buttons /\ button = "left" /\ c \in s.pressed
  <2> DEFINE o == [s EXCEPT !.pressed = @ \ {c}]
  <2>1. LeafUp(s, c, button) = Invalidate(o, c)
    BY <1>3 DEF LeafUp
  <2>2. Only(s, o, {"pressed"}) /\ o.pressed = s.pressed \ {c}
    BY <1>0 DEF IsForm, Only, Fields
  <2> HIDE DEF o
  <2>3. PICK t : t = Invalidate(o, c)
    OBVIOUS
  <2>4. c # "options"
    BY <1>0, <1>3
  <2>5. Core(t) /\ Only(s, t, {"pressed"} \cup {"dirty", "at"}) /\ Only(o, t, {"dirty", "at"})
    BY <1>0, <2>2, <2>3, <2>4, ThenInvalidate
  <2>6. /\ t.pressed = s.pressed \ {c} /\ t.capture = s.capture /\ t.parent = s.parent /\ t.slider = s.slider
        /\ Only(s, t, UpFields)
    BY <2>2, <2>5, OnlyMore DEF Only, Fields, UpFields
  <2>7. Capturing(t) /\ Pressing(t)
    BY <1>1, <2>6 DEF Capturing, Pressing
  <2>8. SliderShape(t)
    BY <1>1, <2>6 DEF SliderShape
  <2>9. Grab(t) \subseteq Grab(s) /\ c \notin Grab(t)
    BY <1>3, <2>6 DEF Grab, SliderHeld
  <2> QED BY <2>1, <2>3, <2>5, <2>6, <2>7, <2>8, <2>9 DEF Released
<1>4. CASE c # "slider" /\ ~(c \in Buttons /\ button = "left" /\ c \in s.pressed)
  <2>1. PICK cs : cs = IF c \in Buttons /\ button = "left" THEN {c} ELSE {}
    OBVIOUS
  <2>2. LeafUp(s, c, button) = Touch(s, cs)
    BY <1>4, <2>1 DEF LeafUp
  <2>3. PICK t : t = Touch(s, cs)
    OBVIOUS
  <2>4. Looked(s, t)
    BY <1>0, <2>1, <2>3, TouchKeeps
  <2>5. Catching(t) /\ Only(s, t, UpFields) /\ Grab(t) = Grab(s) /\ t.capture = s.capture
    BY <2>4, LookedCatching
  <2>6. button = "left" => c \notin Grab(s)
    BY <1>1, <1>4 DEF Grab, Pressing
  <2> QED BY <2>2, <2>3, <2>5, <2>6 DEF Released, Catching
<1> QED BY <1>2, <1>3, <1>4

\* One is told, the other is told, and the panel forgets whom it captured.
Lifts(s, p, button, child, cc, t, u, v, e) ==
    /\ p \in Panels /\ Catching(s) /\ Looked(s, t)
    /\ child # p /\ cc # p /\ s.capture[p] \in {child, cc}
    /\ Released(t, u, child, button) /\ Released(u, v, cc, button) /\ e = Freed(v, p)
    /\ cc # child \/ cc = None

LEMMA Lifting ==
  ASSUME NEW s, NEW p, NEW button, NEW child, NEW cc, NEW t, NEW u, NEW v, NEW e,
         Lifts(s, p, button, child, cc, t, u, v, e)
  PROVE  /\ Catching(e) /\ Only(s, e, UpFields) /\ Grab(e) \subseteq Grab(s)
         /\ e.capture[p] = None
         /\ \A q \in Panels : e.capture[q] \in {s.capture[q], None}
         /\ \A q \in Panels \ {p, child, cc} : e.capture[q] = s.capture[q]
         /\ button = "left" =>
                /\ s.capture[p] \notin Grab(e)
                /\ s.capture[p] \in Panels => s.capture[s.capture[p]] \notin Grab(e)
<1> USE DEF Lifts
<1>1. Catching(t) /\ Only(s, t, UpFields) /\ Grab(t) = Grab(s) /\ t.capture = s.capture
  BY LookedCatching
<1>2. /\ Core(v) /\ Capturing(v) /\ Pressing(v) /\ SliderShape(v) /\ Only(u, v, UpFields) /\ Only(t, u, UpFields)
      /\ Grab(v) \subseteq Grab(u) /\ Grab(u) \subseteq Grab(s) /\ IsForm(v)
  BY <1>1 DEF Released, Core, Placed
<1>3. Only(v, e, {"capture"}) /\ e.capture = [v.capture EXCEPT ![p] = None]
  BY <1>2 DEF Freed, IsForm, Only, Fields
<1>4. Only(s, e, UpFields)
  BY <1>1, <1>2, <1>3 DEF Only, UpFields
<1>5. e.pressed = v.pressed /\ e.slider = v.slider /\ e.parent = v.parent
  BY <1>3 DEF Only, Fields
<1>6. Core(e)
  <2>1. {"capture"} \cap CoreFields = {}
    BY DEF CoreFields
  <2> QED BY <1>2, <1>3, <2>1, CoreKept
<1>7. e.capture \in [Panels -> All \cup {None}] /\ e.capture[p] = None /\ \A q \in Panels \ {p} : e.capture[q] = v.capture[q]
  BY <1>2, <1>3 DEF Capturing
<1>8. Capturing(e)
  BY <1>2, <1>5, <1>7 DEF Capturing
<1>9. Pressing(e) /\ Grab(e) = Grab(v)
  BY <1>2, <1>5 DEF Pressing, Grab, SliderHeld
<1>10. SliderShape(e)
  BY <1>2, <1>5 DEF SliderShape
<1>11. \A q \in Panels : v.capture[q] \in {u.capture[q], None} /\ u.capture[q] \in {s.capture[q], None}
  BY <1>1 DEF Released
<1>12. \A q \in Panels : e.capture[q] \in {s.capture[q], None}
  BY <1>7, <1>11
<1>13. \A q \in Panels \ {p, child, cc} : e.capture[q] = s.capture[q]
  BY <1>1, <1>7 DEF Released
<1>14. ASSUME button = "left"
       PROVE  /\ s.capture[p] \notin Grab(e)
              /\ s.capture[p] \in Panels => s.capture[s.capture[p]] \notin Grab(e)
  <2>1. /\ child \notin Grab(u) /\ (child \in Panels => s.capture[child] \notin Grab(u))
        /\ cc \notin Grab(v) /\ (cc \in Panels => u.capture[cc] \notin Grab(v))
    BY <1>1, <1>14 DEF Released
  <2>2. CASE s.capture[p] = child
    BY <1>2, <1>9, <2>1, <2>2
  <2>3. CASE s.capture[p] = cc /\ cc # child
    <3>1. cc \in Panels => u.capture[cc] = s.capture[cc]
      BY <1>1, <2>3 DEF Released
    <3> QED BY <1>9, <2>1, <2>3, <3>1
  <2> QED BY <2>2, <2>3
<1> QED BY <1>2, <1>4, <1>6, <1>7, <1>8, <1>9, <1>10, <1>12, <1>13, <1>14 DEF Catching

LEMMA PanelUpKeeps ==
  ASSUME NEW s, Catching(s), NEW p \in {"combo", "taskbar"}, NEW y, NEW button
  PROVE  Released(s, PanelUp(s, p, y, button), p, button)
<1>1. /\ p \in Panels /\ p # None /\ p # "popup" /\ p # "root" /\ "root" # None /\ None \notin All /\ None \notin Panels
      /\ Core(s)
  BY NamesApart DEF Panels, None, Catching
<1>2. \A c \in All : s.parent[c] = p => c \notin Panels
  <2> SUFFICES ASSUME NEW c \in All, s.parent[c] = p, c \in Panels PROVE FALSE
    OBVIOUS
  <2>1. Home(c) = p
    BY <1>1 DEF Core, Placed, Tree
  <2> QED BY <1>1, <2>1, Homes DEF Panels, None
<1>3. PICK child : child = ChildAtPoint(s, p, y)
  OBVIOUS
<1>4. PICK cc : cc = Captor(s, p, child)
  OBVIOUS
<1>5. PICK t : t = Probed(s, p, y)
  OBVIOUS
<1>6. PICK u : u = LeafUp(t, child, button)
  OBVIOUS
<1>7. PICK v : v = LeafUp(u, cc, button)
  OBVIOUS
<1>8. PICK e : e = Freed(v, p)
  OBVIOUS
<1>9. PanelUp(s, p, y, button) = e
  BY <1>3, <1>4, <1>5, <1>6, <1>7, <1>8 DEF PanelUp
<1>10. child \notin Panels
  BY <1>1, <1>2, <1>3, TopmostIs
<1>11. cc \notin Panels /\ (cc # child \/ cc = None) /\ s.capture[p] \in {child, cc}
  <2>1. s.capture[p] = None \/ (s.capture[p] \in All /\ s.parent[s.capture[p]] = p)
    BY <1>1 DEF Catching, Capturing
  <2> QED BY <1>1, <1>2, <1>4, <2>1, CaptorIs
<1>12. Looked(s, t)
  BY <1>1, <1>5, ProbedKeeps
<1>13. Catching(t) /\ t.capture = s.capture
  BY <1>12, LookedCatching
<1>14. Released(t, u, child, button)
  BY <1>6, <1>10, <1>13, LeafUpKeeps
<1>15. Catching(u)
  BY <1>14 DEF Released, Catching
<1>16. Released(u, v, cc, button)
  BY <1>7, <1>11, <1>15, LeafUpKeeps
<1>17. Lifts(s, p, button, child, cc, t, u, v, e)
  BY <1>1, <1>8, <1>10, <1>11, <1>12, <1>14, <1>16 DEF Lifts
<1>18. /\ Catching(e) /\ Only(s, e, UpFields) /\ Grab(e) \subseteq Grab(s)
       /\ \A q \in Panels : e.capture[q] \in {s.capture[q], None}
       /\ \A q \in Panels \ {p, child, cc} : e.capture[q] = s.capture[q]
       /\ button = "left" => s.capture[p] \notin Grab(e)
  BY <1>17, Lifting
<1>19. \A q \in Panels \ {p} : e.capture[q] = s.capture[q]
  BY <1>10, <1>11, <1>18
<1>20. p \notin Grab(e)
  BY <1>1, <1>18, GrabsNoPanel DEF Catching
<1> QED BY <1>9, <1>18, <1>19, <1>20 DEF Released, Catching

LEMMA ChildUpKeeps ==
  ASSUME NEW s, Catching(s), NEW c, c = None \/ (c \in All /\ s.parent[c] = "root"), NEW y, NEW button
  PROVE  Released(s, ChildUp(s, c, y, button), c, button)
<1>1. "root" \in Panels /\ "root" # None /\ None \notin Panels
  BY NamesApart DEF Panels
<1>2. CASE c \in Panels
  <2>1. Home(c) = "root"
    BY <1>1, <1>2 DEF Catching, Core, Placed, Tree
  <2>2. c \in {"combo", "taskbar"}
    BY <1>1, <1>2, <2>1, Homes DEF Panels
  <2> QED BY <1>2, <2>2, PanelUpKeeps DEF ChildUp
<1>3. CASE c \notin Panels
  BY <1>3, LeafUpKeeps DEF ChildUp
<1> QED BY <1>2, <1>3

\* A button is released: nothing more is held, and of the left one, nothing is
\* that the release reaches.
LEMMA MouseUpKeeps ==
  ASSUME NEW s, Catching(s), NEW y, NEW button
  PROVE  LET e == MouseUp(s, y, button)
         IN  /\ Catching(e) /\ Only(s, e, UpFields) /\ Grab(e) \subseteq Grab(s)
             /\ button = "left" => \A g \in Grab(e) : ~Reached(s, g)
<1>1. "root" \in Panels /\ "root" # None /\ None \notin Panels /\ None \notin All /\ "root" # "popup" /\ "root" \in All /\ Core(s)
  BY NamesApart DEF Panels, Catching
<1>3. PICK child : child = ChildAtPoint(s, "root", y)
  OBVIOUS
<1>4. PICK cc : cc = Captor(s, "root", child)
  OBVIOUS
<1>5. PICK t : t = Probed(s, "root", y)
  OBVIOUS
<1>6. PICK u : u = ChildUp(t, child, y, button)
  OBVIOUS
<1>7. PICK v : v = ChildUp(u, cc, y, button)
  OBVIOUS
<1>8. PICK e : e = Freed(v, "root")
  OBVIOUS
<1>9. MouseUp(s, y, button) = e
  BY <1>3, <1>4, <1>5, <1>6, <1>7, <1>8 DEF MouseUp
<1>10. child = None \/ (child \in All /\ s.parent[child] = "root")
  BY <1>1, <1>3, TopmostIs
<1>11. /\ cc = None \/ (cc \in All /\ s.parent[cc] = "root")
       /\ (cc # child \/ cc = None) /\ s.capture["root"] \in {child, cc}
  <2>1. s.capture["root"] = None \/ (s.capture["root"] \in All /\ s.parent[s.capture["root"]] = "root")
    BY <1>1 DEF Catching, Capturing
  <2> QED BY <1>1, <1>4, <2>1, CaptorIs
<1>12. Looked(s, t)
  BY <1>1, <1>5, ProbedKeeps
<1>13. Catching(t) /\ t.capture = s.capture /\ t.parent = s.parent
  BY <1>12, LookedCatching DEF Looked, Only, Fields
<1>14. Released(t, u, child, button)
  BY <1>6, <1>10, <1>13, ChildUpKeeps
<1>15. Catching(u) /\ u.parent = s.parent
  BY <1>13, <1>14 DEF Released, Catching, Only, Fields, UpFields
<1>16. Released(u, v, cc, button)
  BY <1>7, <1>11, <1>15, ChildUpKeeps
<1>17. child # "root" /\ cc # "root"
  <2>1. s.parent["root"] \in {Home("root"), None}
    BY <1>1 DEF Core, Placed, Tree
  <2> QED BY <1>1, <1>10, <1>11, <2>1, Homes
<1>18. Lifts(s, "root", button, child, cc, t, u, v, e)
  BY <1>1, <1>8, <1>11, <1>12, <1>14, <1>16, <1>17 DEF Lifts
<1>19. /\ Catching(e) /\ Only(s, e, UpFields) /\ Grab(e) \subseteq Grab(s)
       /\ button = "left" =>
                /\ s.capture["root"] \notin Grab(e)
                /\ s.capture["root"] \in Panels => s.capture[s.capture["root"]] \notin Grab(e)
  BY <1>18, Lifting
<1>20. button = "left" => \A g \in Grab(e) : ~Reached(s, g)
  BY <1>19 DEF Reached
<1> QED BY <1>9, <1>19, <1>20


-----------------------------------------------------------------------------
\* Keys and items.
Boxed(s) == s.box = [b \in Boxes |-> s.box[b]]

LEMMA BoxChanges ==
  ASSUME NEW s, Core(s), Boxed(s), NEW b \in Boxes, NEW to
  PROVE  LET t == Invalidate([s EXCEPT !.box[b] = to], b)
         IN  /\ Core(t) /\ Only(s, t, {"box", "dirty", "at"}) /\ Boxed(t)
             /\ t.box[b] = to /\ \A d \in Boxes \ {b} : t.box[d] = s.box[d]
<1>0. IsForm(s) /\ b # "options" /\ {"box"} \cap CoreFields = {}
  BY DEF Core, Placed, Boxes, CoreFields
<1> DEFINE o == [s EXCEPT !.box[b] = to]
<1>1. Only(s, o, {"box"}) /\ o.box = [s.box EXCEPT ![b] = to]
  BY <1>0 DEF IsForm, Only, Fields
<1> HIDE DEF o
<1>2. PICK t : t = Invalidate(o, b)
  OBVIOUS
<1>3. Core(t) /\ Only(s, t, {"box"} \cup {"dirty", "at"}) /\ Only(o, t, {"dirty", "at"})
  BY <1>0, <1>1, <1>2, ThenInvalidate
<1>4. t.box = [s.box EXCEPT ![b] = to] /\ Only(s, t, {"box", "dirty", "at"})
  BY <1>1, <1>3, OnlyMore DEF Only, Fields
<1>5. /\ t.box = [d \in Boxes |-> IF d = b THEN to ELSE s.box[d]]
  BY <1>4 DEF Boxed
<1>6. Boxed(t) /\ t.box[b] = to /\ \A d \in Boxes \ {b} : t.box[d] = s.box[d]
  BY <1>5 DEF Boxed
<1> QED BY <1>2, <1>3, <1>4, <1>6 DEF o

LEMMA SetTextKeeps ==
  ASSUME NEW s, Core(s), Boxed(s), NEW b \in Boxes, NEW text, NEW ok \in BOOLEAN
  PROVE  LET t == SetText(s, b, text, ok)
         IN  /\ Core(t) /\ Only(s, t, {"box", "dirty", "at"}) /\ Boxed(t)
             /\ ok => t.box[b] = WithText(s.box[b], text)
             /\ \A d \in Boxes \ {b} : t.box[d] = s.box[d]
<1>1. CASE TooSmall(s.box[b], text) /\ ~ok
  <2>1. SetText(s, b, text, ok) = s
    BY <1>1 DEF SetText
  <2> QED BY <1>1, <2>1, OnlySelf DEF Core, Placed
<1>2. CASE ~(TooSmall(s.box[b], text) /\ ~ok)
  <2>1. PICK to : to = WithText(s.box[b], text)
    OBVIOUS
  <2>2. [s EXCEPT !.box[b] = WithText(@, text)] = [s EXCEPT !.box[b] = to]
    BY <2>1
  <2>3. SetText(s, b, text, ok) = Invalidate([s EXCEPT !.box[b] = to], b)
    BY <1>2, <2>2 DEF SetText
  <2> QED BY <2>1, <2>3, BoxChanges
<1> QED BY <1>1, <1>2

LEMMA KeyKeeps ==
  ASSUME NEW s, Core(s), Boxed(s), NEW b \in Boxes, NEW ch \in Chars \cup {"back", "enter"}, NEW ok \in BOOLEAN
  PROVE  LET t == KeyInBox(s, b, ch, ok)
         IN  /\ Core(t) /\ Only(s, t, {"box", "dirty", "at"}) /\ Boxed(t)
             /\ b # "field" => t.box["field"] = s.box["field"]
             /\ b = "field" =>
                    /\ ch \in Chars => t.box["field"] = InsertChar(s.box["field"], ch, ok)
                    /\ ch = "back" => t.box["field"] = DeleteChar(s.box["field"])
                    /\ ch = "enter" /\ ok => t.box["field"] = WithText(s.box["field"], <<>>)
<1>0. "field" \in Boxes /\ "back" \notin Chars /\ "enter" \notin Chars /\ IsForm(s)
      /\ Boxes = {"field", "text"}
  BY CharsApart DEF Boxes, Core, Placed
<1>1. CASE b = "text"
  <2>1. KeyInBox(s, b, ch, ok) = s
    BY <1>0, <1>1 DEF KeyInBox
  <2> QED BY <1>0, <1>1, <2>1, OnlySelf
<1>2. CASE b = "field" /\ ch \in Chars
  <2>1. PICK to : to = InsertChar(s.box[b], ch, ok)
    OBVIOUS
  <2>2. [s EXCEPT !.box[b] = InsertChar(@, ch, ok)] = [s EXCEPT !.box[b] = to]
    BY <2>1
  <2>3. KeyInBox(s, b, ch, ok) = Invalidate([s EXCEPT !.box[b] = to], b)
    BY <1>0, <1>2, <2>2 DEF KeyInBox
  <2>4. PICK t : t = KeyInBox(s, b, ch, ok)
    OBVIOUS
  <2>5. Core(t) /\ Only(s, t, {"box", "dirty", "at"}) /\ Boxed(t) /\ t.box[b] = to
    BY <2>3, <2>4, BoxChanges
  <2>6. ch # "back" /\ ch # "enter"
    BY <1>0, <1>2
  <2> QED BY <1>2, <2>1, <2>4, <2>5, <2>6
<1>3. CASE b = "field" /\ ch = "back"
  <2>1. PICK to : to = DeleteChar(s.box[b])
    OBVIOUS
  <2>2. [s EXCEPT !.box[b] = DeleteChar(@)] = [s EXCEPT !.box[b] = to]
    BY <2>1
  <2>3. KeyInBox(s, b, ch, ok) = Invalidate([s EXCEPT !.box[b] = to], b)
    BY <1>0, <1>3, <2>2 DEF KeyInBox
  <2> QED BY <1>0, <1>3, <2>1, <2>3, BoxChanges
<1>4. CASE b = "field" /\ ch = "enter"
  <2>1. KeyInBox(s, b, ch, ok) = SetText(s, b, <<>>, ok)
    BY <1>0, <1>4 DEF KeyInBox
  <2> QED BY <1>0, <1>4, <2>1, SetTextKeeps
<1> QED BY <1>0, <1>1, <1>2, <1>3, <1>4

\* The combo box leaves the field, the pointers and the places alone.
ItemFields == {"box", "items", "selected", "list", "marked", "dirty", "at"}
Itemised(s, t) == Core(t) /\ Only(s, t, ItemFields) /\ Boxed(t) /\ t.box["field"] = s.box["field"]

LEMMA ItemStep ==
  ASSUME NEW s, Core(s), Boxed(s), NEW t, NEW F, F \subseteq {"items", "selected", "list", "marked"}, Only(s, t, F)
  PROVE  Itemised(s, t)
<1>1. F \cap CoreFields = {} /\ F \subseteq ItemFields
  BY DEF CoreFields, ItemFields
<1>2. Core(t)
  BY <1>1, CoreKept
<1>3. Only(s, t, ItemFields)
  BY <1>1, OnlyMore
<1>4. t.box = s.box
  BY DEF Only, Fields
<1> QED BY <1>2, <1>3, <1>4 DEF Itemised, Boxed

LEMMA ItemThen ==
  ASSUME NEW s, NEW t, NEW u, Itemised(s, t), Itemised(t, u)
  PROVE  Itemised(s, u)
<1>1. Only(s, u, ItemFields)
  BY DEF Itemised, Only
<1> QED BY <1>1 DEF Itemised

LEMMA ItemText ==
  ASSUME NEW s, Core(s), Boxed(s), NEW text, NEW ok \in BOOLEAN
  PROVE  Itemised(s, SetText(s, "text", text, ok))
<1>1. "text" \in Boxes /\ "field" \in Boxes \ {"text"}
  BY DEF Boxes
<1>2. PICK t : t = SetText(s, "text", text, ok)
  OBVIOUS
<1>3. /\ Core(t) /\ Only(s, t, {"box", "dirty", "at"}) /\ Boxed(t) /\ t.box["field"] = s.box["field"]
  BY <1>1, <1>2, SetTextKeeps
<1>4. Only(s, t, ItemFields)
  BY <1>3, OnlyMore DEF ItemFields
<1> QED BY <1>2, <1>3, <1>4 DEF Itemised

LEMMA ItemsKeep ==
  ASSUME NEW s, Core(s), Boxed(s), NEW i, NEW text, NEW ok \in BOOLEAN
  PROVE  /\ Itemised(s, AddItem(s, text)) /\ Itemised(s, RemoveItem(s, i))
         /\ Itemised(s, ClearItems(s, ok)) /\ Itemised(s, SetSelectedIndex(s, i, ok))
<1>0. IsForm(s)
  BY DEF Core, Placed
<1>1. Itemised(s, AddItem(s, text))
  <2>1. Only(s, AddItem(s, text), {"items", "list"})
    BY <1>0 DEF AddItem, IsForm, Only, Fields
  <2> QED BY <2>1, ItemStep
<1>2. Itemised(s, RemoveItem(s, i))
  <2>1. Only(s, RemoveItem(s, i), {"items", "list", "marked", "selected"})
    BY <1>0 DEF RemoveItem, IsForm, Only, Fields
  <2> QED BY <2>1, ItemStep
<1>3. Itemised(s, ClearItems(s, ok))
  <2>1. PICK o : o = [s EXCEPT !.items = <<>>, !.selected = 0, !.list = <<>>, !.marked = {}]
    OBVIOUS
  <2>2. Only(s, o, {"items", "selected", "list", "marked"})
    BY <1>0, <2>1 DEF IsForm, Only, Fields
  <2>3. Itemised(s, o)
    BY <2>2, ItemStep
  <2>4. Itemised(o, SetText(o, "text", <<>>, ok))
    BY <2>3, ItemText DEF Itemised
  <2> QED BY <2>1, <2>3, <2>4, ItemThen DEF ClearItems
<1>4. Itemised(s, SetSelectedIndex(s, i, ok))
  <2>1. CASE s.selected = i
    <3>1. SetSelectedIndex(s, i, ok) = s
      BY <2>1 DEF SetSelectedIndex
    <3>2. Only(s, s, {})
      BY <1>0, OnlySelf
    <3> QED BY <3>1, <3>2, ItemStep
  <2>2. CASE s.selected # i
    <3>1. PICK o : o = [s EXCEPT !.selected = i]
      OBVIOUS
    <3>2. PICK what : what = IF i > 0 THEN s.items[i] ELSE <<>>
      OBVIOUS
    <3>3. PICK u : u = SetText(o, "text", what, ok)
      OBVIOUS
    <3>4. PICK v : v = Marked(u, i)
      OBVIOUS
    <3>5. PICK w : w = Invalidate(v, "combo")
      OBVIOUS
    <3>6. SetSelectedIndex(s, i, ok) = w
      BY <2>2, <3>1, <3>2, <3>3, <3>4, <3>5 DEF SetSelectedIndex
    <3>7. Only(s, o, {"selected"})
      BY <1>0, <3>1 DEF IsForm, Only, Fields
    <3>8. Itemised(s, o)
      BY <3>7, ItemStep
    <3>9. Itemised(o, u)
      BY <3>3, <3>8, ItemText DEF Itemised
    <3>10. Only(u, v, {"marked"})
      BY <3>4, <3>9 DEF Marked, Itemised, IsForm, Only, Fields
    <3>11. Itemised(u, v)
      BY <3>9, <3>10, ItemStep DEF Itemised
    <3>12. Looked(v, w)
      BY <3>5, <3>11, InvalidateKeeps DEF Itemised
    <3>13. w.box = v.box
      BY <3>12 DEF Looked, Only, Fields
    <3>14. Itemised(v, w)
      BY <3>11, <3>12, <3>13, OnlyMore DEF Itemised, Boxed, Looked, ItemFields
    <3> QED BY <3>6, <3>8, <3>9, <3>11, <3>14, ItemThen
  <2> QED BY <2>1, <2>2
<1> QED BY <1>1, <1>2, <1>3, <1>4


-----------------------------------------------------------------------------
\* Everything the window keeps is in order.
Sound(s) == Lights(s) /\ Pointing(s) /\ FocusBut(s, {}) /\ Boxed(s)
Pointers == {"parent", "focus", "focused", "hover", "capture", "lit", "pressed", "slider"}

\* A step that changes no pointer.
LEMMA SoundKept ==
  ASSUME NEW s, Sound(s), NEW t, Core(t), Boxed(t), NEW F, Only(s, t, F), F \cap Pointers = {}
  PROVE  Sound(t) /\ Grab(t) = Grab(s) /\ \A g : Reached(t, g) <=> Reached(s, g)
<1>1. /\ t.parent = s.parent /\ t.focus = s.focus /\ t.focused = s.focused /\ t.hover = s.hover
      /\ t.capture = s.capture /\ t.lit = s.lit /\ t.pressed = s.pressed /\ t.slider = s.slider
  BY DEF Only, Fields, Pointers
<1>2. SliderShape(t)
  BY <1>1 DEF Sound, Pointing, SliderShape
<1>3. Hovering(t) /\ Focusing(t) /\ Capturing(t) /\ Pressing(t)
  BY <1>1 DEF Sound, Pointing, Lights, Hovering, Focusing, Capturing, Pressing
<1>4. FocusBut(t, {})
  BY <1>1 DEF Sound, FocusBut
<1>5. Lights(t)
  BY <1>1, <1>2, <1>3 DEF Sound, Lights
<1>6. Grab(t) = Grab(s) /\ \A g : Reached(t, g) <=> Reached(s, g)
  BY <1>1 DEF Grab, SliderHeld, Reached
<1> QED BY <1>2, <1>3, <1>4, <1>5, <1>6 DEF Sound, Pointing

LEMMA SoundLooked ==
  ASSUME NEW s, Sound(s), NEW t, Looked(s, t)
  PROVE  Sound(t) /\ Grab(t) = Grab(s) /\ (\A g : Reached(t, g) <=> Reached(s, g)) /\ t.box = s.box
<1>1. t.box = s.box /\ {"dirty", "at"} \cap Pointers = {}
  BY DEF Looked, Only, Fields, Pointers
<1>2. Boxed(t)
  BY <1>1 DEF Sound, Boxed
<1> QED BY <1>1, <1>2, SoundKept DEF Looked

LEMMA NoticedKeeps ==
  ASSUME NEW s, Sound(s), NEW state
  PROVE  LET t == Noticed(s, state)
         IN  Sound(t) /\ Grab(t) = Grab(s) /\ (\A g : Reached(t, g) <=> Reached(s, g)) /\ t.box = s.box
<1>0. IsForm(s) /\ Core(s)
  BY DEF Sound, Lights, Core, Placed
<1>1. PICK o : o = [s EXCEPT !.root = state]
  OBVIOUS
<1>2. Only(s, o, {"root"}) /\ {"root"} \cap CoreFields = {} /\ {"root"} \cap Pointers = {}
  BY <1>0, <1>1 DEF IsForm, Only, Fields, CoreFields, Pointers
<1>3. Core(o) /\ o.box = s.box
  BY <1>0, <1>2, CoreKept DEF Only, Fields
<1>4. Sound(o) /\ Grab(o) = Grab(s) /\ \A g : Reached(o, g) <=> Reached(s, g)
  BY <1>2, <1>3, SoundKept DEF Sound, Boxed
<1>5. PICK t : t = Paint(o)
  OBVIOUS
<1>6. Looked(o, t)
  BY <1>3, <1>5, PaintKeeps
<1>7. Sound(t) /\ Grab(t) = Grab(o) /\ (\A g : Reached(t, g) <=> Reached(o, g)) /\ t.box = o.box
  BY <1>4, <1>6, SoundLooked
<1> QED BY <1>1, <1>3, <1>4, <1>5, <1>7 DEF Noticed

LEMMA SoundMoves ==
  ASSUME NEW s, Sound(s), NEW y
  PROVE  LET t == MouseMove(s, y)
         IN  Sound(t) /\ Grab(t) = Grab(s) /\ (\A g : Reached(t, g) <=> Reached(s, g)) /\ t.box = s.box
<1>1. PICK t : t = MouseMove(s, y)
  OBVIOUS
<1>2. Lights(t) /\ Only(s, t, MoveFields) /\ (SliderHeld(t) <=> SliderHeld(s))
  <2>1. \A p \in Panels : s.capture[p] # None => s.capture[p] \in All /\ s.parent[s.capture[p]] = p
    BY DEF Sound, Pointing, Capturing
  <2> QED BY <1>1, <2>1, MouseMoveKeeps DEF Sound
<1>3. /\ t.parent = s.parent /\ t.focus = s.focus /\ t.focused = s.focused /\ t.capture = s.capture /\ t.pressed = s.pressed
      /\ t.box = s.box
  BY <1>2 DEF Only, Fields, MoveFields
<1>4. Focusing(t) /\ Capturing(t) /\ Pressing(t)
  BY <1>3 DEF Sound, Pointing, Focusing, Capturing, Pressing
<1>5. FocusBut(t, {}) /\ Boxed(t)
  BY <1>3 DEF Sound, FocusBut, Boxed
<1>6. Grab(t) = Grab(s) /\ \A g : Reached(t, g) <=> Reached(s, g)
  BY <1>2, <1>3 DEF Grab, Reached
<1> QED BY <1>1, <1>2, <1>3, <1>4, <1>5, <1>6 DEF Sound, Pointing, Lights

LEMMA SoundPresses ==
  ASSUME NEW s, Sound(s), NEW y, NEW button
  PROVE  LET t == MouseDown(s, y, button).ui
         IN  /\ Sound(t) /\ t.box = s.box
             /\ \A g \in Grab(t) : g \in Grab(s) \/ Reached(t, g)
             /\ button # "left" => Looked(s, t)
<1>1. PICK t : t = MouseDown(s, y, button).ui
  OBVIOUS
<1>2. /\ Core(t) /\ Pointing(t) /\ FocusBut(t, {}) /\ Only(s, t, PressFields)
      /\ \A g \in Grab(t) : g \in Grab(s) \/ Reached(t, g)
      /\ button # "left" => Looked(s, t)
  BY <1>1, MouseDownKeeps DEF Sound, Lights
<1>3. t.parent = s.parent /\ t.hover = s.hover /\ t.lit = s.lit /\ t.box = s.box
  BY <1>2 DEF Only, Fields, PressFields
<1>4. Hovering(t)
  BY <1>3 DEF Sound, Lights, Hovering
<1>5. Lights(t)
  BY <1>2, <1>3, <1>4 DEF Sound, Lights, Pointing
<1>6. Boxed(t)
  BY <1>3 DEF Sound, Boxed
<1> QED BY <1>1, <1>2, <1>3, <1>5, <1>6 DEF Sound

LEMMA SoundReleases ==
  ASSUME NEW s, Sound(s), NEW y, NEW button
  PROVE  LET t == MouseUp(s, y, button)
         IN  /\ Sound(t) /\ t.box = s.box /\ Grab(t) \subseteq Grab(s)
             /\ button = "left" => \A g \in Grab(t) : ~Reached(s, g)
<1>1. PICK t : t = MouseUp(s, y, button)
  OBVIOUS
<1>2. Catching(s)
  BY DEF Sound, Lights, Pointing, Catching
<1>3. /\ Catching(t) /\ Only(s, t, UpFields) /\ Grab(t) \subseteq Grab(s)
      /\ button = "left" => \A g \in Grab(t) : ~Reached(s, g)
  BY <1>1, <1>2, MouseUpKeeps
<1>4. /\ t.parent = s.parent /\ t.hover = s.hover /\ t.lit = s.lit /\ t.box = s.box
      /\ t.focus = s.focus /\ t.focused = s.focused
  BY <1>3 DEF Only, Fields, UpFields
<1>5. Hovering(t) /\ Focusing(t)
  BY <1>4 DEF Sound, Lights, Hovering, Pointing, Focusing
<1>6. Lights(t)
  BY <1>3, <1>4, <1>5 DEF Sound, Lights, Catching
<1>7. Boxed(t) /\ FocusBut(t, {})
  BY <1>4 DEF Sound, Boxed, FocusBut
<1> QED BY <1>1, <1>3, <1>4, <1>5, <1>6, <1>7 DEF Sound, Catching, Pointing

LEMMA SoundAdds ==
  ASSUME NEW s, Sound(s), NEW c \in Entries, s.parent[c] = None, s.parent["slider"] = None
  PROVE  LET t == AddTaskbarWindow(s, c)
         IN  Sound(t) /\ Grab(t) = Grab(s) /\ (\A g \in Grab(s) : Reached(s, g) => Reached(t, g)) /\ t.box = s.box
<1>0. c \in All /\ "taskbar" \in Panels /\ "taskbar" # None /\ None \notin All /\ c # None /\ c \in Buttons /\ c \notin Boxes
      /\ None \notin Panels
  BY NamesApart DEF Panels, None, Boxes
<1>1. PICK t : t = AddTaskbarWindow(s, c)
  OBVIOUS
<1>2. /\ Core(t) /\ Only(s, t, {"children", "parent", "offset", "dirty", "at"})
      /\ t.parent = [s.parent EXCEPT ![c] = "taskbar"]
  BY <1>1, AddKeeps DEF Sound, Lights
<1>3. /\ t.focus = s.focus /\ t.focused = s.focused /\ t.hover = s.hover /\ t.box = s.box
      /\ t.capture = s.capture /\ t.lit = s.lit /\ t.pressed = s.pressed /\ t.slider = s.slider
  BY <1>2 DEF Only, Fields
<1>4. /\ \A x \in All \ {c} : t.parent[x] = s.parent[x]
      /\ t.parent[c] = "taskbar"
  BY <1>0, <1>2 DEF Sound, Lights, Core, Placed, Tree
<1>5. c \notin s.focused /\ c \notin s.lit /\ c \notin s.pressed
  BY DEF Sound, Pointing, Lights, Hovering, Focusing, Pressing
<1>6. \A p \in Panels : s.focus[p] # c /\ s.hover[p] # c /\ s.capture[p] # c
  BY <1>0 DEF Sound, Pointing, Lights, Hovering, Focusing, Capturing
<1>7. Buttons \subseteq All
  BY NamesApart
<1>8. Hovering(t)
  BY <1>0, <1>3, <1>4, <1>5, <1>6, <1>7 DEF Sound, Lights, Hovering
<1>9. Focusing(t)
  BY <1>0, <1>3, <1>4, <1>5, <1>6 DEF Sound, Pointing, Focusing
<1>10. Capturing(t)
  BY <1>0, <1>3, <1>4, <1>6 DEF Sound, Pointing, Capturing
<1>11. Pressing(t)
  BY <1>0, <1>3, <1>4, <1>7 DEF Sound, Pointing, Pressing
<1>12. SliderShape(t) /\ Boxed(t)
  BY <1>3 DEF Sound, Pointing, SliderShape, Boxed
<1>13. FocusBut(t, {})
  <2> SUFFICES ASSUME NEW x \in All, t.parent[x] # None PROVE x \in t.focused <=> t.focus[t.parent[x]] = x
    BY DEF FocusBut
  <2>1. CASE x = c
    BY <1>0, <1>3, <1>4, <1>5, <1>6, <2>1
  <2>2. CASE x # c
    BY <1>3, <1>4, <2>2 DEF Sound, FocusBut
  <2> QED BY <2>1, <2>2
<1>14. \A d \in t.lit : t.hover[t.parent[d]] = d
  <2>1. \A d \in s.lit : d \in All \ {c}
    BY <1>5, <1>7 DEF Sound, Lights, Hovering
  <2> QED BY <1>3, <1>4, <2>1 DEF Sound, Lights
<1>15. Grab(t) = Grab(s) /\ \A g \in Grab(s) : Reached(s, g) => Reached(t, g)
  <2>1. Grab(t) = Grab(s)
    BY <1>3 DEF Grab, SliderHeld
  <2>2. \A g \in Grab(s) : g \in All
    BY GrabsNoPanel DEF Sound, Pointing
  <2>3. \A g : Reached(s, g) => g # c
    BY <1>0 DEF Reached
  <2> QED BY <1>3, <1>4, <2>1, <2>2, <2>3 DEF Reached
<1> QED BY <1>1, <1>2, <1>3, <1>8, <1>9, <1>10, <1>11, <1>12, <1>13, <1>14, <1>15 DEF Sound, Pointing, Lights

LEMMA SoundRemoves ==
  ASSUME NEW s, Sound(s), NEW c \in Entries, s.parent[c] # None
  PROVE  LET t == RemoveTaskbarWindow(s, c)
         IN  /\ Sound(t) /\ Grab(t) \subseteq Grab(s) /\ t.box = s.box
             /\ \A g \in Grab(t) : Reached(s, g) => Reached(t, g)
<1>0. /\ c \in All /\ "taskbar" \in Panels /\ "root" \in Panels /\ "taskbar" # None /\ None \notin All /\ c # None
      /\ c \in Buttons /\ c \notin Panels /\ c # "slider" /\ "slider" \in All /\ None \notin Panels
  BY NamesApart DEF Panels, None
<1>1. PICK t : t = RemoveTaskbarWindow(s, c)
  OBVIOUS
<1>2. /\ Core(t)
      /\ Only(s, t, {"children", "parent", "offset", "dirty", "at", "focus", "hover", "capture", "focused", "lit", "pressed"})
      /\ t.parent = [s.parent EXCEPT ![c] = None]
      /\ t.focus = Without(s.focus, "taskbar", c)
      /\ t.hover = Without(s.hover, "taskbar", c)
      /\ t.capture = Without(s.capture, "taskbar", c)
      /\ t.focused = s.focused \ {c} /\ t.lit = s.lit \ {c} /\ t.pressed = s.pressed \ {c}
  BY <1>1, RemoveKeeps DEF Sound, Lights
<1>3. t.box = s.box /\ t.slider = s.slider
  BY <1>2 DEF Only, Fields
<1>4. /\ \A x \in All \ {c} : t.parent[x] = s.parent[x]
      /\ t.parent[c] = None
  BY <1>0, <1>2 DEF Sound, Lights, Core, Placed, Tree
<1>5. s.parent[c] = "taskbar"
  BY <1>0, Homes DEF Sound, Lights, Core, Placed, Tree
<1>6. ASSUME NEW r \in [Panels -> All \cup {None}], \A p \in Panels : r[p] # None => s.parent[r[p]] = p,
             NEW w, w = Without(r, "taskbar", c)
      PROVE  /\ w \in [Panels -> All \cup {None}] /\ \A p \in Panels : w[p] # None => w[p] # c /\ t.parent[w[p]] = p
             /\ \A p \in Panels, x \in All \ {c} : w[p] = x <=> r[p] = x
  <2>1. w = [p \in Panels |-> IF p = "taskbar" /\ r[p] = c THEN None ELSE r[p]]
    BY <1>0, <1>6 DEF Without
  <2>2. \A p \in Panels : r[p] = c => p = "taskbar"
    BY <1>0, <1>5, <1>6
  <2>3. \A p \in Panels : w[p] = IF r[p] = c THEN None ELSE r[p]
    BY <2>1, <2>2
  <2>4. w \in [Panels -> All \cup {None}]
    BY <2>1
  <2>5. \A p \in Panels : w[p] # None => w[p] # c /\ w[p] \in All /\ w[p] = r[p]
    BY <2>3, <2>4
  <2>6. \A p \in Panels : w[p] # None => t.parent[w[p]] = p
    BY <1>4, <1>6, <2>5
  <2>7. \A p \in Panels, x \in All \ {c} : w[p] = x <=> r[p] = x
    BY <1>0, <2>3
  <2> QED BY <2>4, <2>5, <2>6, <2>7
<1>7. Hovering(s) /\ Focusing(s) /\ Capturing(s) /\ Pressing(s)
  BY DEF Sound, Lights, Pointing
<1>8. /\ t.hover \in [Panels -> All \cup {None}] /\ \A p \in Panels : t.hover[p] # None => t.hover[p] # c /\ t.parent[t.hover[p]] = p
      /\ \A p \in Panels, x \in All \ {c} : t.hover[p] = x <=> s.hover[p] = x
  BY <1>2, <1>6, <1>7 DEF Hovering
<1>9. /\ t.focus \in [Panels -> All \cup {None}] /\ \A p \in Panels : t.focus[p] # None => t.focus[p] # c /\ t.parent[t.focus[p]] = p
      /\ \A p \in Panels, x \in All \ {c} : t.focus[p] = x <=> s.focus[p] = x
  BY <1>2, <1>6, <1>7 DEF Focusing
<1>10. /\ t.capture \in [Panels -> All \cup {None}] /\ \A p \in Panels : t.capture[p] # None => t.capture[p] # c /\ t.parent[t.capture[p]] = p
       /\ \A p \in Panels, x \in All \ {c} : t.capture[p] = x <=> s.capture[p] = x
  BY <1>2, <1>6, <1>7 DEF Capturing
<1>11. Buttons \subseteq All /\ s.focused \subseteq All /\ s.lit \subseteq Buttons /\ s.pressed \subseteq Buttons
  BY <1>7, NamesApart DEF Hovering, Focusing, Pressing
<1>12. Hovering(t)
  BY <1>2, <1>4, <1>7, <1>8, <1>11 DEF Hovering
<1>13. Focusing(t)
  BY <1>2, <1>4, <1>7, <1>9, <1>11 DEF Focusing
<1>14. Capturing(t)
  BY <1>10 DEF Capturing
<1>15. Pressing(t)
  BY <1>2, <1>4, <1>7, <1>11 DEF Pressing
<1>16. SliderShape(t) /\ Boxed(t)
  BY <1>3 DEF Sound, Pointing, SliderShape, Boxed
<1>17. FocusBut(t, {})
  <2> SUFFICES ASSUME NEW x \in All, t.parent[x] # None PROVE x \in t.focused <=> t.focus[t.parent[x]] = x
    BY DEF FocusBut
  <2>1. x # c /\ t.parent[x] = s.parent[x] /\ s.parent[x] \in Panels
    <3>1. x # c
      BY <1>4
    <3>2. s.parent[x] \in Panels \cup {None}
      BY DEF Sound, Lights, Core, Placed, Tree
    <3> QED BY <1>4, <3>1, <3>2
  <2>2. x \in t.focused <=> x \in s.focused
    BY <1>2, <2>1
  <2>3. x \in s.focused <=> s.focus[s.parent[x]] = x
    BY <2>1 DEF Sound, FocusBut
  <2> QED BY <1>9, <2>1, <2>2, <2>3
<1>18. \A d \in t.lit : t.hover[t.parent[d]] = d
  <2> SUFFICES ASSUME NEW d \in t.lit PROVE t.hover[t.parent[d]] = d
    OBVIOUS
  <2>1. d \in All \ {c} /\ d \in s.lit
    BY <1>2, <1>11
  <2>2. s.parent[d] \in Panels /\ s.hover[s.parent[d]] = d
    <3>1. s.parent[d] \in Panels \cup {None} /\ s.parent[d] # None
      BY <1>7, <2>1 DEF Sound, Lights, Core, Placed, Tree, Hovering
    <3> QED BY <2>1, <3>1 DEF Sound, Lights
  <2> QED BY <1>4, <1>8, <2>1, <2>2
<1>19. Grab(t) \subseteq Grab(s) /\ c \notin Grab(t)
  BY <1>0, <1>2, <1>3 DEF Grab, SliderHeld
<1>20. \A g \in Grab(t) : Reached(s, g) => Reached(t, g)
  <2> SUFFICES ASSUME NEW g \in Grab(t), Reached(s, g) PROVE Reached(t, g)
    OBVIOUS
  <2>1. g \in All \ {c}
    BY <1>15, <1>19, GrabsNoPanel
  <2>2. t.parent[g] = s.parent[g] /\ s.parent[g] \in Panels /\ t.capture[s.parent[g]] = g
    BY <1>4, <1>10, <2>1 DEF Reached
  <2>3. s.parent[g] = "root" \/ t.capture["root"] = s.parent[g]
    <3>1. s.parent[g] \in All \ {c}
      BY <1>0, <2>2, NamesApart
    <3> QED BY <1>0, <1>10, <3>1 DEF Reached
  <2> QED BY <2>2, <2>3 DEF Reached
<1> QED BY <1>1, <1>2, <1>3, <1>12, <1>13, <1>14, <1>15, <1>16, <1>17, <1>18, <1>19, <1>20 DEF Sound, Pointing, Lights


-----------------------------------------------------------------------------
\* The four windows.
Inhabitants == {"logo", "field", "combo", "taskbar", "text", "drop", "options", "slider"}

LEMMA ChildrenAre ==
  ASSUME NEW window \in Windows, NEW p \in Panels
  PROVE  /\ Children(window)[p] \in Seq(All) /\ IsInjective(Children(window)[p])
         /\ \A c \in ToSet(Children(window)[p]) : c \in All /\ Home(c) = p /\ c \in Inhabitants
<1>1. PICK q : q = Children(window)[p]
  OBVIOUS
<1>2. \/ q = <<>>
      \/ p = "root" /\ q \in {<<"logo", "field">>, <<"combo">>, <<"logo", "taskbar">>}
      \/ p = "combo" /\ q = <<"text", "drop">>
      \/ p = "popup" /\ q = <<"options">>
      \/ p = "taskbar" /\ q = <<"slider">>
  <2>1. CASE p = "root"
    <3>1. q = [terminal |-> <<"logo", "field">>, form |-> <<"combo">>,
               desktop |-> <<"logo", "taskbar">>, slider |-> <<"logo", "taskbar">>][window]
      BY <1>1, <2>1 DEF Children
    <3>2. CASE window = "terminal"
      BY <2>1, <3>1, <3>2
    <3>3. CASE window = "form"
      BY <2>1, <3>1, <3>3
    <3>4. CASE window = "desktop"
      BY <2>1, <3>1, <3>4
    <3>5. CASE window = "slider"
      BY <2>1, <3>1, <3>5
    <3> QED BY <3>2, <3>3, <3>4, <3>5 DEF Windows
  <2>2. CASE p # "root"
    <3>1. q = CASE p = "combo" /\ window = "form" -> <<"text", "drop">>
                [] p = "popup" /\ window = "form" -> <<"options">>
                [] p = "taskbar" /\ window = "slider" -> <<"slider">>
                [] OTHER -> <<>>
      BY <1>1, <2>2 DEF Children
    <3> QED BY <2>2, <3>1
  <2> QED BY <2>1, <2>2
<1>3. Inhabitants \subseteq All
  BY NamesApart DEF Inhabitants, All, Panels, Buttons, Boxes
<1>4. q \in Seq(All)
  <2>1. <<>> \in Seq(All)
    OBVIOUS
  <2>2. \A a, b \in All : <<a, b>> \in Seq(All) /\ <<a>> \in Seq(All)
    OBVIOUS
  <2> QED BY <1>2, <1>3, <2>1, <2>2 DEF Inhabitants
<1>5. IsInjective(q)
  <2>1. CASE q = <<>>
    BY <2>1 DEF IsInjective
  <2>2. CASE \E a \in Inhabitants : q = <<a>>
    BY <2>2 DEF IsInjective
  <2>3. CASE \E a, b \in Inhabitants : q = <<a, b>> /\ a # b
    BY <2>3 DEF IsInjective
  <2> QED BY <1>2, <2>1, <2>2, <2>3 DEF Inhabitants
<1>6. ASSUME NEW c \in ToSet(q) PROVE Home(c) = p /\ c \in Inhabitants
  <2>1. /\ ToSet(<<>>) = {}
        /\ \A a, b : ToSet(<<a, b>>) = {a, b} /\ ToSet(<<a>>) = {a}
    BY DEF ToSet
  <2>2. q # <<>>
    BY <1>6, <2>1
  <2>3. \/ p = "root" /\ c \in {"logo", "field", "combo", "taskbar"}
        \/ p = "combo" /\ c \in {"text", "drop"}
        \/ p = "popup" /\ c = "options"
        \/ p = "taskbar" /\ c = "slider"
    BY <1>2, <1>6, <2>1, <2>2
  <2> QED BY <2>3, Homes DEF Inhabitants
<1> QED BY <1>1, <1>3, <1>4, <1>5, <1>6

LEMMA ParentsAre ==
  ASSUME NEW window \in Windows
  PROVE  /\ Parents(window) \in [All -> Panels \cup {None}]
         /\ \A c \in All : Parents(window)[c] \in {Home(c), None}
         /\ \A p \in Panels, c \in All : c \in ToSet(Children(window)[p]) <=> Parents(window)[c] = p
         /\ \A e \in Entries : Parents(window)[e] = None
<1>0. None \notin Panels /\ Entries \subseteq All
  BY NamesApart
<1>1. \A p \in Panels : \A c \in ToSet(Children(window)[p]) : Home(c) = p /\ c \in Inhabitants
  BY ChildrenAre
<1>2. ASSUME NEW c \in All
      PROVE  /\ Parents(window)[c] \in Panels \cup {None} /\ Parents(window)[c] \in {Home(c), None}
             /\ \A p \in Panels : c \in ToSet(Children(window)[p]) <=> Parents(window)[c] = p
  <2> DEFINE In(p) == p \in Panels /\ c \in ToSet(Children(window)[p])
             at == Parents(window)[c]
  <2>1. at = IF \E p \in Panels : c \in ToSet(Children(window)[p])
             THEN CHOOSE p \in Panels : c \in ToSet(Children(window)[p]) ELSE None
    BY DEF Parents
  <2>2. CASE \E p \in Panels : c \in ToSet(Children(window)[p])
    <3>1. at = CHOOSE p \in Panels : c \in ToSet(Children(window)[p])
      BY <2>1, <2>2
    <3>2. at \in Panels /\ c \in ToSet(Children(window)[at])
      BY <2>2, <3>1
    <3> HIDE DEF at
    <3>3. Home(c) = at
      BY <1>1, <3>2
    <3>4. \A p \in Panels : c \in ToSet(Children(window)[p]) <=> at = p
      BY <1>1, <3>2, <3>3
    <3> QED BY <3>2, <3>3, <3>4 DEF at
  <2>3. CASE ~\E p \in Panels : c \in ToSet(Children(window)[p])
    <3>1. at = None
      BY <2>1, <2>3
    <3> QED BY <1>0, <2>3, <3>1
  <2> QED BY <2>2, <2>3
<1>3. Parents(window) \in [All -> Panels \cup {None}]
  <2>1. Parents(window) = [c \in All |-> Parents(window)[c]]
    BY DEF Parents
  <2> QED BY <1>2, <2>1
<1>4. ASSUME NEW e \in Entries PROVE Parents(window)[e] = None
  <2>1. e \notin Inhabitants
    BY NamesApart DEF Inhabitants
  <2>2. \A p \in Panels : Parents(window)[e] # p
    BY <1>0, <1>1, <1>2, <2>1
  <2> QED BY <1>0, <1>2, <2>2
<1> QED BY <1>2, <1>3, <1>4

LEMMA LowestScreen == Min(Screens) \in Nat /\ Min(Screens) >= 1
<1>1. Screens \subseteq Nat /\ Screens # {} /\ \A x \in Screens : x >= 1
  BY ControlsAssumption
<1>2. PICK n \in Screens : \A m \in Screens : n <= m
  BY <1>1, LeastNatural
<1>3. Min(Screens) = CHOOSE x \in Screens : \A y \in Screens : x <= y
  BY DEF Min
<1>4. Min(Screens) \in Screens
  BY <1>2, <1>3
<1> QED BY <1>1, <1>4

LEMMA OffsetsAre ==
  /\ Offsets \in [All -> Int]
  /\ Offsets["logo"] = 0 /\ \A c \in {"field", "combo", "taskbar"} : Offsets[c] >= 1
  /\ Offsets["text"] = 0 /\ Offsets["drop"] = 2
<1>1. "logo" \in All /\ "field" \in All /\ "combo" \in All /\ "taskbar" \in All /\ "text" \in All /\ "drop" \in All
  BY DEF All, Panels, Buttons, Boxes
<1>2. Height["combo"] = 3
  BY <1>1 DEF Height
<1>3. PICK least : least = Min(Screens)
  OBVIOUS
<1>4. least \in Nat /\ least >= 1
  BY <1>3, LowestScreen
<1>5. Offsets = [c \in All |-> CASE c \in {"field", "combo"} -> 2 [] c = "drop" -> 2 [] c = "taskbar" -> least
                                 [] c = "popup" -> 3 [] OTHER -> 0]
  BY <1>2, <1>3 DEF Offsets
<1>6. \A c \in All : Offsets[c] \in Int
  <2> TAKE c \in All
  <2>1. CASE c \in {"field", "combo"} \/ c = "drop"
    BY <1>5, <2>1
  <2>2. CASE c = "taskbar"
    BY <1>4, <1>5, <2>2
  <2>3. CASE c = "popup"
    BY <1>5, <2>3
  <2>4. CASE c \notin {"field", "combo", "drop", "taskbar", "popup"}
    BY <1>5, <2>4
  <2> QED BY <2>1, <2>2, <2>3, <2>4
<1>7. Offsets = [c \in All |-> Offsets[c]]
  BY <1>5
<1>8. Offsets["logo"] = 0 /\ Offsets["text"] = 0 /\ Offsets["drop"] = 2
  BY <1>1, <1>5
<1>9. Offsets["field"] = 2 /\ Offsets["combo"] = 2 /\ Offsets["taskbar"] = least
  BY <1>1, <1>5
<1> QED BY <1>4, <1>6, <1>7, <1>8, <1>9

\* A window that was made and painted is sound, and its field is empty.
LEMMA SoundWindows ==
  ASSUME NEW window \in Windows, NEW full \in BOOLEAN
  PROVE  LET s == Paint([Window(window) EXCEPT !.slider.toMax = full])
         IN  Sound(s) /\ BoxHolds(s.box["field"], <<>>) /\ Grab(s) = {}
<1>1. PICK o : o = [Window(window) EXCEPT !.slider.toMax = full]
  OBVIOUS
<1>2. /\ IsForm(o) /\ o.children = Children(window) /\ o.parent = Parents(window) /\ o.offset = Offsets
      /\ o.dirty = All /\ o.at = Offsets /\ o.open = FALSE
      /\ o.focus = NoRoute /\ o.hover = NoRoute /\ o.capture = NoRoute
      /\ o.focused = {} /\ o.lit = {} /\ o.pressed = {} /\ o.box = [b \in Boxes |-> EmptyBox]
      /\ o.slider = [value |-> 0, dragging |-> FALSE, grab |-> 0, pressed |-> FALSE, toMax |-> full]
  BY <1>1 DEF Window, Form, IsForm, Fields
<1>3. NoRoute \in [Panels -> All \cup {None}] /\ \A p \in Panels : NoRoute[p] = None
  BY DEF NoRoute
<1>4. Tree(o)
  <2>1. /\ o.parent \in [All -> Panels \cup {None}]
        /\ \A c \in All : o.parent[c] \in {Home(c), None}
        /\ \A p \in Panels, c \in All : c \in ToSet(o.children[p]) <=> o.parent[c] = p
    BY <1>2, ParentsAre
  <2>2. \A p \in Panels : o.children[p] \in Seq(All) /\ IsInjective(o.children[p])
    BY <1>2, ChildrenAre
  <2>3. o.children = [p \in Panels |-> o.children[p]]
    BY <1>2 DEF Children
  <2>4. o.children \in [Panels -> Seq(All)]
    BY <2>2, <2>3
  <2> QED BY <1>2, <2>1, <2>2, <2>4, OffsetsAre DEF Tree
<1>5. Places(o)
  <2>1. \A e \in Entries : o.parent[e] = None
    BY <1>2, ParentsAre
  <2>2. None # "taskbar"
    BY DEF None
  <2> QED BY <1>2, <2>1, <2>2, OffsetsAre DEF Places
<1>6. Core(o)
  <2>1. Fresh(o)
    <3>1. Offsets = [c \in All |-> Offsets[c]]
      BY OffsetsAre
    <3> QED BY <1>2, <3>1 DEF Fresh
  <2>2. Marks(o)
    BY <1>2, NamesApart DEF Marks
  <2> QED BY <1>2, <1>4, <1>5, <2>1, <2>2 DEF Core, Placed
<1>7. SliderShape(o)
  BY <1>2 DEF SliderShape
<1>8. Hovering(o) /\ Focusing(o) /\ Capturing(o) /\ Pressing(o)
  BY <1>2, <1>3 DEF Hovering, Focusing, Capturing, Pressing
<1>9. FocusBut(o, {})
  <2> SUFFICES ASSUME NEW c \in All, o.parent[c] # None PROVE o.focus[o.parent[c]] # c
    BY <1>2 DEF FocusBut
  <2>1. o.parent[c] \in Panels
    BY <1>4 DEF Tree
  <2> QED BY <1>2, <1>3, <2>1, NamesApart
<1>10. Boxed(o) /\ BoxHolds(o.box["field"], <<>>)
  <2>1. "field" \in Boxes
    BY DEF Boxes
  <2>2. o.box["field"] = EmptyBox
    BY <1>2, <2>1
  <2> QED BY <1>2, <2>2, FreshBox DEF Boxed
<1>11. Sound(o)
  BY <1>2, <1>6, <1>7, <1>8, <1>9, <1>10 DEF Sound, Lights, Pointing
<1>12. Grab(o) = {}
  BY <1>2 DEF Grab, SliderHeld
<1>13. PICK s : s = Paint(o)
  OBVIOUS
<1>14. Looked(o, s)
  BY <1>6, <1>13, PaintKeeps
<1>15. Sound(s) /\ Grab(s) = Grab(o) /\ s.box = o.box
  BY <1>11, <1>14, SoundLooked
<1> QED BY <1>1, <1>10, <1>12, <1>13, <1>15

-----------------------------------------------------------------------------
\* What is always so: everything is in order, the field holds what was typed,
\* and the release will reach whatever is held.
InOrder ==
    /\ Sound(ui) /\ BoxHolds(ui.box["field"], typed)
    /\ held \in BOOLEAN /\ astray \in BOOLEAN
    /\ astray \/ \A g \in Grab(ui) : held /\ Reached(ui, g)

LEMMA InOrderInit == ControlsInit => InOrder
<1> SUFFICES ASSUME ControlsInit PROVE InOrder
  OBVIOUS
<1>1. PICK window \in Windows, b \in BOOLEAN :
          ui = Paint([Window(window) EXCEPT !.slider.toMax = b /\ window = "slider"])
  BY DEF ControlsInit
<1>2. PICK full \in BOOLEAN : full = (b /\ window = "slider")
  OBVIOUS
<1>3. ui = Paint([Window(window) EXCEPT !.slider.toMax = full])
  BY <1>1, <1>2
<1>4. Sound(ui) /\ BoxHolds(ui.box["field"], <<>>) /\ Grab(ui) = {}
  BY <1>3, SoundWindows
<1> QED BY <1>4 DEF InOrder, ControlsInit

\* A step that leaves what is held, and how it is reached, alone.
LEMMA InOrderKept ==
  ASSUME InOrder, Sound(ui'), BoxHolds(ui'.box["field"], typed'), UNCHANGED <<held, astray>>,
         \A g \in Grab(ui') : g \in Grab(ui) /\ (Reached(ui, g) => Reached(ui', g))
  PROVE  InOrder'
  BY DEF InOrder

LEMMA MoveStep == ASSUME InOrder, Move PROVE InOrder'
<1>1. PICK y \in Points : ui' = MouseMove(IF ui.root = "normal" THEN Noticed(ui, "hovered") ELSE Touch(ui, {"root"}), y)
  BY DEF Move
<1>2. UNCHANGED <<held, typed, astray>>
  BY DEF Move
<1>3. PICK s : s = ui
  OBVIOUS
<1>4. Sound(s) /\ Core(s)
  BY <1>3 DEF InOrder, Sound, Lights
<1>5. PICK t : t = IF s.root = "normal" THEN Noticed(s, "hovered") ELSE Touch(s, {"root"})
  OBVIOUS
<1>6. Sound(t) /\ Grab(t) = Grab(s) /\ (\A g : Reached(t, g) <=> Reached(s, g)) /\ t.box = s.box
  <2>1. CASE s.root = "normal"
    BY <1>4, <1>5, <2>1, NoticedKeeps
  <2>2. CASE s.root # "normal"
    <3>1. t = Touch(s, {"root"})
      BY <1>5, <2>2
    <3>2. Looked(s, t)
      BY <1>4, <3>1, TouchKeeps
    <3> QED BY <1>4, <3>2, SoundLooked
  <2> QED BY <2>1, <2>2
<1>7. PICK u : u = MouseMove(t, y)
  OBVIOUS
<1>8. Sound(u) /\ Grab(u) = Grab(t) /\ (\A g : Reached(u, g) <=> Reached(t, g)) /\ u.box = t.box
  BY <1>6, <1>7, SoundMoves
<1>9. ui' = u
  BY <1>1, <1>3, <1>5, <1>7
<1> QED BY <1>2, <1>3, <1>6, <1>8, <1>9, InOrderKept DEF InOrder

LEMMA PressStep == ASSUME InOrder, Press PROVE InOrder'
<1>1. PICK y \in Points : ui' = MouseDown(Noticed(ui, "pressed"), y, "left").ui
  BY DEF Press
<1>2. ~held /\ held' = TRUE /\ UNCHANGED <<typed, astray>>
  BY DEF Press
<1>3. PICK s : s = ui
  OBVIOUS
<1>4. Sound(s)
  BY <1>3 DEF InOrder
<1>5. PICK t : t = Noticed(s, "pressed")
  OBVIOUS
<1>6. Sound(t) /\ Grab(t) = Grab(s) /\ t.box = s.box
  BY <1>4, <1>5, NoticedKeeps
<1>7. PICK u : u = MouseDown(t, y, "left").ui
  OBVIOUS
<1>8. Sound(u) /\ u.box = t.box /\ \A g \in Grab(u) : g \in Grab(t) \/ Reached(u, g)
  BY <1>6, <1>7, SoundPresses
<1>9. ui' = u
  BY <1>1, <1>3, <1>5, <1>7
<1>10. astray \/ \A g \in Grab(u) : Reached(u, g)
  BY <1>2, <1>3, <1>6, <1>8 DEF InOrder
<1>11. BoxHolds(u.box["field"], typed')
  BY <1>2, <1>3, <1>6, <1>8 DEF InOrder
<1> QED BY <1>2, <1>8, <1>9, <1>10, <1>11 DEF InOrder

LEMMA LiftOffStep == ASSUME InOrder, LiftOff PROVE InOrder'
<1>1. PICK y \in Points : ui' = MouseUp(Noticed(ui, "hovered"), y, "left")
  BY DEF LiftOff
<1>2. held' = FALSE /\ UNCHANGED <<typed, astray>>
  BY DEF LiftOff
<1>3. PICK s : s = ui
  OBVIOUS
<1>4. Sound(s)
  BY <1>3 DEF InOrder
<1>5. PICK t : t = Noticed(s, "hovered")
  OBVIOUS
<1>6. Sound(t) /\ Grab(t) = Grab(s) /\ t.box = s.box /\ \A g : Reached(t, g) <=> Reached(s, g)
  BY <1>4, <1>5, NoticedKeeps
<1>7. PICK u : u = MouseUp(t, y, "left")
  OBVIOUS
<1>8. Sound(u) /\ u.box = t.box /\ Grab(u) \subseteq Grab(t) /\ \A g \in Grab(u) : ~Reached(t, g)
  BY <1>6, <1>7, SoundReleases
<1>9. ui' = u
  BY <1>1, <1>3, <1>5, <1>7
<1>10. astray \/ Grab(u) = {}
  BY <1>3, <1>6, <1>8 DEF InOrder
<1>11. BoxHolds(u.box["field"], typed')
  BY <1>2, <1>3, <1>6, <1>8 DEF InOrder
<1> QED BY <1>2, <1>8, <1>9, <1>10, <1>11 DEF InOrder

LEMMA LiftOffLostStep == ASSUME InOrder, LiftOffLost PROVE InOrder'
<1>1. /\ held' = FALSE /\ astray' = TRUE /\ UNCHANGED <<ui, typed>>
  BY DEF LiftOffLost
<1> QED BY <1>1 DEF InOrder

LEMMA RightClickStep == ASSUME InOrder, RightClick PROVE InOrder'
<1>1. PICK y \in Points :
          ui' = MouseUp(Noticed(MouseDown(Noticed(ui, "pressed"), y, "right").ui, "hovered"), y, "right")
  BY DEF RightClick
<1>2. astray' = (astray \/ held) /\ UNCHANGED <<held, typed>>
  BY DEF RightClick
<1>3. PICK s : s = ui
  OBVIOUS
<1>4. Sound(s)
  BY <1>3 DEF InOrder
<1>5. PICK t : t = Noticed(s, "pressed")
  OBVIOUS
<1>6. Sound(t) /\ Grab(t) = Grab(s) /\ t.box = s.box
  BY <1>4, <1>5, NoticedKeeps
<1>7. PICK u : u = MouseDown(t, y, "right").ui
  OBVIOUS
<1>8. Sound(u) /\ Grab(u) = Grab(t) /\ u.box = t.box
  <2>1. Looked(t, u)
    BY <1>6, <1>7, SoundPresses
  <2> QED BY <1>6, <2>1, SoundLooked
<1>9. PICK v : v = Noticed(u, "hovered")
  OBVIOUS
<1>10. Sound(v) /\ Grab(v) = Grab(u) /\ v.box = u.box
  BY <1>8, <1>9, NoticedKeeps
<1>11. PICK w : w = MouseUp(v, y, "right")
  OBVIOUS
<1>12. Sound(w) /\ w.box = v.box /\ Grab(w) \subseteq Grab(v)
  BY <1>10, <1>11, SoundReleases
<1>13. ui' = w
  BY <1>1, <1>3, <1>5, <1>7, <1>9, <1>11
<1>14. Grab(w) \subseteq Grab(s) /\ w.box = s.box
  BY <1>6, <1>8, <1>10, <1>12
<1>15. astray' \in BOOLEAN /\ (astray' \/ Grab(w) = {})
  BY <1>2, <1>3, <1>14 DEF InOrder
<1>16. BoxHolds(w.box["field"], typed')
  BY <1>2, <1>3, <1>14 DEF InOrder
<1> QED BY <1>2, <1>12, <1>13, <1>15, <1>16 DEF InOrder

LEMMA KeyStep == ASSUME InOrder, Key PROVE InOrder'
<1>1. PICK ch \in Chars \cup {"back", "enter"}, ok \in BOOLEAN :
          /\ KeyTarget(ui) \in Boxes
          /\ ok \/ (ch \in Chars /\ Full(ui.box["field"]))
          /\ ui' = KeyInBox(ui, KeyTarget(ui), ch, ok)
          /\ typed' = IF KeyTarget(ui) # "field" THEN typed
                      ELSE CASE ch = "enter" -> <<>>
                             [] ch = "back" -> IF typed = <<>> THEN <<>> ELSE Front(typed)
                             [] OTHER -> IF Len(typed) < MaxLength /\ ok THEN Append(typed, ch) ELSE typed
          /\ UNCHANGED <<held, astray>>
  BY DEF Key
<1>2. PICK s : s = ui
  OBVIOUS
<1>3. Sound(s) /\ Core(s) /\ Boxed(s)
  BY <1>2 DEF InOrder, Sound, Lights
<1>4. PICK b \in Boxes : b = KeyTarget(s)
  BY <1>1, <1>2
<1>5. PICK t : t = KeyInBox(s, b, ch, ok)
  OBVIOUS
<1>6. /\ Core(t) /\ Only(s, t, {"box", "dirty", "at"}) /\ Boxed(t)
      /\ b # "field" => t.box["field"] = s.box["field"]
      /\ b = "field" =>
             /\ ch \in Chars => t.box["field"] = InsertChar(s.box["field"], ch, ok)
             /\ ch = "back" => t.box["field"] = DeleteChar(s.box["field"])
             /\ ch = "enter" /\ ok => t.box["field"] = WithText(s.box["field"], <<>>)
  BY <1>3, <1>5, KeyKeeps
<1>7. Sound(t) /\ Grab(t) = Grab(s) /\ \A g : Reached(t, g) <=> Reached(s, g)
  <2>1. {"box", "dirty", "at"} \cap Pointers = {}
    BY DEF Pointers
  <2> QED BY <1>3, <1>6, <2>1, SoundKept
<1>8. ui' = t /\ KeyTarget(ui) = b
  BY <1>1, <1>2, <1>4, <1>5
<1>9. BoxHolds(s.box["field"], typed)
  BY <1>2 DEF InOrder
<1>10. BoxHolds(t.box["field"], typed')
  <2>1. CASE b # "field"
    <3>1. typed' = typed
      BY <1>1, <1>8, <2>1
    <3> QED BY <1>6, <1>9, <2>1, <3>1
  <2>2. CASE b = "field" /\ ch = "enter"
    <3>1. ok /\ typed' = <<>>
      BY <1>1, <1>8, <2>2, CharsApart
    <3> QED BY <1>6, <1>9, <2>2, <3>1, EmptiedBox
  <2>3. CASE b = "field" /\ ch = "back"
    <3>1. typed' = IF typed = <<>> THEN <<>> ELSE Front(typed)
      BY <1>1, <1>8, <2>3
    <3> QED BY <1>6, <1>9, <2>3, <3>1, ShorterBox
  <2>4. CASE b = "field" /\ ch \in Chars
    <3>1. ch # "enter" /\ ch # "back"
      BY <2>4, CharsApart
    <3>2. typed' = IF Len(typed) < MaxLength /\ ok THEN Append(typed, ch) ELSE typed
      BY <1>1, <1>8, <2>4, <3>1
    <3>3. ok \/ Full(s.box["field"])
      BY <1>1, <1>2
    <3>4. BoxHolds(InsertChar(s.box["field"], ch, ok), IF Len(typed) < MaxLength /\ ok THEN Append(typed, ch) ELSE typed)
      BY <1>9, <2>4, <3>3, LongerBox
    <3> QED BY <1>6, <2>4, <3>2, <3>4
  <2> QED BY <1>1, <2>1, <2>2, <2>3, <2>4
<1> QED BY <1>1, <1>2, <1>7, <1>8, <1>10, InOrderKept

LEMMA TaskbarStep == ASSUME InOrder, Taskbar PROVE InOrder'
<1>1. UNCHANGED <<held, typed, astray>> /\ Has("taskbar")
  BY DEF Taskbar
<1>2. PICK s : s = ui
  OBVIOUS
<1>3. Sound(s) /\ Core(s) /\ IsForm(s)
  BY <1>2 DEF InOrder, Sound, Lights, Core, Placed
<1>4. PICK t : t = ui'
  OBVIOUS
<1>5. CASE ~Has("slider") /\ \E e \in Entries : ~Has(e) /\ ui' = AddTaskbarWindow(ui, e)
  <2>1. PICK e \in Entries : s.parent[e] = None /\ t = AddTaskbarWindow(s, e)
    BY <1>2, <1>4, <1>5 DEF Has
  <2>2. s.parent["slider"] = None
    BY <1>2, <1>5 DEF Has
  <2>3. Sound(t) /\ Grab(t) = Grab(s) /\ (\A g \in Grab(s) : Reached(s, g) => Reached(t, g)) /\ t.box = s.box
    BY <1>3, <2>1, <2>2, SoundAdds
  <2> QED BY <1>1, <1>2, <1>4, <2>3, InOrderKept DEF InOrder
<1>6. CASE \E e \in Entries : Has(e) /\ ui' = RemoveTaskbarWindow(ui, e)
  <2>1. PICK e \in Entries : s.parent[e] # None /\ t = RemoveTaskbarWindow(s, e)
    BY <1>2, <1>4, <1>6 DEF Has
  <2>2. Sound(t) /\ Grab(t) \subseteq Grab(s) /\ (\A g \in Grab(t) : Reached(s, g) => Reached(t, g)) /\ t.box = s.box
    BY <1>3, <2>1, SoundRemoves
  <2> QED BY <1>1, <1>2, <1>4, <2>2, InOrderKept DEF InOrder
<1>7. CASE \E e \in Entries : Has(e) /\ ui' = Invalidate(ui, e)
  <2>1. PICK e \in Entries : t = Invalidate(s, e)
    BY <1>2, <1>4, <1>7
  <2>2. Looked(s, t)
    <3>1. e # "options"
      BY NamesApart
    <3> QED BY <1>3, <2>1, <3>1, InvalidateKeeps
  <2>3. Sound(t) /\ Grab(t) = Grab(s) /\ (\A g : Reached(t, g) <=> Reached(s, g)) /\ t.box = s.box
    BY <1>3, <2>2, SoundLooked
  <2> QED BY <1>1, <1>2, <1>4, <2>3, InOrderKept DEF InOrder
<1>8. CASE \E to \in Screens : ui' = Resize(ui, to)
  <2>1. PICK to \in Screens : t = Resize(s, to)
    BY <1>2, <1>4, <1>8
  <2>2. Core(t) /\ Only(s, t, {"dirty", "at", "offset"})
    BY <1>1, <1>2, <1>3, <2>1, ResizeKeeps DEF Has
  <2>3. t.box = s.box /\ {"dirty", "at", "offset"} \cap Pointers = {}
    BY <2>2 DEF Only, Fields, Pointers
  <2>4. Boxed(t)
    BY <1>3, <2>3 DEF Sound, Boxed
  <2>5. Sound(t) /\ Grab(t) = Grab(s) /\ \A g : Reached(t, g) <=> Reached(s, g)
    BY <1>3, <2>2, <2>3, <2>4, SoundKept
  <2> QED BY <1>1, <1>2, <1>4, <2>3, <2>5, InOrderKept DEF InOrder
<1> QED BY <1>5, <1>6, <1>7, <1>8 DEF Taskbar

LEMMA ComboStep == ASSUME InOrder, Combo PROVE InOrder'
<1>1. PICK s : s = ui
  OBVIOUS
<1>2. PICK t : t = ui'
  OBVIOUS
<1>3. Sound(s) /\ Core(s) /\ Boxed(s)
  BY <1>1 DEF InOrder, Sound, Lights
<1>4. UNCHANGED <<held, typed, astray>>
  BY DEF Combo
<1>5. Itemised(s, t)
  <2>1. PICK ok \in BOOLEAN :
            \/ \E c \in Chars : t = AddItem(s, NewText(c))
            \/ \E i : t = SetSelectedIndex(s, i, ok)
            \/ t = ClearItems(s, ok)
            \/ \E i : t = RemoveItem(s, i)
    BY <1>1, <1>2 DEF Combo
  <2> QED BY <1>3, <2>1, ItemsKeep
<1>6. Core(t) /\ Boxed(t) /\ Only(s, t, ItemFields) /\ t.box["field"] = s.box["field"] /\ ItemFields \cap Pointers = {}
  BY <1>5 DEF Itemised, ItemFields, Pointers
<1>7. Sound(t) /\ Grab(t) = Grab(s) /\ \A g : Reached(t, g) <=> Reached(s, g)
  BY <1>3, <1>6, SoundKept
<1> QED BY <1>1, <1>2, <1>4, <1>6, <1>7, InOrderKept DEF InOrder

LEMMA InOrderStep == InOrder /\ [ControlsNext]_controls => InOrder'
<1> SUFFICES ASSUME InOrder, [ControlsNext]_controls PROVE InOrder'
  OBVIOUS
<1>1. CASE UNCHANGED controls
  BY <1>1 DEF InOrder, controls
<1> QED BY <1>1, MoveStep, PressStep, LiftOffStep, LiftOffLostStep, RightClickStep, KeyStep, TaskbarStep, ComboStep
        DEF ControlsNext

LEMMA InOrderAlways == ControlsSpec => []InOrder
  BY InOrderInit, InOrderStep, PTL DEF ControlsSpec

\* What a control has cached of its place is where it is, however its panels were
\* marked, moved, filled and emptied.
THEOREM PlacesCached == ControlsSpec => []BoundsFresh
<1>1. InOrder => BoundsFresh
  BY DEF InOrder, Sound, Lights, Core, Placed, Fresh, BoundsFresh
<1> QED BY <1>1, InOrderAlways, PTL

\* The box with the caret is the one its panel gives the keys to, and the button
\* drawn hovered is the one its panel tells when the mouse goes.
THEOREM PointersAgree == ControlsSpec => []RoutesAgree
<1>1. InOrder => RoutesAgree
  <2> SUFFICES ASSUME InOrder, NEW c \in All, ui.parent[c] # None
               PROVE  /\ c \in ui.focused <=> ui.focus[ui.parent[c]] = c
                      /\ c \in ui.lit => ui.hover[ui.parent[c]] = c
    BY DEF RoutesAgree
  <2> QED BY DEF InOrder, Sound, Lights, FocusBut
<1> QED BY <1>1, InOrderAlways, PTL

\* Whatever is pressed or dragged hears of the release of the left button, unless
\* a release was lost or the right button was let go while the left was held.
THEOREM ReleaseHeard == ControlsSpec => []HeldIsCaptured
<1>1. InOrder => HeldIsCaptured
  <2>1. Grabbed = Grab(ui)
    BY DEF Grabbed, Grab, SliderHeld
  <2> QED BY <2>1 DEF InOrder, HeldIsCaptured, Reached
<1> QED BY <1>1, InOrderAlways, PTL

\* The terminal's field shows what was typed into it, through every growth of its
\* buffer and every growth the heap refused.
THEOREM FieldShowsTyped == ControlsSpec => []TextIsTyped
<1>1. InOrder => TextIsTyped
  <2> SUFFICES ASSUME InOrder PROVE TextIsTyped
    OBVIOUS
  <2>1. BoxHolds(ui.box["field"], typed)
    BY DEF InOrder
  <2>2. ShownText(ui.box["field"]) = typed
    BY <2>1, ShownIsHeld
  <2> QED BY <2>1, <2>2 DEF TextIsTyped, BoxHolds
<1> QED BY <1>1, InOrderAlways, PTL

==============================================================================
