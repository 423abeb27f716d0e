--------------------------- MODULE InputPath_proofs ---------------------------
(***************************************************************************)
(* Input: from the keys to the main loop, and from the pointers to the     *)
(* driver.                                                                 *)
(*                                                                         *)
(* The main loop and the keyboard interrupt on one ring without a lock:    *)
(* as long as the interrupt pushed at none of the places where that breaks *)
(* what the loop is doing, every event that was accepted is queued or was  *)
(* taken out once, in order, for every capacity of the ring and every      *)
(* number of keys and reports.                                             *)
(*                                                                         *)
(* The USB driver and the controller on their rings: as long as no wait    *)
(* was given up, the driver takes for an answer what is the answer, hands  *)
(* every report on, and loses no pointer, for every number of ports, of    *)
(* faults and of reports, and for every size of the rings.                 *)
(***************************************************************************)
EXTENDS InputPath, Xhci, SequenceTheorems, FiniteSetTheorems, WellFoundedInduction, TLAPS

USE InputAssumption

(***************************************************************************)
(* A push and a pop are cut into statements, and between two of them the   *)
(* members of the queue do not agree with one another.  The invariant says *)
(* for every statement how far they are apart.                             *)
(***************************************************************************)

\* Written: the ring holds cur already, which count leaves out; Moved: the tail
\* counts it.  Removed: the head is already behind the event that is being
\* popped, which count still has.
Written == pc \in {"load_tail", "store_tail", "load_count", "store_count"}
Moved == pc \in {"load_count", "store_count"}
Removed == pc \in {"pop_load", "pop_store"}

Pushing == pc \in {"push_test", "push_append", "push_find", "push_insert", "load_tail",
                   "store_tail", "load_count", "store_count"}
Accepting == pc \in {"push_append", "push_find", "push_insert", "load_tail", "store_tail",
                "load_count", "store_count"}
Popping == pc \in {"pop_copy", "pop_head", "pop_load", "pop_store"}

\* What the ring holds, what it spans from head to tail, and what was taken out.
Held == IF Written THEN count + 1 ELSE IF Removed THEN count - 1 ELSE count
Span == IF Moved THEN count + 1 ELSE IF Removed THEN count - 1 ELSE count
Out == delivered \cup (IF Removed \/ pc = "dispatch" THEN {cur} ELSE {})

Event == {Input(t, n) : t \in Types, n \in Nat}

\* The i-th event from the head on, the first n of them, and their order.
Nth(i) == events[Q!Slot(i)]
First(n) == {Nth(i) : i \in 0 .. n - 1}
Sorted(n) == \A i, j \in 0 .. n - 1 : i < j => Before(Nth(i), Nth(j))

\* Place k among the first n is where findInsertIndex puts an event of this
\* priority, and where e still belongs when keys of its class came behind it.
FirstLower(n, k, p) ==
  \A i \in 0 .. n - 1 : IF i < k THEN Nth(i).priority >= p ELSE Nth(i).priority < p
Place(n, k, e) ==
  \A i \in 0 .. n - 1 :
     IF i < k THEN Nth(i).priority >= e.priority
     ELSE \/ Nth(i).priority < e.priority
          \/ Nth(i).priority = e.priority /\ Nth(i).type # e.type

RingTyped == /\ DOMAIN events = Q!Slots
             /\ head \in Q!Slots /\ tail \in Q!Slots
             /\ count \in 0 .. MaxEvents
             /\ Accepting => count < MaxEvents
             /\ Popping => count > 0

Shape == tail = Q!Slot(Span)

\* What the loop has loaded is still what is stored, and the place it has found
\* is still the right one.
Loaded == /\ pc = "push_append" => Place(count, count, cur)
          /\ pc \in {"push_find", "push_insert"} => cur.priority = Q!Order!High
          /\ pc = "push_insert" => \E k \in 0 .. count : reg = Q!Slot(k) /\ Place(count, k, cur)
          /\ pc = "store_tail" => reg = tail
          /\ pc \in {"store_count", "pop_store"} => reg = count
          /\ pc = "pop_head" => cur = Nth(0)

\* Where the accepted events are, and that nothing overtakes its like: the one
\* being pushed is in the ring before it counts as accepted, the one being
\* popped is nowhere but in cur.
Accounted == accepted \cup (IF Written THEN {cur} ELSE {}) = Out \cup First(Held)
InOrder == /\ Sorted(Held)
           /\ \A x \in First(Held) : Newer(x, Out)
           /\ Removed \/ pc = "dispatch" => Newer(cur, delivered)

\* The numbers drawn so far, and those of the events that are still to be posted:
\* the buttons of the report whose move is being posted, and the byte being read.
Known(x) == IF x.type \in {"key", "polled"}
            THEN x.timestamp <= keyByte /\ (keyFull => x.timestamp < keyByte)
            ELSE x.timestamp <= reports
Due == IF pc = "post_left" \/ (Pushing /\ cur.type = "move") THEN {"left", "right"}
       ELSE IF pc = "post_right" \/ (Pushing /\ cur.type = "left") THEN {"right"}
       ELSE {}
Numbered == /\ keyByte = keys /\ keys \in Nat /\ reports \in Nat
            /\ accepted \subseteq Event
            /\ \A x \in accepted : /\ Known(x)
                                   /\ x.type \in Due => x.timestamp < reports
                                   /\ pc = "poll_data" /\ x.type = "polled" => x.timestamp < keyByte
            /\ Pushing => cur \in Event /\ cur.type # "key" /\ Known(cur) /\ Newer(cur, accepted)

Uncut == RingTyped /\ Shape /\ Loaded /\ Accounted /\ InOrder /\ Numbered

IInv == cut \in BOOLEAN /\ (~cut => Uncut)

-----------------------------------------------------------------------------
(* A ring of N slots: the slot i places on from h, and the way back.       *)

LEMMA RingRound ==
  ASSUME NEW N \in Nat \ {0}, NEW d \in 0 .. N - 1
  PROVE  (d + N) % N = d
  OBVIOUS

LEMMA RingSlot ==
  ASSUME NEW N \in Nat \ {0}, NEW h \in 0 .. N - 1, NEW i \in 0 .. N
  PROVE  /\ (h + i) % N \in 0 .. N - 1
         /\ (h + i) % N = IF h + i < N THEN h + i ELSE h + i - N
<1>1. CASE h + i < N
  BY <1>1
<1>2. CASE h + i >= N
  <2>1. PICK d \in 0 .. N - 1 : h + i = d + N
    BY <1>2
  <2> QED BY <1>2, <2>1, RingRound
<1> QED BY <1>1, <1>2

\* The distance from slot a on to slot b.
LEMMA RingAhead ==
  ASSUME NEW N \in Nat \ {0}, NEW a \in 0 .. N - 1, NEW b \in 0 .. N - 1
  PROVE  (b - a + N) % N = IF b >= a THEN b - a ELSE b - a + N
<1>1. CASE b >= a
  <2>1. PICK d \in 0 .. N - 1 : d = b - a
    BY <1>1
  <2>2. (d + N) % N = d
    BY RingRound
  <2> QED BY <1>1, <2>1, <2>2
<1>2. CASE b < a
  <2>1. b - a + N \in 0 .. N - 1
    BY <1>2
  <2> QED BY <1>2, <2>1
<1> QED BY <1>1, <1>2

\* The slot before s.
LEMMA RingBefore ==
  ASSUME NEW N \in Nat \ {0}, NEW s \in 0 .. N - 1
  PROVE  (s + N - 1) % N = IF s = 0 THEN N - 1 ELSE s - 1
<1>1. CASE s = 0
  BY <1>1
<1>2. CASE s # 0
  <2>1. PICK d \in 0 .. N - 1 : d = s - 1
    BY <1>2
  <2>2. (d + N) % N = d /\ s + N - 1 = d + N
    BY <2>1, RingRound
  <2> QED BY <1>2, <2>1, <2>2
<1> QED BY <1>1, <1>2

\* A non-empty set of naturals has a least element.
LEMMA LeastNatural ==
  ASSUME NEW T \in SUBSET Nat, T # {}
  PROVE  \E x \in T : \A y \in T : x <= y
<1> DEFINE R == {p \in Nat \X Nat : p[1] < p[2]}
<1>1. IsWellFoundedOn(R, Nat)
  BY NatLessThanWellFounded DEF OpToRel
<1>2. PICK x \in T : \A y \in T : ~ (<<y, x>> \in R)
  <2> HIDE DEF R
  <2> QED BY <1>1, WFMin
<1>3. \A y \in T : ~ (y < x)
  BY <1>2
<1> QED BY <1>3

-----------------------------------------------------------------------------
(* The ring, seen from the head *)

LEMMA SlotValue ==
  ASSUME head \in Q!Slots, NEW i \in 0 .. MaxEvents
  PROVE  /\ Q!Slot(i) \in Q!Slots
         /\ Q!Slot(i) = IF head + i < MaxEvents THEN head + i ELSE head + i - MaxEvents
  BY RingSlot DEF Q!Slot, Q!Slots

\* Different positions lie in different slots.
LEMMA SlotInjective ==
  ASSUME head \in Q!Slots, NEW i \in 0 .. MaxEvents - 1, NEW j \in 0 .. MaxEvents - 1,
         Q!Slot(i) = Q!Slot(j)
  PROVE  i = j
  BY SlotValue DEF Q!Slots

\* How far the slot of position k lies on from that of position p.
LEMMA AheadValue ==
  ASSUME head \in Q!Slots, NEW p \in 0 .. MaxEvents - 1, NEW k \in 0 .. MaxEvents - 1
  PROVE  Q!Ahead(Q!Slot(p), Q!Slot(k)) = IF k >= p THEN k - p ELSE k - p + MaxEvents
<1>1. PICK a \in 0 .. MaxEvents - 1 : a = Q!Slot(p)
  BY SlotValue DEF Q!Slots
<1>2. PICK b \in 0 .. MaxEvents - 1 : b = Q!Slot(k)
  BY SlotValue DEF Q!Slots
<1>3. Q!Ahead(a, b) = IF b >= a THEN b - a ELSE b - a + MaxEvents
  BY RingAhead DEF Q!Ahead
<1> QED
  BY <1>1, <1>2, <1>3, SlotValue DEF Q!Slots

\* The slot before that of position k is that of the position before.
LEMMA PreviousSlot ==
  ASSUME head \in Q!Slots, NEW k \in 1 .. MaxEvents - 1
  PROVE  (Q!Slot(k) + MaxEvents - 1) % MaxEvents = Q!Slot(k - 1)
<1>1. PICK s \in 0 .. MaxEvents - 1 : s = Q!Slot(k)
  BY SlotValue DEF Q!Slots
<1>2. (s + MaxEvents - 1) % MaxEvents = IF s = 0 THEN MaxEvents - 1 ELSE s - 1
  BY RingBefore
<1>3. k - 1 \in 0 .. MaxEvents
  OBVIOUS
<1> QED
  BY <1>1, <1>2, <1>3, SlotValue DEF Q!Slots

\* The slot behind that of position i.
LEMMA NextSlot ==
  ASSUME head \in Q!Slots, NEW i \in 0 .. MaxEvents - 1
  PROVE  (Q!Slot(i) + 1) % MaxEvents = Q!Slot(i + 1)
<1>1. PICK s \in 0 .. MaxEvents - 1 : s = Q!Slot(i)
  BY SlotValue DEF Q!Slots
<1>2. (s + 1) % MaxEvents = IF s + 1 < MaxEvents THEN s + 1 ELSE s + 1 - MaxEvents
  BY RingSlot, 1 \in 0 .. MaxEvents
<1>3. i + 1 \in 0 .. MaxEvents
  OBVIOUS
<1> QED
  BY <1>1, <1>2, <1>3, SlotValue DEF Q!Slots

\* With the head one slot further, every position is one smaller.
LEMMA SlotFromNext ==
  ASSUME head \in Q!Slots, head' = (head + 1) % MaxEvents, NEW i \in 0 .. MaxEvents - 1
  PROVE  Q!Slot(i)' = Q!Slot(i + 1)
<1>1. head' = IF head + 1 < MaxEvents THEN head + 1 ELSE head + 1 - MaxEvents
  BY RingSlot, 1 \in 0 .. MaxEvents DEF Q!Slots
<1>2. PICK h \in 0 .. MaxEvents - 1 : h = head'
  BY <1>1 DEF Q!Slots
<1>3. (h + i) % MaxEvents = IF h + i < MaxEvents THEN h + i ELSE h + i - MaxEvents
  BY RingSlot
<1>4. Q!Slot(i)' = (h + i) % MaxEvents
  BY <1>2 DEF Q!Slot
<1>5. i + 1 \in 0 .. MaxEvents
  OBVIOUS
<1> QED
  BY <1>1, <1>2, <1>3, <1>4, <1>5, SlotValue DEF Q!Slots

-----------------------------------------------------------------------------
(* What a push stores *)

LEMMA EventFields ==
  ASSUME NEW x \in Event
  PROVE  /\ x.type \in Types /\ x.timestamp \in Nat
         /\ x.priority = IF x.type = "move" THEN 1 ELSE 2
  BY DEF Event, Input, Q!Order!Normal, Q!Order!High

\* Higher classes come first, so the priorities do not rise.
LEMMA SortedFalls ==
  ASSUME NEW n \in Nat, Sorted(n), First(n) \subseteq Event,
         NEW i \in 0 .. n - 1, NEW j \in 0 .. n - 1, i < j
  PROVE  Nth(i).priority >= Nth(j).priority
<1>1. Before(Nth(i), Nth(j)) /\ Nth(i) \in Event /\ Nth(j) \in Event
  BY DEF Sorted, First
<1> QED BY <1>1, EventFields DEF Before

\* The n events of the ring with e put at place k of them.
Inserts(n, k, e) == \A i \in 0 .. n : Nth(i)' = IF i < k THEN Nth(i)
                                               ELSE IF i = k THEN e ELSE Nth(i - 1)

LEMMA InsertEffect ==
  ASSUME head \in Q!Slots, head' = head, NEW n \in 0 .. MaxEvents - 1, tail = Q!Slot(n),
         NEW k \in 0 .. n, NEW e, events' = Q!InsertedAt(Q!Slot(k), e)
  PROVE  Inserts(n, k, e)
<1> SUFFICES ASSUME NEW i \in 0 .. n
             PROVE  Nth(i)' = IF i < k THEN Nth(i) ELSE IF i = k THEN e ELSE Nth(i - 1)
  BY DEF Inserts
<1>1. /\ i \in 0 .. MaxEvents - 1 /\ k \in 0 .. MaxEvents - 1 /\ n \in 0 .. MaxEvents - 1
      /\ Q!Slot(i) \in Q!Slots
  BY SlotValue
<1>2. Nth(i)' = events'[Q!Slot(i)]
  BY DEF Nth, Q!Slot
<1>3. Nth(i)' = IF Q!Slot(i) = Q!Slot(k) THEN e
                ELSE IF Q!Ahead(Q!Slot(k), Q!Slot(i)) <= Q!Ahead(Q!Slot(k), Q!Slot(n))
                     THEN events[(Q!Slot(i) + MaxEvents - 1) % MaxEvents]
                     ELSE Nth(i)
  BY <1>1, <1>2 DEF Q!InsertedAt, Nth
<1>4. Q!Slot(i) = Q!Slot(k) <=> i = k
  BY <1>1, SlotInjective
<1>5. Q!Ahead(Q!Slot(k), Q!Slot(i)) <= Q!Ahead(Q!Slot(k), Q!Slot(n)) <=> i >= k
  BY <1>1, AheadValue
<1>6. i > k => events[(Q!Slot(i) + MaxEvents - 1) % MaxEvents] = Nth(i - 1)
  BY <1>1, PreviousSlot DEF Nth
<1> QED BY <1>1, <1>3, <1>4, <1>5, <1>6

\* An event that is put among n others is there, and they still are.
LEMMA InsertedContents ==
  ASSUME NEW n \in Nat, NEW k \in 0 .. n, NEW e, Inserts(n, k, e)
  PROVE  First(n + 1)' = First(n) \cup {e}
<1>1. First(n + 1)' = {Nth(i)' : i \in 0 .. n}
  BY DEF First
<1>2. ASSUME NEW i \in 0 .. n PROVE Nth(i)' \in First(n) \cup {e}
  <2>1. CASE i < k
    BY <2>1, i \in 0 .. n - 1 DEF Inserts, First
  <2>2. CASE i = k
    BY <2>2 DEF Inserts
  <2>3. CASE i > k
    BY <2>3, i - 1 \in 0 .. n - 1 DEF Inserts, First
  <2> QED BY <2>1, <2>2, <2>3
<1>3. ASSUME NEW i \in 0 .. n - 1 PROVE Nth(i) \in First(n + 1)'
  <2>1. CASE i < k
    BY <1>1, <2>1, i \in 0 .. n DEF Inserts
  <2>2. CASE i >= k
    <3>1. i + 1 \in 0 .. n /\ (i + 1) - 1 = i /\ ~ (i + 1 < k) /\ i + 1 # k
      BY <2>2
    <3>2. Nth(i + 1)' = Nth(i)
      BY <3>1 DEF Inserts
    <3> QED BY <1>1, <3>1, <3>2
  <2> QED BY <2>1, <2>2
<1>4. e \in First(n + 1)'
  BY <1>1 DEF Inserts
<1> QED BY <1>1, <1>2, <1>3, <1>4 DEF First

\* Where e belongs among the n first: behind those of its class that it is
\* newer than.
LEMMA PlaceFits ==
  ASSUME NEW n \in Nat, NEW k \in 0 .. n, NEW e \in Event, First(n) \subseteq Event,
         Place(n, k, e), Newer(e, First(n)), NEW i \in 0 .. n - 1
  PROVE  IF i < k THEN Before(Nth(i), e) ELSE Before(e, Nth(i))
<1>1. Nth(i) \in First(n) /\ Nth(i) \in Event
  BY DEF First
<1> QED BY <1>1, EventFields DEF Place, Newer, Before

LEMMA InsertedSorted ==
  ASSUME NEW n \in Nat, NEW k \in 0 .. n, NEW e \in Event, Inserts(n, k, e),
         First(n) \subseteq Event, Sorted(n), Place(n, k, e), Newer(e, First(n))
  PROVE  Sorted(n + 1)'
<1> SUFFICES ASSUME NEW i \in 0 .. n, NEW j \in 0 .. n, i < j PROVE Before(Nth(i)', Nth(j)')
  BY DEF Sorted, Before
<1>1. CASE j < k
  <2>1. i \in 0 .. n - 1 /\ j \in 0 .. n - 1 /\ Nth(i)' = Nth(i) /\ Nth(j)' = Nth(j)
    BY <1>1 DEF Inserts
  <2> QED BY <2>1 DEF Sorted
<1>2. CASE j = k
  <2>1. i \in 0 .. n - 1 /\ Nth(i)' = Nth(i) /\ Nth(j)' = e
    BY <1>2 DEF Inserts
  <2> QED BY <1>2, <2>1, PlaceFits
<1>3. CASE j > k /\ i < k
  <2>1. i \in 0 .. n - 1 /\ j - 1 \in 0 .. n - 1 /\ i < j - 1
        /\ Nth(i)' = Nth(i) /\ Nth(j)' = Nth(j - 1)
    BY <1>3 DEF Inserts
  <2> QED BY <2>1 DEF Sorted
<1>4. CASE j > k /\ i = k
  <2>1. j - 1 \in 0 .. n - 1 /\ ~ (j - 1 < k) /\ Nth(i)' = e /\ Nth(j)' = Nth(j - 1)
    BY <1>4 DEF Inserts
  <2> QED BY <2>1, PlaceFits
<1>5. CASE j > k /\ i > k
  <2>1. i - 1 \in 0 .. n - 1 /\ j - 1 \in 0 .. n - 1 /\ i - 1 < j - 1
        /\ Nth(i)' = Nth(i - 1) /\ Nth(j)' = Nth(j - 1)
    BY <1>5 DEF Inserts
  <2> QED BY <2>1 DEF Sorted
<1> QED BY <1>1, <1>2, <1>3, <1>4, <1>5

\* findInsertIndex points to the first of lower priority among the n events
\* between head and tail, also when count still has the one that is being popped.
LEMMA FindPosition ==
  ASSUME head \in Q!Slots, count \in 0 .. MaxEvents, NEW n \in Nat, n \in {count, count - 1},
         tail = Q!Slot(n), Sorted(n), First(n) \subseteq Event, NEW p \in Int
  PROVE  \E k \in 0 .. n : Q!FindInsertIndex(p) = Q!Slot(k) /\ FirstLower(n, k, p)
<1> DEFINE lower == {i \in 0 .. count - 1 : Nth(i).priority < p}
<1>1. \A i \in 0 .. n - 1 : Nth(i) \in Event /\ Nth(i).priority \in Int /\ i \in 0 .. count - 1
  BY EventFields DEF First
<1>2. lower = {i \in 0 .. count - 1 : events[Q!Slot(i)].priority < p}
  BY DEF Nth
<1>3. CASE lower = {}
  <2>1. Q!FindInsertIndex(p) = Q!Slot(n)
    BY <1>2, <1>3 DEF Q!FindInsertIndex
  <2>2. FirstLower(n, n, p)
    BY <1>1, <1>3 DEF FirstLower
  <2> QED BY <2>1, <2>2
<1>4. CASE lower # {}
  <2> DEFINE k == CHOOSE i \in lower : \A j \in lower : i <= j
  <2>1. k \in lower /\ \A j \in lower : k <= j
    <3>1. lower \in SUBSET Nat
      OBVIOUS
    <3> HIDE DEF lower
    <3> QED BY <1>4, <3>1, LeastNatural
  <2>2. Q!FindInsertIndex(p) = Q!Slot(k)
    BY <1>2, <1>4 DEF Q!FindInsertIndex
  <2> HIDE DEF k
  <2>3. k \in 0 .. n /\ Nth(k).priority < p
    BY <2>1
  <2>4. ASSUME NEW i \in 0 .. n - 1, i < k PROVE Nth(i).priority >= p
    BY <1>1, <2>1, <2>3, <2>4
  <2>5. ASSUME NEW i \in 0 .. n - 1, ~ (i < k) PROVE Nth(i).priority < p
    <3>1. CASE i = k
      BY <2>3, <3>1
    <3>2. CASE i > k
      <4>1. Nth(k).priority >= Nth(i).priority
        BY <2>3, <3>2, k \in 0 .. n - 1, SortedFalls
      <4> QED BY <1>1, <2>3, <4>1, <3>2, k \in 0 .. n - 1
    <3> QED BY <2>3, <2>5, <3>1, <3>2
  <2> HIDE DEF lower
  <2> QED BY <2>2, <2>3, <2>4, <2>5 DEF FirstLower
<1> QED BY <1>3, <1>4

-----------------------------------------------------------------------------
(* The invariant is inductive *)

\* After a push the loop is outside of it.
LEMMA AfterPushValue ==
  ASSUME NEW e, e.type \in Types \ {"key"}
  PROVE  AfterPush(e) = CASE e.type = "move" -> "post_left"
                          [] e.type = "left" -> "post_right"
                          [] e.type = "right" -> "poll_key"
                          [] e.type = "polled" -> "pop_test"
  BY DEF AfterPush, Types, Buttons

LEMMA InputIsEvent ==
  ASSUME NEW t \in Types, NEW n \in Nat
  PROVE  Input(t, n) \in Event /\ Input(t, n).type = t /\ Input(t, n).timestamp = n
  BY DEF Event, Input

\* What is in the ring was accepted, but for the event that is being pushed.
LEMMA HeldAccepted ==
  ASSUME Uncut
  PROVE  /\ First(Held) \subseteq Event
         /\ ~ Written => Out \subseteq accepted /\ First(Held) \subseteq accepted
  BY DEF Uncut, Accounted, Numbered, Written, Pushing

LEMMA Initially == Init => IInv
<1> SUFFICES ASSUME Init PROVE IInv
  OBVIOUS
<1>1. cut = FALSE /\ pc = "poll_mouse"
  BY DEF Init
<1>2. RingTyped
  BY <1>1 DEF Init, RingTyped, Accepting, Popping, Q!Slots
<1>3. Shape
  BY <1>1, RingSlot DEF Init, Shape, Span, Moved, Removed, Q!Slot
<1>4. Loaded
  BY <1>1 DEF Loaded
<1>5. Held = 0 /\ Out = {} /\ ~ Written /\ ~ Removed /\ ~ Pushing
  BY <1>1 DEF Init, Held, Out, Written, Removed, Pushing
<1>6. Accounted /\ InOrder
  BY <1>1, <1>5 DEF Init, Accounted, InOrder, First, Sorted
<1>7. Numbered
  BY <1>1, <1>5 DEF Init, Numbered
<1> QED BY <1>1, <1>2, <1>3, <1>4, <1>6, <1>7 DEF IInv, Uncut

\* The statements that leave the queue alone.
Control == \/ MouseReport \/ NoMouseReport \/ PostButton \/ PollStatus \/ PollData
           \/ PushTest \/ PushFind \/ LoadTail \/ LoadCount
           \/ PopTest \/ PopCopy \/ PopLoad \/ Render \/ KeyTyped \/ TimerIrq
           \/ UNCHANGED vars

\* Where they lead to.
LEMMA ControlMoves ==
  ASSUME Uncut, Control
  PROVE  /\ UNCHANGED <<queue, accepted, delivered>>
         /\ Written' = Written /\ Moved' = Moved /\ Removed' = Removed
         /\ pc' = "dispatch" <=> pc = "dispatch"
         /\ Written \/ Removed \/ pc = "dispatch" => UNCHANGED cur
<1> USE DEF At, Goto, Written, Moved, Removed
<1>1. CASE PostButton
  <2>1. pc \in {"post_left", "post_right"} /\ UNCHANGED <<queue, accepted, delivered>>
    BY <1>1 DEF PostButton, PostOf, Buttons
  <2>2. pc' \in {"push_test", "post_right", "poll_key"}
    BY <1>1 DEF PostButton, Buttons, AfterPush, Input
  <2> QED BY <2>1, <2>2
<1>2. CASE PushTest
  <2>1. pc = "push_test" /\ UNCHANGED <<queue, cur, accepted, delivered>> /\ cur.type \in Types \ {"key"}
    BY <1>2, EventFields DEF PushTest, Uncut, Numbered, Pushing
  <2>2. pc' \in {"post_left", "post_right", "poll_key", "pop_test", "push_append", "push_find"}
    BY <1>2, <2>1, AfterPushValue DEF PushTest, Types, Buttons
  <2> QED BY <2>1, <2>2
<1>3. CASE ~ PostButton /\ ~ PushTest
  BY <1>3 DEF Control, MouseReport, NoMouseReport, PollStatus, PollData, PushFind, LoadTail,
              LoadCount, PopTest, PopCopy, PopLoad, Render, KeyTyped, TimerIrq, vars
<1> QED BY <1>1, <1>2, <1>3

LEMMA ControlOrder ==
  ASSUME Uncut, Control
  PROVE  Accounted' /\ InOrder' /\ Shape'
<1>1. /\ UNCHANGED <<events, head, tail, count, accepted, delivered>>
      /\ Written' = Written /\ Moved' = Moved /\ Removed' = Removed
      /\ pc' = "dispatch" <=> pc = "dispatch"
      /\ Written \/ Removed \/ pc = "dispatch" => UNCHANGED cur
  BY ControlMoves DEF queue
<1>2. Held' = Held /\ Span' = Span /\ Out' = Out
  BY <1>1 DEF Held, Span, Out
<1>3. \A n : Q!Slot(n)' = Q!Slot(n) /\ First(n)' = First(n) /\ Sorted(n)' = Sorted(n)
  BY <1>1 DEF Q!Slot, Nth, First, Sorted, Before
<1>4. Shape'
  BY <1>1, <1>2, <1>3 DEF Uncut, Shape
<1>5. Accounted'
  BY <1>1, <1>2, <1>3 DEF Uncut, Accounted
<1>6. InOrder'
  BY <1>1, <1>2, <1>3 DEF Uncut, InOrder, Newer
<1> QED BY <1>4, <1>5, <1>6

LEMMA ControlLoaded ==
  ASSUME Uncut, Control
  PROVE  RingTyped' /\ Loaded'
<1> USE DEF At, Goto
<1>1. UNCHANGED <<events, head, tail, count>>
  BY ControlMoves DEF queue
<1>2. /\ \A i : Q!Slot(i)' = Q!Slot(i) /\ Nth(i)' = Nth(i)
      /\ cur' = cur => \A n, k : Place(n, k, cur)' = Place(n, k, cur)
  BY <1>1 DEF Q!Slot, Nth, Place
<1>3. RingTyped /\ Shape /\ Loaded /\ (Pushing => cur \in Event /\ cur.type # "key")
  BY DEF Uncut, Numbered
<1>4. CASE \/ MouseReport \/ NoMouseReport \/ PostButton \/ PollStatus \/ PollData \/ Render
           \/ KeyTyped \/ TimerIrq \/ UNCHANGED vars
  <2>1. \/ pc' \in {"poll_key", "push_test", "post_left", "post_right", "poll_data", "pop_test",
                    "halt", "poll_mouse"}
        \/ UNCHANGED <<pc, cur, reg>>
    BY <1>4 DEF MouseReport, NoMouseReport, PostButton, PollStatus, PollData, Render, KeyTyped,
                TimerIrq, vars, AfterPush, Input, Buttons, PostOf
  <2>2. CASE pc' \in {"poll_key", "push_test", "post_left", "post_right", "poll_data", "pop_test",
                      "halt", "poll_mouse"}
    BY <1>1, <1>3, <2>2 DEF RingTyped, Loaded, Accepting, Popping, Q!Slots
  <2>3. CASE UNCHANGED <<pc, cur, reg>>
    BY <1>1, <1>2, <1>3, <2>3 DEF RingTyped, Loaded, Accepting, Popping, Q!Slots
  <2> QED BY <2>1, <2>2, <2>3
<1>5. CASE PushTest
  <2>1. pc = "push_test" /\ UNCHANGED <<cur, reg>> /\ cur \in Event /\ cur.type # "key"
    BY <1>3, <1>5 DEF PushTest, Pushing
  <2>2. CASE count >= MaxEvents
    <3>1. pc' \in {"post_left", "post_right", "poll_key", "pop_test"}
      BY <1>5, <2>1, <2>2, EventFields, AfterPushValue DEF PushTest, Types, Buttons
    <3> QED BY <1>1, <1>3, <3>1 DEF RingTyped, Loaded, Accepting, Popping, Q!Slots
  <2>3. CASE ~ (count >= MaxEvents)
    <3>1. pc' = IF count = 0 \/ cur.priority <= 1 THEN "push_append" ELSE "push_find"
      BY <1>5, <2>3 DEF PushTest, Q!Order!Normal
    <3>2. RingTyped'
      BY <1>1, <1>3, <2>3, <3>1 DEF RingTyped, Accepting, Popping, Q!Slots
    <3>3. pc' = "push_find" => cur.priority = 2
      BY <2>1, <3>1, EventFields
    <3>4. pc' = "push_append" => Place(count, count, cur)
      <4>1. First(count) \subseteq Event
        BY <2>1, HeldAccepted DEF Held, Written, Removed
      <4> QED BY <1>3, <2>1, <3>1, <4>1, EventFields DEF Place, First, RingTyped
    <3>5. Loaded'
      BY <1>1, <1>2, <2>1, <3>1, <3>3, <3>4 DEF Loaded, Q!Order!High
    <3> QED BY <3>2, <3>5
  <2> QED BY <2>2, <2>3
<1>6. CASE PushFind
  <2>1. /\ pc = "push_find" /\ pc' = "push_insert" /\ UNCHANGED cur
        /\ reg' = Q!FindInsertIndex(cur.priority) /\ cur \in Event /\ cur.priority = 2
    BY <1>3, <1>6 DEF PushFind, Pushing, Loaded, Q!Order!High
  <2>2. /\ head \in Q!Slots /\ count \in 0 .. MaxEvents /\ tail = Q!Slot(count)
        /\ Held = count /\ ~ Written
    BY <1>3, <2>1 DEF RingTyped, Shape, Span, Held, Written, Moved, Removed
  <2>3. PICK k \in 0 .. count : Q!FindInsertIndex(2) = Q!Slot(k) /\ FirstLower(count, k, 2)
    BY <2>2, HeldAccepted, FindPosition DEF Uncut, InOrder
  <2>4. Place(count, k, cur)
    BY <2>1, <2>3 DEF FirstLower, Place
  <2>5. Loaded'
    BY <1>1, <1>2, <2>1, <2>3, <2>4 DEF Loaded, Q!Order!High
  <2>6. RingTyped'
    BY <1>1, <1>3, <2>1 DEF RingTyped, Accepting, Popping, Q!Slots
  <2> QED BY <2>5, <2>6
<1>7. CASE LoadTail \/ LoadCount
  BY <1>1, <1>2, <1>3, <1>7 DEF LoadTail, LoadCount, RingTyped, Loaded, Accepting, Popping, Q!Slots
<1>8. CASE PopTest
  BY <1>1, <1>2, <1>3, <1>8 DEF PopTest, RingTyped, Loaded, Accepting, Popping, Q!Slots
<1>9. CASE PopCopy
  <2>1. Nth(0) = events[head]
    BY <1>3, SlotValue DEF RingTyped, Nth, Q!Slots
  <2> QED
    BY <1>1, <1>2, <1>3, <1>9, <2>1 DEF PopCopy, RingTyped, Loaded, Accepting, Popping, Q!Slots
<1>10. CASE PopLoad
  BY <1>1, <1>2, <1>3, <1>10 DEF PopLoad, RingTyped, Loaded, Accepting, Popping, Q!Slots
<1> QED BY <1>4, <1>5, <1>6, <1>7, <1>8, <1>9, <1>10 DEF Control

\* No two events of a type get one number, whatever becomes of them.
LEMMA NumberedStep ==
  ASSUME Uncut, MainLoop \/ KeyTyped \/ TimerIrq \/ UNCHANGED vars
  PROVE  Numbered'
<1> USE DEF At, Goto
<1>1. /\ keyByte = keys /\ keys \in Nat /\ reports \in Nat /\ accepted \subseteq Event
      /\ \A x \in accepted : /\ Known(x)
                             /\ x.type \in Due => x.timestamp < reports
                             /\ pc = "poll_data" /\ x.type = "polled" => x.timestamp < keyByte
      /\ Pushing => cur \in Event /\ cur.type # "key" /\ Known(cur) /\ Newer(cur, accepted)
  BY DEF Uncut, Numbered
<1>2. ASSUME NEW x \in accepted PROVE x.timestamp \in Nat /\ x.type \in Types
  BY <1>1, EventFields
\* Statements that draw no number and accept nothing.
<1>3. ASSUME UNCHANGED <<keyByte, keyFull, keys, reports, accepted>>, pc' # "poll_data",
             Pushing' => Pushing /\ UNCHANGED cur, Due' \subseteq Due
      PROVE  Numbered'
  <2>1. \A x : Known(x)' = Known(x)
    BY <1>3 DEF Known
  <2> QED BY <1>1, <1>3, <2>1 DEF Numbered, Newer
<1>4. CASE MouseReport
  <2>1. /\ pc = "poll_mouse" /\ pc' = "push_test" /\ reports' = reports + 1
        /\ cur' = Input("move", reports + 1) /\ UNCHANGED <<keyByte, keyFull, keys, accepted>>
    BY <1>4 DEF MouseReport
  <2>2. cur' \in Event /\ cur'.type = "move" /\ cur'.timestamp = reports + 1
    BY <1>1, <2>1, InputIsEvent DEF Types
  <2>3. ASSUME NEW x \in accepted
        PROVE  Known(x)' /\ (x.type \notin {"key", "polled"} => x.timestamp < reports')
    BY <1>1, <1>2, <2>1 DEF Known
  <2>4. Due' = {"left", "right"}
    BY <2>1, <2>2 DEF Due, Pushing
  <2>5. Known(cur)' /\ Newer(cur, accepted)'
    BY <2>1, <2>2, <2>3 DEF Known, Newer
  <2> QED BY <1>1, <2>1, <2>2, <2>3, <2>4, <2>5 DEF Numbered
<1>5. CASE PostButton
  <2>1. PICK b \in Buttons :
          /\ pc = PostOf[b]
          /\ \/ pc' = "push_test" /\ cur' = Input(b, reports)
             \/ pc' = AfterPush(Input(b, reports)) /\ UNCHANGED cur
    BY <1>5 DEF PostButton
  <2>2. UNCHANGED <<keyByte, keyFull, keys, reports, accepted>>
    BY <1>5 DEF PostButton, device
  <2>3. /\ pc = IF b = "left" THEN "post_left" ELSE "post_right"
        /\ b \in Due /\ (b = "left" => Due = {"left", "right"})
    BY <2>1 DEF Buttons, PostOf, Due, Pushing
  <2>4. Input(b, reports) \in Event /\ Input(b, reports).type = b /\ Input(b, reports).timestamp = reports
    BY <1>1, InputIsEvent DEF Types
  <2>5. CASE pc' = "push_test" /\ cur' = Input(b, reports)
    <3>1. Due' \subseteq Due
      BY <2>3, <2>4, <2>5 DEF Due, Pushing, Buttons
    <3>2. \A x : Known(x)' = Known(x)
      BY <2>2 DEF Known
    <3>3. Known(cur') /\ Newer(cur', accepted) /\ cur'.type # "key"
      BY <1>1, <2>3, <2>4, <2>5 DEF Known, Newer, Buttons
    <3>4. Known(cur)' /\ Newer(cur, accepted)'
      BY <2>2, <3>2, <3>3 DEF Newer, Known
    <3> QED BY <1>1, <2>2, <2>4, <2>5, <3>1, <3>2, <3>3, <3>4 DEF Numbered
  <2>6. CASE pc' = AfterPush(Input(b, reports)) /\ UNCHANGED cur
    <3>1. pc' = IF b = "left" THEN "post_right" ELSE "poll_key"
      BY <2>4, <2>6, AfterPushValue DEF Types, Buttons
    <3>2. Due' \subseteq Due /\ ~ Pushing'
      BY <2>3, <3>1 DEF Due, Pushing
    <3> QED BY <1>3, <2>2, <2>6, <3>1, <3>2
  <2> QED BY <2>1, <2>5, <2>6
<1>6. CASE PollStatus
  <2>1. /\ pc = "poll_key" /\ pc' = (IF keyFull THEN "poll_data" ELSE "pop_test")
        /\ UNCHANGED <<keyByte, keyFull, keys, reports, accepted>>
    BY <1>6 DEF PollStatus, device
  <2>2. Due' = {} /\ ~ Pushing'
    BY <2>1 DEF Due, Pushing
  <2> QED BY <1>1, <2>1, <2>2 DEF Numbered, Known
<1>7. CASE PollData
  <2>1. /\ pc = "poll_data" /\ pc' = "push_test" /\ keyFull' = FALSE
        /\ cur' = Input("polled", keyByte) /\ UNCHANGED <<keyByte, keys, reports, accepted>>
    BY <1>7 DEF PollData
  <2>2. cur' \in Event /\ cur'.type = "polled" /\ cur'.timestamp = keyByte
    BY <1>1, <2>1, InputIsEvent DEF Types
  <2>3. Due' = {}
    BY <2>1, <2>2 DEF Due
  <2>4. Newer(cur, accepted)' /\ Known(cur)' /\ \A x \in accepted : Known(x)'
    BY <1>1, <2>1, <2>2 DEF Newer, Known
  <2> QED BY <1>1, <2>1, <2>2, <2>3, <2>4 DEF Numbered
<1>8. CASE PushTest
  <2>1. /\ pc = "push_test" /\ Pushing
        /\ UNCHANGED <<cur, keyByte, keyFull, keys, reports, accepted>>
    BY <1>8 DEF PushTest, device, Pushing
  <2>2. \/ pc' = AfterPush(cur)
        \/ pc' \in {"push_append", "push_find"}
    BY <1>8 DEF PushTest
  <2>3. pc' # "poll_data" /\ Due' \subseteq Due
    BY <1>1, <2>1, <2>2, EventFields, AfterPushValue DEF Due, Pushing, Types, Buttons
  <2> QED BY <1>3, <2>1, <2>3
<1>9. CASE StoreCount
  <2>1. /\ pc = "store_count" /\ pc' = AfterPush(cur) /\ accepted' = accepted \cup {cur} /\ Pushing
        /\ UNCHANGED <<cur, keyByte, keyFull, keys, reports>>
    BY <1>9 DEF StoreCount, device, Pushing
  <2>2. ~ Pushing' /\ pc' # "poll_data" /\ Due' \subseteq Due /\ cur.type \notin Due'
    BY <1>1, <2>1, EventFields, AfterPushValue DEF Due, Pushing, Types, Buttons
  <2>3. \A x : Known(x)' = Known(x)
    BY <2>1 DEF Known
  <2> QED BY <1>1, <2>1, <2>2, <2>3 DEF Numbered
<1>10. CASE KeyTyped
  <2>1. /\ keyFull = FALSE /\ keyFull' = TRUE /\ keyByte' = keys + 1 /\ keys' = keys + 1
        /\ UNCHANGED <<pc, cur, reports, accepted>>
    BY <1>10 DEF KeyTyped
  <2>2. ASSUME NEW x, x \in accepted \/ (Pushing /\ x = cur) PROVE Known(x)'
    <3>1. x \in Event /\ Known(x)
      BY <1>1, <2>2
    <3> QED BY <1>1, <2>1, <3>1, EventFields DEF Known
  <2>3. Due' = Due /\ Pushing' = Pushing
    BY <2>1 DEF Due, Pushing
  <2>4. \A x \in accepted : /\ x.type \in Due' => x.timestamp < reports'
                            /\ pc' = "poll_data" /\ x.type = "polled" => x.timestamp < keyByte'
    BY <1>1, <1>2, <2>1, <2>3
  <2>5. Newer(cur, accepted)' = Newer(cur, accepted)
    BY <2>1 DEF Newer
  <2> QED BY <1>1, <2>1, <2>2, <2>3, <2>4, <2>5 DEF Numbered
<1>11. CASE \/ PushFind \/ PushInsert \/ PushAppend \/ LoadTail \/ StoreTail \/ LoadCount
            \/ UNCHANGED vars
  <2>1. /\ UNCHANGED <<cur, keyByte, keyFull, keys, reports, accepted>>
        /\ \/ UNCHANGED pc
           \/ Pushing /\ pc' \in {"push_insert", "load_tail", "store_tail", "load_count", "store_count"}
    BY <1>11 DEF PushFind, PushInsert, PushAppend, LoadTail, StoreTail, LoadCount, device, Pushing, vars
  <2>2. CASE UNCHANGED pc
    BY <1>1, <2>1, <2>2 DEF Numbered, Known, Newer, Due, Pushing
  <2>3. CASE Pushing /\ pc' \in {"push_insert", "load_tail", "store_tail", "load_count", "store_count"}
    <3>1. Due' \subseteq Due
      BY <2>1, <2>3 DEF Due, Pushing
    <3> QED BY <1>3, <2>1, <2>3, <3>1
  <2> QED BY <2>1, <2>2, <2>3
<1>12. CASE \/ NoMouseReport \/ PopTest \/ PopCopy \/ PopHead \/ PopLoad \/ PopStore \/ Dispatch
            \/ Render \/ TimerIrq
  <2>1. /\ UNCHANGED <<keyByte, keyFull, keys, reports, accepted>>
        /\ pc' \in {"poll_key", "render", "pop_copy", "pop_head", "pop_load", "pop_store", "dispatch",
                    "pop_test", "halt", "poll_mouse"}
    BY <1>12 DEF NoMouseReport, PopTest, PopCopy, PopHead, PopLoad, PopStore, Dispatch, Render,
                 TimerIrq, device
  <2>2. Due' = {} /\ ~ Pushing' /\ pc' # "poll_data"
    BY <2>1 DEF Due, Pushing
  <2> QED BY <1>3, <2>1, <2>2
<1> QED BY <1>4, <1>5, <1>6, <1>7, <1>8, <1>9, <1>10, <1>11, <1>12 DEF MainLoop

\* Adding the event behind the last one of the ring, or at the place found for it.
LEMMA StoreStep ==
  ASSUME Uncut, PushInsert \/ PushAppend
  PROVE  RingTyped' /\ Shape' /\ Loaded' /\ Accounted' /\ InOrder'
<1>1. /\ pc \in {"push_insert", "push_append"} /\ pc' = "load_tail"
      /\ UNCHANGED <<head, tail, count, cur, accepted, delivered>>
  BY DEF PushInsert, PushAppend, At, Goto
<1>2. /\ head \in Q!Slots /\ tail \in Q!Slots /\ count \in 0 .. MaxEvents - 1
      /\ DOMAIN events = Q!Slots /\ tail = Q!Slot(count) /\ ~ Written
      /\ cur \in Event /\ Newer(cur, accepted)
      /\ Held = count /\ Out = delivered /\ Out' = Out /\ Held' = count + 1 /\ Written'
      /\ ~ Removed' /\ pc' # "dispatch"
  BY <1>1 DEF Uncut, RingTyped, Shape, Numbered, Accepting, Popping, Span, Moved, Removed,
              Pushing, Written, Held, Out
<1>3. PICK k \in 0 .. count : Inserts(count, k, cur) /\ Place(count, k, cur) /\ DOMAIN events' = Q!Slots
  <2>1. CASE PushInsert
    <3>1. PICK k \in 0 .. count : reg = Q!Slot(k) /\ Place(count, k, cur)
      BY <2>1 DEF PushInsert, At, Uncut, Loaded
    <3>2. events' = Q!InsertedAt(Q!Slot(k), cur)
      BY <2>1, <3>1 DEF PushInsert
    <3>3. Inserts(count, k, cur)
      BY <1>1, <1>2, <3>2, InsertEffect
    <3> QED BY <3>1, <3>2, <3>3 DEF Q!InsertedAt
  <2>2. CASE PushAppend
    <3>1. Place(count, count, cur)
      BY <2>2 DEF PushAppend, At, Uncut, Loaded
    <3>2. events' = [events EXCEPT ![Q!Slot(count)] = cur]
      BY <1>2, <2>2 DEF PushAppend
    <3>3. ASSUME NEW i \in 0 .. count PROVE Nth(i)' = IF i < count THEN Nth(i) ELSE cur
      <4>1. i \in 0 .. MaxEvents - 1 /\ count \in 0 .. MaxEvents - 1 /\ Q!Slot(i) \in Q!Slots
        BY <1>2, SlotValue
      <4>2. Nth(i)' = events'[Q!Slot(i)]
        BY <1>1 DEF Nth, Q!Slot
      <4>3. i < count => Q!Slot(i) # Q!Slot(count)
        BY <1>2, <4>1, SlotInjective
      <4> QED BY <1>2, <3>2, <4>1, <4>2, <4>3 DEF Nth
    <3>4. Inserts(count, count, cur)
      BY <1>2, <3>3 DEF Inserts
    <3> QED BY <1>2, <3>1, <3>2, <3>4
  <2> QED BY <2>1, <2>2
<1>4. First(count) \subseteq Event /\ First(count) \subseteq accepted /\ Out \subseteq accepted
  BY <1>2, HeldAccepted
<1>5. First(count + 1)' = First(count) \cup {cur}
  BY <1>1, <1>2, <1>3, InsertedContents
<1>6. Sorted(count + 1)'
  <2>1. Newer(cur, First(count)) /\ Sorted(count)
    BY <1>2, <1>4 DEF Newer, Uncut, InOrder
  <2> QED BY <1>1, <1>2, <1>3, <1>4, <2>1, InsertedSorted
<1>7. RingTyped'
  BY <1>1, <1>2, <1>3 DEF RingTyped, Accepting, Popping, Q!Slots
<1>8. Shape'
  BY <1>1, <1>2 DEF Shape, Span, Moved, Removed, Q!Slot
<1>9. Loaded'
  BY <1>1 DEF Loaded
<1>10. Accounted'
  BY <1>1, <1>2, <1>5 DEF Uncut, Accounted
<1>11. InOrder'
  <2>1. \A x \in First(count) \cup {cur} : Newer(x, Out)
    BY <1>2, <1>4 DEF Uncut, InOrder, Newer
  <2> QED BY <1>1, <1>2, <1>5, <1>6, <2>1 DEF InOrder, Newer
<1> QED BY <1>7, <1>8, <1>9, <1>10, <1>11

\* The tail, then the count, catch up with what was stored.
LEMMA TailStep ==
  ASSUME Uncut, StoreTail \/ StoreCount
  PROVE  RingTyped' /\ Shape' /\ Loaded' /\ Accounted' /\ InOrder'
<1>1. \A n : Q!Slot(n)' = Q!Slot(n) /\ First(n)' = First(n) /\ Sorted(n)' = Sorted(n)
  BY DEF StoreTail, StoreCount, Q!Slot, Nth, First, Sorted, Before
<1>2. RingTyped /\ Shape /\ Loaded /\ Accounted /\ InOrder
  BY DEF Uncut
<1>3. CASE StoreTail
  <2>1. /\ pc = "store_tail" /\ pc' = "load_count" /\ tail' = (tail + 1) % MaxEvents
        /\ UNCHANGED <<events, head, count, cur, accepted, delivered>>
    BY <1>2, <1>3 DEF StoreTail, At, Goto, Loaded
  <2>2. tail' = Q!Slot(count + 1) /\ tail' \in Q!Slots
    <3>1. count \in 0 .. MaxEvents - 1 /\ count + 1 \in 0 .. MaxEvents /\ tail = Q!Slot(count)
          /\ head \in Q!Slots
      BY <1>2, <2>1 DEF RingTyped, Accepting, Shape, Span, Moved, Removed
    <3> QED BY <2>1, <3>1, NextSlot, SlotValue
  <2>3. RingTyped' /\ Shape' /\ Loaded'
    BY <1>1, <1>2, <2>1, <2>2
       DEF RingTyped, Shape, Loaded, Accepting, Popping, Span, Moved, Q!Slots
  <2>4. Held' = Held /\ Out' = Out /\ Written' = Written /\ Removed' = Removed /\ pc' # "dispatch"
        /\ ~ Removed
    BY <2>1 DEF Held, Out, Written, Removed
  <2> QED BY <1>1, <1>2, <2>1, <2>3, <2>4 DEF Accounted, InOrder, Newer
<1>4. CASE StoreCount
  <2>1. /\ pc = "store_count" /\ pc' = AfterPush(cur) /\ count' = count + 1
        /\ accepted' = accepted \cup {cur}
        /\ UNCHANGED <<events, head, tail, cur, delivered>>
    BY <1>2, <1>4 DEF StoreCount, At, Goto, Loaded
  <2>2. pc' \in {"post_left", "post_right", "poll_key", "pop_test"}
    <3>1. cur \in Event /\ cur.type # "key"
      BY <2>1 DEF Uncut, Numbered, Pushing
    <3> QED BY <2>1, <3>1, EventFields, AfterPushValue DEF Types, Buttons
  <2>3. /\ Held = count + 1 /\ Held' = count + 1 /\ Written /\ ~ Written' /\ ~ Removed /\ ~ Removed'
        /\ Out' = Out /\ Span = count + 1 /\ Span' = count + 1 /\ pc' # "dispatch" /\ pc # "dispatch"
    BY <2>1, <2>2 DEF Held, Out, Span, Written, Moved, Removed
  <2>4. RingTyped' /\ Shape' /\ Loaded'
    BY <1>1, <1>2, <2>1, <2>2, <2>3 DEF RingTyped, Shape, Loaded, Accepting, Popping, Q!Slots
  <2>5. Accounted' /\ InOrder'
    BY <1>1, <1>2, <2>1, <2>3 DEF Accounted, InOrder, Newer
  <2> QED BY <2>4, <2>5
<1> QED BY <1>3, <1>4

\* The head moves behind the event that was copied; the count follows.
LEMMA HeadStep ==
  ASSUME Uncut, PopHead \/ PopStore
  PROVE  RingTyped' /\ Shape' /\ Loaded' /\ Accounted' /\ InOrder'
<1>1. RingTyped /\ Shape /\ Loaded /\ Accounted /\ InOrder
  BY DEF Uncut
<1>2. CASE PopHead
  <2>1. /\ pc = "pop_head" /\ pc' = "pop_load" /\ head' = (head + 1) % MaxEvents
        /\ UNCHANGED <<events, tail, count, cur, reg, accepted, delivered>>
    BY <1>2 DEF PopHead, At, Goto
  <2>2. /\ count \in 1 .. MaxEvents /\ head \in Q!Slots /\ cur = Nth(0)
        /\ tail = Q!Slot(count) /\ Held = count /\ Out = delivered /\ Out' = delivered \cup {cur}
        /\ ~ Written /\ ~ Written' /\ ~ Removed
    BY <1>1, <2>1 DEF RingTyped, Shape, Loaded, Popping, Span, Held, Out, Written, Moved, Removed
  <2>3. head' \in Q!Slots
    BY <2>1, <2>2, RingSlot, 1 \in 0 .. MaxEvents DEF Q!Slots
  <2>4. PICK n \in Nat : n = count - 1
    BY <2>2
  <2>5. Held' = n
    BY <2>1, <2>4 DEF Held, Written, Removed
  <2>6. ASSUME NEW i \in 0 .. n PROVE Q!Slot(i)' = Q!Slot(i + 1) /\ Nth(i)' = Nth(i + 1)
    BY <2>1, <2>2, <2>4, SlotFromNext, i \in 0 .. MaxEvents - 1 DEF Nth
  <2>7. tail' = Q!Slot(count - 1)'
    <3>1. n + 1 = count /\ count' - 1 = n
      BY <2>1, <2>2, <2>4
    <3>2. Q!Slot(count - 1)' = Q!Slot(n)'
      BY <3>1 DEF Q!Slot
    <3> QED BY <2>1, <2>2, <2>6, <3>1, <3>2
  <2>8. First(n)' = {Nth(i + 1) : i \in 0 .. n - 1}
    <3>1. First(n)' = {Nth(i)' : i \in 0 .. n - 1}
      BY DEF First
    <3>2. ASSUME NEW i \in 0 .. n - 1 PROVE Nth(i)' = Nth(i + 1)
      BY <2>6
    <3> QED BY <3>1, <3>2
  <2>9. First(count) = {Nth(0)} \cup First(n)'
    <3>1. ASSUME NEW i \in 0 .. count - 1 PROVE Nth(i) \in {Nth(0)} \cup First(n)'
      <4>1. CASE i = 0
        BY <4>1
      <4>2. CASE i # 0
        <5>1. i - 1 \in 0 .. n - 1 /\ (i - 1) + 1 = i
          BY <2>4, <4>2
        <5> QED BY <2>8, <5>1
      <4> QED BY <4>1, <4>2
    <3>2. ASSUME NEW i \in 0 .. n - 1 PROVE Nth(i + 1) \in First(count)
      BY <2>4, i + 1 \in 0 .. count - 1 DEF First
    <3>3. Nth(0) \in First(count)
      BY <2>2 DEF First
    <3> QED BY <2>8, <3>1, <3>2, <3>3 DEF First
  <2>10. RingTyped' /\ Shape' /\ Loaded'
    <3>1. Shape'
      BY <2>1, <2>7 DEF Shape, Span, Moved, Removed
    <3> QED BY <1>1, <2>1, <2>2, <2>3, <3>1 DEF RingTyped, Loaded, Accepting, Popping, Q!Slots
  <2>11. Accounted'
    BY <1>1, <2>1, <2>2, <2>5, <2>9 DEF Accounted, First
  <2>12. Sorted(n)'
    <3> SUFFICES ASSUME NEW i \in 0 .. n - 1, NEW j \in 0 .. n - 1, i < j
                 PROVE  Before(Nth(i)', Nth(j)')
      BY DEF Sorted, Before
    <3>1. i + 1 \in 0 .. count - 1 /\ j + 1 \in 0 .. count - 1 /\ i + 1 < j + 1
          /\ Nth(i)' = Nth(i + 1) /\ Nth(j)' = Nth(j + 1)
      BY <2>4, <2>6
    <3> QED BY <1>1, <2>2, <3>1 DEF InOrder, Sorted
  <2>13. ASSUME NEW x \in First(n)' PROVE Newer(x, delivered \cup {cur})
    <3>1. PICK i \in 0 .. n - 1 : x = Nth(i + 1)
      BY <2>8
    <3>2. 0 \in 0 .. count - 1 /\ i + 1 \in 0 .. count - 1
      BY <2>4
    <3>3. x \in First(count) /\ x \in Event /\ Nth(0) \in Event
      BY <2>2, <2>9, HeldAccepted
    <3>4. Before(Nth(0), x)
      BY <1>1, <2>2, <3>1, <3>2 DEF InOrder, Sorted
    <3>5. Newer(x, {cur})
      BY <2>2, <3>3, <3>4, EventFields DEF Before, Newer
    <3> QED BY <1>1, <2>2, <3>3, <3>5 DEF InOrder, Newer
  <2>14. Newer(cur, delivered)
    BY <1>1, <2>2, <2>9 DEF InOrder
  <2>15. InOrder'
    BY <2>1, <2>2, <2>5, <2>12, <2>13, <2>14 DEF InOrder, Newer, First, Sorted
  <2> QED BY <2>10, <2>11, <2>15
<1>3. CASE PopStore
  <2>1. /\ pc = "pop_store" /\ pc' = "dispatch" /\ count' = count - 1
        /\ UNCHANGED <<events, head, tail, cur, reg, accepted, delivered>>
    BY <1>1, <1>3 DEF PopStore, At, Goto, Loaded
  <2>2. \A n : Q!Slot(n)' = Q!Slot(n) /\ First(n)' = First(n) /\ Sorted(n)' = Sorted(n)
    BY <2>1 DEF Q!Slot, Nth, First, Sorted, Before
  <2>3. Held' = Held /\ Out' = Out /\ Span' = Span /\ ~ Written /\ ~ Written' /\ Removed /\ ~ Removed'
    BY <2>1 DEF Held, Out, Span, Written, Moved, Removed
  <2>4. RingTyped' /\ Shape' /\ Loaded'
    BY <1>1, <2>1, <2>2, <2>3 DEF RingTyped, Shape, Loaded, Accepting, Popping, Q!Slots
  <2>5. Accounted' /\ InOrder'
    BY <1>1, <2>1, <2>2, <2>3 DEF Accounted, InOrder, Newer
  <2> QED BY <2>4, <2>5
<1> QED BY <1>2, <1>3

LEMMA DispatchStep ==
  ASSUME Uncut, Dispatch
  PROVE  RingTyped' /\ Shape' /\ Loaded' /\ Accounted' /\ InOrder'
<1>1. /\ pc = "dispatch" /\ pc' = "pop_test" /\ delivered' = delivered \cup {cur}
      /\ UNCHANGED <<events, head, tail, count, cur, accepted>>
  BY DEF Dispatch, At, Goto, queue
<1>2. \A n : Q!Slot(n)' = Q!Slot(n) /\ First(n)' = First(n) /\ Sorted(n)' = Sorted(n)
  BY <1>1 DEF Q!Slot, Nth, First, Sorted, Before
<1>3. Held' = Held /\ Out' = Out /\ Span' = Span /\ ~ Written /\ ~ Written' /\ ~ Removed'
  BY <1>1 DEF Held, Out, Span, Written, Moved, Removed
<1>4. RingTyped' /\ Shape' /\ Loaded'
  BY <1>1, <1>2, <1>3 DEF Uncut, RingTyped, Shape, Loaded, Accepting, Popping, Q!Slots
<1>5. Accounted' /\ InOrder'
  BY <1>1, <1>2, <1>3 DEF Uncut, Accounted, InOrder, Newer
<1> QED BY <1>4, <1>5

\* An interrupt that finds the queue full drops its event.
LEMMA DroppedStep ==
  ASSUME Uncut, KeyIrq, count >= MaxEvents
  PROVE  Uncut'
<1>1. /\ UNCHANGED <<events, head, tail, count, cur, reg, delivered, accepted, keyByte, keys, reports>>
      /\ keyFull' = FALSE /\ pc' = IF pc = "halt" THEN "poll_mouse" ELSE pc
  BY DEF KeyIrq, queue
<1>2. \A n : Q!Slot(n)' = Q!Slot(n) /\ Nth(n)' = Nth(n) /\ First(n)' = First(n) /\ Sorted(n)' = Sorted(n)
  BY <1>1 DEF Q!Slot, Nth, First, Sorted, Before
<1>3. \A n, k : Place(n, k, cur)' = Place(n, k, cur)
  BY <1>1, <1>2 DEF Place
<1>4. Held' = Held /\ Out' = Out /\ Span' = Span /\ Written' = Written /\ Removed' = Removed
      /\ Due' = Due /\ Pushing' = Pushing
  BY <1>1 DEF Held, Out, Span, Written, Moved, Removed, Due, Pushing
<1>5. RingTyped' /\ Shape'
  BY <1>1, <1>2, <1>4 DEF Uncut, RingTyped, Shape, Accepting, Popping, Q!Slots
<1>6. Loaded'
  BY <1>1, <1>2, <1>3 DEF Uncut, Loaded
<1>7. Accounted' /\ InOrder'
  BY <1>1, <1>2, <1>4 DEF Uncut, Accounted, InOrder, Newer
<1>8. Numbered'
  BY <1>1, <1>4 DEF Uncut, Numbered, Known, Newer
<1> QED BY <1>5, <1>6, <1>7, <1>8 DEF Uncut

\* An interrupt that pushes where it does not break what the loop is doing: its
\* event goes where it belongs, and what the loop has found stays right.
LEMMA InterruptStep ==
  ASSUME Uncut, KeyIrq, ~ cut', ~ (count >= MaxEvents)
  PROVE  Uncut'
<1> DEFINE e == Input("key", keyByte)
<1>1. /\ events' = Q!InsertedAt(Q!InsertIndex(e.priority), e)
      /\ tail' = (tail + 1) % MaxEvents /\ count' = count + 1 /\ head' = head
      /\ accepted' = accepted \cup {e} /\ ~ Breaks(e) /\ keyFull /\ keyFull' = FALSE
      /\ pc' = (IF pc = "halt" THEN "poll_mouse" ELSE pc)
      /\ UNCHANGED <<cur, reg, keyByte, keys, reports, delivered>>
  BY DEF KeyIrq
<1>2. e \in Event /\ e.type = "key" /\ e.timestamp = keyByte /\ e.priority = 2
  BY InputIsEvent, EventFields DEF Uncut, Numbered, Types
<1> HIDE DEF e
<1>3. RingTyped /\ Shape /\ Loaded /\ Accounted /\ InOrder /\ Numbered
  BY DEF Uncut
<1>4. /\ pc \notin {"load_tail", "store_tail", "load_count", "store_count", "pop_store"}
      /\ ~ Written /\ ~ Moved /\ (Accepting => count + 1 < MaxEvents)
      /\ pc = "pop_head" => Q!InsertIndex(2) # head
  BY <1>1, <1>2, <1>3 DEF Breaks, Written, Moved, Accepting, RingTyped
<1>5. PICK n \in 0 .. MaxEvents - 1 : n = Held
  BY <1>3, <1>4 DEF Held, RingTyped, Popping, Removed
<1>6. /\ n = (IF Removed THEN count - 1 ELSE count) /\ tail = Q!Slot(n) /\ head \in Q!Slots
      /\ count \in 0 .. MaxEvents - 1 /\ Sorted(n) /\ First(n) \subseteq Event
      /\ First(n) \subseteq accepted /\ Out \subseteq accepted
  BY <1>3, <1>4, <1>5, HeldAccepted DEF Held, RingTyped, Shape, Span, InOrder
<1>7. /\ Held' = n + 1 /\ Span' = n + 1 /\ Out' = Out /\ ~ Written' /\ Removed' = Removed
      /\ Pushing' = Pushing /\ Due' = Due
      /\ pc' = "dispatch" <=> pc = "dispatch"
  BY <1>1, <1>4, <1>6 DEF Held, Span, Out, Written, Moved, Removed, Pushing, Due
<1>8. PICK k \in 0 .. n : Q!InsertIndex(2) = Q!Slot(k) /\ FirstLower(n, k, 2)
  <2>1. CASE count = 0
    <3>1. n = 0 /\ Q!InsertIndex(2) = tail
      BY <1>6, <2>1 DEF Q!InsertIndex
    <3> QED BY <1>6, <3>1 DEF FirstLower
  <2>2. CASE count # 0
    <3>1. Q!InsertIndex(2) = Q!FindInsertIndex(2)
      BY <2>2 DEF Q!InsertIndex, Q!Order!Normal
    <3> QED BY <1>6, <3>1, FindPosition
  <2> QED BY <2>1, <2>2
<1>9. Place(n, k, e) /\ Newer(e, accepted)
  <2>1. Place(n, k, e)
    BY <1>2, <1>8 DEF Place, FirstLower
  <2> QED BY <1>1, <1>2, <1>3, <2>1 DEF Newer, Numbered, Known
<1>10. Inserts(n, k, e)
  BY <1>1, <1>2, <1>6, <1>8, InsertEffect
<1>11. First(n + 1)' = First(n) \cup {e} /\ Sorted(n + 1)'
  <2>1. Newer(e, First(n))
    BY <1>6, <1>9 DEF Newer
  <2> QED BY <1>2, <1>6, <1>9, <1>10, <2>1, InsertedContents, InsertedSorted
<1>12. \A i : Q!Slot(i)' = Q!Slot(i)
  BY <1>1 DEF Q!Slot
<1>13. tail' = Q!Slot(n + 1) /\ tail' \in Q!Slots
  BY <1>1, <1>6, NextSlot, SlotValue, n + 1 \in 0 .. MaxEvents
<1>14. RingTyped' /\ Shape'
  <2>1. DOMAIN events' = Q!Slots
    BY <1>1 DEF Q!InsertedAt
  <2>2. Shape'
    BY <1>7, <1>12, <1>13 DEF Shape
  <2> QED BY <1>1, <1>3, <1>4, <1>6, <1>13, <2>1, <2>2 DEF RingTyped, Accepting, Popping, Q!Slots
<1>15. Loaded'
  <2>1. CASE pc = "push_append"
    <3>1. n = count /\ cur \in Event /\ Place(n, n, cur) /\ pc' = "push_append"
      BY <1>1, <1>3, <1>6, <2>1 DEF Removed, Loaded, Numbered, Pushing
    <3>2. ASSUME NEW i \in 0 .. n PROVE Nth(i)'.priority >= cur.priority
      <4>1. CASE i < k
        BY <1>10, <3>1, <4>1, i \in 0 .. n - 1 DEF Inserts, Place
      <4>2. CASE i = k
        BY <1>2, <1>10, <3>1, <4>2, EventFields DEF Inserts
      <4>3. CASE i > k
        BY <1>10, <3>1, <4>3, i - 1 \in 0 .. n - 1 DEF Inserts, Place
      <4> QED BY <4>1, <4>2, <4>3
    <3> QED BY <1>1, <3>1, <3>2 DEF Loaded, Place
  <2>2. CASE pc = "push_insert"
    <3>1. n = count /\ cur \in Event /\ cur.type # "key" /\ cur.priority = 2 /\ pc' = "push_insert"
      BY <1>1, <1>3, <1>6, <2>2 DEF Removed, Loaded, Numbered, Pushing, Q!Order!High
    <3>2. PICK j \in 0 .. n : reg = Q!Slot(j) /\ Place(n, j, cur)
      BY <1>3, <2>2, <3>1 DEF Loaded
    <3>3. j <= k
      <4>1. CASE k < j
        <5>1. k \in 0 .. n - 1 /\ Nth(k) \in Event
          BY <1>6, <4>1 DEF First
        <5>2. Nth(k).priority >= 2 /\ Nth(k).priority < 2
          BY <1>8, <3>1, <3>2, <4>1, <5>1 DEF FirstLower, Place
        <5> QED BY <5>1, <5>2, EventFields
      <4> QED BY <4>1
    <3>4. ASSUME NEW i \in 0 .. n
          PROVE  IF i < j THEN Nth(i)'.priority >= cur.priority
                 ELSE \/ Nth(i)'.priority < cur.priority
                      \/ Nth(i)'.priority = cur.priority /\ Nth(i)'.type # cur.type
      <4>1. CASE i < k
        BY <1>10, <3>2, <4>1, i \in 0 .. n - 1 DEF Inserts, Place
      <4>2. CASE i = k
        BY <1>2, <1>10, <3>1, <3>3, <4>2 DEF Inserts
      <4>3. CASE i > k
        <5>1. i - 1 \in 0 .. n - 1 /\ ~ (i - 1 < j) /\ ~ (i < j) /\ Nth(i)' = Nth(i - 1)
          BY <1>10, <3>3, <4>3 DEF Inserts
        <5> QED BY <3>2, <5>1 DEF Place
      <4> QED BY <4>1, <4>2, <4>3
    <3>5. Place(n + 1, j, cur)'
      BY <1>1, <3>4 DEF Place
    <3>6. count' = n + 1 /\ j \in 0 .. count' /\ Place(count, j, cur)' /\ reg' = Q!Slot(j)'
      BY <1>1, <1>12, <3>1, <3>2, <3>5 DEF Place
    <3> QED BY <1>1, <3>1, <3>6 DEF Loaded, Q!Order!High
  <2>3. CASE pc = "pop_head"
    <3>1. k # 0 /\ 0 \in 0 .. n
      <4>1. Q!Slot(0) = head
        BY <1>6, SlotValue DEF Q!Slots
      <4> QED BY <1>4, <1>6, <1>8, <2>3, <4>1
    <3>2. Nth(0)' = Nth(0)
      BY <1>10, <3>1 DEF Inserts
    <3> QED BY <1>1, <1>3, <2>3, <3>2 DEF Loaded
  <2>4. CASE pc \notin {"push_append", "push_insert", "pop_head"}
    BY <1>1, <1>3, <1>4, <2>4 DEF Loaded
  <2> QED BY <2>1, <2>2, <2>3, <2>4
<1>16. Accounted'
  BY <1>1, <1>3, <1>4, <1>5, <1>7, <1>11 DEF Accounted, First
<1>17. InOrder'
  <2>1. \A x \in First(n) \cup {e} : Newer(x, Out)
    BY <1>3, <1>5, <1>6, <1>9 DEF InOrder, Newer
  <2>2. First(Held)' = First(n) \cup {e} /\ Sorted(Held)'
    BY <1>7, <1>11 DEF First, Sorted
  <2> QED BY <1>1, <1>3, <1>7, <2>1, <2>2 DEF InOrder, Newer
<1>18. Numbered'
  <2>1. ASSUME NEW x \in accepted \cup {e} PROVE Known(x)' /\ (x.type \in Due => x.timestamp < reports)
                                               /\ (x.type = "polled" => x \in accepted)
    BY <1>1, <1>2, <1>3, <2>1 DEF Numbered, Known, Due
  <2>2. Pushing => Known(cur)' /\ Newer(cur, accepted \cup {e})
    BY <1>1, <1>2, <1>3 DEF Numbered, Known, Newer
  <2> QED BY <1>1, <1>2, <1>3, <1>7, <2>1, <2>2 DEF Numbered, Newer
<1> QED BY <1>14, <1>15, <1>16, <1>17, <1>18 DEF Uncut

LEMMA Consecution == IInv /\ [Next]_vars => IInv'
<1> SUFFICES ASSUME IInv, [Next]_vars PROVE IInv'
  OBVIOUS
<1>1. cut' \in BOOLEAN /\ (cut => cut')
  BY DEF IInv, Next, MainLoop, MouseReport, NoMouseReport, PostButton, PollStatus, PollData,
         PushTest, PushFind, PushInsert, PushAppend, LoadTail, StoreTail, LoadCount, StoreCount,
         PopTest, PopCopy, PopHead, PopLoad, PopStore, Dispatch, Render, KeyTyped, KeyIrq,
         TimerIrq, vars, Breaks
<1>2. ASSUME ~ cut' PROVE Uncut'
  <2>1. Uncut
    BY <1>1, <1>2 DEF IInv
  <2>2. CASE KeyIrq
    BY <1>2, <2>1, <2>2, DroppedStep, InterruptStep
  <2>3. CASE MainLoop \/ KeyTyped \/ TimerIrq \/ UNCHANGED vars
    <3>1. Numbered'
      BY <2>1, <2>3, NumberedStep
    <3>2. RingTyped' /\ Shape' /\ Loaded' /\ Accounted' /\ InOrder'
      BY <2>1, <2>3, ControlOrder, ControlLoaded, StoreStep, TailStep, HeadStep, DispatchStep
         DEF MainLoop, Control
    <3> QED BY <3>1, <3>2 DEF Uncut
  <2> QED BY <2>2, <2>3 DEF Next
<1> QED BY <1>1, <1>2 DEF IInv

THEOREM Invariance == Spec => []IInv
BY Initially, Consecution, PTL DEF Spec

\* The loop pushes and pops without a lock and the interrupt handler pushes as
\* well: as long as it did so at none of the places where that breaks what the
\* loop is doing, the ring is in shape and in order, every accepted event is
\* queued or was taken out once, and none overtakes an older one of its type,
\* for every capacity of the ring and every number of keys and reports.
THEOREM IntactUnlessCutCorrect == Spec => []IntactUnlessCut
<1>1. ASSUME IInv PROVE IntactUnlessCut
  <2> SUFFICES ASSUME ~ cut, ~ InQueueCode
               PROVE  /\ Q!RingShape /\ accepted = Popped \cup Q!Queued
                      /\ \A i, j \in 0 .. count - 1 :
                           i < j => Before(events[Q!Slot(i)], events[Q!Slot(j)])
                      /\ \A e \in Q!Queued : Newer(e, Popped)
                      /\ pc = "dispatch" => Newer(cur, delivered)
    BY DEF IntactUnlessCut
  <2>1. Uncut /\ ~ Written /\ ~ Removed /\ ~ Moved
    BY <1>1 DEF IInv, InQueueCode, Written, Removed, Moved
  <2>2. tail = Q!Slot(count) /\ tail \in Q!Slots /\ Held = count /\ Out = Popped
    BY <2>1 DEF Uncut, RingTyped, Shape, Span, Held, Out, Popped
  <2>3. tail % MaxEvents = tail
    BY <2>2 DEF Q!Slots
  <2>4. Q!RingShape
    BY <2>2, <2>3 DEF Q!RingShape, Q!Slot
  <2>5. First(count) = Q!Queued
    BY DEF First, Nth, Q!Queued
  <2>6. accepted = Popped \cup Q!Queued /\ \A e \in Q!Queued : Newer(e, Popped)
    BY <2>1, <2>2, <2>5 DEF Uncut, Accounted, InOrder
  <2>7. \A i, j \in 0 .. count - 1 : i < j => Before(events[Q!Slot(i)], events[Q!Slot(j)])
    BY <2>1, <2>2 DEF Uncut, InOrder, Sorted, Nth
  <2> QED BY <2>1, <2>4, <2>6, <2>7 DEF Uncut, InOrder
<1> QED BY <1>1, Invariance, PTL

HIDE InputAssumption

-----------------------------------------------------------------------------
(* USB: rings.  On the producer's side of its place lie the entries of     *)
(* this lap, with its cycle bit; on the other side those of the lap        *)
(* before.  The link counts as one of them.                                *)

Ring(size, contents) ==
  [trb : [0 .. size - 1 -> [cycle : BOOLEAN, what : contents]],
   enq : 0 .. size - 1, cycle : BOOLEAN, deq : 0 .. size - 1, ccs : BOOLEAN]

InLaps(r, size) == \A i \in 0 .. size - 1 : r.trb[i].cycle = IF i < r.enq THEN r.cycle ELSE ~r.cycle

\* A ring with a link, in which the producer never stays on the link.
Linked(r, size, contents) == r \in Ring(size, contents) /\ InLaps(r, size) /\ r.enq # size - 1

\* The consumer has taken everything: it is where the producer is, or the
\* producer has gone round and the consumer has not yet followed the link.
Caught(r, size) ==
  \/ r.ccs = r.cycle /\ r.deq = r.enq
  \/ r.ccs # r.cycle /\ r.deq = size - 1 /\ r.enq = 0

\* There is one entry to take, and nothing behind it.
Single(r, size, w) ==
  Ready(r, size) /\ Taken(r, size)[1] = w /\ Caught(Taken(r, size)[2], size)

LEMMA NewRingCaught ==
  ASSUME NEW size \in Nat \ {0, 1, 2}, NEW contents, <<>> \in contents
  PROVE  Linked(NewRing(size), size, contents) /\ Caught(NewRing(size), size)
<1> DEFINE r == NewRing(size)
<1>1. NoTrb \in [cycle : BOOLEAN, what : contents] /\ NoTrb.cycle = FALSE
  BY DEF NoTrb
<1>2. /\ r.trb = [i \in 0 .. size - 1 |-> NoTrb] /\ r.enq = 0 /\ r.cycle = TRUE
      /\ r.deq = 0 /\ r.ccs = TRUE
  BY DEF NewRing
<1>3. r \in Ring(size, contents)
  BY <1>1 DEF NewRing, Ring
<1>4. r.enq # size - 1 /\ InLaps(r, size)
  BY <1>1, <1>2 DEF InLaps
<1>5. r.ccs = r.cycle /\ r.deq = r.enq
  BY <1>2
<1> HIDE DEF r
<1>6. Linked(r, size, contents) /\ Caught(r, size)
  BY <1>3, <1>4, <1>5 DEF Linked, Caught
<1> QED BY <1>6 DEF r

LEMMA CaughtIsNotReady ==
  ASSUME NEW size \in Nat \ {0, 1, 2}, NEW contents, NEW r, Linked(r, size, contents), Caught(r, size)
  PROVE  ~Ready(r, size)
<1>1. r \in Ring(size, contents) /\ InLaps(r, size) /\ r.enq # size - 1
  BY DEF Linked
<1>2. CASE r.ccs = r.cycle /\ r.deq = r.enq
  <2>1. Followed(r, size) = r
    BY <1>1, <1>2 DEF Followed, Ring
  <2>2. r.trb[r.deq].cycle # r.ccs
    BY <1>1, <1>2 DEF InLaps, Ring
  <2> QED BY <2>1, <2>2 DEF Ready
<1>3. CASE r.ccs # r.cycle /\ r.deq = size - 1 /\ r.enq = 0
  <2>1. r.trb[size - 1].cycle = r.ccs
    BY <1>1, <1>3 DEF InLaps, Ring
  <2>2. Followed(r, size) = [r EXCEPT !.deq = 0, !.ccs = ~@]
    BY <2>1, <1>3 DEF Followed
  <2>3. r.trb[0].cycle # ~r.ccs
    BY <1>1, <1>3 DEF InLaps, Ring
  <2>4. Followed(r, size).deq = 0 /\ Followed(r, size).ccs = ~r.ccs /\ Followed(r, size).trb = r.trb
    BY <1>1, <2>2 DEF Ring
  <2> QED BY <2>3, <2>4 DEF Ready
<1> QED BY <1>2, <1>3 DEF Caught

LEMMA EnqueueFields ==
  ASSUME NEW size \in Nat \ {0, 1, 2}, NEW contents, NEW r, Linked(r, size, contents), NEW w \in contents
  PROVE  /\ Enqueue(r, size, w) \in Ring(size, contents)
         /\ Enqueue(r, size, w).deq = r.deq /\ Enqueue(r, size, w).ccs = r.ccs
         /\ Enqueue(r, size, w).trb[r.enq] = [cycle |-> r.cycle, what |-> w]
         /\ \A i \in 0 .. size - 2 : i # r.enq => Enqueue(r, size, w).trb[i] = r.trb[i]
         /\ IF r.enq = size - 2
            THEN /\ Enqueue(r, size, w).enq = 0 /\ Enqueue(r, size, w).cycle = ~r.cycle
                 /\ Enqueue(r, size, w).trb[size - 1].cycle = r.cycle
            ELSE /\ Enqueue(r, size, w).enq = r.enq + 1 /\ Enqueue(r, size, w).cycle = r.cycle
                 /\ Enqueue(r, size, w).trb[size - 1].cycle = r.trb[size - 1].cycle
<1> DEFINE p == Write(r, w)
<1>1. r \in Ring(size, contents) /\ r.enq # size - 1
  BY DEF Linked
<1>2. /\ p \in Ring(size, contents)
      /\ p.trb = [r.trb EXCEPT ![r.enq] = [cycle |-> r.cycle, what |-> w]]
      /\ p.enq = r.enq + 1 /\ p.cycle = r.cycle /\ p.deq = r.deq /\ p.ccs = r.ccs
  <2> DEFINE trb == [r.trb EXCEPT ![r.enq] = [cycle |-> r.cycle, what |-> w]]
  <2>1. trb \in [0 .. size - 1 -> [cycle : BOOLEAN, what : contents]] /\ r.enq + 1 \in 0 .. size - 1
    BY <1>1 DEF Ring
  <2>2. p = [r EXCEPT !.trb = trb, !.enq = r.enq + 1]
    BY <1>1 DEF Write, Ring
  <2> HIDE DEF p, trb
  <2>3. p \in Ring(size, contents) /\ p.trb = trb
        /\ p.enq = r.enq + 1 /\ p.cycle = r.cycle /\ p.deq = r.deq /\ p.ccs = r.ccs
    BY <1>1, <2>1, <2>2 DEF Ring
  <2> QED BY <2>3 DEF trb
<1>3. Enqueue(r, size, w) = Wrapped(p, size)
  BY DEF Enqueue
<1> HIDE DEF p
<1>4. CASE r.enq = size - 2
  <2>1. Wrapped(p, size) = [p EXCEPT !.trb[size - 1].cycle = p.cycle, !.enq = 0, !.cycle = ~@]
    BY <1>1, <1>2, <1>4 DEF Wrapped
  <2>2. /\ Wrapped(p, size) \in Ring(size, contents)
        /\ Wrapped(p, size).deq = p.deq /\ Wrapped(p, size).ccs = p.ccs
        /\ Wrapped(p, size).enq = 0 /\ Wrapped(p, size).cycle = ~p.cycle
        /\ Wrapped(p, size).trb = [p.trb EXCEPT ![size - 1].cycle = p.cycle]
    <3> DEFINE trb == [p.trb EXCEPT ![size - 1].cycle = p.cycle]
    <3>1. trb \in [0 .. size - 1 -> [cycle : BOOLEAN, what : contents]]
      BY <1>2, SMTT(30) DEF Ring
    <3>0. PICK c \in BOOLEAN : c = ~p.cycle
      OBVIOUS
    <3>2. Wrapped(p, size) = [trb |-> trb, enq |-> 0, cycle |-> c, deq |-> p.deq, ccs |-> p.ccs]
      <4>1. Wrapped(p, size) = [p EXCEPT !.trb = trb, !.enq = 0, !.cycle = c]
        BY <1>2, <2>1, <3>0 DEF Ring
      <4> HIDE DEF trb
      <4> QED BY <1>2, <4>1 DEF Ring
    <3> HIDE DEF trb
    <3>3. /\ Wrapped(p, size) \in Ring(size, contents) /\ Wrapped(p, size).trb = trb
          /\ Wrapped(p, size).deq = p.deq /\ Wrapped(p, size).ccs = p.ccs
          /\ Wrapped(p, size).enq = 0 /\ Wrapped(p, size).cycle = ~p.cycle
      <4>1. /\ Wrapped(p, size) \in Ring(size, contents) /\ Wrapped(p, size).trb = trb
            /\ Wrapped(p, size).deq = p.deq /\ Wrapped(p, size).ccs = p.ccs
            /\ Wrapped(p, size).enq = 0 /\ Wrapped(p, size).cycle = c
        BY <1>2, <3>1, <3>2 DEF Ring
      <4> QED BY <3>0, <4>1
    <3> QED BY <3>3 DEF trb
  <2>3. /\ Wrapped(p, size).trb[size - 1].cycle = p.cycle
        /\ \A i \in 0 .. size - 2 : Wrapped(p, size).trb[i] = p.trb[i]
    BY <1>2, <2>2 DEF Ring
  <2> QED BY <1>1, <1>2, <1>3, <1>4, <2>2, <2>3 DEF Ring
<1>5. CASE r.enq # size - 2
  <2>1. Wrapped(p, size) = p
    BY <1>1, <1>2, <1>5 DEF Wrapped, Ring
  <2> QED BY <1>1, <1>2, <1>3, <1>5, <2>1 DEF Ring
<1> QED BY <1>4, <1>5

\* What is put on a ring that was empty is the one thing there.
LEMMA EnqueueSingle ==
  ASSUME NEW size \in Nat \ {0, 1, 2}, NEW contents, NEW r, Linked(r, size, contents), Caught(r, size),
         NEW w \in contents
  PROVE  Linked(Enqueue(r, size, w), size, contents) /\ Single(Enqueue(r, size, w), size, w)
<1> DEFINE q == Enqueue(r, size, w)
           f == Followed(q, size)
<1>1. r \in Ring(size, contents) /\ InLaps(r, size) /\ r.enq # size - 1
  BY DEF Linked
<1>2. /\ q \in Ring(size, contents) /\ q.deq = r.deq /\ q.ccs = r.ccs
      /\ q.trb[r.enq] = [cycle |-> r.cycle, what |-> w]
      /\ \A i \in 0 .. size - 2 : i # r.enq => q.trb[i] = r.trb[i]
      /\ r.enq = size - 2 => q.enq = 0 /\ q.cycle = ~r.cycle /\ q.trb[size - 1].cycle = r.cycle
      /\ r.enq # size - 2 => q.enq = r.enq + 1 /\ q.cycle = r.cycle /\ q.trb[size - 1].cycle = r.trb[size - 1].cycle
  BY EnqueueFields
<1> HIDE DEF q
<1>3. Linked(q, size, contents)
  <2>1. CASE r.enq = size - 2
    <3>1. q.enq = 0 /\ q.cycle = ~r.cycle /\ q.trb[size - 1].cycle = r.cycle
      BY <1>2, <2>1
    <3>2. ASSUME NEW i \in 0 .. size - 2
          PROVE  q.trb[i].cycle = r.cycle
      <4>1. CASE i = r.enq
        BY <1>1, <1>2, <4>1 DEF Ring
      <4>2. CASE i # r.enq
        BY <1>1, <1>2, <2>1, <4>2 DEF InLaps, Ring
      <4> QED BY <4>1, <4>2
    <3>3. ASSUME NEW i \in 0 .. size - 1
          PROVE  q.trb[i].cycle = ~q.cycle /\ ~(i < q.enq)
      <4>1. i = size - 1 \/ i \in 0 .. size - 2
        OBVIOUS
      <4>2. q.trb[i].cycle = r.cycle
        BY <3>1, <3>2, <4>1
      <4>3. r.cycle \in BOOLEAN
        BY <1>1 DEF Ring
      <4>4. q.cycle = ~r.cycle /\ ~(i < q.enq)
        BY <3>1
      <4>5. r.cycle = ~q.cycle
        BY <4>3, <4>4
      <4> QED BY <4>2, <4>4, <4>5
    <3>4. InLaps(q, size)
      BY <3>3 DEF InLaps
    <3> QED BY <1>2, <3>1, <3>4 DEF Linked
  <2>2. CASE r.enq # size - 2
    <3>1. q.enq = r.enq + 1 /\ q.cycle = r.cycle /\ q.enq # size - 1
      BY <1>1, <1>2, <2>2 DEF Ring
    <3>2. q.trb[size - 1].cycle = ~r.cycle
      BY <1>1, <1>2, <2>2 DEF InLaps, Ring
    <3>3. ASSUME NEW i \in 0 .. size - 2
          PROVE  q.trb[i].cycle = IF i < r.enq + 1 THEN r.cycle ELSE ~r.cycle
      <4>1. CASE i = r.enq
        BY <1>1, <1>2, <4>1 DEF Ring
      <4>2. CASE i # r.enq
        BY <1>1, <1>2, <4>2 DEF InLaps, Ring
      <4> QED BY <4>1, <4>2
    <3>4. InLaps(q, size)
      <4> SUFFICES ASSUME NEW i \in 0 .. size - 1
                   PROVE  q.trb[i].cycle = IF i < q.enq THEN q.cycle ELSE ~q.cycle
        BY DEF InLaps
      <4> QED BY <1>1, <3>1, <3>2, <3>3 DEF Ring
    <3> QED BY <1>2, <3>1, <3>4 DEF Linked
  <2> QED BY <2>1, <2>2
\* The consumer looks at the place where w is.
<1>4. f \in Ring(size, contents) /\ f.trb = q.trb /\ f.deq = r.enq /\ f.ccs = r.cycle
      /\ f.enq = q.enq /\ f.cycle = q.cycle
  <2>1. CASE r.ccs = r.cycle /\ r.deq = r.enq
    <3>1. f = q
      BY <1>1, <1>2, <2>1 DEF Followed, Ring
    <3> QED BY <1>2, <2>1, <3>1
  <2>2. CASE r.ccs # r.cycle /\ r.deq = size - 1 /\ r.enq = 0
    <3>1. q.trb[size - 1].cycle = r.ccs
      <4>1. r.trb[size - 1].cycle = r.ccs
        BY <1>1, <2>2 DEF InLaps, Ring
      <4>2. CASE r.enq = size - 2
        BY <1>2, <2>2, <4>1, <4>2 DEF Ring
      <4>3. CASE r.enq # size - 2
        BY <1>2, <2>2, <4>1, <4>3 DEF Ring
      <4> QED BY <4>2, <4>3
    <3>2. f = [q EXCEPT !.deq = 0, !.ccs = ~@]
      BY <1>2, <2>2, <3>1 DEF Followed
    <3> QED BY <1>1, <1>2, <2>2, <3>2 DEF Ring
  <2> QED BY <2>1, <2>2 DEF Caught
<1>5. Ready(q, size) /\ Taken(q, size)[1] = w
  BY <1>1, <1>2, <1>4 DEF Ready, Taken, Ring
<1>6. Caught([f EXCEPT !.deq = @ + 1], size)
  <2> DEFINE g == [f EXCEPT !.deq = @ + 1]
  <2>1. g.deq = r.enq + 1 /\ g.ccs = r.cycle /\ g.enq = q.enq /\ g.cycle = q.cycle
    BY <1>4 DEF Ring
  <2>2. CASE r.enq = size - 2
    BY <1>1, <1>2, <2>1, <2>2 DEF Caught, Ring
  <2>3. CASE r.enq # size - 2
    BY <1>1, <1>2, <2>1, <2>3 DEF Caught, Ring
  <2> QED BY <2>2, <2>3
<1>7. Taken(q, size)[2] = [f EXCEPT !.deq = @ + 1]
  BY DEF Taken
<1> HIDE DEF f
<1>8. Caught(Taken(q, size)[2], size)
  BY <1>6, <1>7
<1>9. Single(q, size, w)
  BY <1>5, <1>8 DEF Single
<1> QED BY <1>3, <1>9 DEF q

\* When it is taken, the ring is empty.
LEMMA TakenCaught ==
  ASSUME NEW size \in Nat \ {0, 1, 2}, NEW contents, NEW r, Linked(r, size, contents), NEW w,
         Single(r, size, w)
  PROVE  /\ Linked(Taken(r, size)[2], size, contents) /\ Caught(Taken(r, size)[2], size)
         /\ Taken(r, size)[1] = w
<1> DEFINE f == Followed(r, size)
<1>1. r \in Ring(size, contents) /\ InLaps(r, size) /\ r.enq # size - 1
  BY DEF Linked
<1>2. f \in Ring(size, contents) /\ f.trb = r.trb /\ f.enq = r.enq /\ f.cycle = r.cycle
  <2>1. f = r \/ f = [r EXCEPT !.deq = 0, !.ccs = ~@]
    BY DEF Followed
  <2>2. CASE f = r
    BY <1>1, <2>2
  <2>3. CASE f = [r EXCEPT !.deq = 0, !.ccs = ~@]
    <3>1. PICK c \in BOOLEAN : c = ~r.ccs
      OBVIOUS
    <3>2. f = [trb |-> r.trb, enq |-> r.enq, cycle |-> r.cycle, deq |-> 0, ccs |-> c]
      <4>1. f = [r EXCEPT !.deq = 0, !.ccs = c]
        BY <2>3, <3>1
      <4> HIDE DEF f
      <4> QED BY <1>1, <4>1 DEF Ring
    <3> HIDE DEF f
    <3> QED BY <1>1, <3>2 DEF Ring
  <2> QED BY <2>1, <2>2, <2>3
<1>3. f.deq < size - 1
  BY DEF Single, Ready
<1>4. Taken(r, size)[2] = [f EXCEPT !.deq = @ + 1]
  BY DEF Taken
<1> HIDE DEF f
<1>5. PICK g : g = [f EXCEPT !.deq = @ + 1]
  OBVIOUS
<1>6. g = [trb |-> r.trb, enq |-> r.enq, cycle |-> r.cycle, deq |-> f.deq + 1, ccs |-> f.ccs]
  BY <1>2, <1>5 DEF Ring
<1>7. f.deq + 1 \in 0 .. size - 1
  BY <1>2, <1>3 DEF Ring
<1>8. g \in Ring(size, contents) /\ g.trb = r.trb /\ g.enq = r.enq /\ g.cycle = r.cycle
  BY <1>1, <1>2, <1>6, <1>7 DEF Ring
<1>9. Linked(g, size, contents)
  BY <1>1, <1>8 DEF Linked, InLaps
<1> QED BY <1>4, <1>5, <1>9 DEF Single

-----------------------------------------------------------------------------
(* USB: the event ring, which has no link, and what is in it to be read.   *)

Unread(r) ==
  {i \in 0 .. EvtSize - 1 : IF r.ccs = r.cycle THEN r.deq <= i /\ i < r.enq ELSE r.deq <= i \/ i < r.enq}

Counted(r, contents) ==
  /\ r \in Ring(EvtSize, contents) /\ InLaps(r, EvtSize)
  /\ IF r.ccs = r.cycle THEN r.deq <= r.enq ELSE r.enq < r.deq

LEMMA NewRingUnread ==
  ASSUME NEW contents, <<>> \in contents
  PROVE  Counted(NewRing(EvtSize), contents) /\ Unread(NewRing(EvtSize)) = {}
<1> DEFINE r == NewRing(EvtSize)
<1>0. EvtSize \in Nat \ {0, 1}
  BY XhciAssumption
<1>1. NoTrb \in [cycle : BOOLEAN, what : contents] /\ NoTrb.cycle = FALSE
  BY DEF NoTrb
<1>2. /\ r.trb = [i \in 0 .. EvtSize - 1 |-> NoTrb] /\ r.enq = 0 /\ r.cycle = TRUE
      /\ r.deq = 0 /\ r.ccs = TRUE
  BY DEF NewRing
<1>3. r \in Ring(EvtSize, contents)
  BY <1>0, <1>1 DEF NewRing, Ring
<1>4. InLaps(r, EvtSize)
  BY <1>0, <1>1, <1>2 DEF InLaps
<1>5. Unread(r) = {}
  BY <1>0, <1>2 DEF Unread
<1>6. Counted(r, contents) /\ Unread(r) = {}
  <2>1. r.ccs = r.cycle
    BY <1>2
  <2>2. r.deq <= r.enq
    BY <1>2
  <2> HIDE DEF r
  <2> QED BY <1>3, <1>4, <1>5, <2>1, <2>2 DEF Counted
<1> QED BY <1>6 DEF r

\* There is a new event exactly when something is unread; it is the first of it.
LEMMA NewIsUnread ==
  ASSUME NEW contents, Counted(evt, contents)
  PROVE  /\ NewEvent <=> Unread(evt) # {}
         /\ NewEvent => evt.deq \in Unread(evt)
<1>0. EvtSize \in Nat \ {0, 1}
  BY XhciAssumption
<1>1. evt \in Ring(EvtSize, contents) /\ InLaps(evt, EvtSize)
  BY DEF Counted
<1>2. evt.trb[evt.deq].cycle = IF evt.deq < evt.enq THEN evt.cycle ELSE ~evt.cycle
  BY <1>1 DEF InLaps, Ring
<1>3. CASE evt.ccs = evt.cycle
  <2>1. evt.deq <= evt.enq
    BY <1>3 DEF Counted
  <2>2. NewEvent <=> evt.deq < evt.enq
    BY <1>1, <1>2, <1>3 DEF NewEvent, Ring
  <2>3. evt.deq < evt.enq => evt.deq \in Unread(evt)
    BY <1>0, <1>1, <1>3 DEF Unread, Ring
  <2>4. ~(evt.deq < evt.enq) => Unread(evt) = {}
    BY <1>0, <1>1, <1>3 DEF Unread, Ring
  <2> QED BY <2>2, <2>3, <2>4
<1>4. CASE evt.ccs # evt.cycle
  <2>1. evt.enq < evt.deq
    BY <1>4 DEF Counted
  <2>2. NewEvent
    BY <1>0, <1>1, <1>2, <1>4, <2>1 DEF NewEvent, Ring
  <2>3. evt.deq \in Unread(evt)
    BY <1>0, <1>1, <1>4 DEF Unread, Ring
  <2> QED BY <2>2, <2>3
<1> QED BY <1>3, <1>4

\* Posting adds one thing to be read and changes no other.
LEMMA PostUnread ==
  ASSUME NEW contents, Counted(evt, contents), NEW event \in contents, Post(event)
  PROVE  /\ Counted(evt', contents)
         /\ evt.enq \notin Unread(evt) /\ Unread(evt') = Unread(evt) \cup {evt.enq}
         /\ evt'.trb[evt.enq].what = event
         /\ \A i \in Unread(evt) : evt'.trb[i] = evt.trb[i]
<1> DEFINE w == Write(evt, event)
<1>0. EvtSize \in Nat \ {0, 1}
  BY XhciAssumption
<1>1. evt \in Ring(EvtSize, contents) /\ InLaps(evt, EvtSize)
  BY DEF Counted
<1>2. PICK c \in BOOLEAN : c = ~evt.cycle
  OBVIOUS
<1>3. PICK trb : trb = [evt.trb EXCEPT ![evt.enq] = [cycle |-> evt.cycle, what |-> event]]
  OBVIOUS
<1>4. trb \in [0 .. EvtSize - 1 -> [cycle : BOOLEAN, what : contents]]
  BY <1>1, <1>3 DEF Ring
<1>5. w = [trb |-> trb, enq |-> evt.enq + 1, cycle |-> evt.cycle, deq |-> evt.deq, ccs |-> evt.ccs]
  <2>1. w = [evt EXCEPT !.trb = trb, !.enq = evt.enq + 1]
    BY <1>1, <1>3 DEF Write, Ring
  <2> HIDE DEF w
  <2> QED BY <1>1, <2>1 DEF Ring
<1>6. evt' = IF evt.enq + 1 = EvtSize THEN [w EXCEPT !.enq = 0, !.cycle = ~@] ELSE w
  BY <1>5 DEF Post
<1>7. (evt.enq + 1) % EvtSize # evt.deq
  BY DEF Post, Room
<1>8. \A i \in 0 .. EvtSize - 1 : trb[i].cycle = IF i < evt.enq + 1 THEN evt.cycle ELSE ~evt.cycle
  <2> SUFFICES ASSUME NEW i \in 0 .. EvtSize - 1
               PROVE  trb[i].cycle = IF i < evt.enq + 1 THEN evt.cycle ELSE ~evt.cycle
    OBVIOUS
  <2>1. CASE i = evt.enq
    <3>1. trb[i] = [cycle |-> evt.cycle, what |-> event]
      BY <1>1, <1>3, <2>1 DEF Ring
    <3> QED BY <1>1, <2>1, <3>1 DEF Ring
  <2>2. CASE i # evt.enq
    <3>1. trb[i] = evt.trb[i]
      BY <1>1, <1>3, <2>2 DEF Ring
    <3>2. (i < evt.enq + 1) <=> (i < evt.enq)
      BY <1>0, <1>1, <2>2 DEF Ring
    <3> QED BY <1>1, <3>1, <3>2 DEF InLaps
  <2> QED BY <2>1, <2>2
<1>9. /\ trb[evt.enq].what = event
      /\ \A i \in 0 .. EvtSize - 1 : i # evt.enq => trb[i] = evt.trb[i]
  BY <1>1, <1>3 DEF Ring
<1>10. evt.enq \notin Unread(evt)
  BY <1>0, <1>1 DEF Unread, Counted, Ring
<1> HIDE DEF w
<1>11. CASE evt.enq + 1 = EvtSize
  <2>1. evt.deq # 0
    BY <1>0, <1>7, <1>11
  <2>2. evt' = [trb |-> trb, enq |-> 0, cycle |-> c, deq |-> evt.deq, ccs |-> evt.ccs]
    <3>1. evt' = [w EXCEPT !.enq = 0, !.cycle = ~@]
      BY <1>6, <1>11
    <3>2. w.cycle = evt.cycle
      BY <1>5
    <3>3. evt' = [w EXCEPT !.enq = 0, !.cycle = c]
      BY <1>2, <3>1, <3>2
    <3> QED BY <1>5, <3>3
  <2>3. evt.ccs = evt.cycle
    BY <1>0, <1>1, <1>11 DEF Counted, Ring
  <2>4. evt' \in Ring(EvtSize, contents)
    BY <1>0, <1>1, <1>2, <1>4, <2>2 DEF Ring
  <2>5. InLaps(evt', EvtSize)
    <3> SUFFICES ASSUME NEW i \in 0 .. EvtSize - 1
                 PROVE  evt'.trb[i].cycle = ~evt'.cycle /\ ~(i < evt'.enq)
      BY DEF InLaps
    <3>1. i < evt.enq + 1
      BY <1>0, <1>11
    <3>2. trb[i].cycle = evt.cycle
      BY <1>8, <3>1
    <3>3. evt'.trb = trb /\ evt'.cycle = c /\ evt'.enq = 0
      BY <2>2
    <3>4. evt.cycle \in BOOLEAN
      BY <1>1 DEF Ring
    <3>5. evt.cycle = ~c
      BY <1>2, <3>4
    <3> QED BY <3>2, <3>3, <3>5
  <2>6. evt'.ccs # evt'.cycle /\ evt'.enq < evt'.deq
    BY <1>0, <1>1, <1>2, <2>1, <2>2, <2>3 DEF Ring
  <2>7. evt'.trb = trb /\ evt'.enq = 0 /\ evt'.deq = evt.deq
    BY <2>2
  <2>8. Unread(evt') = Unread(evt) \cup {evt.enq}
    BY <1>0, <1>1, <1>11, <2>1, <2>3, <2>6, <2>7 DEF Unread, Counted, Ring
  <2>9. Counted(evt', contents)
    BY <2>4, <2>5, <2>6 DEF Counted
  <2> QED BY <1>9, <1>10, <2>7, <2>8, <2>9 DEF Unread
<1>12. CASE evt.enq + 1 # EvtSize
  <2>1. evt.enq + 1 # evt.deq
    <3>1. evt.enq + 1 \in 0 .. EvtSize - 1
      BY <1>0, <1>1, <1>12 DEF Ring
    <3>2. (evt.enq + 1) % EvtSize = evt.enq + 1
      BY <1>0, <3>1
    <3> QED BY <1>7, <3>2
  <2>2. evt' = [trb |-> trb, enq |-> evt.enq + 1, cycle |-> evt.cycle, deq |-> evt.deq, ccs |-> evt.ccs]
    BY <1>5, <1>6, <1>12
  <2>3. evt' \in Ring(EvtSize, contents)
    BY <1>0, <1>1, <1>4, <1>12, <2>2 DEF Ring
  <2>4. InLaps(evt', EvtSize)
    BY <1>8, <2>2 DEF InLaps
  <2>5. evt'.trb = trb /\ evt'.enq = evt.enq + 1 /\ evt'.deq = evt.deq /\ evt'.cycle = evt.cycle
        /\ evt'.ccs = evt.ccs
    BY <2>2
  <2>6. IF evt'.ccs = evt'.cycle THEN evt'.deq <= evt'.enq ELSE evt'.enq < evt'.deq
    BY <1>0, <1>1, <2>1, <2>5 DEF Counted, Ring
  <2>7. Unread(evt') = Unread(evt) \cup {evt.enq}
    BY <1>0, <1>1, <1>12, <2>5, <2>6 DEF Unread, Counted, Ring
  <2>8. Counted(evt', contents)
    BY <2>3, <2>4, <2>6 DEF Counted
  <2> QED BY <1>9, <1>10, <2>5, <2>7, <2>8 DEF Unread
<1> QED BY <1>11, <1>12

\* Reading takes the first thing.
LEMMA AdvanceUnread ==
  ASSUME NEW contents, Counted(evt, contents), NewEvent, evt' = Advance(evt)
  PROVE  /\ Counted(evt', contents) /\ evt'.trb = evt.trb
         /\ evt.deq \in Unread(evt) /\ Unread(evt') = Unread(evt) \ {evt.deq}
<1>0. EvtSize \in Nat \ {0, 1}
  BY XhciAssumption
<1>1. evt \in Ring(EvtSize, contents) /\ InLaps(evt, EvtSize)
  BY DEF Counted
<1>2. evt.deq \in Unread(evt)
  BY NewIsUnread
<1>3. PICK c \in BOOLEAN : c = ~evt.ccs
  OBVIOUS
<1>4. CASE evt.deq + 1 >= EvtSize
  <2>1. evt' = [evt EXCEPT !.deq = 0, !.ccs = c]
    BY <1>3, <1>4 DEF Advance
  <2>2. evt' = [trb |-> evt.trb, enq |-> evt.enq, cycle |-> evt.cycle, deq |-> 0, ccs |-> c]
    BY <1>1, <2>1 DEF Ring
  <2>3. evt' \in Ring(EvtSize, contents)
    BY <1>0, <1>1, <2>2 DEF Ring
  <2>4. evt.ccs # evt.cycle
    BY <1>0, <1>1, <1>2, <1>4 DEF Unread, Ring
  <2>5. evt'.ccs = evt'.cycle /\ evt'.deq <= evt'.enq
    BY <1>0, <1>1, <1>3, <2>2, <2>4 DEF Ring
  <2>6. evt'.trb = evt.trb /\ evt'.enq = evt.enq /\ evt'.cycle = evt.cycle /\ evt'.deq = 0
    BY <2>2
  <2>7. InLaps(evt', EvtSize)
    BY <1>1, <2>6 DEF InLaps
  <2>8. Unread(evt') = Unread(evt) \ {evt.deq}
    BY <1>0, <1>1, <1>4, <2>4, <2>5, <2>6 DEF Unread, Counted, Ring
  <2> QED BY <1>2, <2>3, <2>5, <2>6, <2>7, <2>8 DEF Counted
<1>5. CASE evt.deq + 1 < EvtSize
  <2>1. evt' = [evt EXCEPT !.deq = evt.deq + 1]
    BY <1>0, <1>1, <1>5 DEF Advance, Ring
  <2>2. evt' = [trb |-> evt.trb, enq |-> evt.enq, cycle |-> evt.cycle, deq |-> evt.deq + 1, ccs |-> evt.ccs]
    BY <1>1, <2>1 DEF Ring
  <2>3. evt' \in Ring(EvtSize, contents)
    BY <1>0, <1>1, <1>5, <2>2 DEF Ring
  <2>4. evt'.trb = evt.trb /\ evt'.enq = evt.enq /\ evt'.cycle = evt.cycle /\ evt'.deq = evt.deq + 1
        /\ evt'.ccs = evt.ccs
    BY <2>2
  <2>5. InLaps(evt', EvtSize)
    BY <1>1, <2>4 DEF InLaps
  <2>6. IF evt'.ccs = evt'.cycle THEN evt'.deq <= evt'.enq ELSE evt'.enq < evt'.deq
    BY <1>0, <1>1, <1>2, <2>4 DEF Counted, Unread, Ring
  <2>7. Unread(evt') = Unread(evt) \ {evt.deq}
    BY <1>0, <1>1, <1>5, <2>4, <2>6 DEF Unread, Counted, Ring
  <2> QED BY <1>2, <2>3, <2>4, <2>5, <2>6, <2>7 DEF Counted
<1> QED BY <1>0, <1>1, <1>4, <1>5 DEF Ring

-----------------------------------------------------------------------------
(* USB: whose answer is taken.  As long as no wait was given up, what was  *)
(* asked is in one place: on its ring, among the unread events, or done.   *)

TransferSteps == {"device", "config", "ranges", "setconfig", "protocol"}
Steps == CommandSteps \cup TransferSteps \cup {"next", "running"}
Requests == (0 .. NPorts) \X Steps
Commands == [what : CommandSteps, slot : 0 .. NPorts, of : Requests] \cup {<<>>}
Events == [type : {"command"}, ok : BOOLEAN, slot : 0 .. NPorts, of : Requests]
            \cup [type : {"transfer"}, ep : {"ep0", "in"}, ok : BOOLEAN, slot : Slots, of : Requests \cup {<<>>}]
            \cup [type : {"port"}]
Command == [what |-> step, slot |-> slot, of |-> Request]

\* Where the enumeration is.
Enumerating ==
  /\ step \in Steps /\ waiting \in {"no", "command", "transfer", "over"}
  /\ port \in 0 .. NPorts /\ slot \in 0 .. NPorts
  /\ reply \in [ok : BOOLEAN, slot : 0 .. NPorts, of : Requests \cup {<<>>}]
  /\ step \notin {"next", "running"} => port \in Ports
  /\ step \notin {"next", "running", "enable"} => slot \in Slots
  /\ waiting = "command" => step \in CommandSteps
  /\ waiting = "transfer" => step \in TransferSteps
  /\ waiting = "over" => step \notin {"next", "running"}

RingsKept ==
  /\ Linked(cmd, CmdSize, Commands)
  /\ Counted(evt, Events \cup {<<>>})
  /\ \A i \in Unread(evt) : evt.trb[i].what \in Events
  /\ ep0 \in [Slots -> [ring : 0 .. NPorts, used : BOOLEAN, queue : Seq([ring : 0 .. NPorts, of : Requests])]]

IsAnswer(e) == e.type = "command" \/ (e.type = "transfer" /\ e.ep = "ep0")
Answers == {i \in Unread(evt) : IsAnswer(evt.trb[i].what)}
\* The one answer there is, to the request that waits.
Answered(type) ==
  \E i \in Unread(evt) : /\ Answers = {i} /\ evt.trb[i].what.type = type
                         /\ evt.trb[i].what.of = Request
NoCommand == Caught(cmd, CmdSize)
NoTransfer == \A s \in Slots : ep0[s].queue = <<>>

Asked ==
  /\ waiting \in {"no", "over"} => NoCommand /\ NoTransfer /\ Answers = {}
  /\ waiting = "command" =>
       /\ NoTransfer
       /\ \/ Single(cmd, CmdSize, Command) /\ Answers = {}
          \/ NoCommand /\ Answered("command")
  /\ waiting = "transfer" =>
       /\ NoCommand
       /\ \/ /\ Answers = {} /\ Len(ep0[slot].queue) = 1 /\ ep0[slot].queue[1].of = Request
             /\ \A s \in Slots \ {slot} : ep0[s].queue = <<>>
          \/ NoTransfer /\ Answered("transfer")
  /\ waiting = "over" => reply.of = Request

AnswersInv == gaveUp = {} => Enumerating /\ RingsKept /\ Asked

LEMMA UsbConstants ==
  /\ NPorts \in Nat \ {0} /\ CmdSize \in Nat \ {0, 1, 2} /\ XferSize \in Nat \ {0, 1, 2}
  /\ EvtSize \in Nat \ {0, 1}
  BY XhciAssumption

LEMMA MinIsLeast ==
  ASSUME NEW T \in SUBSET Nat, T # {}
  PROVE  Min(T) \in T /\ \A y \in T : Min(T) <= y
  BY LeastNatural DEF Min

\* What is posted is the one answer, if it is one, or changes nothing about them.
LEMMA PostKeeps ==
  ASSUME RingsKept, NEW e \in Events, Post(e)
  PROVE  /\ Counted(evt', Events \cup {<<>>})
         /\ \A i \in Unread(evt') : evt'.trb[i].what \in Events
         /\ Unread(evt') = Unread(evt) \cup {evt.enq} /\ evt.enq \notin Unread(evt)
         /\ evt'.trb[evt.enq].what = e
         /\ \A i \in Unread(evt) : evt'.trb[i] = evt.trb[i]
         /\ Answers' = IF IsAnswer(e) THEN Answers \cup {evt.enq} ELSE Answers
<1>1. Counted(evt, Events \cup {<<>>})
  BY DEF RingsKept
<1>2. /\ Counted(evt', Events \cup {<<>>})
      /\ evt.enq \notin Unread(evt) /\ Unread(evt') = Unread(evt) \cup {evt.enq}
      /\ evt'.trb[evt.enq].what = e
      /\ \A i \in Unread(evt) : evt'.trb[i] = evt.trb[i]
  BY <1>1, PostUnread
<1>3. \A i \in Unread(evt') : evt'.trb[i].what \in Events
  BY <1>2 DEF RingsKept
<1>4. Answers' = IF IsAnswer(e) THEN Answers \cup {evt.enq} ELSE Answers
  BY <1>2 DEF Answers, IsAnswer
<1> QED BY <1>2, <1>3, <1>4

LEMMA AdvanceKeeps ==
  ASSUME RingsKept, NewEvent, evt' = Advance(evt)
  PROVE  /\ Counted(evt', Events \cup {<<>>})
         /\ \A i \in Unread(evt') : evt'.trb[i].what \in Events
         /\ Unread(evt') = Unread(evt) \ {evt.deq} /\ evt.deq \in Unread(evt)
         /\ evt'.trb = evt.trb
         /\ Answers' = Answers \ {evt.deq}
<1>1. Counted(evt, Events \cup {<<>>})
  BY DEF RingsKept
<1>2. /\ Counted(evt', Events \cup {<<>>}) /\ evt'.trb = evt.trb
      /\ evt.deq \in Unread(evt) /\ Unread(evt') = Unread(evt) \ {evt.deq}
  BY <1>1, AdvanceUnread
<1>3. \A i \in Unread(evt') : evt'.trb[i].what \in Events
  BY <1>2 DEF RingsKept
<1>4. Answers' = Answers \ {evt.deq}
  BY <1>2 DEF Answers
<1> QED BY <1>2, <1>3, <1>4

LEMMA AnswersInit ==
  ASSUME XhciInit
  PROVE  AnswersInv
<1> USE UsbConstants
<1>1. Enumerating
  BY DEF XhciInit, Enumerating, Steps, Requests
<1>2. Linked(cmd, CmdSize, Commands) /\ Caught(cmd, CmdSize)
  BY NewRingCaught DEF XhciInit, Commands
<1>3. Counted(evt, Events \cup {<<>>}) /\ Unread(evt) = {}
  BY NewRingUnread DEF XhciInit
<1>4. /\ ep0 \in [Slots -> [ring : 0 .. NPorts, used : BOOLEAN, queue : Seq([ring : 0 .. NPorts, of : Requests])]]
      /\ \A s \in Slots : ep0[s].queue = <<>>
  BY DEF XhciInit
<1>5. Asked
  BY <1>2, <1>3, <1>4 DEF XhciInit, Asked, NoCommand, NoTransfer, Answers
<1> QED BY <1>1, <1>2, <1>3, <1>4, <1>5 DEF AnswersInv, RingsKept

\* Steps that leave the rings alone.
LEMMA ProbeKeepsAnswers ==
  ASSUME Enumerating, RingsKept, Asked, Probe
  PROVE  Enumerating' /\ RingsKept' /\ Asked'
<1> DEFINE rest == {p \in Ports : p > port /\ kind[p] # "none"}
<1>1. step = "next" /\ waiting = "no" /\ UNCHANGED <<waiting, reply, slot, cmd, evt, ep0>>
  BY DEF Probe
<1>2. (step' = "running" /\ port' = port) \/ (step' = "enable" /\ port' \in Ports)
  <2>1. CASE rest = {}
    BY <2>1 DEF Probe
  <2>2. CASE rest # {}
    <3>1. rest \in SUBSET Nat
      BY DEF Ports
    <3>2. Min(rest) \in Ports
      BY <2>2, <3>1, MinIsLeast
    <3> QED BY <2>2, <3>2 DEF Probe
  <2> QED BY <2>1, <2>2
<1>3. Enumerating'
  BY <1>1, <1>2, UsbConstants DEF Enumerating, Steps, CommandSteps, Ports
<1>4. RingsKept'
  BY <1>1 DEF RingsKept
<1>5. Asked'
  BY <1>1 DEF Asked, NoCommand, NoTransfer, Answers
<1> QED BY <1>3, <1>4, <1>5

LEMMA DoneKeepsAnswers ==
  ASSUME Enumerating, RingsKept, Asked, Done
  PROVE  Enumerating' /\ RingsKept' /\ Asked'
<1>1. /\ waiting = "over" /\ waiting' = "no" /\ UNCHANGED <<port, reply, cmd, evt, ep0>>
      /\ step' = After(reply.ok, config')
      /\ slot' = IF step = "enable" THEN reply.slot ELSE slot
  BY DEF Done, Proceed
<1>2. /\ step' \in Steps /\ step' \notin {"running", "enable"}
      /\ step' # "next" => slot' \in Slots
  <2>1. CASE step = "enable"
    BY <1>1, <2>1 DEF After, Steps, CommandSteps, Enumerating, Slots
  <2>2. CASE step # "enable"
    BY <1>1, <2>2 DEF After, Steps, CommandSteps, TransferSteps, Enumerating
  <2> QED BY <2>1, <2>2
<1>3. Enumerating'
  BY <1>1, <1>2, UsbConstants DEF Enumerating, Slots
<1>4. RingsKept'
  BY <1>1 DEF RingsKept
<1>5. Asked'
  BY <1>1 DEF Asked, NoCommand, NoTransfer, Answers
<1> QED BY <1>3, <1>4, <1>5

LEMMA IssueKeepsAnswers ==
  ASSUME Enumerating, RingsKept, Asked, IssueCommand
  PROVE  Enumerating' /\ RingsKept' /\ Asked'
<1>1. /\ step \in CommandSteps /\ waiting = "no" /\ waiting' = "command"
      /\ cmd' = Enqueue(cmd, CmdSize, Command)
      /\ UNCHANGED <<step, port, slot, reply, evt>>
  BY DEF IssueCommand, Send, Command
<1>2. Command \in Commands
  BY <1>1 DEF Command, Commands, Enumerating, Request, Requests
<1>3. Linked(cmd', CmdSize, Commands) /\ Single(cmd', CmdSize, Command)
  BY <1>1, <1>2, EnqueueSingle, UsbConstants DEF RingsKept, Asked, NoCommand
<1>4. /\ ep0' \in [Slots -> [ring : 0 .. NPorts, used : BOOLEAN, queue : Seq([ring : 0 .. NPorts, of : Requests])]]
      /\ \A s \in Slots : ep0'[s].queue = <<>>
  <2>1. \A s \in Slots : ep0[s].queue = <<>>
    BY <1>1 DEF Asked, NoTransfer
  <2>2. CASE ep0' = ep0
    BY <2>1, <2>2 DEF RingsKept
  <2>3. CASE step = "address" /\ ep0' = [ep0 EXCEPT ![slot].ring = IF ep0[slot].used THEN 0 ELSE port]
    <3>1. slot \in Slots /\ port \in 0 .. NPorts
      BY <2>3 DEF Enumerating
    <3> QED BY <2>1, <2>3, <3>1, UsbConstants DEF RingsKept
  <2>4. ep0' = ep0 \/ (step = "address" /\ ep0' = [ep0 EXCEPT ![slot].ring = IF ep0[slot].used THEN 0 ELSE port])
    BY DEF IssueCommand
  <2> QED BY <2>2, <2>3, <2>4
<1>5. Enumerating'
  BY <1>1 DEF Enumerating
<1>6. RingsKept'
  BY <1>1, <1>3, <1>4 DEF RingsKept
<1>7. Command' = Command
  BY <1>1 DEF Command, Request
<1>8. Asked'
  BY <1>1, <1>3, <1>4, <1>7 DEF Asked, NoTransfer, Answers
<1> QED BY <1>5, <1>6, <1>8

LEMMA TransferKeepsAnswers ==
  ASSUME Enumerating, RingsKept, Asked, ControlTransfer
  PROVE  Enumerating' /\ RingsKept' /\ Asked'
<1> DEFINE entry == [ring |-> ep0[slot].ring, of |-> Request]
<1>1. /\ step \in TransferSteps /\ waiting = "no" /\ waiting' = "transfer"
      /\ ep0' = [ep0 EXCEPT ![slot].queue = Append(@, entry), ![slot].used = TRUE]
      /\ UNCHANGED <<step, port, slot, reply, cmd, evt>>
  BY DEF ControlTransfer, Enumerating, Steps, driver
<1>2. slot \in Slots /\ entry \in [ring : 0 .. NPorts, of : Requests] /\ entry.of = Request
  BY <1>1 DEF Enumerating, TransferSteps, RingsKept, Request, Requests
<1>3. NoCommand /\ Answers = {} /\ \A s \in Slots : ep0[s].queue = <<>>
  BY <1>1 DEF Asked, NoTransfer
<1> HIDE DEF entry
<1>4. Append(ep0[slot].queue, entry) = <<entry>>
  <2>1. ep0[slot].queue = <<>>
    BY <1>2, <1>3
  <2>2. Append(<<>>, entry) = <<entry>>
    OBVIOUS
  <2> QED BY <2>1, <2>2
<1>5. /\ ep0' \in [Slots -> [ring : 0 .. NPorts, used : BOOLEAN, queue : Seq([ring : 0 .. NPorts, of : Requests])]]
      /\ ep0'[slot].queue = <<entry>>
      /\ \A s \in Slots \ {slot} : ep0'[s].queue = <<>>
  <2>1. <<entry>> \in Seq([ring : 0 .. NPorts, of : Requests])
    BY <1>2
  <2>2. ep0' = [ep0 EXCEPT ![slot] = [ring |-> ep0[slot].ring, used |-> TRUE, queue |-> <<entry>>]]
    <3>1. PICK old \in [ring : 0 .. NPorts, used : BOOLEAN, queue : Seq([ring : 0 .. NPorts, of : Requests])] :
            old = ep0[slot]
      BY <1>2 DEF RingsKept
    <3>2. [old EXCEPT !.queue = <<entry>>, !.used = TRUE] = [ring |-> old.ring, used |-> TRUE, queue |-> <<entry>>]
      <4>1. PICK n : n = [old EXCEPT !.queue = <<entry>>, !.used = TRUE]
        OBVIOUS
      <4>2. n = [ring |-> old.ring, used |-> TRUE, queue |-> <<entry>>]
        BY <3>1, <4>1
      <4> QED BY <4>1, <4>2
    <3>3. ep0' = [ep0 EXCEPT ![slot] = [old EXCEPT !.queue = Append(old.queue, entry), !.used = TRUE]]
      BY <1>1, <1>2, <3>1 DEF RingsKept
    <3> QED BY <1>4, <3>1, <3>2, <3>3
  <2>3. [ring |-> ep0[slot].ring, used |-> TRUE, queue |-> <<entry>>]
          \in [ring : 0 .. NPorts, used : BOOLEAN, queue : Seq([ring : 0 .. NPorts, of : Requests])]
    BY <1>2, <2>1 DEF RingsKept
  <2> QED BY <1>2, <1>3, <2>2, <2>3 DEF RingsKept
<1>6. Enumerating'
  BY <1>1 DEF Enumerating
<1>7. RingsKept'
  BY <1>1, <1>5 DEF RingsKept
<1>8. Len(ep0'[slot].queue) = 1 /\ ep0'[slot].queue[1].of = Request
  BY <1>2, <1>5
<1>9. Asked'
  BY <1>1, <1>3, <1>5, <1>8 DEF Asked, NoCommand, Answers, Request
<1> QED BY <1>6, <1>7, <1>9

\* The answer that is read is the one that is waited for.
LEMMA AnswerRead ==
  ASSUME Enumerating, RingsKept, Asked, NewEvent, IsAnswer(evt.trb[evt.deq].what)
  PROVE  /\ waiting = evt.trb[evt.deq].what.type /\ waiting \in {"command", "transfer"}
         /\ evt.trb[evt.deq].what.of = Request
         /\ Answers = {evt.deq} /\ NoCommand /\ NoTransfer
<1>1. evt.deq \in Answers
  BY NewIsUnread DEF RingsKept, Answers
<1>2. waiting \in {"command", "transfer"}
  BY <1>1 DEF Asked, Enumerating
<1>3. CASE waiting = "command"
  BY <1>1, <1>3 DEF Asked, Answered
<1>4. CASE waiting = "transfer"
  BY <1>1, <1>4 DEF Asked, Answered
<1> QED BY <1>2, <1>3, <1>4

LEMMA ProcessKeepsAnswers ==
  ASSUME Enumerating, RingsKept, Asked, ProcessEvent
  PROVE  Enumerating' /\ RingsKept' /\ Asked'
<1> DEFINE e == evt.trb[evt.deq].what
<1>1. /\ NewEvent /\ evt' = Advance(evt) /\ UNCHANGED <<step, port, slot, cmd, ep0>>
  BY DEF ProcessEvent
<1>2. /\ Counted(evt', Events \cup {<<>>})
      /\ \A i \in Unread(evt') : evt'.trb[i].what \in Events
      /\ Unread(evt') = Unread(evt) \ {evt.deq} /\ evt.deq \in Unread(evt)
      /\ evt'.trb = evt.trb /\ Answers' = Answers \ {evt.deq}
  BY <1>1, AdvanceKeeps
<1>3. e \in Events
  BY <1>2 DEF RingsKept
<1>4. RingsKept'
  BY <1>1, <1>2 DEF RingsKept
<1>5. CASE IsAnswer(e)
  <2>1. /\ waiting = e.type /\ waiting \in {"command", "transfer"} /\ e.of = Request
        /\ Answers = {evt.deq} /\ NoCommand /\ NoTransfer
    BY <1>1, <1>5, AnswerRead
  <2>2. waiting' = "over" /\ reply' = Answer(e)
    <3>1. CASE e.type = "command"
      <4>1. HandleCommandComplete(e)
        BY <3>1 DEF ProcessEvent
      <4> QED BY <2>1, <3>1, <4>1 DEF HandleCommandComplete, Enumerating
    <3>2. CASE e.type = "transfer"
      <4>1. HandleTransferEvent(e) /\ e.ep = "ep0"
        BY <1>5, <3>2 DEF ProcessEvent, IsAnswer
      <4> QED BY <2>1, <3>2, <4>1 DEF HandleTransferEvent
    <3> QED BY <2>1, <3>1, <3>2
  <2>3. reply' \in [ok : BOOLEAN, slot : 0 .. NPorts, of : Requests \cup {<<>>}] /\ reply'.of = Request
    <3>1. e.ok \in BOOLEAN /\ e.of \in Requests \cup {<<>>} /\ (e.type = "command" => e.slot \in 0 .. NPorts)
      BY <1>3, <2>1 DEF Events
    <3> HIDE DEF e
    <3> QED BY <2>1, <2>2, <3>1 DEF Answer, Enumerating
  <2>4. Answers' = {}
    BY <1>2, <2>1
  <2>5. Enumerating'
    BY <1>1, <2>1, <2>2, <2>3 DEF Enumerating, CommandSteps, TransferSteps
  <2>6. Asked'
    BY <1>1, <2>1, <2>2, <2>3, <2>4 DEF Asked, NoCommand, NoTransfer, Request
  <2> QED BY <1>4, <2>5, <2>6
<1>6. CASE ~IsAnswer(e)
  <2>1. UNCHANGED <<waiting, reply>>
    BY <1>6 DEF ProcessEvent, IsAnswer, HandleTransferEvent, HandlePortStatusChange
  <2>2. Answers' = Answers
    BY <1>2, <1>6 DEF Answers
  <2>3. \A type : Answered(type) => Answered(type)'
    <3> SUFFICES ASSUME NEW type, Answered(type) PROVE Answered(type)'
      OBVIOUS
    <3>1. PICK i \in Unread(evt) : /\ Answers = {i} /\ evt.trb[i].what.type = type
                                    /\ evt.trb[i].what.of = Request
      BY DEF Answered
    <3>2. i # evt.deq
      BY <1>6, <3>1 DEF Answers
    <3>3. i \in Unread(evt') /\ Request' = Request
      BY <1>1, <1>2, <3>2 DEF Request
    <3> QED BY <1>2, <2>2, <3>1, <3>3 DEF Answered
  <2>4. Enumerating'
    BY <1>1, <2>1 DEF Enumerating
  <2>5. Command' = Command /\ Request' = Request
    BY <1>1 DEF Command, Request
  <2>6. Asked'
    BY <1>1, <2>1, <2>2, <2>3, <2>5 DEF Asked, NoCommand, NoTransfer
  <2> QED BY <1>4, <2>4, <2>6
<1> QED BY <1>5, <1>6

\* A slot that is handed out is one of the controller's.
LEMMA FreeSlot ==
  ASSUME NEW s \in Slots, hw[s].state = "off"
  PROVE  /\ Min({t \in Slots : hw[t].state = "off"} \cup {NPorts + 1}) \in Slots
         /\ hw[Min({t \in Slots : hw[t].state = "off"} \cup {NPorts + 1})].state = "off"
<1> DEFINE T == {t \in Slots : hw[t].state = "off"} \cup {NPorts + 1}
<1>1. T \in SUBSET Nat /\ s \in T
  BY UsbConstants DEF Slots
<1>2. Min(T) \in T /\ Min(T) <= s
  BY <1>1, MinIsLeast
<1>3. Min(T) # NPorts + 1
  BY <1>1, <1>2, UsbConstants DEF Slots
<1> QED BY <1>2, <1>3

\* The controller answers the command that is waited for.
LEMMA CommandTaken ==
  ASSUME Enumerating, RingsKept, Asked, HwCommand
  PROVE  /\ waiting = "command" /\ Single(cmd, CmdSize, Command) /\ Answers = {} /\ NoTransfer
         /\ Taken(cmd, CmdSize)[1] = Command
         /\ Linked(cmd', CmdSize, Commands) /\ Caught(cmd', CmdSize)
         /\ UNCHANGED <<step, port, slot, waiting, reply, ep0>>
<1>1. Ready(cmd, CmdSize) /\ cmd' = Taken(cmd, CmdSize)[2] /\ UNCHANGED <<step, port, slot, waiting, reply, ep0>>
  BY DEF HwCommand, driver
<1>2. ~NoCommand
  BY <1>1, CaughtIsNotReady, UsbConstants DEF NoCommand, RingsKept
<1>3. waiting = "command" /\ Single(cmd, CmdSize, Command) /\ Answers = {} /\ NoTransfer
  BY <1>2 DEF Asked, Enumerating
<1>4. Linked(cmd', CmdSize, Commands) /\ Caught(cmd', CmdSize) /\ Taken(cmd, CmdSize)[1] = Command
  BY <1>1, <1>3, TakenCaught, UsbConstants DEF RingsKept
<1> QED BY <1>1, <1>3, <1>4

LEMMA CommandAnswered ==
  ASSUME Enumerating, RingsKept, Asked, HwCommand
  PROVE  \E b \in BOOLEAN, t \in 0 .. NPorts : Post([type |-> "command", ok |-> b, slot |-> t, of |-> Request])
<1> DEFINE c == Taken(cmd, CmdSize)[1]
           s == IF c.what = "enable" THEN Min({t \in Slots : hw[t].state = "off"} \cup {NPorts + 1}) ELSE c.slot
           Ok(b, t) == Post([type |-> "command", ok |-> b, slot |-> t, of |-> c.of])
<1>1. c = Command
  BY CommandTaken
<1>2. c.what = step /\ c.slot = slot /\ c.of = Request
  BY <1>1 DEF Command
<1>3. slot \in 0 .. NPorts /\ 0 \in 0 .. NPorts
  BY UsbConstants DEF Enumerating
<1>4. Legal(c) => s \in 0 .. NPorts
  <2>1. CASE c.what = "enable"
    <3>1. Legal(c) => \E t \in Slots : hw[t].state = "off"
      BY <2>1 DEF Legal
    <3> QED BY <2>1, <3>1, FreeSlot DEF Slots
  <2>2. CASE c.what # "enable"
    BY <1>2, <1>3, <2>2
  <2> QED BY <2>1, <2>2
<1>5. \/ Legal(c) /\ Ok(TRUE, s)
      \/ Ok(FALSE, IF c.what = "enable" THEN 0 ELSE s)
  BY DEF HwCommand
<1>6. c.what # "enable" => s \in 0 .. NPorts
  BY <1>2, <1>3
<1> HIDE DEF c, s
<1> QED BY <1>2, <1>3, <1>4, <1>5, <1>6

LEMMA CommandKeepsAnswers ==
  ASSUME Enumerating, RingsKept, Asked, HwCommand
  PROVE  Enumerating' /\ RingsKept' /\ Asked'
<1>1. /\ waiting = "command" /\ Answers = {} /\ NoTransfer
      /\ Linked(cmd', CmdSize, Commands) /\ Caught(cmd', CmdSize)
      /\ UNCHANGED <<step, port, slot, waiting, reply, ep0>>
  BY CommandTaken
<1>2. PICK b \in BOOLEAN, t \in 0 .. NPorts : Post([type |-> "command", ok |-> b, slot |-> t, of |-> Request])
  BY CommandAnswered
<1> DEFINE e == [type |-> "command", ok |-> b, slot |-> t, of |-> Request]
<1>3. e \in Events /\ IsAnswer(e) /\ e.type = "command" /\ e.of = Request
  BY DEF Events, IsAnswer, Request, Requests, Enumerating
<1> HIDE DEF e
<1>4. /\ Counted(evt', Events \cup {<<>>})
      /\ \A i \in Unread(evt') : evt'.trb[i].what \in Events
      /\ Unread(evt') = Unread(evt) \cup {evt.enq} /\ evt'.trb[evt.enq].what = e
      /\ Answers' = {evt.enq}
  BY <1>1, <1>2, <1>3, PostKeeps DEF e
<1>5. Enumerating'
  BY <1>1 DEF Enumerating
<1>6. RingsKept'
  BY <1>1, <1>4 DEF RingsKept
<1>7. Answered("command")'
  BY <1>1, <1>3, <1>4 DEF Answered, Request
<1>8. Asked'
  BY <1>1, <1>7 DEF Asked, NoCommand, NoTransfer
<1> QED BY <1>5, <1>6, <1>8

LEMMA ControlKeepsAnswers ==
  ASSUME Enumerating, RingsKept, Asked, NEW s \in Slots, NEW ok \in BOOLEAN, HwControl(s, ok)
  PROVE  Enumerating' /\ RingsKept' /\ Asked'
<1> DEFINE q == ep0[s].queue
           e == [type |-> "transfer", ep |-> "ep0", ok |-> ok, slot |-> s, of |-> Request]
<1>1. /\ q # <<>> /\ Post([type |-> "transfer", ep |-> "ep0", ok |-> ok, slot |-> s, of |-> Head(q).of])
      /\ ep0' = [ep0 EXCEPT ![s].queue = Tail(@)]
      /\ UNCHANGED <<step, port, slot, waiting, reply, cmd>>
  BY DEF HwControl, driver
<1>2. /\ waiting = "transfer" /\ s = slot /\ NoCommand /\ Answers = {}
      /\ Len(q) = 1 /\ q[1].of = Request /\ \A t \in Slots \ {s} : ep0[t].queue = <<>>
  BY <1>1 DEF Asked, NoTransfer, Enumerating
<1>3. q \in Seq([ring : 0 .. NPorts, of : Requests])
  BY DEF RingsKept
<1>4. Head(q).of = Request /\ Tail(q) = <<>>
  <2>1. Head(q) = q[1]
    BY <1>1, <1>3
  <2>2. Tail(q) \in Seq([ring : 0 .. NPorts, of : Requests]) /\ Len(Tail(q)) = 0
    BY <1>1, <1>2, <1>3, HeadTailProperties
  <2> QED BY <1>2, <2>1, <2>2, EmptySeq
<1>5. e \in Events /\ IsAnswer(e) /\ e.type = "transfer" /\ e.of = Request
  BY DEF Events, IsAnswer, Request, Requests, Enumerating
<1> HIDE DEF e
<1>6. /\ Counted(evt', Events \cup {<<>>})
      /\ \A i \in Unread(evt') : evt'.trb[i].what \in Events
      /\ Unread(evt') = Unread(evt) \cup {evt.enq} /\ evt'.trb[evt.enq].what = e
      /\ Answers' = {evt.enq}
  <2>1. Post(e)
    BY <1>1, <1>4 DEF e
  <2> QED BY <1>2, <1>5, <2>1, PostKeeps
<1>7. /\ ep0' \in [Slots -> [ring : 0 .. NPorts, used : BOOLEAN, queue : Seq([ring : 0 .. NPorts, of : Requests])]]
      /\ \A t \in Slots : ep0'[t].queue = <<>>
  <2>1. ep0' = [ep0 EXCEPT ![s] = [ep0[s] EXCEPT !.queue = <<>>]]
    BY <1>1, <1>4 DEF RingsKept
  <2>2. PICK n : n = [ep0[s] EXCEPT !.queue = <<>>]
    OBVIOUS
  <2>3. n \in [ring : 0 .. NPorts, used : BOOLEAN, queue : Seq([ring : 0 .. NPorts, of : Requests])] /\ n.queue = <<>>
    <3>1. ep0[s] \in [ring : 0 .. NPorts, used : BOOLEAN, queue : Seq([ring : 0 .. NPorts, of : Requests])]
      BY DEF RingsKept
    <3>2. n = [ring |-> ep0[s].ring, used |-> ep0[s].used, queue |-> <<>>]
      BY <2>2, <3>1
    <3>3. <<>> \in Seq([ring : 0 .. NPorts, of : Requests])
      OBVIOUS
    <3> QED BY <3>1, <3>2, <3>3
  <2> QED BY <1>2, <2>1, <2>2, <2>3 DEF RingsKept
<1>8. Enumerating'
  BY <1>1 DEF Enumerating
<1>9. RingsKept'
  BY <1>1, <1>6, <1>7 DEF RingsKept
<1>10. Answered("transfer")'
  BY <1>1, <1>5, <1>6 DEF Answered, Request
<1>11. Asked'
  BY <1>1, <1>2, <1>7, <1>10 DEF Asked, NoCommand, NoTransfer
<1> QED BY <1>8, <1>9, <1>11

\* Reports and port changes are no answers.
LEMMA OthersKeepAnswers ==
  ASSUME Enumerating, RingsKept, Asked, NEW e \in Events, ~IsAnswer(e), Post(e),
         UNCHANGED <<step, port, slot, waiting, reply, cmd, ep0>>
  PROVE  Enumerating' /\ RingsKept' /\ Asked'
<1>1. /\ Counted(evt', Events \cup {<<>>})
      /\ \A i \in Unread(evt') : evt'.trb[i].what \in Events
      /\ Unread(evt') = Unread(evt) \cup {evt.enq}
      /\ \A i \in Unread(evt) : evt'.trb[i] = evt.trb[i]
      /\ Answers' = Answers
  BY PostKeeps
<1>2. Enumerating'
  BY DEF Enumerating
<1>3. RingsKept'
  BY <1>1 DEF RingsKept
<1>4. \A type : Answered(type) => Answered(type)'
  BY <1>1 DEF Answered, Request
<1>5. Command' = Command /\ Request' = Request
  BY DEF Command, Request
<1>6. Asked'
  BY <1>1, <1>4, <1>5 DEF Asked, NoCommand, NoTransfer
<1> QED BY <1>2, <1>3, <1>6

LEMMA ReportKeepsAnswers ==
  ASSUME Enumerating, RingsKept, Asked, NEW s \in Slots, NEW ok \in BOOLEAN, HwReport(s, ok)
  PROVE  Enumerating' /\ RingsKept' /\ Asked'
<1> DEFINE e == [type |-> "transfer", ep |-> "in", ok |-> ok, slot |-> s, of |-> <<>>]
<1>1. Post(e) /\ UNCHANGED <<step, port, slot, waiting, reply, cmd, ep0>>
  BY DEF HwReport
<1>2. e \in Events /\ ~IsAnswer(e)
  BY DEF Events, IsAnswer
<1> HIDE DEF e
<1> QED BY <1>1, <1>2, OthersKeepAnswers

LEMMA PortChangeKeepsAnswers ==
  ASSUME Enumerating, RingsKept, Asked, HwPortChange
  PROVE  Enumerating' /\ RingsKept' /\ Asked'
<1> DEFINE e == [type |-> "port"]
<1>1. Post(e) /\ UNCHANGED <<step, port, slot, waiting, reply, cmd, ep0>>
  BY DEF HwPortChange, driver
<1>2. e \in Events /\ ~IsAnswer(e)
  BY DEF Events, IsAnswer
<1> HIDE DEF e
<1> QED BY <1>1, <1>2, OthersKeepAnswers

\* A wait that is given up is never forgotten, and ends what the invariant is about.
LEMMA GivenUpStays ==
  ASSUME [XhciNext]_xhci
  PROVE  gaveUp' = {} => gaveUp = {} /\ ~Timeout
<1>1. Timeout => gaveUp' # {}
  BY DEF Timeout
<1>2. CASE Timeout
  BY <1>1, <1>2
<1>3. CASE ~Timeout
  BY <1>3 DEF XhciNext, xhci, Probe, IssueCommand, ControlTransfer, Done, ProcessEvent, HwCommand, HwPortChange,
              HwControl, HwReport
<1> QED BY <1>2, <1>3

LEMMA AnswersStep ==
  ASSUME AnswersInv, [XhciNext]_xhci
  PROVE  AnswersInv'
<1> SUFFICES ASSUME gaveUp' = {}
             PROVE  Enumerating' /\ RingsKept' /\ Asked'
  BY DEF AnswersInv
<1>1. gaveUp = {} /\ ~Timeout
  BY GivenUpStays
<1>2. Enumerating /\ RingsKept /\ Asked
  BY <1>1 DEF AnswersInv
<1>3. CASE Probe
  BY <1>2, <1>3, ProbeKeepsAnswers
<1>4. CASE IssueCommand
  BY <1>2, <1>4, IssueKeepsAnswers
<1>5. CASE ControlTransfer
  BY <1>2, <1>5, TransferKeepsAnswers
<1>6. CASE Done
  BY <1>2, <1>6, DoneKeepsAnswers
<1>7. CASE ProcessEvent
  BY <1>2, <1>7, ProcessKeepsAnswers
<1>8. CASE HwCommand
  BY <1>2, <1>8, CommandKeepsAnswers
<1>9. CASE HwPortChange
  BY <1>2, <1>9, PortChangeKeepsAnswers
<1>10. ASSUME NEW s \in Slots, NEW ok \in BOOLEAN, HwControl(s, ok)
       PROVE  Enumerating' /\ RingsKept' /\ Asked'
  BY <1>2, <1>10, ControlKeepsAnswers
<1>11. ASSUME NEW s \in Slots, NEW ok \in BOOLEAN, HwReport(s, ok)
       PROVE  Enumerating' /\ RingsKept' /\ Asked'
  BY <1>2, <1>11, ReportKeepsAnswers
<1>12. CASE UNCHANGED xhci
  <2>1. UNCHANGED <<step, port, slot, waiting, reply, cmd, evt, ep0>>
    BY <1>12 DEF xhci
  <2>2. Enumerating'
    BY <1>2, <2>1 DEF Enumerating
  <2>3. RingsKept'
    BY <1>2, <2>1 DEF RingsKept
  <2>4. Asked'
    BY <1>2, <2>1 DEF Asked, NoCommand, NoTransfer, Answers, Answered, Command, Request
  <2> QED BY <2>2, <2>3, <2>4
<1> QED BY <1>1, <1>3, <1>4, <1>5, <1>6, <1>7, <1>8, <1>9, <1>10, <1>11, <1>12 DEF XhciNext

\* processEvents takes an event for the answer by its type alone.  As long as no wait was
\* given up, it is the answer to the request that waits.
THEOREM AnswersCorrect == XhciSpec => []AnswersMatch
<1>1. XhciInit => AnswersInv
  BY AnswersInit
<1>2. AnswersInv /\ [XhciNext]_xhci => AnswersInv'
  BY AnswersStep
<1>3. AnswersInv => AnswersMatch
  BY DEF AnswersInv, AnswersMatch, Asked
<1> QED BY <1>1, <1>2, <1>3, PTL DEF XhciSpec

-----------------------------------------------------------------------------
(* USB: no report is lost and no pointer falls silent.  Every pointer with *)
(* a ring has one thing under way: an entry that the controller has not    *)
(* yet filled, or the report of it that has not yet been read.             *)

InReports(s) == {i \in Unread(evt) : /\ evt.trb[i].what.type = "transfer"
                                     /\ evt.trb[i].what.ep = "in" /\ evt.trb[i].what.slot = s}
Unused(s) == s \in Slots /\ hw[s].state # "off" /\ \A i \in DOMAIN dev : dev[i].slot # s

DevicesKnown ==
  /\ dev \in Seq([slot : Slots, kind : Pointers \cup {"none"}, ring : 0 .. NPorts, buffer : Nat])
  /\ \A i, j \in DOMAIN dev : i # j => /\ dev[i].slot # dev[j].slot
                                       /\ dev[i].ring # 0 => dev[i].ring # dev[j].ring
  /\ \A i \in DOMAIN dev : hw[dev[i].slot].state # "off"
  /\ \A i \in DOMAIN dev : dev[i].ring # 0 => /\ dev[i].kind \in Pointers /\ dev[i].ring <= port
                                              /\ step \notin {"next", "running"} => dev[i].ring # port

\* The slot of the device that is being enumerated is that of no other one.
SlotFresh ==
  /\ step = "enable" /\ waiting = "command" => \A i \in Answers : evt.trb[i].what.ok => Unused(evt.trb[i].what.slot)
  /\ step = "enable" /\ waiting = "over" => (reply.ok => Unused(reply.slot))
  /\ step \in {"address", "device", "config"} => Unused(slot)
  /\ step \in {"ranges", "setconfig", "protocol", "endpoint"} =>
       Len(dev) > 0 /\ dev[Len(dev)] = NoEntry /\ config \in Pointers

\* An endpoint reads the ring of its own device, or that which the driver is about to give it.
EndpointsOwn ==
  /\ hw \in [Slots -> [state : {"off", "enabled", "addressed"}, port : 0 .. NPorts, ep0 : 0 .. NPorts,
                       in : 0 .. NPorts, stuck : SUBSET {"ep0", "in"}]]
  /\ input \in [port : 0 .. NPorts, ring : 0 .. NPorts]
  /\ step = "endpoint" /\ waiting = "command" => input.ring = port
  /\ \A s \in Slots : hw[s].in # 0 =>
       \/ \E i \in DOMAIN dev : dev[i].slot = s /\ dev[i].ring = hw[s].in
       \/ /\ step = "endpoint" /\ s = slot /\ hw[s].in = port
          /\ \/ waiting = "command" /\ \E i \in Answers : evt.trb[i].what.ok
             \/ waiting = "over" /\ reply.ok

UnderWay(i) ==
  LET s == dev[i].slot  r == dev[i].ring
  IN  \/ Single(xfer[r], XferSize, i) /\ InReports(s) = {} /\ got[s] = sent[s]
      \/ /\ Caught(xfer[r], XferSize)
         /\ \E k \in Unread(evt) : /\ InReports(s) = {k}
                                   /\ IF evt.trb[k].what.ok THEN dev[i].buffer = sent[s] /\ got[s] + 1 = sent[s]
                                      ELSE got[s] = sent[s]
Quiet(s) == InReports(s) = {} /\ got[s] = sent[s]

OneUnderWay ==
  /\ sent \in [Slots -> Nat] /\ got \in [Slots -> Nat]
  /\ xfer = [p \in Ports |-> xfer[p]] /\ \A p \in Ports : Linked(xfer[p], XferSize, Nat \cup {<<>>})
  /\ \A p \in Ports : (\A i \in DOMAIN dev : dev[i].ring # p) => Caught(xfer[p], XferSize)
  /\ \A i \in DOMAIN dev : dev[i].ring # 0 => UnderWay(i)
  /\ \A s \in Slots : (\A i \in DOMAIN dev : dev[i].slot = s => dev[i].ring = 0) => Quiet(s)

ReportsInv == gaveUp = {} => DevicesKnown /\ SlotFresh /\ EndpointsOwn /\ OneUnderWay

LEMMA ReportsInit ==
  ASSUME XhciInit
  PROVE  ReportsInv
<1> USE UsbConstants
<1>1. dev = <<>> /\ DOMAIN dev = {} /\ dev \in Seq([slot : Slots, kind : Pointers \cup {"none"}, ring : 0 .. NPorts, buffer : Nat])
  BY DEF XhciInit
<1>2. DevicesKnown
  BY <1>1 DEF DevicesKnown
<1>3. SlotFresh
  BY DEF SlotFresh, XhciInit
<1>4. EndpointsOwn
  BY DEF EndpointsOwn, XhciInit
<1>5. \A p \in Ports : Linked(xfer[p], XferSize, Nat \cup {<<>>}) /\ Caught(xfer[p], XferSize)
  <2>1. Linked(NewRing(XferSize), XferSize, Nat \cup {<<>>}) /\ Caught(NewRing(XferSize), XferSize)
    BY NewRingCaught
  <2> QED BY <2>1 DEF XhciInit
<1>6. \A s \in Slots : Quiet(s)
  <2>1. Unread(evt) = {}
    BY NewRingUnread DEF XhciInit
  <2> QED BY <2>1 DEF XhciInit, Quiet, InReports
<1>7. OneUnderWay
  BY <1>1, <1>5, <1>6 DEF OneUnderWay, XhciInit
<1> QED BY <1>2, <1>3, <1>4, <1>7 DEF ReportsInv

LEMMA DeviceTyped ==
  ASSUME DevicesKnown
  PROVE  /\ Len(dev) \in Nat /\ DOMAIN dev = 1 .. Len(dev)
         /\ \A i \in DOMAIN dev : dev[i] \in [slot : Slots, kind : Pointers \cup {"none"}, ring : 0 .. NPorts, buffer : Nat]
  BY ElementOfSeq, LenProperties DEF DevicesKnown

\* Which reports are there to be read, after something was posted or read.
IsReport(e) == e.type = "transfer" /\ e.ep = "in"

LEMMA PostReports ==
  ASSUME RingsKept, NEW e \in Events, Post(e), NEW s
  PROVE  /\ InReports(s)' = IF IsReport(e) /\ e.slot = s THEN InReports(s) \cup {evt.enq} ELSE InReports(s)
         /\ \A k \in InReports(s) : evt'.trb[k] = evt.trb[k]
<1>1. /\ Unread(evt') = Unread(evt) \cup {evt.enq} /\ evt.enq \notin Unread(evt)
      /\ evt'.trb[evt.enq].what = e /\ \A i \in Unread(evt) : evt'.trb[i] = evt.trb[i]
  BY PostKeeps
<1> QED BY <1>1 DEF InReports, IsReport

LEMMA AdvanceReports ==
  ASSUME RingsKept, NewEvent, evt' = Advance(evt), NEW s
  PROVE  /\ InReports(s)' = InReports(s) \ {evt.deq}
         /\ evt.deq \in InReports(s) <=> IsReport(evt.trb[evt.deq].what) /\ evt.trb[evt.deq].what.slot = s
         /\ evt'.trb = evt.trb
<1>1. Unread(evt') = Unread(evt) \ {evt.deq} /\ evt.deq \in Unread(evt) /\ evt'.trb = evt.trb
  BY AdvanceKeeps
<1> QED BY <1>1 DEF InReports, IsReport

\* What is under way for a device stays so when nothing of it changes.
LEMMA UnderWayStays ==
  ASSUME NEW i, UnderWay(i), dev'[i] = dev[i], xfer'[dev[i].ring] = xfer[dev[i].ring],
         got'[dev[i].slot] = got[dev[i].slot], sent'[dev[i].slot] = sent[dev[i].slot],
         InReports(dev[i].slot)' = InReports(dev[i].slot),
         \A k \in InReports(dev[i].slot) : evt'.trb[k] = evt.trb[k]
  PROVE  UnderWay(i)'
<1> DEFINE s == dev[i].slot
           r == dev[i].ring
<1>1. dev'[i].slot = s /\ dev'[i].ring = r /\ dev'[i].buffer = dev[i].buffer
  OBVIOUS
<1>2. {k \in Unread(evt') : evt'.trb[k].what.type = "transfer" /\ evt'.trb[k].what.ep = "in" /\ evt'.trb[k].what.slot = s}
        = InReports(s)
  BY DEF InReports
<1>3. CASE Single(xfer[r], XferSize, i) /\ InReports(s) = {} /\ got[s] = sent[s]
  BY <1>1, <1>2, <1>3 DEF UnderWay, InReports
<1>4. CASE /\ Caught(xfer[r], XferSize)
           /\ \E k \in Unread(evt) : /\ InReports(s) = {k}
                                     /\ IF evt.trb[k].what.ok THEN dev[i].buffer = sent[s] /\ got[s] + 1 = sent[s]
                                        ELSE got[s] = sent[s]
  <2>1. PICK k \in Unread(evt) : /\ InReports(s) = {k}
                                 /\ IF evt.trb[k].what.ok THEN dev[i].buffer = sent[s] /\ got[s] + 1 = sent[s]
                                    ELSE got[s] = sent[s]
    BY <1>4
  <2>2. k \in Unread(evt') /\ evt'.trb[k] = evt.trb[k]
    BY <1>2, <2>1
  <2>3. /\ InReports(dev[i].slot)' = {k} /\ Caught(xfer'[dev'[i].ring], XferSize)
        /\ IF evt'.trb[k].what.ok
           THEN dev'[i].buffer = sent'[dev'[i].slot] /\ got'[dev'[i].slot] + 1 = sent'[dev'[i].slot]
           ELSE got'[dev'[i].slot] = sent'[dev'[i].slot]
    BY <1>1, <1>4, <2>1, <2>2
  <2> QED BY <2>2, <2>3 DEF UnderWay
<1> QED BY <1>3, <1>4 DEF UnderWay

LEMMA NothingReported ==
  ASSUME OneUnderWay, UNCHANGED <<dev, xfer, sent, got>>,
         \A s : InReports(s)' = InReports(s) /\ \A k \in InReports(s) : evt'.trb[k] = evt.trb[k]
  PROVE  OneUnderWay'
<1>1. ASSUME NEW i \in DOMAIN dev, dev[i].ring # 0
      PROVE  UnderWay(i)'
  BY <1>1, UnderWayStays DEF OneUnderWay
<1>2. \A s \in Slots : Quiet(s) => Quiet(s)'
  BY DEF Quiet
<1> QED BY <1>1, <1>2 DEF OneUnderWay

\* Every step of the enumeration that only goes on to the next one.
LEMMA OnlyOn ==
  ASSUME DevicesKnown, OneUnderWay, UNCHANGED <<dev, xfer, sent, got, evt>>,
         \A i \in DOMAIN dev : hw'[dev[i].slot].state = hw[dev[i].slot].state,
         port' = port, step = "next" => step' = "next", step = "running" => step' = "running"
  PROVE  DevicesKnown' /\ OneUnderWay'
<1>1. DevicesKnown'
  <2>1. dev' = dev /\ port' = port /\ \A i \in DOMAIN dev : hw'[dev[i].slot].state # "off"
    BY DEF DevicesKnown
  <2>2. step' \notin {"next", "running"} => step \notin {"next", "running"}
    OBVIOUS
  <2> QED BY <2>1, <2>2 DEF DevicesKnown
<1>2. \A s : InReports(s)' = InReports(s) /\ \A k \in InReports(s) : evt'.trb[k] = evt.trb[k]
  BY DEF InReports
<1> QED BY <1>1, <1>2, NothingReported

LEMMA ProbeKeepsReports ==
  ASSUME Enumerating, DevicesKnown, SlotFresh, EndpointsOwn, OneUnderWay, Probe
  PROVE  DevicesKnown' /\ SlotFresh' /\ EndpointsOwn' /\ OneUnderWay'
<1> DEFINE rest == {p \in Ports : p > port /\ kind[p] # "none"}
<1>1. /\ step = "next" /\ waiting = "no"
      /\ UNCHANGED <<waiting, reply, input, config, slot, dev, xfer, hw, sent, got, evt>>
  BY DEF Probe, hardware
<1>2. (step' = "running" /\ port' = port) \/ (step' = "enable" /\ port' \in Ports /\ port' > port)
  <2>1. CASE rest = {}
    BY <2>1 DEF Probe
  <2>2. CASE rest # {}
    <3>1. rest \in SUBSET Nat
      BY DEF Ports
    <3>2. Min(rest) \in Ports /\ Min(rest) > port
      BY <2>2, <3>1, MinIsLeast
    <3> QED BY <2>2, <3>2 DEF Probe
  <2> QED BY <2>1, <2>2
<1>3. DevicesKnown'
  <2>1. \A i \in DOMAIN dev : dev[i].ring \in Int
    BY DeviceTyped
  <2>2. port \in Int /\ port' \in Int
    BY <1>2 DEF Enumerating, Ports
  <2>3. \A i \in DOMAIN dev : dev[i].ring # 0 => /\ dev[i].ring <= port'
                                                 /\ step' \notin {"next", "running"} => dev[i].ring # port'
    BY <1>2, <2>1, <2>2 DEF DevicesKnown
  <2> QED BY <1>1, <2>3 DEF DevicesKnown
<1>4. SlotFresh'
  BY <1>1, <1>2 DEF SlotFresh
<1>5. EndpointsOwn'
  BY <1>1, <1>2 DEF EndpointsOwn
<1>6. \A s : InReports(s)' = InReports(s) /\ \A k \in InReports(s) : evt'.trb[k] = evt.trb[k]
  BY <1>1 DEF InReports
<1>7. OneUnderWay'
  BY <1>1, <1>6, NothingReported
<1> QED BY <1>3, <1>4, <1>5, <1>7

LEMMA IssueKeepsReports ==
  ASSUME Enumerating, RingsKept, Asked, DevicesKnown, SlotFresh, EndpointsOwn, OneUnderWay, IssueCommand
  PROVE  DevicesKnown' /\ SlotFresh' /\ EndpointsOwn' /\ OneUnderWay'
<1>1. /\ step \in CommandSteps /\ waiting = "no" /\ waiting' = "command"
      /\ UNCHANGED <<step, port, slot, reply, config, dev, xfer, hw, sent, got, evt>>
  BY DEF IssueCommand, hardware
<1>2. Answers' = {}
  BY <1>1 DEF Asked, Answers
<1>3. DevicesKnown' /\ OneUnderWay'
  BY <1>1, OnlyOn
<1>4. SlotFresh'
  BY <1>1, <1>2 DEF SlotFresh, Unused, NoEntry, CommandSteps
<1>5. input' \in [port : 0 .. NPorts, ring : 0 .. NPorts] /\ (step = "endpoint" => input'.ring = port)
  <2>1. CASE step = "enable"
    BY <2>1 DEF IssueCommand, EndpointsOwn
  <2>2. CASE step = "address"
    BY <2>2, UsbConstants DEF IssueCommand, Enumerating
  <2>3. CASE step = "endpoint"
    BY <2>3, UsbConstants DEF IssueCommand, EndpointsOwn, Enumerating
  <2> QED BY <1>1, <2>1, <2>2, <2>3 DEF CommandSteps
<1>6. EndpointsOwn'
  BY <1>1, <1>5 DEF EndpointsOwn
<1> QED BY <1>3, <1>4, <1>6

LEMMA TransferKeepsReports ==
  ASSUME Enumerating, RingsKept, Asked, DevicesKnown, SlotFresh, EndpointsOwn, OneUnderWay, ControlTransfer
  PROVE  DevicesKnown' /\ SlotFresh' /\ EndpointsOwn' /\ OneUnderWay'
<1>1. /\ step \in TransferSteps /\ waiting = "no"
      /\ UNCHANGED <<step, port, slot, input, reply, config, dev, xfer, hw, sent, got, evt>>
  BY DEF ControlTransfer, hardware, driver, Enumerating, Steps
<1>2. DevicesKnown' /\ OneUnderWay'
  BY <1>1, OnlyOn
<1>3. SlotFresh'
  BY <1>1 DEF SlotFresh, Unused, NoEntry, TransferSteps
<1>4. EndpointsOwn'
  BY <1>1 DEF EndpointsOwn, TransferSteps
<1> QED BY <1>2, <1>3, <1>4

\* Steps of the enumeration that change no device.
LEMMA DonePlainKeepsReports ==
  ASSUME Enumerating, RingsKept, Asked, DevicesKnown, SlotFresh, EndpointsOwn, OneUnderWay, Done,
         step \notin {"config", "endpoint"}
  PROVE  DevicesKnown' /\ SlotFresh' /\ EndpointsOwn' /\ OneUnderWay'
<1>1. /\ waiting = "over" /\ waiting' = "no"
      /\ UNCHANGED <<port, reply, input, config, dev, xfer, hw, sent, got, evt>>
      /\ step' = After(reply.ok, config')
      /\ slot' = IF step = "enable" THEN reply.slot ELSE slot
  BY DEF Done, Proceed, hardware
<1>2. step \notin {"next", "running"}
  BY <1>1 DEF Enumerating
<1>3. DevicesKnown' /\ OneUnderWay'
  BY <1>1, <1>2, OnlyOn
<1>4. /\ step = "enable" => step' = "next" \/ (step' = "address" /\ reply.ok)
      /\ step = "address" => step' \in {"next", "device"}
      /\ step = "device" => step' = "config"
      /\ step = "ranges" => step' = "setconfig"
      /\ step = "setconfig" => step' = "protocol"
      /\ step = "protocol" => step' = "endpoint"
  BY <1>1 DEF After
<1>5. step \in {"enable", "address", "device", "ranges", "setconfig", "protocol"}
  BY <1>2 DEF Enumerating, Steps, CommandSteps, TransferSteps
<1>6. SlotFresh'
  <2>1. CASE step = "enable"
    BY <1>1, <1>4, <2>1 DEF SlotFresh, Unused
  <2>2. CASE step \in {"address", "device"}
    BY <1>1, <1>4, <2>2 DEF SlotFresh, Unused
  <2>3. CASE step \in {"ranges", "setconfig", "protocol"}
    BY <1>1, <1>4, <2>3 DEF SlotFresh, NoEntry
  <2> QED BY <1>5, <2>1, <2>2, <2>3
<1>7. EndpointsOwn'
  BY <1>1, <1>4, <1>5 DEF EndpointsOwn
<1> QED BY <1>3, <1>6, <1>7

\* A device is entered, with the slot that no other one has.
LEMMA DoneConfigKeepsReports ==
  ASSUME Enumerating, RingsKept, Asked, DevicesKnown, SlotFresh, EndpointsOwn, OneUnderWay, Done, step = "config"
  PROVE  DevicesKnown' /\ SlotFresh' /\ EndpointsOwn' /\ OneUnderWay'
<1> DEFINE n == Len(dev) + 1
           Entry == [slot : Slots, kind : Pointers \cup {"none"}, ring : 0 .. NPorts, buffer : Nat]
<1>1. /\ waiting = "over" /\ waiting' = "no"
      /\ UNCHANGED <<port, slot, reply, input, xfer, hw, sent, got, evt>>
      /\ step' = After(reply.ok, config')
      /\ dev' = Append(dev, NoEntry)
  BY DEF Done, Proceed, hardware
<1>2. /\ step' \in {"next", "ranges", "setconfig"}
      /\ step' # "next" => config' \in Pointers
  BY <1>1 DEF After, Identified
<1>3. Unused(slot) /\ slot \in Slots /\ port \in Ports
  BY DEF SlotFresh, Enumerating
<1>4. /\ Len(dev) \in Nat /\ DOMAIN dev = 1 .. Len(dev) /\ dev \in Seq(Entry)
      /\ \A i \in DOMAIN dev : dev[i] \in Entry
  BY DeviceTyped DEF DevicesKnown
<1>5. NoEntry \in Entry /\ NoEntry.slot = slot /\ NoEntry.ring = 0
  BY <1>3, UsbConstants DEF NoEntry
<1>6. /\ dev' \in Seq(Entry) /\ Len(dev') = n /\ DOMAIN dev' = 1 .. n
      /\ dev'[n] = NoEntry /\ \A i \in DOMAIN dev : dev'[i] = dev[i]
  BY <1>1, <1>4, <1>5, AppendProperties
<1>7. DOMAIN dev' = DOMAIN dev \cup {n} /\ n \notin DOMAIN dev
  BY <1>4, <1>6
<1> HIDE DEF n
<1>8. DevicesKnown'
  <2>1. ASSUME NEW i \in DOMAIN dev', NEW j \in DOMAIN dev', i # j
        PROVE  dev'[i].slot # dev'[j].slot /\ (dev'[i].ring # 0 => dev'[i].ring # dev'[j].ring)
    <3>1. CASE i \in DOMAIN dev /\ j \in DOMAIN dev
      BY <1>6, <2>1, <3>1 DEF DevicesKnown
    <3>2. CASE i = n
      <4>1. j \in DOMAIN dev /\ dev'[j] = dev[j]
        BY <1>6, <1>7, <2>1, <3>2
      <4> QED BY <1>3, <1>5, <1>6, <3>2, <4>1 DEF Unused
    <3>3. CASE j = n
      <4>1. i \in DOMAIN dev /\ dev'[i] = dev[i]
        BY <1>6, <1>7, <2>1, <3>3
      <4> QED BY <1>3, <1>5, <1>6, <3>3, <4>1 DEF Unused
    <3> QED BY <1>7, <2>1, <3>1, <3>2, <3>3
  <2>2. \A i \in DOMAIN dev' : hw[dev'[i].slot].state # "off"
    <3>1. \A i \in DOMAIN dev : hw[dev'[i].slot].state # "off"
      BY <1>6 DEF DevicesKnown
    <3>2. hw[dev'[n].slot].state # "off"
      BY <1>3, <1>5, <1>6 DEF Unused
    <3> QED BY <1>7, <3>1, <3>2
  <2>3. \A i \in DOMAIN dev' : dev'[i].ring # 0 => dev'[i].kind \in Pointers /\ dev'[i].ring <= port /\ dev'[i].ring # port
    BY <1>5, <1>6, <1>7 DEF DevicesKnown
  <2>4. hw' = hw /\ port' = port
    BY <1>1
  <2>5. dev' \in Seq([slot : Slots, kind : Pointers \cup {"none"}, ring : 0 .. NPorts, buffer : Nat])
    BY <1>6
  <2> QED BY <2>1, <2>2, <2>3, <2>4, <2>5 DEF DevicesKnown
<1>9. SlotFresh'
  <2>1. NoEntry' = NoEntry
    BY <1>1 DEF NoEntry
  <2>2. Len(dev') > 0 /\ dev'[Len(dev')] = NoEntry
    BY <1>4, <1>6 DEF n
  <2> QED BY <1>2, <2>1, <2>2 DEF SlotFresh
<1>10. EndpointsOwn'
  <2>1. \A s \in Slots : hw[s].in # 0 => \E i \in DOMAIN dev : dev[i].slot = s /\ dev[i].ring = hw[s].in
    BY DEF EndpointsOwn
  <2>2. \A s \in Slots : hw[s].in # 0 => \E i \in DOMAIN dev' : dev'[i].slot = s /\ dev'[i].ring = hw[s].in
    BY <1>6, <1>7, <2>1
  <2> QED BY <1>1, <1>2, <2>2 DEF EndpointsOwn
<1>11. \A s : InReports(s)' = InReports(s) /\ \A k \in InReports(s) : evt'.trb[k] = evt.trb[k]
  BY <1>1 DEF InReports
<1>12. OneUnderWay'
  <2>1. ASSUME NEW i \in DOMAIN dev', dev'[i].ring # 0
        PROVE  UnderWay(i)'
    <3>1. i \in DOMAIN dev /\ dev'[i] = dev[i] /\ UnderWay(i)
      BY <1>5, <1>6, <1>7, <2>1 DEF OneUnderWay
    <3> QED BY <1>1, <1>11, <3>1, UnderWayStays
  <2>2. ASSUME NEW s \in Slots, \A i \in DOMAIN dev' : dev'[i].slot = s => dev'[i].ring = 0
        PROVE  Quiet(s)'
    <3>1. Quiet(s)
      BY <1>6, <1>7, <2>2 DEF OneUnderWay
    <3> QED BY <1>1, <1>11, <3>1 DEF Quiet
  <2>3. ASSUME NEW p \in Ports, \A i \in DOMAIN dev' : dev'[i].ring # p
        PROVE  Caught(xfer'[p], XferSize)
    BY <1>1, <1>6, <1>7, <2>3 DEF OneUnderWay
  <2> QED BY <1>1, <2>1, <2>2, <2>3 DEF OneUnderWay
<1> QED BY <1>8, <1>9, <1>10, <1>12

\* The slot's first entry is the one that was entered last.
LEMMA EntryFound ==
  ASSUME Enumerating, DevicesKnown, SlotFresh, step = "endpoint"
  PROVE  /\ Len(dev) \in DOMAIN dev /\ dev[Len(dev)] = NoEntry
         /\ Min({i \in DOMAIN dev : dev[i].slot = slot}) = Len(dev)
<1> DEFINE T == {i \in DOMAIN dev : dev[i].slot = slot}
<1>1. Len(dev) \in DOMAIN dev /\ dev[Len(dev)] = NoEntry
  BY DeviceTyped DEF SlotFresh
<1>2. T = {Len(dev)}
  BY <1>1 DEF DevicesKnown, NoEntry
<1>3. Min(T) \in T
  BY <1>2, DeviceTyped, MinIsLeast
<1> QED BY <1>1, <1>2, <1>3

\* What endpoint does to the devices: the new one is complete.
LEMMA EntryCompleted ==
  ASSUME Enumerating, DevicesKnown, SlotFresh, Done, step = "endpoint"
  PROVE  LET E == [slot |-> slot, kind |-> config, ring |-> IF reply.ok THEN port ELSE 0, buffer |-> 0]
         IN  /\ dev' = [dev EXCEPT ![Len(dev)] = E]
             /\ xfer' = IF reply.ok THEN [xfer EXCEPT ![port] = Enqueue(@, XferSize, Len(dev))] ELSE xfer
<1> DEFINE n == Len(dev)
           E == [slot |-> slot, kind |-> config, ring |-> IF reply.ok THEN port ELSE 0, buffer |-> 0]
           Entry == [slot : Slots, kind : Pointers \cup {"none"}, ring : 0 .. NPorts, buffer : Nat]
           w == WithRing(reply.ok)
           d == Marked(w)
<1>1. n \in DOMAIN dev /\ dev[n] = NoEntry /\ Min({i \in DOMAIN dev : dev[i].slot = slot}) = n
  BY EntryFound
<1>2. dev \in Seq(Entry) /\ config \in Pointers
      /\ n \in Nat /\ DOMAIN dev = 1 .. n
  BY DeviceTyped DEF DevicesKnown, SlotFresh
<1>3. port # 0 /\ E \in Entry
  BY <1>2, UsbConstants DEF Enumerating, Ports
<1>4. dev' = Cleared(d, Len(d)) /\ xfer' = Scheduled(d, Len(d))
  BY DEF Done, Proceed
<1>5. PICK a : a \in Entry /\ a = [slot |-> slot, kind |-> "none", ring |-> IF reply.ok THEN port ELSE 0, buffer |-> 0]
  <2>1. [slot |-> slot, kind |-> "none", ring |-> IF reply.ok THEN port ELSE 0, buffer |-> 0] \in Entry
    BY UsbConstants DEF Enumerating, Ports
  <2> QED BY <2>1
<1>6. w = [dev EXCEPT ![n] = a]
  <2>1. CASE reply.ok
    <3>1. w = [dev EXCEPT ![n].ring = port]
      BY <1>1, <2>1 DEF WithRing
    <3>2. PICK c : c = [dev[n] EXCEPT !.ring = port]
      OBVIOUS
    <3>3. c = a
      BY <1>1, <1>5, <2>1, <3>2 DEF NoEntry
    <3> HIDE DEF w, n
    <3> QED BY <1>1, <3>1, <3>2, <3>3
  <2>2. CASE ~reply.ok
    <3>1. w = dev
      BY <2>2 DEF WithRing
    <3>2. dev[n] = a
      BY <1>1, <1>5, <2>2 DEF NoEntry
    <3> HIDE DEF w, n
    <3> QED BY <1>1, <1>2, <3>1, <3>2
  <2> QED BY <2>1, <2>2
<1>7. Len(w) = n /\ w[n] = a /\ DOMAIN w = DOMAIN dev
  <2> HIDE DEF w, Entry
  <2>1. DOMAIN w = 1 .. n /\ w[n] = a
    BY <1>1, <1>2, <1>6
  <2>2. n \in 1 .. Len(dev) /\ dev \in Seq(Entry) /\ a \in Entry
    BY <1>1, <1>2, <1>5
  <2>3. Len([dev EXCEPT ![n] = a]) = Len(dev)
    <3> HIDE DEF n
    <3> QED BY <2>2, ExceptSeq
  <2>4. Len(w) = n
    BY <1>6, <2>3
  <2> QED BY <1>2, <2>1, <2>4
<1>8. d = [dev EXCEPT ![n] = E]
  <2>1. d = [w EXCEPT ![n].kind = config]
    BY <1>2, <1>7 DEF Marked, Identified
  <2>2. PICK c : c = [w[n] EXCEPT !.kind = config]
    OBVIOUS
  <2>3. c = E
    BY <1>5, <1>7, <2>2
  <2>4. d = [w EXCEPT ![n] = c]
    <3> HIDE DEF d, w, n
    <3> QED BY <2>1, <2>2
  <2> HIDE DEF d, w, n, E
  <2> QED BY <1>2, <1>6, <1>7, <2>3, <2>4
<1>9. Len(d) = n /\ d[n] = E /\ DOMAIN d = DOMAIN dev
  <2> HIDE DEF d, E, Entry
  <2>1. DOMAIN d = 1 .. n /\ d[n] = E
    BY <1>1, <1>2, <1>8
  <2>2. Len(d) = n
    BY <1>1, <1>2, <1>3, <1>8, ExceptSeq
  <2> QED BY <1>2, <2>1, <2>2
<1>10. Cleared(d, n) = d
  <2>1. CASE d[n].ring = 0
    BY <2>1 DEF Cleared
  <2>2. CASE d[n].ring # 0
    <3>1. Cleared(d, n) = [d EXCEPT ![n].buffer = 0]
      BY <2>2 DEF Cleared
    <3>2. PICK c : c = [d[n] EXCEPT !.buffer = 0]
      OBVIOUS
    <3>3. c = E
      BY <1>9, <3>2
    <3>4. [d EXCEPT ![n].buffer = 0] = [d EXCEPT ![n] = c]
      <4> HIDE DEF d, n
      <4> QED BY <3>2
    <3> HIDE DEF d, n, E
    <3> QED BY <1>1, <1>8, <1>9, <3>1, <3>3, <3>4
  <2> QED BY <2>1, <2>2
<1>11. Scheduled(d, n) = IF reply.ok THEN [xfer EXCEPT ![port] = Enqueue(@, XferSize, n)] ELSE xfer
  <2>1. d[n].ring = IF reply.ok THEN port ELSE 0
    BY <1>9
  <2> HIDE DEF d, n
  <2> QED BY <1>3, <2>1 DEF Scheduled
<1> HIDE DEF d
<1> QED BY <1>4, <1>8, <1>9, <1>10, <1>11

LEMMA DoneEndpointKeepsReports ==
  ASSUME Enumerating, RingsKept, Asked, DevicesKnown, SlotFresh, EndpointsOwn, OneUnderWay, Done, step = "endpoint"
  PROVE  DevicesKnown' /\ SlotFresh' /\ EndpointsOwn' /\ OneUnderWay'
<1> DEFINE n == Len(dev)
           Entry == [slot : Slots, kind : Pointers \cup {"none"}, ring : 0 .. NPorts, buffer : Nat]
           E == [slot |-> slot, kind |-> config, ring |-> IF reply.ok THEN port ELSE 0, buffer |-> 0]
<1>1. /\ waiting = "over" /\ waiting' = "no" /\ ~NewEvent
      /\ UNCHANGED <<port, slot, reply, input, hw, sent, got, evt>>
      /\ step' = "next"
  BY DEF Done, Proceed, hardware, After
<1>2. slot \in Slots /\ port \in Ports /\ port \in Nat \ {0} /\ config \in Pointers
  BY UsbConstants DEF SlotFresh, Enumerating, Ports
<1>3. n \in DOMAIN dev /\ dev[n] = NoEntry /\ n \in Nat /\ DOMAIN dev = 1 .. n
      /\ dev \in Seq(Entry) /\ \A i \in DOMAIN dev : dev[i] \in Entry
  BY EntryFound, DeviceTyped DEF DevicesKnown
<1>4. /\ dev' = [dev EXCEPT ![n] = E]
      /\ xfer' = IF reply.ok THEN [xfer EXCEPT ![port] = Enqueue(@, XferSize, n)] ELSE xfer
  BY EntryCompleted
<1>5. E \in Entry /\ E.slot = slot /\ E.ring = (IF reply.ok THEN port ELSE 0) /\ E.kind \in Pointers
  BY <1>2, UsbConstants DEF Ports
<1>6. dev[n].slot = slot /\ dev[n].ring = 0
  BY <1>3 DEF NoEntry
<1> HIDE DEF n, E
<1>7. DOMAIN dev' = DOMAIN dev /\ dev'[n] = E /\ \A i \in DOMAIN dev \ {n} : dev'[i] = dev[i]
  BY <1>3, <1>4
<1>8. dev' \in Seq(Entry)
  BY <1>3, <1>4, <1>5
<1>9. \A i \in DOMAIN dev : dev'[i].slot = dev[i].slot
  BY <1>5, <1>6, <1>7
<1>10. \A i \in DOMAIN dev : dev[i].ring # port
  BY <1>1, <1>2 DEF DevicesKnown
<1>11. DevicesKnown'
  <2>1. ASSUME NEW i \in DOMAIN dev', NEW j \in DOMAIN dev', i # j
        PROVE  dev'[i].slot # dev'[j].slot /\ (dev'[i].ring # 0 => dev'[i].ring # dev'[j].ring)
    <3>1. dev[i].slot # dev[j].slot /\ (dev[i].ring # 0 => dev[i].ring # dev[j].ring)
      BY <1>7, <2>1 DEF DevicesKnown
    <3>2. dev'[i].slot # dev'[j].slot
      BY <1>7, <1>9, <3>1
    <3>3. CASE i # n /\ j # n
      BY <1>7, <3>1, <3>2, <3>3
    <3>4. CASE i = n
      BY <1>5, <1>7, <1>10, <2>1, <3>2, <3>4
    <3>5. CASE j = n
      BY <1>5, <1>7, <1>10, <2>1, <3>2, <3>5
    <3> QED BY <3>3, <3>4, <3>5
  <2>2. \A i \in DOMAIN dev' : hw[dev'[i].slot].state # "off"
    BY <1>7, <1>9 DEF DevicesKnown
  <2>3. \A i \in DOMAIN dev' : dev'[i].ring # 0 => dev'[i].kind \in Pointers /\ dev'[i].ring <= port
    <3>1. \A i \in DOMAIN dev \ {n} : dev'[i].ring # 0 => dev'[i].kind \in Pointers /\ dev'[i].ring <= port
      BY <1>7 DEF DevicesKnown
    <3>2. E.ring # 0 => E.ring <= port
      BY <1>2, <1>5
    <3> QED BY <1>5, <1>7, <3>1, <3>2
  <2>4. hw' = hw /\ port' = port
    BY <1>1
  <2>5. dev' \in Seq([slot : Slots, kind : Pointers \cup {"none"}, ring : 0 .. NPorts, buffer : Nat])
    BY <1>8
  <2> QED BY <1>1, <2>1, <2>2, <2>3, <2>4, <2>5 DEF DevicesKnown
<1>12. SlotFresh'
  BY <1>1 DEF SlotFresh
<1>13. EndpointsOwn'
  <2>1. ASSUME NEW s \in Slots, hw[s].in # 0
        PROVE  \E i \in DOMAIN dev' : dev'[i].slot = s /\ dev'[i].ring = hw[s].in
    <3>1. CASE \E i \in DOMAIN dev : dev[i].slot = s /\ dev[i].ring = hw[s].in
      BY <1>6, <1>7, <2>1, <3>1
    <3>2. CASE ~ \E i \in DOMAIN dev : dev[i].slot = s /\ dev[i].ring = hw[s].in
      <4>1. s = slot /\ hw[s].in = port /\ reply.ok
        BY <1>1, <2>1, <3>2 DEF EndpointsOwn
      <4> QED BY <1>3, <1>5, <1>7, <4>1
    <3> QED BY <3>1, <3>2
  <2> QED BY <1>1, <2>1 DEF EndpointsOwn
<1>14. Unread(evt) = {} /\ evt' = evt
  BY <1>1, NewIsUnread DEF RingsKept
<1>15. \A s : InReports(s)' = {} /\ InReports(s) = {}
  BY <1>14 DEF InReports
<1>16. Linked(xfer[port], XferSize, Nat \cup {<<>>}) /\ Caught(xfer[port], XferSize)
  BY <1>2, <1>10 DEF OneUnderWay
<1>17. LET q == Enqueue(xfer[port], XferSize, n)
       IN  Linked(q, XferSize, Nat \cup {<<>>}) /\ Single(q, XferSize, n)
  BY <1>3, <1>16, EnqueueSingle, UsbConstants
<1>18. xfer = [p \in Ports |-> xfer[p]]
  BY DEF OneUnderWay
<1>19. OneUnderWay'
  <2>1. ASSUME NEW i \in DOMAIN dev', dev'[i].ring # 0
        PROVE  UnderWay(i)'
    <3>1. CASE i = n
      <4>1. reply.ok /\ dev'[i].ring = port /\ dev'[i].slot = slot
        BY <1>5, <1>7, <2>1, <3>1
      <4>2. xfer'[port] = Enqueue(xfer[port], XferSize, n)
        BY <1>2, <1>4, <1>18, <4>1
      <4>3. \A j \in DOMAIN dev : dev[j].slot = slot => dev[j].ring = 0
        BY <1>3, <1>6 DEF DevicesKnown
      <4>4. Quiet(slot)
        BY <1>2, <4>3 DEF OneUnderWay
      <4>5. got'[slot] = sent'[slot]
        BY <1>1, <4>4 DEF Quiet
      <4> QED BY <1>15, <1>17, <3>1, <4>1, <4>2, <4>5 DEF UnderWay
    <3>2. CASE i # n
      <4>1. i \in DOMAIN dev /\ dev'[i] = dev[i] /\ UnderWay(i)
        BY <1>7, <2>1, <3>2 DEF OneUnderWay
      <4>2. xfer'[dev[i].ring] = xfer[dev[i].ring]
        BY <1>4, <1>10, <1>18, <4>1
      <4> QED BY <1>1, <1>15, <4>1, <4>2, UnderWayStays
    <3> QED BY <3>1, <3>2
  <2>2. ASSUME NEW s \in Slots, \A i \in DOMAIN dev' : dev'[i].slot = s => dev'[i].ring = 0
        PROVE  Quiet(s)'
    <3>1. \A i \in DOMAIN dev : dev[i].slot = s => dev[i].ring = 0
      BY <1>6, <1>7, <2>2
    <3>2. Quiet(s)
      BY <3>1 DEF OneUnderWay
    <3> QED BY <1>1, <1>15, <3>2 DEF Quiet
  <2>3. ASSUME NEW p \in Ports, \A i \in DOMAIN dev' : dev'[i].ring # p
        PROVE  Caught(xfer'[p], XferSize)
    <3>1. xfer'[p] = xfer[p]
      BY <1>3, <1>4, <1>5, <1>7, <1>18, <2>3
    <3>2. \A i \in DOMAIN dev : dev[i].ring # p
      BY <1>6, <1>7, <2>3 DEF Ports
    <3> QED BY <3>1, <3>2 DEF OneUnderWay
  <2>4. xfer' = [p \in Ports |-> xfer'[p]] /\ \A p \in Ports : Linked(xfer'[p], XferSize, Nat \cup {<<>>})
    BY <1>2, <1>4, <1>17, <1>18 DEF OneUnderWay
  <2>5. sent' = sent /\ got' = got
    BY <1>1
  <2> QED BY <2>1, <2>2, <2>3, <2>4, <2>5 DEF OneUnderWay
<1> QED BY <1>11, <1>12, <1>13, <1>19

LEMMA DoneKeepsReports ==
  ASSUME Enumerating, RingsKept, Asked, DevicesKnown, SlotFresh, EndpointsOwn, OneUnderWay, Done
  PROVE  DevicesKnown' /\ SlotFresh' /\ EndpointsOwn' /\ OneUnderWay'
<1>1. CASE step = "config"
  BY <1>1, DoneConfigKeepsReports
<1>2. CASE step = "endpoint"
  BY <1>2, DoneEndpointKeepsReports
<1>3. CASE step \notin {"config", "endpoint"}
  BY <1>3, DonePlainKeepsReports
<1> QED BY <1>1, <1>2, <1>3

\* An answer is read, or a port change: it is of no pointer.
LEMMA AnswerKeepsReports ==
  ASSUME Enumerating, RingsKept, Asked, DevicesKnown, SlotFresh, EndpointsOwn, OneUnderWay, ProcessEvent,
         ~IsReport(evt.trb[evt.deq].what)
  PROVE  DevicesKnown' /\ SlotFresh' /\ EndpointsOwn' /\ OneUnderWay'
<1> DEFINE e == evt.trb[evt.deq].what
<1>1. /\ NewEvent /\ evt' = Advance(evt)
      /\ UNCHANGED <<step, port, slot, input, config, hw, sent>>
  BY DEF ProcessEvent, hardware
<1>2. /\ evt.deq \in Unread(evt) /\ evt'.trb = evt.trb /\ Answers' = Answers \ {evt.deq}
  BY <1>1, AdvanceKeeps
<1>3. e \in Events
  BY <1>2 DEF RingsKept
<1>4. \A s : InReports(s)' = InReports(s) /\ \A k \in InReports(s) : evt'.trb[k] = evt.trb[k]
  BY <1>1, AdvanceReports
<1>5. CASE IsAnswer(e)
  <2>1. /\ waiting = e.type /\ waiting \in {"command", "transfer"} /\ Answers = {evt.deq}
    BY <1>1, <1>5, AnswerRead
  <2>2. waiting' = "over" /\ UNCHANGED <<dev, xfer, got>> /\ reply'.ok = e.ok
        /\ (e.type = "command" => reply'.slot = e.slot)
    <3>1. CASE e.type = "command"
      <4>1. HandleCommandComplete(e)
        BY <3>1 DEF ProcessEvent
      <4> QED BY <2>1, <3>1, <4>1 DEF HandleCommandComplete, Enumerating, Answer
    <3>2. CASE e.type = "transfer"
      <4>1. HandleTransferEvent(e) /\ e.ep = "ep0"
        BY <1>5, <3>2 DEF ProcessEvent, IsAnswer
      <4> QED BY <2>1, <3>2, <4>1 DEF HandleTransferEvent, Answer
    <3> QED BY <2>1, <3>1, <3>2
  <2> HIDE DEF e
  <2>3. DevicesKnown' /\ OneUnderWay'
    <3>1. DevicesKnown'
      BY <1>1, <2>2 DEF DevicesKnown
    <3>2. OneUnderWay'
      BY <1>1, <1>4, <2>2, NothingReported
    <3> QED BY <3>1, <3>2
  <2>4. SlotFresh'
    <3>1. CASE step = "enable"
      <4>1. e.type = "command"
        BY <2>1, <3>1 DEF Enumerating, TransferSteps
      <4>2. e.ok => Unused(e.slot)
        BY <2>1, <3>1, <4>1 DEF SlotFresh, e
      <4> QED BY <1>1, <2>2, <3>1, <4>1, <4>2 DEF SlotFresh, Unused
    <3>2. CASE step # "enable"
      <4>1. NoEntry' = NoEntry
        BY <1>1 DEF NoEntry
      <4> QED BY <1>1, <2>2, <3>2, <4>1 DEF SlotFresh, Unused
    <3> QED BY <3>1, <3>2
  <2>5. EndpointsOwn'
    <3>1. ASSUME NEW s \in Slots, hw[s].in # 0
          PROVE  \/ \E i \in DOMAIN dev : dev[i].slot = s /\ dev[i].ring = hw[s].in
                 \/ step = "endpoint" /\ s = slot /\ hw[s].in = port /\ e.ok
      <4>1. (\E i \in Answers : evt.trb[i].what.ok) => e.ok
        BY <2>1 DEF e
      <4>2. waiting # "over"
        BY <2>1
      <4> QED BY <3>1, <4>1, <4>2 DEF EndpointsOwn
    <3> QED BY <1>1, <2>2, <3>1 DEF EndpointsOwn
  <2> QED BY <2>3, <2>4, <2>5
<1>6. CASE ~IsAnswer(e)
  <2>1. e.type = "port"
    BY <1>3, <1>6 DEF IsAnswer, IsReport, Events
  <2>2. UNCHANGED <<waiting, reply, dev, xfer, got>>
    BY <2>1 DEF ProcessEvent, HandlePortStatusChange
  <2>3. Answers' = Answers
    BY <1>2, <1>6 DEF Answers
  <2> HIDE DEF e
  <2>4. DevicesKnown'
    BY <1>1, <2>2 DEF DevicesKnown
  <2>5. OneUnderWay'
    BY <1>1, <1>4, <2>2, NothingReported
  <2>6. SlotFresh'
    <3>1. NoEntry' = NoEntry
      BY <1>1 DEF NoEntry
    <3> QED BY <1>1, <1>2, <2>2, <2>3, <3>1 DEF SlotFresh, Unused
  <2>7. EndpointsOwn'
    BY <1>1, <1>2, <2>2, <2>3 DEF EndpointsOwn
  <2> QED BY <2>4, <2>5, <2>6, <2>7
<1> QED BY <1>5, <1>6

\* The device of a report that is read, and what was under way for it.
LEMMA ReportRead ==
  ASSUME RingsKept, DevicesKnown, OneUnderWay, NewEvent, IsReport(evt.trb[evt.deq].what)
  PROVE  LET e == evt.trb[evt.deq].what
         IN  \E i \in DOMAIN dev :
               /\ dev[i].slot = e.slot /\ dev[i].ring # 0 /\ e.slot \in Slots
               /\ {j \in DOMAIN dev : dev[j].slot = e.slot /\ dev[j].kind \in Pointers} = {i}
               /\ Caught(xfer[dev[i].ring], XferSize) /\ InReports(e.slot) = {evt.deq}
               /\ IF e.ok THEN dev[i].buffer = sent[e.slot] ELSE got[e.slot] = sent[e.slot]
<1> DEFINE e == evt.trb[evt.deq].what
           s == e.slot
<1>1. evt.deq \in Unread(evt) /\ e \in Events
  BY NewIsUnread DEF RingsKept
<1>2. s \in Slots /\ evt.deq \in InReports(s)
  BY <1>1 DEF Events, IsReport, InReports
<1>3. ~Quiet(s)
  BY <1>2 DEF Quiet
<1>4. PICK i \in DOMAIN dev : dev[i].slot = s /\ dev[i].ring # 0
  BY <1>2, <1>3 DEF OneUnderWay
<1>5. UnderWay(i)
  BY <1>4 DEF OneUnderWay
<1>6. /\ Caught(xfer[dev[i].ring], XferSize)
      /\ \E k \in Unread(evt) : /\ InReports(s) = {k}
                                /\ IF evt.trb[k].what.ok THEN dev[i].buffer = sent[s] /\ got[s] + 1 = sent[s]
                                   ELSE got[s] = sent[s]
  BY <1>2, <1>4, <1>5 DEF UnderWay
<1>7. InReports(s) = {evt.deq} /\ IF e.ok THEN dev[i].buffer = sent[s] ELSE got[s] = sent[s]
  BY <1>2, <1>6
<1>8. {j \in DOMAIN dev : dev[j].slot = s /\ dev[j].kind \in Pointers} = {i}
  BY <1>4 DEF DevicesKnown
<1> HIDE DEF e, s
<1>9. \E j \in DOMAIN dev :
               /\ dev[j].slot = s /\ dev[j].ring # 0 /\ s \in Slots
               /\ {l \in DOMAIN dev : dev[l].slot = s /\ dev[l].kind \in Pointers} = {j}
               /\ Caught(xfer[dev[j].ring], XferSize) /\ InReports(s) = {evt.deq}
               /\ IF e.ok THEN dev[j].buffer = sent[s] ELSE got[s] = sent[s]
  BY <1>2, <1>4, <1>6, <1>7, <1>8
<1> QED BY <1>9 DEF e, s

\* Only buffers change.
LEMMA DevicesKept ==
  ASSUME DevicesKnown, UNCHANGED <<port, step>>, \A s \in Slots : hw'[s].state = hw[s].state,
         dev' \in Seq([slot : Slots, kind : Pointers \cup {"none"}, ring : 0 .. NPorts, buffer : Nat]),
         DOMAIN dev' = DOMAIN dev,
         \A j \in DOMAIN dev : dev'[j].slot = dev[j].slot /\ dev'[j].ring = dev[j].ring /\ dev'[j].kind = dev[j].kind
  PROVE  DevicesKnown'
<1>1. \A j, k \in DOMAIN dev : j # k => /\ dev'[j].slot # dev'[k].slot
                                        /\ dev'[j].ring # 0 => dev'[j].ring # dev'[k].ring
  <2> SUFFICES ASSUME NEW j \in DOMAIN dev, NEW k \in DOMAIN dev, j # k
               PROVE  dev'[j].slot # dev'[k].slot /\ (dev'[j].ring # 0 => dev'[j].ring # dev'[k].ring)
    OBVIOUS
  <2>1. dev[j].slot # dev[k].slot /\ (dev[j].ring # 0 => dev[j].ring # dev[k].ring)
    BY DEF DevicesKnown
  <2> QED BY <2>1
<1>2. \A j \in DOMAIN dev : hw'[dev'[j].slot].state # "off"
  BY DeviceTyped DEF DevicesKnown
<1>3. \A j \in DOMAIN dev : dev'[j].ring # 0 => /\ dev'[j].kind \in Pointers /\ dev'[j].ring <= port'
                                                 /\ step' \notin {"next", "running"} => dev'[j].ring # port'
  BY DEF DevicesKnown
<1> QED BY <1>1, <1>2, <1>3 DEF DevicesKnown

LEMMA ReportReadKeepsReports ==
  ASSUME Enumerating, RingsKept, Asked, DevicesKnown, SlotFresh, EndpointsOwn, OneUnderWay, ProcessEvent,
         IsReport(evt.trb[evt.deq].what)
  PROVE  DevicesKnown' /\ SlotFresh' /\ EndpointsOwn' /\ OneUnderWay'
<1>0. PICK e, s : e = evt.trb[evt.deq].what /\ s = e.slot
  OBVIOUS
<1> DEFINE Entry == [slot : Slots, kind : Pointers \cup {"none"}, ring : 0 .. NPorts, buffer : Nat]
<1>1. /\ NewEvent /\ evt' = Advance(evt)
      /\ UNCHANGED <<step, port, slot, input, config, hw, sent>>
  BY DEF ProcessEvent, hardware
<1>2. UNCHANGED <<waiting, reply>> /\ Report(e)
  BY <1>0 DEF ProcessEvent, IsReport, HandleTransferEvent
<1>3. PICK i \in DOMAIN dev :
        /\ dev[i].slot = s /\ dev[i].ring # 0 /\ s \in Slots
        /\ {j \in DOMAIN dev : dev[j].slot = s /\ dev[j].kind \in Pointers} = {i}
        /\ Caught(xfer[dev[i].ring], XferSize) /\ InReports(s) = {evt.deq}
        /\ IF e.ok THEN dev[i].buffer = sent[s] ELSE got[s] = sent[s]
  BY <1>0, <1>1, ReportRead
<1>4. /\ Len(dev) \in Nat /\ DOMAIN dev = 1 .. Len(dev) /\ dev \in Seq(Entry)
      /\ \A j \in DOMAIN dev : dev[j] \in Entry
  BY DeviceTyped DEF DevicesKnown
<1>5. /\ got' = IF e.ok THEN [got EXCEPT ![s] = dev[i].buffer] ELSE got
      /\ dev' = [dev EXCEPT ![i].buffer = 0]
      /\ xfer' = [xfer EXCEPT ![dev[i].ring] = Enqueue(@, XferSize, i)]
  <2>1. Min({i}) = i
    <3>1. {i} \in SUBSET Nat /\ {i} # {}
      BY <1>4
    <3>2. Min({i}) \in {i}
      BY <3>1, MinIsLeast
    <3> QED BY <3>2
  <2>2. LET mine == {j \in DOMAIN dev : dev[j].slot = e.slot /\ dev[j].kind \in Pointers}
        IN  mine = {i} /\ Min(mine) = i
    BY <1>0, <1>3, <2>1
  <2> QED BY <1>0, <1>2, <1>3, <2>2 DEF Report, Cleared, Scheduled
<1>6. Answers' = Answers /\ evt'.trb = evt.trb
  <2>1. /\ evt.deq \in Unread(evt) /\ evt'.trb = evt.trb /\ Answers' = Answers \ {evt.deq}
    BY <1>1, AdvanceKeeps
  <2> QED BY <2>1 DEF Answers, IsAnswer, IsReport
<1>7. \A t : InReports(t)' = InReports(t) \ {evt.deq} /\ (t # s => evt.deq \notin InReports(t))
  BY <1>0, <1>1, AdvanceReports
<1>8. PICK n : n = [dev[i] EXCEPT !.buffer = 0]
  OBVIOUS
<1>9. /\ n \in Entry /\ n.slot = s /\ n.ring = dev[i].ring /\ n.kind = dev[i].kind
      /\ n = [slot |-> s, kind |-> dev[i].kind, ring |-> dev[i].ring, buffer |-> 0]
  <2>1. n = [slot |-> s, kind |-> dev[i].kind, ring |-> dev[i].ring, buffer |-> 0]
    BY <1>3, <1>4, <1>8
  <2> QED BY <1>3, <1>4, <2>1
<1>10. dev' = [dev EXCEPT ![i] = n]
  BY <1>5, <1>8
<1>11. /\ DOMAIN dev' = DOMAIN dev /\ dev' \in Seq(Entry) /\ Len(dev') = Len(dev)
       /\ dev'[i] = n /\ \A j \in DOMAIN dev \ {i} : dev'[j] = dev[j]
  <2>1. /\ DOMAIN dev' = DOMAIN dev /\ dev' \in Seq(Entry)
        /\ dev'[i] = n /\ \A j \in DOMAIN dev \ {i} : dev'[j] = dev[j]
    BY <1>4, <1>9, <1>10
  <2> QED BY <1>4, <2>1, LenProperties
<1>12. \A j \in DOMAIN dev : dev'[j].slot = dev[j].slot /\ dev'[j].ring = dev[j].ring /\ dev'[j].kind = dev[j].kind
  BY <1>3, <1>9, <1>11
<1>13. DevicesKnown'
  BY <1>1, <1>11, <1>12, DevicesKept
<1>14. SlotFresh'
  <2>1. ASSUME step \in {"ranges", "setconfig", "protocol", "endpoint"}
        PROVE  dev'[Len(dev')] = NoEntry /\ NoEntry' = NoEntry /\ Len(dev') > 0
    <3>1. Len(dev) \in DOMAIN dev /\ dev[Len(dev)] = NoEntry
      BY <1>4, <2>1 DEF SlotFresh
    <3>2. Len(dev) # i
      BY <1>3, <3>1 DEF NoEntry
    <3>3. NoEntry' = NoEntry
      BY <1>1 DEF NoEntry
    <3>4. Len(dev') = Len(dev) /\ Len(dev) > 0
      BY <1>11, <2>1 DEF SlotFresh
    <3>5. dev'[Len(dev)] = dev[Len(dev)]
      BY <1>11, <3>1, <3>2
    <3> QED BY <3>1, <3>3, <3>4, <3>5
  <2>2. \A t : Unused(t) => Unused(t)'
    BY <1>1, <1>11, <1>12 DEF Unused
  <2>3. Answers' = Answers /\ evt'.trb = evt.trb /\ UNCHANGED <<waiting, reply, step, slot, config>>
    BY <1>1, <1>2, <1>6
  <2> QED BY <2>1, <2>2, <2>3 DEF SlotFresh
<1>15. EndpointsOwn'
  <2>1. UNCHANGED <<hw, input, step, waiting, reply, port, slot>>
    BY <1>1, <1>2
  <2>2. ASSUME NEW t \in Slots, \E j \in DOMAIN dev : dev[j].slot = t /\ dev[j].ring = hw[t].in
        PROVE  \E j \in DOMAIN dev' : dev'[j].slot = t /\ dev'[j].ring = hw[t].in
    BY <1>11, <1>12, <2>2
  <2> QED BY <1>6, <2>1, <2>2 DEF EndpointsOwn
<1>16. dev[i].ring \in Ports /\ xfer = [p \in Ports |-> xfer[p]] /\ Linked(xfer[dev[i].ring], XferSize, Nat \cup {<<>>})
  BY <1>3, <1>4, UsbConstants, SMTT(30) DEF OneUnderWay, Ports
<1>17. LET q == Enqueue(xfer[dev[i].ring], XferSize, i)
       IN  Linked(q, XferSize, Nat \cup {<<>>}) /\ Single(q, XferSize, i)
  BY <1>3, <1>4, <1>16, EnqueueSingle, UsbConstants
<1>18. /\ xfer'[dev[i].ring] = Enqueue(xfer[dev[i].ring], XferSize, i)
       /\ \A p \in Ports : p # dev[i].ring => xfer'[p] = xfer[p]
       /\ xfer' = [p \in Ports |-> xfer'[p]]
  BY <1>5, <1>16
<1>19. got' \in [Slots -> Nat] /\ got'[s] = sent[s] /\ \A t \in Slots : t # s => got'[t] = got[t]
  <2>1. got \in [Slots -> Nat] /\ dev[i].buffer \in Nat
    BY <1>4 DEF OneUnderWay
  <2> QED BY <1>3, <1>5, <2>1
<1>20. OneUnderWay'
  <2>1. ASSUME NEW j \in DOMAIN dev', dev'[j].ring # 0
        PROVE  UnderWay(j)'
    <3>1. CASE j = i
      <4>1. InReports(s)' = {}
        BY <1>3, <1>7
      <4>2. dev'[i].slot = s /\ dev'[i].ring = dev[i].ring /\ sent' = sent
        BY <1>1, <1>9, <1>11
      <4>3. Single(xfer'[dev'[i].ring], XferSize, i) /\ InReports(dev[i].slot)' = {} /\ got'[dev'[i].slot] = sent'[dev'[i].slot]
        BY <1>17, <1>18, <1>19, <4>1, <4>2
      <4> QED BY <3>1, <4>3 DEF UnderWay
    <3>2. CASE j # i
      <4>1. j \in DOMAIN dev /\ dev'[j] = dev[j] /\ dev[j].ring # 0 /\ UnderWay(j)
        BY <1>11, <2>1, <3>2 DEF OneUnderWay
      <4>2. dev[j].slot # s /\ dev[j].ring # dev[i].ring
        BY <1>3, <3>2, <4>1 DEF DevicesKnown
      <4>3. dev[j].slot \in Slots /\ dev[j].ring \in Ports
        BY <1>4, <4>1, UsbConstants, SMTT(30) DEF Ports
      <4>4. InReports(dev[j].slot)' = InReports(dev[j].slot)
        BY <1>7, <4>1, <4>2
      <4>5. xfer'[dev[j].ring] = xfer[dev[j].ring] /\ got'[dev[j].slot] = got[dev[j].slot] /\ sent' = sent
        BY <1>1, <1>18, <1>19, <4>2, <4>3
      <4> QED BY <1>6, <4>1, <4>4, <4>5, UnderWayStays
    <3> QED BY <3>1, <3>2
  <2>2. ASSUME NEW t \in Slots, \A j \in DOMAIN dev' : dev'[j].slot = t => dev'[j].ring = 0
        PROVE  Quiet(t)'
    <3>1. \A j \in DOMAIN dev : dev[j].slot = t => dev[j].ring = 0
      BY <1>11, <1>12, <2>2
    <3>2. Quiet(t) /\ t # s
      BY <1>3, <3>1 DEF OneUnderWay
    <3> QED BY <1>1, <1>7, <1>19, <3>2 DEF Quiet
  <2>3. ASSUME NEW p \in Ports, \A j \in DOMAIN dev' : dev'[j].ring # p
        PROVE  Caught(xfer'[p], XferSize)
    <3>1. \A j \in DOMAIN dev : dev[j].ring # p
      BY <1>11, <1>12, <2>3
    <3> QED BY <1>18, <3>1 DEF OneUnderWay
  <2>4. xfer' = [p \in Ports |-> xfer'[p]] /\ \A p \in Ports : Linked(xfer'[p], XferSize, Nat \cup {<<>>})
    BY <1>17, <1>18 DEF OneUnderWay
  <2>5. sent' = sent /\ got' \in [Slots -> Nat]
    BY <1>1, <1>19
  <2> QED BY <2>1, <2>2, <2>3, <2>4, <2>5 DEF OneUnderWay
<1> QED BY <1>13, <1>14, <1>15, <1>20

HwSlot == [state : {"off", "enabled", "addressed"}, port : 0 .. NPorts, ep0 : 0 .. NPorts,
           in : 0 .. NPorts, stuck : SUBSET {"ep0", "in"}]

\* A command gives a slot that was off, or changes the slot of the device that is enumerated.
LEMMA CommandEffect ==
  ASSUME Enumerating, RingsKept, Asked, EndpointsOwn, HwCommand
  PROVE  \E b \in BOOLEAN, t \in 0 .. NPorts :
           /\ Post([type |-> "command", ok |-> b, slot |-> t, of |-> Request])
           /\ hw' \in [Slots -> HwSlot]
           /\ \A s \in Slots : hw[s].state # "off" => hw'[s].state # "off"
           /\ b /\ step = "enable" => t \in Slots /\ hw[t].state = "off" /\ hw'[t].state # "off"
           /\ \A s \in Slots : \/ hw'[s].in = hw[s].in
                               \/ b /\ step = "endpoint" /\ s = slot /\ hw'[s].in = input.ring
<1> DEFINE c == Taken(cmd, CmdSize)[1]
           s == IF c.what = "enable" THEN Min({t \in Slots : hw[t].state = "off"} \cup {NPorts + 1}) ELSE c.slot
           Ok(b, t) == Post([type |-> "command", ok |-> b, slot |-> t, of |-> c.of])
           new == CASE c.what = "enable" -> [hw[s] EXCEPT !.state = "enabled"]
                    [] c.what = "address" ->
                         [hw[s] EXCEPT !.state = "addressed", !.port = input.port, !.ep0 = input.ring]
                    [] OTHER -> [hw[s] EXCEPT !.in = input.ring]
<1>1. waiting = "command" /\ c = Command
  BY CommandTaken
<1>2. c.what = step /\ c.slot = slot /\ c.of = Request /\ step \in CommandSteps
  BY <1>1 DEF Command, Enumerating
<1>3. hw \in [Slots -> HwSlot] /\ input \in [port : 0 .. NPorts, ring : 0 .. NPorts]
  BY DEF EndpointsOwn, HwSlot
<1>4. \/ Legal(c) /\ Ok(TRUE, s) /\ hw' = [hw EXCEPT ![s] = new]
      \/ Ok(FALSE, IF c.what = "enable" THEN 0 ELSE s) /\ hw' = hw
  BY DEF HwCommand
<1>5. slot \in 0 .. NPorts /\ 0 \in 0 .. NPorts /\ (step # "enable" => slot \in Slots)
  BY <1>2, UsbConstants DEF Enumerating, CommandSteps
<1>6. CASE Legal(c) /\ Ok(TRUE, s) /\ hw' = [hw EXCEPT ![s] = new]
  <2>1. CASE step = "enable"
    <3>1. \E t \in Slots : hw[t].state = "off"
      BY <1>2, <1>6, <2>1 DEF Legal
    <3>2. s \in Slots /\ hw[s].state = "off"
      BY <1>2, <2>1, <3>1, FreeSlot
    <3>3. new = [hw[s] EXCEPT !.state = "enabled"]
      BY <1>2, <2>1
    <3> HIDE DEF new, s
    <3>4. PICK n : n = [hw[s] EXCEPT !.state = "enabled"]
      OBVIOUS
    <3>5. n \in HwSlot /\ n.in = hw[s].in /\ n.state = "enabled"
      <4>1. hw[s] \in HwSlot
        BY <1>3, <3>2
      <4> QED BY <3>4, <4>1 DEF HwSlot
    <3>6. hw' = [hw EXCEPT ![s] = n]
      BY <1>6, <3>3, <3>4
    <3>7. hw' \in [Slots -> HwSlot] /\ hw'[s] = n /\ \A t \in Slots \ {s} : hw'[t] = hw[t]
      BY <1>3, <3>2, <3>5, <3>6
    <3>8. Post([type |-> "command", ok |-> TRUE, slot |-> s, of |-> Request]) /\ s \in 0 .. NPorts
      BY <1>2, <1>6, <3>2 DEF Slots
    <3> QED BY <2>1, <3>2, <3>5, <3>7, <3>8
  <2>2. CASE step # "enable"
    <3>1. s = slot /\ s \in Slots
      BY <1>2, <1>5, <2>2
    <3>2. hw[s] \in HwSlot /\ input.port \in 0 .. NPorts /\ input.ring \in 0 .. NPorts
      BY <1>3, <3>1
    <3>3. /\ new \in HwSlot /\ (hw[s].state # "off" => new.state # "off")
          /\ new.in = hw[s].in \/ (step = "endpoint" /\ new.in = input.ring)
      <4>1. CASE step = "address"
        <5>1. new = [hw[s] EXCEPT !.state = "addressed", !.port = input.port, !.ep0 = input.ring]
          BY <1>2, <4>1
        <5> HIDE DEF new, s
        <5>2. PICK n : n = [hw[s] EXCEPT !.state = "addressed", !.port = input.port, !.ep0 = input.ring]
          OBVIOUS
        <5>3. n = [state |-> "addressed", port |-> input.port, ep0 |-> input.ring, in |-> hw[s].in, stuck |-> hw[s].stuck]
          BY <3>2, <5>2 DEF HwSlot
        <5>4. n \in HwSlot /\ n.state = "addressed" /\ n.in = hw[s].in
          BY <3>2, <5>3 DEF HwSlot
        <5> QED BY <5>1, <5>2, <5>4
      <4>2. CASE step = "endpoint"
        <5>1. new = [hw[s] EXCEPT !.in = input.ring]
          BY <1>2, <4>2
        <5> HIDE DEF new, s
        <5>2. PICK n : n = [hw[s] EXCEPT !.in = input.ring]
          OBVIOUS
        <5>3. n \in HwSlot /\ n.state = hw[s].state /\ n.in = input.ring
          BY <3>2, <5>2 DEF HwSlot
        <5> QED BY <4>2, <5>1, <5>2, <5>3
      <4> QED BY <1>2, <2>2, <4>1, <4>2 DEF CommandSteps
    <3> HIDE DEF new
    <3>4. hw' \in [Slots -> HwSlot] /\ hw'[s] = new /\ \A t \in Slots \ {s} : hw'[t] = hw[t]
      BY <1>3, <1>6, <3>1, <3>3
    <3>5. Post([type |-> "command", ok |-> TRUE, slot |-> slot, of |-> Request])
      BY <1>2, <1>6, <3>1
    <3> QED BY <1>5, <2>2, <3>1, <3>3, <3>4, <3>5
  <2> QED BY <2>1, <2>2
<1>7. CASE Ok(FALSE, IF c.what = "enable" THEN 0 ELSE s) /\ hw' = hw
  <2>1. (IF c.what = "enable" THEN 0 ELSE s) \in 0 .. NPorts
    BY <1>2, <1>5
  <2> HIDE DEF s, c, new
  <2> QED BY <1>2, <1>3, <1>7, <2>1
<1> QED BY <1>4, <1>6, <1>7

LEMMA CommandKeepsReports ==
  ASSUME Enumerating, RingsKept, Asked, DevicesKnown, SlotFresh, EndpointsOwn, OneUnderWay, HwCommand
  PROVE  DevicesKnown' /\ SlotFresh' /\ EndpointsOwn' /\ OneUnderWay'
<1>1. PICK b \in BOOLEAN, t \in 0 .. NPorts :
           /\ Post([type |-> "command", ok |-> b, slot |-> t, of |-> Request])
           /\ hw' \in [Slots -> HwSlot]
           /\ \A s \in Slots : hw[s].state # "off" => hw'[s].state # "off"
           /\ b /\ step = "enable" => t \in Slots /\ hw[t].state = "off" /\ hw'[t].state # "off"
           /\ \A s \in Slots : \/ hw'[s].in = hw[s].in
                               \/ b /\ step = "endpoint" /\ s = slot /\ hw'[s].in = input.ring
  BY CommandEffect
<1>2. PICK e : e = [type |-> "command", ok |-> b, slot |-> t, of |-> Request]
  OBVIOUS
<1>3. e \in Events /\ IsAnswer(e) /\ ~IsReport(e) /\ e.ok = b /\ e.slot = t
  BY <1>2 DEF Events, IsAnswer, IsReport, Request, Requests, Enumerating
<1>4. waiting = "command" /\ Answers = {} /\ UNCHANGED <<step, port, slot, waiting, reply>>
  BY CommandTaken
<1>5. UNCHANGED <<input, config, dev, xfer, sent, got>>
  BY DEF HwCommand, driver
<1>6. Post(e)
  BY <1>1, <1>2
<1>7. evt'.trb[evt.enq].what = e /\ Answers' = {evt.enq}
  BY <1>3, <1>4, <1>6, PostKeeps
<1>8. \A s : InReports(s)' = InReports(s) /\ \A k \in InReports(s) : evt'.trb[k] = evt.trb[k]
  BY <1>3, <1>6, PostReports
<1>9. DevicesKnown'
  <2>1. \A i \in DOMAIN dev : hw'[dev[i].slot].state # "off"
    BY <1>1, DeviceTyped DEF DevicesKnown
  <2> QED BY <1>4, <1>5, <2>1 DEF DevicesKnown
<1>10. OneUnderWay'
  BY <1>5, <1>8, NothingReported
<1>11. SlotFresh'
  <2>1. CASE step = "enable"
    <3>1. b => t \in Slots /\ hw'[t].state # "off" /\ \A i \in DOMAIN dev : dev[i].slot # t
      BY <1>1, <2>1 DEF DevicesKnown
    <3>2. \A i \in Answers' : evt'.trb[i].what.ok => Unused(evt.trb[i].what.slot)'
      BY <1>3, <1>5, <1>7, <3>1 DEF Unused
    <3> QED BY <1>4, <2>1, <3>2 DEF SlotFresh
  <2>2. CASE step # "enable"
    <3>1. Unused(slot) => Unused(slot)'
      BY <1>1, <1>4, <1>5 DEF Unused
    <3>2. NoEntry' = NoEntry
      BY <1>4 DEF NoEntry
    <3> QED BY <1>4, <1>5, <2>2, <3>1, <3>2 DEF SlotFresh
  <2> QED BY <2>1, <2>2
<1>12. EndpointsOwn'
  <2>1. ASSUME NEW s \in Slots, hw'[s].in # 0
        PROVE  \/ \E i \in DOMAIN dev : dev[i].slot = s /\ dev[i].ring = hw'[s].in
               \/ step = "endpoint" /\ s = slot /\ hw'[s].in = port /\ b
    <3>1. CASE hw'[s].in = hw[s].in
      BY <1>4, <2>1, <3>1 DEF EndpointsOwn
    <3>2. CASE hw'[s].in # hw[s].in
      BY <1>1, <1>4, <3>2 DEF EndpointsOwn
    <3> QED BY <3>1, <3>2
  <2>2. b => \E i \in Answers' : evt'.trb[i].what.ok
    BY <1>3, <1>7
  <2>3. input' \in [port : 0 .. NPorts, ring : 0 .. NPorts] /\ (step = "endpoint" /\ waiting = "command" => input'.ring = port)
    BY <1>5 DEF EndpointsOwn
  <2> QED BY <1>1, <1>4, <1>5, <2>1, <2>2, <2>3 DEF EndpointsOwn, HwSlot
<1> QED BY <1>9, <1>10, <1>11, <1>12

\* An endpoint that stops is that of the same device.
LEMMA StuckEndpoint ==
  ASSUME EndpointsOwn, NEW s \in Slots, NEW ep \in {"ep0", "in"}, NEW ok \in BOOLEAN,
         hw' = IF ok THEN hw ELSE [hw EXCEPT ![s].stuck = @ \cup {ep}]
  PROVE  /\ hw' \in [Slots -> HwSlot]
         /\ \A t \in Slots : hw'[t].state = hw[t].state /\ hw'[t].in = hw[t].in
<1>1. hw \in [Slots -> HwSlot]
  BY DEF EndpointsOwn, HwSlot
<1>2. CASE ok
  BY <1>1, <1>2
<1>3. CASE ~ok
  <2>1. PICK n : n = [hw[s] EXCEPT !.stuck = @ \cup {ep}]
    OBVIOUS
  <2>2. hw' = [hw EXCEPT ![s] = n]
    BY <1>1, <1>3, <2>1
  <2>3. n \in HwSlot /\ n.state = hw[s].state /\ n.in = hw[s].in
    <3>1. hw[s] \in HwSlot
      BY <1>1
    <3>2. n = [state |-> hw[s].state, port |-> hw[s].port, ep0 |-> hw[s].ep0, in |-> hw[s].in, stuck |-> hw[s].stuck \cup {ep}]
      BY <2>1, <3>1 DEF HwSlot
    <3> QED BY <3>1, <3>2 DEF HwSlot
  <2> QED BY <1>1, <2>2, <2>3
<1> QED BY <1>2, <1>3

\* What is posted is of no pointer, and the devices stay.
LEMMA PostedKeepsReports ==
  ASSUME Enumerating, RingsKept, DevicesKnown, SlotFresh, EndpointsOwn, OneUnderWay,
         NEW e \in Events, Post(e), ~IsReport(e), IsAnswer(e) => waiting = "transfer",
         UNCHANGED <<driver, waiting, reply, xfer, sent, got>>,
         hw' \in [Slots -> HwSlot], \A s \in Slots : hw'[s].state = hw[s].state /\ hw'[s].in = hw[s].in
  PROVE  DevicesKnown' /\ SlotFresh' /\ EndpointsOwn' /\ OneUnderWay'
<1>1. UNCHANGED <<step, port, slot, input, config, dev, waiting, reply>>
  BY DEF driver
<1>2. \A s : InReports(s)' = InReports(s) /\ \A k \in InReports(s) : evt'.trb[k] = evt.trb[k]
  BY PostReports
<1>3. waiting = "command" => Answers' = Answers /\ \A i \in Answers : evt'.trb[i] = evt.trb[i]
  BY PostKeeps DEF Answers
<1>4. DevicesKnown'
  <2>1. dev' \in Seq([slot : Slots, kind : Pointers \cup {"none"}, ring : 0 .. NPorts, buffer : Nat])
    BY <1>1 DEF DevicesKnown
  <2> QED BY <1>1, <2>1, DevicesKept
<1>5. OneUnderWay'
  BY <1>1, <1>2, NothingReported
<1>6. SlotFresh'
  <2>1. \A t : Unused(t) => Unused(t)'
    BY <1>1 DEF Unused
  <2>2. NoEntry' = NoEntry
    BY <1>1 DEF NoEntry
  <2>3. Unused(reply.slot) => Unused(reply.slot)'
    BY <1>1 DEF Unused
  <2>4. Unused(slot) => Unused(slot)'
    BY <1>1 DEF Unused
  <2>5. waiting = "command" /\ step = "enable" => \A i \in Answers' : evt'.trb[i].what.ok => Unused(evt.trb[i].what.slot)'
    BY <1>1, <1>3 DEF SlotFresh, Unused
  <2> QED BY <1>1, <2>2, <2>3, <2>4, <2>5 DEF SlotFresh
<1>7. EndpointsOwn'
  BY <1>1, <1>3 DEF EndpointsOwn, HwSlot
<1> QED BY <1>4, <1>5, <1>6, <1>7

LEMMA ControlKeepsReports ==
  ASSUME Enumerating, RingsKept, Asked, DevicesKnown, SlotFresh, EndpointsOwn, OneUnderWay,
         NEW s \in Slots, NEW ok \in BOOLEAN, HwControl(s, ok)
  PROVE  DevicesKnown' /\ SlotFresh' /\ EndpointsOwn' /\ OneUnderWay'
<1> DEFINE q == ep0[s].queue
<1>1. /\ q # <<>> /\ Post([type |-> "transfer", ep |-> "ep0", ok |-> ok, slot |-> s, of |-> Head(q).of])
      /\ hw' = IF ok THEN hw ELSE [hw EXCEPT ![s].stuck = @ \cup {"ep0"}]
      /\ UNCHANGED <<driver, waiting, reply, xfer, sent, got>>
  BY DEF HwControl
<1>2. waiting = "transfer"
  BY <1>1 DEF Asked, NoTransfer, Enumerating
<1>3. Head(q).of \in Requests
  <2>1. q \in Seq([ring : 0 .. NPorts, of : Requests])
    BY DEF RingsKept
  <2>2. Head(q) \in [ring : 0 .. NPorts, of : Requests]
    BY <1>1, <2>1, HeadTailProperties
  <2> QED BY <2>2
<1>4. PICK e : e = [type |-> "transfer", ep |-> "ep0", ok |-> ok, slot |-> s, of |-> Head(q).of]
  OBVIOUS
<1>5. e \in Events /\ ~IsReport(e) /\ Post(e)
  BY <1>1, <1>3, <1>4 DEF Events, IsReport
<1>6. hw' \in [Slots -> HwSlot] /\ \A t \in Slots : hw'[t].state = hw[t].state /\ hw'[t].in = hw[t].in
  BY <1>1, StuckEndpoint
<1> QED BY <1>1, <1>2, <1>5, <1>6, PostedKeepsReports

LEMMA PortChangeKeepsReports ==
  ASSUME Enumerating, RingsKept, DevicesKnown, SlotFresh, EndpointsOwn, OneUnderWay, HwPortChange
  PROVE  DevicesKnown' /\ SlotFresh' /\ EndpointsOwn' /\ OneUnderWay'
<1>1. PICK e : e = [type |-> "port"]
  OBVIOUS
<1>2. e \in Events /\ ~IsReport(e) /\ ~IsAnswer(e) /\ Post(e)
  BY <1>1 DEF Events, IsReport, IsAnswer, HwPortChange
<1>3. UNCHANGED <<driver, waiting, reply, xfer, sent, got>> /\ hw' = hw
  BY DEF HwPortChange
<1>4. hw \in [Slots -> HwSlot]
  BY DEF EndpointsOwn, HwSlot
<1> QED BY <1>2, <1>3, <1>4, PostedKeepsReports

\* An endpoint with an entry to fill is that of a device, and the entry is the one that is under way.
LEMMA ReportFilled ==
  ASSUME DevicesKnown, EndpointsOwn, OneUnderWay, NEW s \in Slots, hw[s].in # 0, Ready(xfer[hw[s].in], XferSize),
         port \in 0 .. NPorts, step = "endpoint" => port \in Ports
  PROVE  \E i \in DOMAIN dev :
           /\ dev[i].slot = s /\ dev[i].ring = hw[s].in /\ hw[s].in \in Ports
           /\ Single(xfer[hw[s].in], XferSize, i) /\ InReports(s) = {} /\ got[s] = sent[s]
<1> DEFINE r == hw[s].in
<1>1. r \in Ports
  BY UsbConstants DEF EndpointsOwn, Ports
<1>2. Linked(xfer[r], XferSize, Nat \cup {<<>>})
  BY <1>1 DEF OneUnderWay
<1>3. ~Caught(xfer[r], XferSize)
  BY <1>2, CaughtIsNotReady, UsbConstants
<1>4. PICK j \in DOMAIN dev : dev[j].ring = r
  BY <1>1, <1>3 DEF OneUnderWay
<1>5. \E i \in DOMAIN dev : dev[i].slot = s /\ dev[i].ring = r
  <2>1. CASE \E i \in DOMAIN dev : dev[i].slot = s /\ dev[i].ring = r
    BY <2>1
  <2>2. CASE step = "endpoint" /\ r = port
    BY <1>4, <2>2 DEF DevicesKnown
  <2> QED BY <2>1, <2>2 DEF EndpointsOwn
<1>6. PICK i \in DOMAIN dev : dev[i].slot = s /\ dev[i].ring = r
  BY <1>5
<1>7. UnderWay(i)
  BY <1>6 DEF OneUnderWay
<1>8. Single(xfer[r], XferSize, i) /\ InReports(s) = {} /\ got[s] = sent[s]
  BY <1>3, <1>6, <1>7 DEF UnderWay
<1> QED BY <1>1, <1>6, <1>8

LEMMA ReportKeepsReports ==
  ASSUME Enumerating, RingsKept, Asked, DevicesKnown, SlotFresh, EndpointsOwn, OneUnderWay,
         NEW s \in Slots, NEW ok \in BOOLEAN, HwReport(s, ok)
  PROVE  DevicesKnown' /\ SlotFresh' /\ EndpointsOwn' /\ OneUnderWay'
<1> DEFINE Entry == [slot : Slots, kind : Pointers \cup {"none"}, ring : 0 .. NPorts, buffer : Nat]
<1>1. PICK r : r = hw[s].in
  OBVIOUS
<1>2. PICK i \in DOMAIN dev :
           /\ dev[i].slot = s /\ dev[i].ring = r /\ r \in Ports
           /\ Single(xfer[r], XferSize, i) /\ InReports(s) = {} /\ got[s] = sent[s]
  <2>1. hw[s].in # 0 /\ Ready(xfer[hw[s].in], XferSize)
    BY DEF HwReport
  <2> QED BY <1>1, <2>1, ReportFilled DEF Enumerating
<1>3. xfer = [p \in Ports |-> xfer[p]] /\ Linked(xfer[r], XferSize, Nat \cup {<<>>})
  BY <1>2 DEF OneUnderWay
<1>4. PICK t : t = Taken(xfer[r], XferSize)
  OBVIOUS
<1>5. t[1] = i /\ Linked(t[2], XferSize, Nat \cup {<<>>}) /\ Caught(t[2], XferSize)
  BY <1>2, <1>3, <1>4, TakenCaught, UsbConstants
<1>6. /\ xfer' = [xfer EXCEPT ![r] = t[2]]
      /\ dev' = IF ok THEN [dev EXCEPT ![i].buffer = sent[s] + 1] ELSE dev
      /\ sent' = IF ok THEN [sent EXCEPT ![s] = @ + 1] ELSE sent
      /\ hw' = IF ok THEN hw ELSE [hw EXCEPT ![s].stuck = @ \cup {"in"}]
      /\ UNCHANGED <<step, port, slot, input, config, waiting, reply, got>>
  BY <1>1, <1>4, <1>5 DEF HwReport
<1>7. PICK e : e = [type |-> "transfer", ep |-> "in", ok |-> ok, slot |-> s, of |-> <<>>]
  OBVIOUS
<1>8. e \in Events /\ ~IsAnswer(e) /\ IsReport(e) /\ e.slot = s /\ e.ok = ok /\ Post(e)
  BY <1>7 DEF Events, IsAnswer, IsReport, HwReport
<1>9. /\ evt.enq \in Unread(evt') /\ evt'.trb[evt.enq].what = e
      /\ Answers' = Answers /\ \A k \in Answers : evt'.trb[k] = evt.trb[k]
  BY <1>8, PostKeeps DEF Answers
<1>10. /\ InReports(s)' = {evt.enq}
       /\ \A u : u # s => InReports(u)' = InReports(u)
       /\ \A u : \A k \in InReports(u) : evt'.trb[k] = evt.trb[k]
  BY <1>2, <1>8, PostReports
<1>11. /\ Len(dev) \in Nat /\ DOMAIN dev = 1 .. Len(dev) /\ dev \in Seq(Entry)
       /\ \A j \in DOMAIN dev : dev[j] \in Entry
  BY DeviceTyped DEF DevicesKnown
<1>12. sent \in [Slots -> Nat] /\ got \in [Slots -> Nat]
  BY DEF OneUnderWay
<1>13. /\ DOMAIN dev' = DOMAIN dev /\ dev' \in Seq(Entry)
       /\ \A j \in DOMAIN dev : dev'[j].slot = dev[j].slot /\ dev'[j].ring = dev[j].ring /\ dev'[j].kind = dev[j].kind
       /\ \A j \in DOMAIN dev \ {i} : dev'[j] = dev[j]
       /\ ok => dev'[i].buffer = sent[s] + 1
  <2>1. CASE ok
    <3>1. PICK n : n = [dev[i] EXCEPT !.buffer = sent[s] + 1]
      OBVIOUS
    <3>2. n = [slot |-> dev[i].slot, kind |-> dev[i].kind, ring |-> dev[i].ring, buffer |-> sent[s] + 1]
      BY <1>11, <3>1
    <3>3. n \in Entry /\ n.slot = dev[i].slot /\ n.ring = dev[i].ring /\ n.kind = dev[i].kind /\ n.buffer = sent[s] + 1
      BY <1>11, <1>12, <3>2, SMTT(30)
    <3>4. dev' = [dev EXCEPT ![i] = n]
      BY <1>6, <2>1, <3>1
    <3> HIDE DEF Entry
    <3>5. DOMAIN dev' = DOMAIN dev /\ dev'[i] = n /\ \A j \in DOMAIN dev \ {i} : dev'[j] = dev[j]
      BY <1>11, <3>4
    <3>6. dev' \in Seq(Entry)
      BY <1>11, <3>3, <3>4
    <3> QED BY <3>3, <3>5, <3>6
  <2>2. CASE ~ok
    BY <1>6, <1>11, <2>2
  <2> QED BY <2>1, <2>2
<1>14. Len(dev') = Len(dev)
  BY <1>11, <1>13, LenProperties
<1>15. hw' \in [Slots -> HwSlot] /\ \A u \in Slots : hw'[u].state = hw[u].state /\ hw'[u].in = hw[u].in
  BY <1>6, StuckEndpoint
<1> HIDE DEF Entry
<1>16. DevicesKnown'
  <2>1. dev' \in Seq([slot : Slots, kind : Pointers \cup {"none"}, ring : 0 .. NPorts, buffer : Nat])
    BY <1>13 DEF Entry
  <2> QED BY <1>6, <1>13, <1>15, <2>1, DevicesKept
<1>17. SlotFresh'
  <2>1. ASSUME step \in {"ranges", "setconfig", "protocol", "endpoint"}
        PROVE  dev'[Len(dev')] = NoEntry /\ NoEntry' = NoEntry /\ Len(dev') > 0
    <3>1. Len(dev) \in DOMAIN dev /\ dev[Len(dev)] = NoEntry /\ Len(dev) > 0
      BY <1>11, <2>1 DEF SlotFresh
    <3>2. Len(dev) # i
      BY <1>2, <3>1, UsbConstants DEF NoEntry, Ports
    <3>3. NoEntry' = NoEntry
      BY <1>6 DEF NoEntry
    <3> QED BY <1>13, <1>14, <3>1, <3>2, <3>3
  <2>2. \A u : u \in Slots /\ hw[u].state # "off" /\ (\A j \in DOMAIN dev : dev[j].slot # u)
               => u \in Slots /\ hw'[u].state # "off" /\ \A j \in DOMAIN dev' : dev'[j].slot # u
    BY <1>13, <1>15
  <2>3. UNCHANGED <<waiting, reply, step, slot, config>>
    BY <1>6
  <2> QED BY <1>9, <2>1, <2>2, <2>3 DEF SlotFresh, Unused
<1>18. EndpointsOwn'
  <2>1. UNCHANGED <<input, step, waiting, reply, port, slot>>
    BY <1>6
  <2>2. ASSUME NEW u \in Slots, \E j \in DOMAIN dev : dev[j].slot = u /\ dev[j].ring = hw[u].in
        PROVE  \E j \in DOMAIN dev' : dev'[j].slot = u /\ dev'[j].ring = hw[u].in
    BY <1>13, <2>2
  <2> QED BY <1>9, <1>15, <2>1, <2>2, SMTT(30) DEF EndpointsOwn, HwSlot
<1>19. /\ xfer'[r] = t[2] /\ \A p \in Ports : p # r => xfer'[p] = xfer[p]
       /\ xfer' = [p \in Ports |-> xfer'[p]]
  BY <1>2, <1>3, <1>6
<1>20. /\ sent' \in [Slots -> Nat] /\ got' = got
       /\ sent'[s] = IF ok THEN sent[s] + 1 ELSE sent[s]
       /\ \A u \in Slots : u # s => sent'[u] = sent[u]
  BY <1>6, <1>12
<1>21. OneUnderWay'
  <2>1. ASSUME NEW j \in DOMAIN dev', dev'[j].ring # 0
        PROVE  UnderWay(j)'
    <3>1. CASE j = i
      <4>1. dev'[i].slot = s /\ dev'[i].ring = r
        BY <1>2, <1>13
      <4>2. InReports(dev[i].slot)' = {evt.enq}
        BY <1>10, <4>1
      <4>3. got'[s] = got[s] /\ sent[s] \in Nat /\ got[s] = sent[s]
        BY <1>2, <1>12, <1>20
      <4>4. IF evt'.trb[evt.enq].what.ok THEN dev'[i].buffer = sent'[s] /\ got'[s] + 1 = sent'[s]
            ELSE got'[s] = sent'[s]
        BY <1>8, <1>9, <1>13, <1>20, <4>3
      <4>5. Caught(xfer'[r], XferSize)
        BY <1>5, <1>19
      <4> QED BY <1>9, <3>1, <4>1, <4>2, <4>4, <4>5 DEF UnderWay
    <3>2. CASE j # i
      <4>1. j \in DOMAIN dev /\ dev'[j] = dev[j] /\ dev[j].ring # 0 /\ UnderWay(j)
        BY <1>13, <2>1, <3>2 DEF OneUnderWay
      <4>2. dev[j].slot # s /\ dev[j].ring # r
        BY <1>2, <3>2, <4>1 DEF DevicesKnown
      <4>3. dev[j].slot \in Slots /\ dev[j].ring \in Ports
        BY <1>11, <4>1, UsbConstants DEF Ports, Entry
      <4>4. InReports(dev[j].slot)' = InReports(dev[j].slot) /\ \A k \in InReports(dev[j].slot) : evt'.trb[k] = evt.trb[k]
        BY <1>10, <4>1, <4>2
      <4>5. xfer'[dev[j].ring] = xfer[dev[j].ring] /\ got' = got /\ sent'[dev[j].slot] = sent[dev[j].slot]
        BY <1>19, <1>20, <4>2, <4>3
      <4> QED BY <4>1, <4>4, <4>5, UnderWayStays
    <3> QED BY <3>1, <3>2
  <2>2. ASSUME NEW u \in Slots, \A j \in DOMAIN dev' : dev'[j].slot = u => dev'[j].ring = 0
        PROVE  Quiet(u)'
    <3>1. \A j \in DOMAIN dev : dev[j].slot = u => dev[j].ring = 0
      BY <1>13, <2>2
    <3>2. Quiet(u)
      BY <3>1 DEF OneUnderWay
    <3>3. u # s
      BY <1>2, <3>1, UsbConstants DEF Ports
    <3> QED BY <1>10, <1>20, <3>2, <3>3 DEF Quiet
  <2>3. ASSUME NEW p \in Ports, \A j \in DOMAIN dev' : dev'[j].ring # p
        PROVE  Caught(xfer'[p], XferSize)
    <3>1. \A j \in DOMAIN dev : dev[j].ring # p
      BY <1>13, <2>3
    <3> QED BY <1>2, <1>19, <3>1 DEF OneUnderWay
  <2>4. xfer' = [p \in Ports |-> xfer'[p]] /\ \A p \in Ports : Linked(xfer'[p], XferSize, Nat \cup {<<>>})
    BY <1>5, <1>19 DEF OneUnderWay
  <2>5. sent' \in [Slots -> Nat] /\ got' \in [Slots -> Nat]
    BY <1>12, <1>20
  <2> QED BY <2>1, <2>2, <2>3, <2>4, <2>5 DEF OneUnderWay
<1> QED BY <1>16, <1>17, <1>18, <1>21

LEMMA ReportsStep ==
  ASSUME AnswersInv, ReportsInv, [XhciNext]_xhci
  PROVE  ReportsInv'
<1> SUFFICES ASSUME gaveUp' = {}
             PROVE  DevicesKnown' /\ SlotFresh' /\ EndpointsOwn' /\ OneUnderWay'
  BY DEF ReportsInv
<1>1. gaveUp = {} /\ ~Timeout
  BY GivenUpStays
<1>2. Enumerating /\ RingsKept /\ Asked /\ DevicesKnown /\ SlotFresh /\ EndpointsOwn /\ OneUnderWay
  BY <1>1 DEF AnswersInv, ReportsInv
<1>3. CASE Probe
  BY <1>2, <1>3, ProbeKeepsReports
<1>4. CASE IssueCommand
  BY <1>2, <1>4, IssueKeepsReports
<1>5. CASE ControlTransfer
  BY <1>2, <1>5, TransferKeepsReports
<1>6. CASE Done
  BY <1>2, <1>6, DoneKeepsReports
<1>7. CASE ProcessEvent
  BY <1>2, <1>7, AnswerKeepsReports, ReportReadKeepsReports
<1>8. CASE HwCommand
  BY <1>2, <1>8, CommandKeepsReports
<1>9. CASE HwPortChange
  BY <1>2, <1>9, PortChangeKeepsReports
<1>10. ASSUME NEW s \in Slots, NEW ok \in BOOLEAN, HwControl(s, ok)
       PROVE  DevicesKnown' /\ SlotFresh' /\ EndpointsOwn' /\ OneUnderWay'
  BY <1>2, <1>10, ControlKeepsReports
<1>11. ASSUME NEW s \in Slots, NEW ok \in BOOLEAN, HwReport(s, ok)
       PROVE  DevicesKnown' /\ SlotFresh' /\ EndpointsOwn' /\ OneUnderWay'
  BY <1>2, <1>11, ReportKeepsReports
<1>12. CASE UNCHANGED xhci
  <2>1. UNCHANGED <<step, port, slot, waiting, reply, input, config, dev, evt, xfer, hw, sent, got>>
    BY <1>12 DEF xhci
  <2>2. DevicesKnown' /\ OneUnderWay'
    BY <1>2, <2>1, OnlyOn
  <2>3. SlotFresh'
    BY <1>2, <2>1 DEF SlotFresh, Unused, NoEntry, Answers
  <2>4. EndpointsOwn'
    BY <1>2, <2>1 DEF EndpointsOwn, Answers
  <2> QED BY <2>2, <2>3, <2>4
<1> QED BY <1>1, <1>3, <1>4, <1>5, <1>6, <1>7, <1>8, <1>9, <1>10, <1>11, <1>12 DEF XhciNext

\* What the properties count as pending is what is unread.
LEMMA PendingUnread ==
  ASSUME RingsKept
  PROVE  Pending = Unread(evt)
<1>1. EvtSize \in Nat \ {0} /\ evt.deq \in 0 .. EvtSize - 1 /\ evt.enq \in 0 .. EvtSize - 1
      /\ IF evt.ccs = evt.cycle THEN evt.deq <= evt.enq ELSE evt.enq < evt.deq
  BY UsbConstants DEF RingsKept, Counted, Ring
<1>2. \A i \in 0 .. EvtSize - 1 : (i + EvtSize - evt.deq) % EvtSize = IF i >= evt.deq THEN i - evt.deq ELSE i - evt.deq + EvtSize
  <2> SUFFICES ASSUME NEW i \in 0 .. EvtSize - 1
               PROVE  (i + EvtSize - evt.deq) % EvtSize = IF i >= evt.deq THEN i - evt.deq ELSE i - evt.deq + EvtSize
    OBVIOUS
  <2>1. (i - evt.deq + EvtSize) % EvtSize = IF i >= evt.deq THEN i - evt.deq ELSE i - evt.deq + EvtSize
    BY <1>1, RingAhead
  <2>2. i + EvtSize - evt.deq = i - evt.deq + EvtSize
    BY <1>1
  <2> QED BY <2>1, <2>2
<1>3. (evt.enq + EvtSize - evt.deq) % EvtSize = IF evt.enq >= evt.deq THEN evt.enq - evt.deq ELSE evt.enq - evt.deq + EvtSize
  BY <1>1, <1>2
<1>4. \A i \in 0 .. EvtSize - 1 :
        (i + EvtSize - evt.deq) % EvtSize < (evt.enq + EvtSize - evt.deq) % EvtSize
          <=> IF evt.ccs = evt.cycle THEN evt.deq <= i /\ i < evt.enq ELSE evt.deq <= i \/ i < evt.enq
  <2> SUFFICES ASSUME NEW i \in 0 .. EvtSize - 1
               PROVE  (i + EvtSize - evt.deq) % EvtSize < (evt.enq + EvtSize - evt.deq) % EvtSize
                        <=> IF evt.ccs = evt.cycle THEN evt.deq <= i /\ i < evt.enq ELSE evt.deq <= i \/ i < evt.enq
    OBVIOUS
  <2>1. PICK x : x = (i + EvtSize - evt.deq) % EvtSize
    OBVIOUS
  <2>2. PICK y : y = (evt.enq + EvtSize - evt.deq) % EvtSize
    OBVIOUS
  <2>3. x = IF i >= evt.deq THEN i - evt.deq ELSE i - evt.deq + EvtSize
    BY <1>2, <2>1
  <2>4. y = IF evt.enq >= evt.deq THEN evt.enq - evt.deq ELSE evt.enq - evt.deq + EvtSize
    BY <1>3, <2>2
  <2>5. x < y <=> IF evt.ccs = evt.cycle THEN evt.deq <= i /\ i < evt.enq ELSE evt.deq <= i \/ i < evt.enq
    BY <1>1, <2>3, <2>4
  <2> QED BY <2>1, <2>2, <2>5
<1> QED BY <1>4 DEF Pending, Unread

\* The reports of a slot, of both outcomes or of one.
LEMMA ReportsCounted ==
  ASSUME RingsKept, NEW s
  PROVE  /\ Reports(s, BOOLEAN) = InReports(s)
         /\ Reports(s, {TRUE}) = {i \in InReports(s) : evt.trb[i].what.ok}
<1>1. Pending = Unread(evt)
  BY PendingUnread
<1>2. \A i \in InReports(s) : evt.trb[i].what.ok \in BOOLEAN
  <2>1. \A i \in InReports(s) : evt.trb[i].what \in Events /\ evt.trb[i].what.type = "transfer"
    BY DEF InReports, RingsKept
  <2> QED BY <2>1 DEF Events
<1>3. Reports(s, BOOLEAN) = InReports(s)
  BY <1>1, <1>2 DEF Reports, InReports
<1>4. Reports(s, {TRUE}) = {i \in InReports(s) : evt.trb[i].what.ok}
  BY <1>1, <1>2 DEF Reports, InReports
<1> QED BY <1>3, <1>4

LEMMA NothingLost ==
  ASSUME RingsKept, DevicesKnown, OneUnderWay, NEW s \in Slots
  PROVE  got[s] + Cardinality(Reports(s, {TRUE})) = sent[s]
<1>1. got[s] \in Nat /\ sent[s] \in Nat /\ Cardinality({}) = 0
  BY FS_EmptySet DEF OneUnderWay
<1>2. CASE Quiet(s)
  BY <1>1, <1>2, ReportsCounted DEF Quiet
<1>3. CASE ~Quiet(s)
  <2>1. PICK i \in DOMAIN dev : dev[i].slot = s /\ dev[i].ring # 0
    BY <1>3 DEF OneUnderWay
  <2>2. UnderWay(i)
    BY <2>1 DEF OneUnderWay
  <2>3. PICK k \in Unread(evt) : /\ InReports(s) = {k}
                                 /\ IF evt.trb[k].what.ok THEN got[s] + 1 = sent[s] ELSE got[s] = sent[s]
    BY <1>3, <2>1, <2>2 DEF UnderWay, Quiet
  <2>4. CASE evt.trb[k].what.ok
    <3>1. Reports(s, {TRUE}) = {k}
      BY <2>3, <2>4, ReportsCounted
    <3> QED BY <2>3, <2>4, <3>1, FS_Singleton
  <2>5. CASE ~evt.trb[k].what.ok
    <3>1. Reports(s, {TRUE}) = {}
      BY <2>3, <2>5, ReportsCounted
    <3> QED BY <1>1, <2>3, <2>5, <3>1
  <2> QED BY <2>4, <2>5
<1> QED BY <1>2, <1>3

LEMMA OneOutstanding ==
  ASSUME RingsKept, DevicesKnown, OneUnderWay, NEW i \in DOMAIN dev, dev[i].ring # 0
  PROVE  Outstanding(xfer[dev[i].ring]) + Cardinality(Reports(dev[i].slot, BOOLEAN)) = 1
<1> DEFINE s == dev[i].slot
           r == dev[i].ring
<1>1. Reports(s, BOOLEAN) = InReports(s)
  BY ReportsCounted
<1>2. UnderWay(i)
  BY DEF OneUnderWay
<1>3. Linked(xfer[r], XferSize, Nat \cup {<<>>})
  <2>1. r \in Ports
    BY DeviceTyped, UsbConstants DEF Ports
  <2> QED BY <2>1 DEF OneUnderWay
<1>4. CASE Single(xfer[r], XferSize, i) /\ InReports(s) = {}
  <2>1. Outstanding(xfer[r]) = 1
    BY <1>4 DEF Outstanding, Single
  <2> QED BY <1>1, <1>4, <2>1, FS_EmptySet
<1>5. CASE Caught(xfer[r], XferSize) /\ \E k \in Unread(evt) : InReports(s) = {k}
  <2>1. Outstanding(xfer[r]) = 0
    BY <1>3, <1>5, CaughtIsNotReady, UsbConstants DEF Outstanding
  <2>2. Cardinality(InReports(s)) = 1
    BY <1>5, FS_Singleton
  <2> QED BY <1>1, <2>1, <2>2
<1> QED BY <1>2, <1>4, <1>5 DEF UnderWay

LEMMA ReportsAlways == XhciSpec => [](AnswersInv /\ ReportsInv)
<1>1. XhciInit => AnswersInv /\ ReportsInv
  BY AnswersInit, ReportsInit
<1>2. AnswersInv /\ ReportsInv /\ [XhciNext]_xhci => (AnswersInv /\ ReportsInv)'
  BY AnswersStep, ReportsStep
<1> QED BY <1>1, <1>2, PTL DEF XhciSpec

\* A device has one buffer for its reports, and the event does not carry the report.  As long
\* as no wait was given up, every report of every pointer is handed on, once and in order.
THEOREM ReportsHandedOn == XhciSpec => [](gaveUp = {} => ReportsArrive)
<1>1. AnswersInv /\ ReportsInv => (gaveUp = {} => ReportsArrive)
  BY NothingLost DEF AnswersInv, ReportsInv, ReportsArrive
<1> QED BY <1>1, ReportsAlways, PTL

\* As long as no wait was given up, there is for every pointer with a ring exactly one thing
\* under way: an entry that its endpoint will fill, or a report that is still to be read.
THEOREM PointersHeard == XhciSpec => [](gaveUp = {} => NeverSilent)
<1>1. AnswersInv /\ ReportsInv => (gaveUp = {} => NeverSilent)
  <2> SUFFICES ASSUME AnswersInv, ReportsInv, gaveUp = {}, NEW i \in DOMAIN dev, dev[i].ring # 0
               PROVE  Outstanding(xfer[dev[i].ring]) + Cardinality(Reports(dev[i].slot, BOOLEAN)) = 1
    BY DEF NeverSilent
  <2> QED BY OneOutstanding DEF AnswersInv, ReportsInv
<1> QED BY <1>1, ReportsAlways, PTL

=============================================================================
