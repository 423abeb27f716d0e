-------------------------- MODULE EventManager_proofs --------------------------
(***************************************************************************)
(* Accounting and OneCallEach hold of EventManager for every size of the   *)
(* queues and tables, every set of types and filters, and every nesting of *)
(* dispatches.  The first is a count that every step keeps, once it is     *)
(* known that a posted event is not queued yet.  The second needs what a   *)
(* frame of dispatchEvent knows of the table in front of it and behind it. *)
(***************************************************************************)
EXTENDS EventManager, SequenceTheorems, FiniteSetTheorems, TLAPS

USE ManagerAssumption

Posted == [priority : Priorities, type : Types, timestamp : Nat]
Frames == [event : Posted, at : Nat, mode : {"scan", "handler"}, called : Seq(Nat),
           newFrom : Nat, touched : SUBSET Nat]

QueueTypes ==
  /\ main \subseteq Posted /\ IsFiniteSet(main)
  /\ imm \subseteq Posted /\ IsFiniteSet(imm)
  /\ posts \in Nat /\ dropped \in Nat /\ cleared \in Nat
  /\ dispatched \in Nat /\ calls \in Nat

TableTypes ==
  /\ listeners \in [Slots -> [id : Nat, filter : Filters \cup {Free.filter}, enabled : BOOLEAN]]
  /\ nextId \in Nat \ {0}

TypeOK == QueueTypes /\ TableTypes /\ stack \in Seq(Frames)

\* No queued event carries a timestamp that was not handed out yet: a posted
\* event is new.
Stamped == \A e \in main \cup imm : e.timestamp <= posts

\* Ids are handed out once, to one entry each.
Distinct ==
  /\ \A s \in Slots : listeners[s].id < nextId
  /\ \A r, s \in Slots : listeners[r].id = listeners[s].id /\ listeners[r].id # 0 => r = s

\* The entries a frame has passed: a handler that runs was passed too.
Behind(f, s) == s < f.at \/ (s = f.at /\ f.mode = "handler")

\* Was there before the dispatch, wants the event and was not switched.
Due(f, s) == /\ listeners[s].id < f.newFrom /\ listeners[s].id \notin f.touched
             /\ Wants(s, f.event)

HasCalled(f, id) == \E i \in DOMAIN f.called : f.called[i] = id

\* What a frame knows: it called nobody twice; of the entries behind it those
\* that were due were called; of those ahead none was called.
Once(f) ==
  /\ f.newFrom <= nextId
  /\ \A i \in DOMAIN f.called : f.called[i] # 0 /\ f.called[i] < nextId
  /\ \A i, j \in DOMAIN f.called : f.called[i] = f.called[j] => i = j
Passed(f) ==
  \A s \in Slots : IF Behind(f, s) THEN Due(f, s) => HasCalled(f, listeners[s].id)
                                 ELSE ~HasCalled(f, listeners[s].id)
Sound(f) == Once(f) /\ Passed(f)

FramesSound == \A f \in Frames : (\E d \in DOMAIN stack : stack[d] = f) => Sound(f)

IInv == TypeOK /\ Stamped /\ Accounting /\ Distinct /\ FramesSound
-----------------------------------------------------------------------------
(* Counting events *)

\* Steps that leave the queues and the counters alone.
LEMMA QuietQueues ==
  ASSUME QueueTypes, Stamped, Accounting, UNCHANGED <<queues, dispatched, calls>>
  PROVE  QueueTypes' /\ Stamped' /\ Accounting'
BY DEF QueueTypes, Stamped, Accounting, queues

LEMMA PostCounted ==
  ASSUME QueueTypes, Stamped, Accounting,
         NEW p \in Priorities, NEW t \in Types, PostEvent(p, t)
  PROVE  QueueTypes' /\ Stamped' /\ Accounting'
<1> DEFINE e == [priority |-> p, type |-> t, timestamp |-> posts + 1]
           M == Cardinality(main)
           I == Cardinality(imm)
<1>1. /\ posts \in Nat /\ M \in Nat /\ I \in Nat
      /\ dropped \in Nat /\ cleared \in Nat /\ dispatched \in Nat /\ calls \in Nat
      /\ main \subseteq Posted /\ imm \subseteq Posted /\ IsFiniteSet(main) /\ IsFiniteSet(imm)
  BY FS_CardinalityType DEF QueueTypes
<1>2. e \in Posted /\ e.timestamp = posts + 1
  BY <1>1 DEF Posted
<1>3. \A f \in main \cup imm : f.timestamp \in Nat /\ f.timestamp <= posts /\ f # e
  BY <1>1, <1>2 DEF Stamped, Posted
<1>4. posts' = posts + 1 /\ cleared' = cleared /\ dispatched' = dispatched /\ calls' = calls
  BY DEF PostEvent, control
<1> HIDE DEF e
<1>5. CASE imm' = imm \cup {e} /\ UNCHANGED <<main, dropped>>
  <2>1. IsFiniteSet(imm') /\ Cardinality(imm') = I + 1
    BY <1>1, <1>3, <1>5, FS_AddElement
  <2>2. QueueTypes'
    BY <1>1, <1>2, <1>4, <1>5, <2>1 DEF QueueTypes
  <2>3. Stamped'
    BY <1>1, <1>2, <1>3, <1>4, <1>5 DEF Stamped
  <2>4. Accounting'
    <3>1. dispatched + dropped + cleared + M + I = posts + calls
      BY DEF Accounting
    <3>2. Cardinality(main') = M
      BY <1>5
    <3> HIDE DEF M, I
    <3>3. dispatched + dropped + cleared + M + (I + 1) = (posts + 1) + calls
      BY <1>1, <3>1
    <3> QED BY <1>4, <1>5, <2>1, <3>2, <3>3 DEF Accounting
  <2> QED BY <2>2, <2>3, <2>4
<1>6. CASE main' = main \cup {e} /\ UNCHANGED <<imm, dropped>>
  <2>1. IsFiniteSet(main') /\ Cardinality(main') = M + 1
    BY <1>1, <1>3, <1>6, FS_AddElement
  <2>2. QueueTypes'
    BY <1>1, <1>2, <1>4, <1>6, <2>1 DEF QueueTypes
  <2>3. Stamped'
    BY <1>1, <1>2, <1>3, <1>4, <1>6 DEF Stamped
  <2>4. Accounting'
    <3>1. dispatched + dropped + cleared + M + I = posts + calls
      BY DEF Accounting
    <3>2. Cardinality(imm') = I
      BY <1>6
    <3> HIDE DEF M, I
    <3>3. dispatched + dropped + cleared + (M + 1) + I = (posts + 1) + calls
      BY <1>1, <3>1
    <3> QED BY <1>4, <1>6, <2>1, <3>2, <3>3 DEF Accounting
  <2> QED BY <2>2, <2>3, <2>4
<1>7. CASE dropped' = dropped + 1 /\ UNCHANGED <<main, imm>>
  <2>1. QueueTypes'
    BY <1>1, <1>4, <1>7 DEF QueueTypes
  <2>2. Stamped'
    BY <1>1, <1>3, <1>4, <1>7 DEF Stamped
  <2>3. Accounting'
    <3>1. dispatched + dropped + cleared + M + I = posts + calls
      BY DEF Accounting
    <3>2. Cardinality(main') = M /\ Cardinality(imm') = I
      BY <1>7
    <3> HIDE DEF M, I
    <3>3. dispatched + (dropped + 1) + cleared + M + I = (posts + 1) + calls
      BY <1>1, <3>1
    <3> QED BY <1>4, <1>7, <3>2, <3>3 DEF Accounting
  <2> QED BY <2>1, <2>2, <2>3
<1> QED BY <1>5, <1>6, <1>7 DEF PostEvent, e

\* What is taken out of the queues is counted where it goes: x events cleared,
\* y dispatched.
LEMMA TakenCounted ==
  ASSUME QueueTypes, Stamped, Accounting, NEW x \in Nat, NEW y \in Nat,
         main' \subseteq main, imm' \subseteq imm,
         Cardinality(main) + Cardinality(imm) = Cardinality(main') + Cardinality(imm') + x + y,
         cleared' = cleared + x, dispatched' = dispatched + y,
         UNCHANGED <<posts, dropped, calls>>
  PROVE  QueueTypes' /\ Stamped' /\ Accounting'
<1>1. /\ IsFiniteSet(main) /\ IsFiniteSet(imm) /\ IsFiniteSet(main') /\ IsFiniteSet(imm')
  BY FS_Subset DEF QueueTypes
<1>2. QueueTypes' /\ Stamped'
  BY <1>1 DEF QueueTypes, Stamped
<1>3. Accounting'
  <2> DEFINE M == Cardinality(main)   I == Cardinality(imm)
             N == Cardinality(main')  J == Cardinality(imm')
  <2>1. /\ M \in Nat /\ I \in Nat /\ N \in Nat /\ J \in Nat
        /\ M + I = N + J + x + y
        /\ dispatched + dropped + cleared + M + I = posts + calls
        /\ posts \in Nat /\ dropped \in Nat /\ cleared \in Nat /\ dispatched \in Nat /\ calls \in Nat
    BY <1>1, FS_CardinalityType DEF QueueTypes, Accounting
  <2> HIDE DEF M, I, N, J
  <2>2. (dispatched + y) + dropped + (cleared + x) + N + J = posts + calls
    BY <2>1
  <2> QED BY <2>2 DEF Accounting, N, J
<1> QED BY <1>2, <1>3

LEMMA CountStep ==
  ASSUME QueueTypes, Stamped, Accounting, [Next]_vars
  PROVE  QueueTypes' /\ Stamped' /\ Accounting'
<1> DEFINE Goal == QueueTypes' /\ Stamped' /\ Accounting'
<1> SUFFICES Goal
  OBVIOUS
<1> USE DEF tables, control
<1>1. /\ IsFiniteSet(main) /\ IsFiniteSet(imm) /\ Cardinality(main) \in Nat /\ Cardinality(imm) \in Nat
      /\ posts \in Nat /\ dropped \in Nat /\ cleared \in Nat /\ dispatched \in Nat /\ calls \in Nat
  BY FS_CardinalityType DEF QueueTypes
<1>2. ASSUME NEW p \in Priorities, NEW t \in Types, PostEvent(p, t) PROVE Goal
  BY <1>2, PostCounted
<1>3. ASSUME NEW p \in Priorities, NEW t \in Types, DispatchImmediate(p, t) PROVE Goal
  <2>1. /\ calls' = calls + 1 /\ dispatched' = dispatched + 1
        /\ UNCHANGED <<main, imm, posts, dropped, cleared>>
    BY <1>3 DEF DispatchImmediate, Enter, queues
  <2>2. QueueTypes' /\ Stamped'
    BY <1>1, <2>1 DEF QueueTypes, Stamped
  <2>3. Accounting'
    <3> DEFINE M == Cardinality(main)   I == Cardinality(imm)
    <3>1. M \in Nat /\ I \in Nat /\ dispatched + dropped + cleared + M + I = posts + calls
      BY <1>1 DEF Accounting
    <3> HIDE DEF M, I
    <3>2. (dispatched + 1) + dropped + cleared + M + I = posts + (calls + 1)
      BY <1>1, <3>1
    <3> QED BY <2>1, <3>2 DEF Accounting, M, I
  <2> QED BY <2>2, <2>3
<1>4. CASE ClearEvents
  <2> DEFINE x == Cardinality(main) + Cardinality(imm)
  <2>1. /\ main' = {} /\ imm' = {} /\ cleared' = cleared + x /\ x \in Nat
        /\ UNCHANGED <<posts, dropped, calls, dispatched>>
    BY <1>1, <1>4 DEF ClearEvents
  <2>2. Cardinality(main') = 0 /\ Cardinality(imm') = 0
    BY <2>1, FS_EmptySet
  <2>3. /\ main' \subseteq main /\ imm' \subseteq imm /\ dispatched' = dispatched + 0
        /\ Cardinality(main) + Cardinality(imm) = Cardinality(main') + Cardinality(imm') + x + 0
    BY <1>1, <2>1, <2>2
  <2> HIDE DEF x
  <2> QED BY <2>1, <2>3, TakenCounted
<1>5. ASSUME NEW t \in Types, ClearEventsOfType(t) PROVE Goal
  <2> DEFINE x == Cardinality(main \ main')
  <2>1. /\ main' \subseteq main /\ cleared' = cleared + x
        /\ UNCHANGED <<imm, posts, dropped, calls, dispatched>>
    BY <1>5 DEF ClearEventsOfType
  <2>2. main \cap main' = main' /\ IsFiniteSet(main')
    BY <1>1, <2>1, FS_Subset
  <2>3. x = Cardinality(main) - Cardinality(main') /\ x \in Nat /\ Cardinality(main') \in Nat
    BY <1>1, <2>2, FS_Difference, FS_CardinalityType
  <2> HIDE DEF x
  <2>4. /\ Cardinality(main) + Cardinality(imm) = Cardinality(main') + Cardinality(imm') + x + 0
        /\ dispatched' = dispatched + 0 /\ imm' \subseteq imm
    BY <1>1, <2>1, <2>3
  <2> QED BY <2>1, <2>3, <2>4, TakenCounted
<1>6. CASE PopImmediate
  <2>1. PICK e \in imm : imm' = imm \ {e}
    BY <1>6 DEF PopImmediate
  <2>2. /\ dispatched' = dispatched + 1 /\ UNCHANGED <<main, posts, dropped, cleared, calls>>
    BY <1>6 DEF PopImmediate, Enter
  <2>3. Cardinality(imm') = Cardinality(imm) - 1
    BY <1>1, <2>1, FS_RemoveElement
  <2>4. /\ main' \subseteq main /\ imm' \subseteq imm /\ cleared' = cleared + 0
        /\ Cardinality(main) + Cardinality(imm) = Cardinality(main') + Cardinality(imm') + 0 + 1
    BY <1>1, <2>1, <2>2, <2>3
  <2> QED BY <2>2, <2>4, TakenCounted
<1>7. CASE PopMain
  <2>1. PICK e \in main : main' = main \ {e}
    BY <1>7 DEF PopMain
  <2>2. /\ dispatched' = dispatched + 1 /\ UNCHANGED <<imm, posts, dropped, cleared, calls>>
    BY <1>7 DEF PopMain, Enter
  <2>3. Cardinality(main') = Cardinality(main) - 1
    BY <1>1, <2>1, FS_RemoveElement
  <2>4. /\ main' \subseteq main /\ imm' \subseteq imm /\ cleared' = cleared + 0
        /\ Cardinality(main) + Cardinality(imm) = Cardinality(main') + Cardinality(imm') + 0 + 1
    BY <1>1, <2>1, <2>2, <2>3
  <2> QED BY <2>2, <2>4, TakenCounted
<1>8. ASSUME UNCHANGED <<queues, dispatched, calls>> PROVE Goal
  BY <1>8, QuietQueues
<1>9. CASE CallHandler \/ NobodyLeft \/ ImmediateDone \/ CheckLimit \/ ProcessDone \/ HandlerReturns
  <2>1. UNCHANGED <<queues, dispatched, calls>>
    BY <1>9 DEF CallHandler, NobodyLeft, ImmediateDone, CheckLimit, ProcessDone, HandlerReturns
  <2> QED BY <1>8, <2>1
<1>10. ASSUME NEW a, \/ AddListener(a) \/ RemoveListener(a) \/ RemoveListenersForHandler(a)
                    \/ AddReceiver(a) \/ RemoveReceiver(a) \/ ProcessEvents(a)
                    \/ \E on \in BOOLEAN : SetListenerEnabled(a, on)
      PROVE  Goal
  <2>1. UNCHANGED <<queues, dispatched, calls>>
    BY <1>10 DEF AddListener, RemoveListener, RemoveListenersForHandler, AddReceiver, RemoveReceiver,
                ProcessEvents, SetListenerEnabled
  <2> QED BY <1>8, <2>1
<1>11. CASE UNCHANGED vars
  BY <1>8, <1>11 DEF vars
<1> HIDE DEF Goal
<1>12. CASE User
  BY <1>2, <1>3, <1>4, <1>5, <1>10, <1>12 DEF User
<1> QED BY <1>6, <1>7, <1>9, <1>11, <1>12 DEF Next, Manager

-----------------------------------------------------------------------------
(* The table of listeners *)

LEMMA FreeIs == Free.id = 0
BY DEF Free

LEMMA SlotsAre == \A s \in Slots : s \in Nat /\ s < MaxListeners
BY DEF Slots

\* What a step does to the table: nothing; one more, in a free entry; some that
\* are freed; or one that is switched, which every frame remembers.
Adds(s) == /\ listeners[s].id = 0
           /\ \E f \in Filters :
                listeners' = [listeners EXCEPT ![s] = [id |-> nextId, filter |-> f, enabled |-> TRUE]]
           /\ nextId' = nextId + 1 /\ UNCHANGED stack
Frees(S) == /\ listeners' = [s \in Slots |-> IF s \in S THEN Free ELSE listeners[s]]
            /\ UNCHANGED <<nextId, stack>>
Switches(s) ==
  /\ \E on \in BOOLEAN : listeners' = [listeners EXCEPT ![s].enabled = on]
  /\ stack' = [d \in DOMAIN stack |-> [stack[d] EXCEPT !.touched = @ \cup {listeners[s].id}]]
  /\ UNCHANGED nextId

LEMMA TableEffect ==
  ASSUME TypeOK, [Next]_vars
  PROVE  \/ UNCHANGED <<listeners, nextId>>
         \/ \E s \in Slots : Adds(s)
         \/ \E S \in SUBSET Slots : Frees(S)
         \/ \E s \in Slots : Switches(s)
<1> USE DEF tables, control, queues
<1>1. ASSUME NEW f \in Filters, AddListener(f) PROVE \E s \in Slots : Adds(s)
  BY <1>1, FreeIs DEF AddListener, FirstFree, Adds
<1>2. ASSUME NEW id, RemoveListener(id) PROVE \E S \in SUBSET Slots : Frees(S)
  <2>1. PICK s \in Slots : listeners' = [listeners EXCEPT ![s] = Free]
    BY <1>2 DEF RemoveListener
  <2>2. listeners \in [Slots -> [id : Nat, filter : Filters \cup {Free.filter}, enabled : BOOLEAN]]
    BY DEF TypeOK, TableTypes
  <2>3. listeners' = [r \in Slots |-> IF r \in {s} THEN Free ELSE listeners[r]]
    BY <2>1, <2>2
  <2>4. UNCHANGED <<nextId, stack>>
    BY <1>2 DEF RemoveListener
  <2>5. Frees({s}) /\ {s} \in SUBSET Slots
    BY <2>3, <2>4 DEF Frees
  <2> QED BY <2>5
<1>3. ASSUME NEW h, RemoveListenersForHandler(h) PROVE \E S \in SUBSET Slots : Frees(S)
  <2> DEFINE S == {s \in Slots : listeners[s].filter.handler = h}
  <2>1. Frees(S)
    BY <1>3 DEF RemoveListenersForHandler, Frees
  <2> QED BY <2>1
<1>4. ASSUME NEW id, NEW on \in BOOLEAN, SetListenerEnabled(id, on) PROVE \E s \in Slots : Switches(s)
  BY <1>4 DEF SetListenerEnabled, Switches
<1>5. ASSUME NEW a, \/ AddReceiver(a) \/ RemoveReceiver(a) \/ ProcessEvents(a) \/ ClearEventsOfType(a)
      PROVE  UNCHANGED <<listeners, nextId>>
  BY <1>5 DEF AddReceiver, RemoveReceiver, ProcessEvents, ClearEventsOfType
<1>6. ASSUME NEW p, NEW t, PostEvent(p, t) \/ DispatchImmediate(p, t) PROVE UNCHANGED <<listeners, nextId>>
  BY <1>6 DEF PostEvent, DispatchImmediate
<1>7. CASE Manager \/ HandlerReturns \/ ClearEvents \/ UNCHANGED vars
  BY <1>7 DEF Manager, CallHandler, NobodyLeft, PopImmediate, ImmediateDone, PopMain, CheckLimit,
              ProcessDone, HandlerReturns, ClearEvents, vars
<1>8. CASE User
  BY <1>1, <1>2, <1>3, <1>4, <1>5, <1>6, <1>7, <1>8 DEF User
<1> QED BY <1>7, <1>8 DEF Next

\* What becomes of one entry, and that a new one was free.
LEMMA EntryEffect ==
  ASSUME TypeOK, [Next]_vars
  PROVE  /\ TableTypes'
         /\ nextId' = nextId \/ nextId' = nextId + 1
         /\ \A s \in Slots : \/ listeners'[s] = listeners[s]
                             \/ listeners'[s].id = nextId /\ nextId' = nextId + 1
                             \/ listeners'[s].id = 0
                             \/ Switches(s) /\ listeners'[s].id = listeners[s].id
<1>1. /\ listeners \in [Slots -> [id : Nat, filter : Filters \cup {Free.filter}, enabled : BOOLEAN]]
      /\ nextId \in Nat \ {0}
  BY DEF TypeOK, TableTypes
<1>2. CASE UNCHANGED <<listeners, nextId>>
  BY <1>1, <1>2 DEF TableTypes
<1>3. ASSUME NEW s \in Slots, Adds(s)
      PROVE  /\ TableTypes' /\ nextId' = nextId + 1 /\ listeners'[s].id = nextId
             /\ \A r \in Slots : r # s => listeners'[r] = listeners[r]
  <2>1. PICK f \in Filters :
          listeners' = [listeners EXCEPT ![s] = [id |-> nextId, filter |-> f, enabled |-> TRUE]]
    BY <1>3 DEF Adds
  <2>2. nextId' = nextId + 1 /\ nextId + 1 \in Nat \ {0}
    BY <1>1, <1>3 DEF Adds
  <2> QED BY <1>1, <2>1, <2>2 DEF TableTypes
<1>4. ASSUME NEW S \in SUBSET Slots, Frees(S)
      PROVE  /\ TableTypes' /\ nextId' = nextId
             /\ \A r \in Slots : listeners'[r] = listeners[r] \/ listeners'[r].id = 0
  <2>1. Free \in [id : Nat, filter : Filters \cup {Free.filter}, enabled : BOOLEAN]
    BY DEF Free
  <2> QED BY <1>1, <1>4, <2>1, FreeIs DEF TableTypes, Frees
<1>5. ASSUME NEW s \in Slots, Switches(s)
      PROVE  /\ TableTypes' /\ nextId' = nextId /\ listeners'[s].id = listeners[s].id
             /\ \A r \in Slots : r # s => listeners'[r] = listeners[r]
  <2>1. PICK on \in BOOLEAN : listeners' = [listeners EXCEPT ![s].enabled = on]
    BY <1>5 DEF Switches
  <2>2. nextId' = nextId
    BY <1>5 DEF Switches
  <2> QED BY <1>1, <2>1, <2>2 DEF TableTypes
<1> QED BY <1>2, <1>3, <1>4, <1>5, TableEffect

LEMMA DistinctStep ==
  ASSUME TypeOK, Distinct, [Next]_vars
  PROVE  Distinct'
<1>1. /\ listeners \in [Slots -> [id : Nat, filter : Filters \cup {Free.filter}, enabled : BOOLEAN]]
      /\ nextId \in Nat \ {0} /\ \A s \in Slots : listeners[s].id \in Nat
  BY DEF TypeOK, TableTypes
<1>2. \A s \in Slots : listeners'[s].id < nextId'
  BY <1>1, EntryEffect DEF Distinct
<1>3. ASSUME NEW s \in Slots, Adds(s),
             NEW q \in Slots, NEW r \in Slots, listeners'[q].id = listeners'[r].id, listeners'[q].id # 0
      PROVE  q = r
  <2>1. PICK f \in Filters :
          listeners' = [listeners EXCEPT ![s] = [id |-> nextId, filter |-> f, enabled |-> TRUE]]
    BY <1>3 DEF Adds
  <2>2. listeners'[s].id = nextId /\ \A x \in Slots : x # s => listeners'[x] = listeners[x]
    BY <1>1, <2>1
  <2>3. \A x \in Slots : listeners[x].id # nextId
    BY <1>1 DEF Distinct
  <2> QED BY <1>3, <2>2, <2>3 DEF Distinct
<1>4. ASSUME ~\E s \in Slots : Adds(s), NEW s \in Slots
      PROVE  listeners'[s].id = listeners[s].id \/ listeners'[s].id = 0
  BY <1>1, <1>4, TableEffect, FreeIs DEF Frees, Switches
<1>5. ASSUME ~\E s \in Slots : Adds(s),
             NEW q \in Slots, NEW r \in Slots, listeners'[q].id = listeners'[r].id, listeners'[q].id # 0
      PROVE  q = r
  BY <1>4, <1>5 DEF Distinct
<1> QED BY <1>2, <1>3, <1>5 DEF Distinct

-----------------------------------------------------------------------------
(* Frames *)

LEMMA StackIs ==
  ASSUME stack \in Seq(Frames)
  PROVE  /\ Len(stack) \in Nat /\ DOMAIN stack = 1..Len(stack)
         /\ \A d \in DOMAIN stack : stack[d] \in Frames
BY LenProperties, ElementOfSeq

\* A frame that stays as it is remains sound whatever happens to the table, as
\* long as nobody is switched; and one that remembers the switch, when one is.
LEMMA FrameStays ==
  ASSUME TypeOK, Distinct, [Next]_vars, NEW f \in Frames, Sound(f), ~\E s \in Slots : Switches(s)
  PROVE  Sound(f)'
<1>1. /\ nextId \in Nat \ {0} /\ f.newFrom \in Nat /\ f.at \in Nat
      /\ \A s \in Slots : listeners[s].id \in Nat
  BY DEF TypeOK, TableTypes, Frames
<1>2. nextId' = nextId \/ nextId' = nextId + 1
  BY EntryEffect
<1>3. DOMAIN f.called = 1..Len(f.called) /\ \A i \in DOMAIN f.called : f.called[i] \in Nat
  BY LenProperties, ElementOfSeq DEF Frames
<1>4. /\ f.newFrom <= nextId'
      /\ \A i \in DOMAIN f.called : f.called[i] # 0 /\ f.called[i] < nextId' /\ f.called[i] # nextId
      /\ \A i, j \in DOMAIN f.called : f.called[i] = f.called[j] => i = j
  BY <1>1, <1>2, <1>3 DEF Sound, Once, Passed
<1>5. ASSUME NEW s \in Slots
      PROVE  IF Behind(f, s) THEN Due(f, s)' => HasCalled(f, listeners'[s].id)
                             ELSE ~HasCalled(f, listeners'[s].id)
  <2>1. CASE listeners'[s] = listeners[s]
    <3>1. Due(f, s)' = Due(f, s)
      BY <2>1 DEF Due, Wants
    <3> QED BY <2>1, <3>1 DEF Sound, Once, Passed
  <2>2. CASE listeners'[s].id = nextId
    <3>1. ~Due(f, s)'
      BY <1>1, <2>2 DEF Due, Sound, Once
    <3>2. ~HasCalled(f, listeners'[s].id)
      BY <1>4, <2>2 DEF HasCalled
    <3> QED BY <3>1, <3>2
  <2>3. CASE listeners'[s].id = 0
    <3>1. ~Due(f, s)'
      BY <2>3 DEF Due, Wants
    <3>2. ~HasCalled(f, listeners'[s].id)
      BY <1>4, <2>3 DEF HasCalled
    <3> QED BY <3>1, <3>2
  <2> QED BY <2>1, <2>2, <2>3, EntryEffect
<1> QED BY <1>4, <1>5 DEF Sound, Once, Passed, HasCalled, Behind

LEMMA FrameTouched ==
  ASSUME TypeOK, Distinct, NEW f \in Frames, Sound(f), NEW q \in Slots, Switches(q), NEW g,
         g = [f EXCEPT !.touched = @ \cup {listeners[q].id}]
  PROVE  g \in Frames /\ Sound(g)'
<1>1. listeners \in [Slots -> [id : Nat, filter : Filters \cup {Free.filter}, enabled : BOOLEAN]]
  BY DEF TypeOK, TableTypes
<1>2. /\ g.called = f.called /\ g.newFrom = f.newFrom /\ g.at = f.at /\ g.mode = f.mode
      /\ g.event = f.event /\ g.touched = f.touched \cup {listeners[q].id}
  BY DEF Frames
<1>3. g \in Frames
  <2>1. listeners[q].id \in Nat
    BY <1>1
  <2> QED BY <2>1 DEF Frames
<1>4. /\ nextId' = nextId /\ listeners'[q].id = listeners[q].id
      /\ \A s \in Slots : s # q => listeners'[s] = listeners[s]
  BY <1>1 DEF Switches
<1>5. ASSUME NEW s \in Slots
      PROVE  IF Behind(g, s) THEN Due(g, s)' => HasCalled(g, listeners'[s].id)
                             ELSE ~HasCalled(g, listeners'[s].id)
  <2>1. Behind(g, s) = Behind(f, s) /\ \A id : HasCalled(g, id) = HasCalled(f, id)
    BY <1>2 DEF Behind, HasCalled
  <2>2. CASE s = q
    <3>1. ~Due(g, s)'
      BY <1>2, <1>4, <2>2 DEF Due
    <3>2. ~Behind(f, s) => ~HasCalled(f, listeners'[s].id)
      BY <1>4, <2>2 DEF Sound, Once, Passed
    <3> QED BY <2>1, <3>1, <3>2
  <2>3. CASE s # q
    <3>1. listeners'[s] = listeners[s]
      BY <1>4, <2>3
    <3>2. Due(g, s)' => Due(f, s)
      BY <1>2, <3>1 DEF Due, Wants
    <3> QED BY <2>1, <3>1, <3>2 DEF Sound, Once, Passed
  <2> QED BY <2>2, <2>3
<1> QED BY <1>2, <1>3, <1>4, <1>5 DEF Sound, Once, Passed, HasCalled, Behind

\* A new frame has called nobody and passed nobody.
LEMMA FrameEnters ==
  ASSUME TypeOK, NEW e \in Posted, NEW f, f = Frame(e), nextId' = nextId \/ nextId' = nextId + 1
  PROVE  f \in Frames /\ Sound(f)'
<1>1. nextId \in Nat \ {0} /\ \A s \in Slots : s \in Nat
  BY SlotsAre DEF TypeOK, TableTypes
<1>2. /\ f.at = 0 /\ f.mode = "scan" /\ f.called = <<>> /\ f.newFrom = nextId
      /\ f \in Frames
  <2>1. <<>> \in Seq(Nat)
    BY EmptySeq
  <2> QED BY <1>1, <2>1 DEF Frame, Frames
<1>3. \A s \in Slots : ~Behind(f, s)
  BY <1>1, <1>2 DEF Behind
<1>4. DOMAIN f.called = {}
  BY <1>2
<1>5. \A s \in Slots : ~HasCalled(f, listeners'[s].id)
  BY <1>4 DEF HasCalled
<1>6. f.newFrom <= nextId'
  BY <1>1, <1>2
<1> QED BY <1>2, <1>3, <1>4, <1>5, <1>6 DEF Sound, Once, Passed, HasCalled, Behind

\* The call of a listener that the scan has come to.
LEMMA FrameCalls ==
  ASSUME TypeOK, Distinct, UNCHANGED <<listeners, nextId>>,
         NEW f \in Frames, Sound(f), f.mode = "scan",
         NEW i \in f.at .. MaxListeners + MaxReceivers - 1, Wants(i, f.event),
         \A j \in f.at .. i - 1 : ~Wants(j, f.event),
         NEW g, g = [f EXCEPT !.at = i, !.mode = "handler",
                              !.called = IF i \in Slots THEN Append(@, listeners[i].id) ELSE @]
  PROVE  g \in Frames /\ Sound(g)'
<1>1. /\ nextId \in Nat \ {0} /\ f.newFrom \in Nat /\ f.at \in Nat /\ i \in Nat /\ i >= f.at
      /\ f.called \in Seq(Nat)
      /\ \A s \in Slots : listeners[s].id \in Nat /\ s \in Nat
  BY SlotsAre DEF TypeOK, TableTypes, Frames
<1>2. /\ g.at = i /\ g.mode = "handler" /\ g.newFrom = f.newFrom /\ g.touched = f.touched
      /\ g.event = f.event
      /\ g.called = IF i \in Slots THEN Append(f.called, listeners[i].id) ELSE f.called
  BY DEF Frames
<1>3. \A s \in Slots : Due(g, s)' = Due(f, s)
  BY <1>2 DEF Due, Wants
<1>4. CASE i \notin Slots
  <2>1. g \in Frames
    BY <1>1, <1>2, <1>4 DEF Frames
  <2>2. \A id : HasCalled(g, id) = HasCalled(f, id)
    BY <1>2, <1>4 DEF HasCalled
  <2>3. \A s \in Slots : s < i
    BY <1>1, <1>4, SlotsAre DEF Slots
  <2>4. ASSUME NEW s \in Slots PROVE Due(f, s) => HasCalled(f, listeners[s].id)
    <3>1. CASE Behind(f, s)
      BY <3>1 DEF Sound, Once, Passed
    <3>2. CASE ~Behind(f, s)
      <4>1. s \in f.at .. i - 1
        BY <1>1, <2>3, <3>2 DEF Behind
      <4> QED BY <4>1 DEF Due
    <3> QED BY <3>1, <3>2
  <2>5. \A s \in Slots : Behind(g, s)
    BY <1>2, <2>3 DEF Behind
  <2>6. \A s \in Slots : Due(g, s)' => HasCalled(g, listeners'[s].id)
    BY <1>3, <2>2, <2>4
  <2> QED BY <1>2, <1>4, <2>1, <2>5, <2>6 DEF Sound, Once, Passed, HasCalled, Behind
<1>5. CASE i \in Slots
  <2> DEFINE id == listeners[i].id
             n == Len(f.called)
  <2>1. /\ id \in Nat /\ id # 0 /\ id < nextId /\ n \in Nat
    BY <1>1, <1>5, LenProperties DEF Wants, Distinct
  <2>2. /\ g.called \in Seq(Nat) /\ DOMAIN f.called = 1..n /\ DOMAIN g.called = 1..(n + 1)
        /\ \A k \in 1..n : g.called[k] = f.called[k]
        /\ g.called[n + 1] = id
    <3>1. g.called = Append(f.called, id)
      BY <1>2, <1>5
    <3> QED BY <1>1, <2>1, <3>1, AppendProperties, LenProperties
  <2>3. g \in Frames
    BY <1>1, <1>2, <2>2 DEF Frames
  <2>4. ~HasCalled(f, id)
    <3>1. ~Behind(f, i)
      BY <1>1 DEF Behind
    <3> QED BY <1>5, <3>1 DEF Sound, Once, Passed
  <2> HIDE DEF id, n
  <2>5. \A x : HasCalled(g, x) <=> HasCalled(f, x) \/ x = id
    <3>1. 1..(n + 1) = 1..n \cup {n + 1}
      BY <2>1
    <3>2. ASSUME NEW x, HasCalled(g, x) PROVE HasCalled(f, x) \/ x = id
      <4>1. PICK k \in 1..n \cup {n + 1} : g.called[k] = x
        BY <2>2, <3>1, <3>2 DEF HasCalled
      <4> QED BY <2>2, <4>1 DEF HasCalled
    <3>3. ASSUME NEW x, HasCalled(f, x) \/ x = id PROVE HasCalled(g, x)
      <4>1. n + 1 \in DOMAIN g.called /\ \A k \in 1..n : k \in DOMAIN g.called
        BY <2>2, <3>1
      <4> QED BY <2>2, <3>3, <4>1 DEF HasCalled
    <3> QED BY <3>2, <3>3
  <2>6. \A k \in DOMAIN g.called : g.called[k] # 0 /\ g.called[k] < nextId
    BY <2>1, <2>2, SMTT(30) DEF Sound, Once, Passed
  <2>7. ASSUME NEW k \in DOMAIN g.called, NEW l \in DOMAIN g.called, g.called[k] = g.called[l]
        PROVE  k = l
    <3>1. 1..(n + 1) = 1..n \cup {n + 1}
      BY <2>1
    <3>2. \A m \in 1..n : g.called[m] # id
      BY <2>2, <2>4 DEF HasCalled
    <3>3. CASE k \in 1..n /\ l \in 1..n
      BY <2>2, <2>7, <3>3 DEF Sound, Once
    <3>4. CASE k = n + 1 \/ l = n + 1
      BY <2>2, <2>7, <3>1, <3>2, <3>4
    <3> QED BY <2>2, <3>1, <3>3, <3>4
  <2>8. ASSUME NEW s \in Slots
        PROVE  IF Behind(g, s) THEN Due(f, s) => HasCalled(g, listeners[s].id)
                               ELSE ~HasCalled(g, listeners[s].id)
    <3>1. CASE s = i
      BY <1>1, <1>2, <2>5, <3>1 DEF Behind, id
    <3>2. CASE s # i
      <4>1. listeners[s].id # id
        BY <1>5, <2>1, <3>2 DEF Distinct, id
      <4>2. CASE s < i
        <5>1. CASE Behind(f, s)
          BY <1>2, <2>5, <4>2, <5>1 DEF Sound, Passed, Behind
        <5>2. CASE ~Behind(f, s)
          <6>1. s \in f.at .. i - 1
            BY <1>1, <4>2, <5>2 DEF Behind
          <6> QED BY <1>2, <4>2, <6>1 DEF Due, Behind
        <5> QED BY <5>1, <5>2
      <4>3. CASE ~(s < i)
        <5>1. ~Behind(g, s) /\ ~Behind(f, s)
          BY <1>1, <1>2, <3>2, <4>3 DEF Behind
        <5> QED BY <2>5, <4>1, <5>1 DEF Sound, Once, Passed
      <4> QED BY <4>2, <4>3
    <3> QED BY <3>1, <3>2
  <2>9. \A s \in Slots : IF Behind(g, s) THEN Due(g, s)' => HasCalled(g, listeners'[s].id)
                                         ELSE ~HasCalled(g, listeners'[s].id)
    BY <1>3, <2>8
  <2>10. Once(g)'
    BY <1>2, <2>6, <2>7 DEF Sound, Once
  <2>11. Passed(g)'
    BY <2>9 DEF Passed, HasCalled, Behind
  <2> QED BY <2>3, <2>10, <2>11 DEF Sound
<1> QED BY <1>4, <1>5

\* A handler that does not handle the event gives it back to the scan.
LEMMA FrameGoesOn ==
  ASSUME TypeOK, UNCHANGED <<listeners, nextId>>,
         NEW f \in Frames, Sound(f), f.mode = "handler",
         NEW g, g = [f EXCEPT !.mode = "scan", !.at = @ + 1]
  PROVE  g \in Frames /\ Sound(g)'
<1>1. f.at \in Nat /\ \A s \in Slots : s \in Nat
  BY SlotsAre DEF Frames
<1>2. /\ g.at = f.at + 1 /\ g.mode = "scan" /\ g.newFrom = f.newFrom /\ g.touched = f.touched
      /\ g.event = f.event /\ g.called = f.called
  BY DEF Frames
<1>3. \A s \in Slots : Due(g, s)' = Due(f, s) /\ Behind(g, s) = Behind(f, s)
  BY <1>1, <1>2 DEF Due, Wants, Behind
<1>4. \A id : HasCalled(g, id) = HasCalled(f, id)
  BY <1>2 DEF HasCalled
<1>5. g \in Frames
  <2>1. f.at + 1 \in Nat /\ "scan" \in {"scan", "handler"}
    BY <1>1
  <2> QED BY <2>1 DEF Frames
<1> QED BY <1>2, <1>3, <1>4, <1>5 DEF Sound, Once, Passed, HasCalled, Behind

\* A step that leaves the table to the frames that are there, but for the last.
LEMMA StackStep ==
  ASSUME TypeOK, Distinct, FramesSound, [Next]_vars
  PROVE  stack' \in Seq(Frames) /\ FramesSound'
<1> USE DEF tables, control, queues
<1> DEFINE n == Len(stack)
           Goal == stack' \in Seq(Frames) /\ FramesSound'
<1> SUFFICES Goal
  OBVIOUS
<1>1. /\ stack \in Seq(Frames) /\ n \in Nat /\ DOMAIN stack = 1..n
      /\ \A d \in 1..n : stack[d] \in Frames /\ Sound(stack[d])
  BY StackIs DEF TypeOK, FramesSound
<1>2. ASSUME NEW q \in Slots, Switches(q) PROVE Goal
  <2>1. stack' = [d \in 1..n |-> [stack[d] EXCEPT !.touched = @ \cup {listeners[q].id}]]
    BY <1>1, <1>2 DEF Switches
  <2>2. ASSUME NEW d \in 1..n, NEW g, g = stack'[d] PROVE g \in Frames /\ Sound(g)'
    <3>1. PICK f \in Frames : f = stack[d] /\ Sound(f)
      BY <1>1
    <3>2. g = [f EXCEPT !.touched = @ \cup {listeners[q].id}]
      BY <2>1, <2>2, <3>1
    <3> QED BY <1>2, <3>1, <3>2, FrameTouched
  <2>3. stack' \in Seq(Frames) /\ DOMAIN stack' = 1..n
    <3>1. \A d \in 1..n : stack'[d] \in Frames
      BY <2>2
    <3>2. stack' \in [1..n -> Frames]
      BY <2>1, <3>1
    <3> QED BY <1>1, <3>2, SeqDef
  <2>4. FramesSound'
    BY <2>2, <2>3 DEF FramesSound
  <2> QED BY <2>3, <2>4
<1>3. ASSUME ~\E q \in Slots : Switches(q), NEW f \in Frames, Sound(f) PROVE Sound(f)'
  BY <1>3, FrameStays
<1>4. ASSUME ~\E q \in Slots : Switches(q), UNCHANGED stack PROVE Goal
  BY <1>1, <1>3, <1>4 DEF FramesSound
<1>5. ASSUME ~\E q \in Slots : Switches(q), NEW e \in Posted, Enter(e) PROVE Goal
  <2>1. PICK f : f = Frame(e)
    OBVIOUS
  <2>2. f \in Frames /\ Sound(f)'
    BY <2>1, FrameEnters, EntryEffect
  <2>3. stack' = Append(stack, f)
    BY <1>5, <2>1 DEF Enter
  <2>4. /\ stack' \in Seq(Frames) /\ DOMAIN stack' = 1..(n + 1)
        /\ \A d \in 1..n : stack'[d] = stack[d]
        /\ stack'[n + 1] = f
    BY <1>1, <2>2, <2>3, AppendProperties, LenProperties
  <2>5. 1..(n + 1) = 1..n \cup {n + 1}
    BY <1>1
  <2>6. FramesSound'
    BY <1>1, <1>3, <1>5, <2>2, <2>4, <2>5 DEF FramesSound
  <2> QED BY <2>4, <2>6
<1>6. ASSUME ~\E q \in Slots : Switches(q), n # 0, Return PROVE Goal
  <2>1. /\ stack' \in Seq(Frames) /\ Len(stack') = n - 1
        /\ \A d \in 1..(n - 1) : stack'[d] = stack[d]
    <3>1. n - 1 \in Int /\ \A d \in 1..(n - 1) : d \in 1..n
      BY <1>1
    <3>2. /\ SubSeq(stack, 1, n - 1) \in Seq(Frames)
          /\ Len(SubSeq(stack, 1, n - 1)) = IF 1 <= n - 1 THEN (n - 1) - 1 + 1 ELSE 0
          /\ \A d \in 1..((n - 1) - 1 + 1) : SubSeq(stack, 1, n - 1)[d] = stack[1 + d - 1]
      BY <1>1, <3>1, SubSeqProperties
    <3>3. /\ (n - 1) - 1 + 1 = n - 1 /\ \A d \in 1..(n - 1) : 1 + d - 1 = d
          /\ (IF 1 <= n - 1 THEN (n - 1) - 1 + 1 ELSE 0) = n - 1
      BY <1>1, <1>6
    <3>4. stack' = SubSeq(stack, 1, n - 1)
      BY <1>6 DEF Return
    <3> HIDE DEF n
    <3> QED BY <3>2, <3>3, <3>4
  <2>2. DOMAIN stack' = 1..(n - 1) /\ \A d \in 1..(n - 1) : d \in 1..n
    BY <1>1, <2>1, LenProperties
  <2>3. FramesSound'
    BY <1>1, <1>3, <1>6, <2>1, <2>2 DEF FramesSound
  <2> QED BY <2>1, <2>3
<1>7. ASSUME ~\E q \in Slots : Switches(q), n # 0, NEW g \in Frames, Sound(g)',
             stack' = [stack EXCEPT ![n] = g]
      PROVE  Goal
  <2>1. n \in 1..n
    BY <1>1, <1>7
  <2>2. /\ stack' \in Seq(Frames) /\ Len(stack') = n
        /\ \A d \in 1..n : stack'[d] = IF d = n THEN g ELSE stack[d]
    BY <1>1, <1>7, <2>1, ExceptSeq
  <2>3. DOMAIN stack' = 1..n
    BY <2>2, LenProperties
  <2>4. FramesSound'
    BY <1>1, <1>3, <1>7, <2>2, <2>3 DEF FramesSound
  <2> QED BY <2>2, <2>4
<1>8. ASSUME ~\E q \in Slots : Switches(q), CallHandler PROVE Goal
  <2>1. n # 0 /\ Top.mode = "scan" /\ UNCHANGED <<listeners, nextId>>
    BY <1>1, <1>8, EmptySeq DEF CallHandler, InDispatch
  <2>2. PICK f \in Frames : f = stack[n] /\ Sound(f)
    BY <1>1, <2>1
  <2>3. f = Top
    BY <2>2 DEF Top
  <2>4. PICK i \in f.at .. MaxListeners + MaxReceivers - 1 :
          /\ Wants(i, f.event)
          /\ \A j \in f.at .. i - 1 : ~Wants(j, f.event)
          /\ stack' = [stack EXCEPT ![n] =
                         [f EXCEPT !.at = i, !.mode = "handler",
                                   !.called = IF i \in Slots THEN Append(f.called, listeners[i].id)
                                                             ELSE f.called]]
    BY <1>8, <2>3 DEF CallHandler
  <2>5. PICK g : g = [f EXCEPT !.at = i, !.mode = "handler",
                               !.called = IF i \in Slots THEN Append(@, listeners[i].id) ELSE @]
    OBVIOUS
  <2>6. g \in Frames /\ Sound(g)'
    BY <2>1, <2>2, <2>3, <2>4, <2>5, FrameCalls
  <2>7. stack' = [stack EXCEPT ![n] = g]
    BY <2>4, <2>5
  <2> QED BY <1>7, <1>8, <2>1, <2>6, <2>7
<1>9. ASSUME ~\E q \in Slots : Switches(q), HandlerReturns PROVE Goal
  <2>1. n # 0 /\ Top.mode = "handler" /\ UNCHANGED <<listeners, nextId>>
    BY <1>1, <1>9, EmptySeq DEF HandlerReturns, InUser
  <2>2. PICK f \in Frames : f = stack[n] /\ Sound(f)
    BY <1>1, <2>1
  <2>3. f = Top
    BY <2>2 DEF Top
  <2>4. CASE stack' = [stack EXCEPT ![n].mode = "scan", ![n].at = @ + 1]
    <3>1. PICK g : g = [f EXCEPT !.mode = "scan", !.at = @ + 1]
      OBVIOUS
    <3>2. g \in Frames /\ Sound(g)'
      BY <2>1, <2>2, <2>3, <3>1, FrameGoesOn
    <3>3. stack' = [stack EXCEPT ![n] = g]
      BY <1>1, <2>1, <2>2, <2>4, <3>1
    <3> QED BY <1>7, <1>9, <2>1, <3>2, <3>3
  <2> QED BY <1>6, <1>9, <2>1, <2>4 DEF HandlerReturns
<1>10. ASSUME ~\E q \in Slots : Switches(q), PopImmediate \/ PopMain PROVE Goal
  <2>1. main \subseteq Posted /\ imm \subseteq Posted
    BY DEF TypeOK, QueueTypes
  <2>2. PICK e \in Posted : Enter(e)
    BY <1>10, <2>1 DEF PopImmediate, PopMain
  <2> QED BY <1>5, <1>10, <2>2
<1>11. ASSUME ~\E q \in Slots : Switches(q), NEW p \in Priorities, NEW t \in Types, DispatchImmediate(p, t)
       PROVE  Goal
  <2> DEFINE e == [priority |-> p, type |-> t, timestamp |-> 0]
  <2>1. e \in Posted /\ Enter(e)
    BY <1>11 DEF DispatchImmediate, Posted
  <2> HIDE DEF e
  <2> QED BY <1>5, <1>11, <2>1
<1>12. ASSUME ~\E q \in Slots : Switches(q), NobodyLeft PROVE Goal
  <2>1. n # 0 /\ Return
    BY <1>1, <1>12, EmptySeq DEF NobodyLeft, InDispatch
  <2> QED BY <1>6, <1>12, <2>1
<1>13. UNCHANGED stack \/ (\E q \in Slots : Switches(q)) \/ CallHandler \/ NobodyLeft
         \/ PopImmediate \/ PopMain \/ HandlerReturns
         \/ (\E p \in Priorities, t \in Types : DispatchImmediate(p, t))
  <2>1. ASSUME NEW id, NEW on \in BOOLEAN, SetListenerEnabled(id, on)
        PROVE  \E q \in Slots : Switches(q)
    BY <2>1 DEF SetListenerEnabled, Switches
  <2>2. ASSUME NEW a, \/ AddListener(a) \/ RemoveListener(a) \/ RemoveListenersForHandler(a)
                      \/ AddReceiver(a) \/ RemoveReceiver(a) \/ ProcessEvents(a) \/ ClearEventsOfType(a)
        PROVE  UNCHANGED stack
    BY <2>2 DEF AddListener, RemoveListener, RemoveListenersForHandler, AddReceiver, RemoveReceiver,
                ProcessEvents, ClearEventsOfType
  <2>3. ASSUME NEW p, NEW t, PostEvent(p, t) PROVE UNCHANGED stack
    BY <2>3 DEF PostEvent
  <2>4. CASE ClearEvents \/ ImmediateDone \/ CheckLimit \/ ProcessDone \/ UNCHANGED vars
    BY <2>4 DEF ClearEvents, ImmediateDone, CheckLimit, ProcessDone, vars
  <2>5. CASE User
    BY <2>1, <2>2, <2>3, <2>4, <2>5 DEF User
  <2> QED BY <2>4, <2>5 DEF Next, Manager
<1> HIDE DEF Goal
<1> QED BY <1>2, <1>4, <1>8, <1>9, <1>10, <1>11, <1>12, <1>13

-----------------------------------------------------------------------------
(* The theorems *)

LEMMA Initially == Init => IInv
<1> SUFFICES ASSUME Init PROVE IInv
  OBVIOUS
<1>1. QueueTypes /\ Stamped /\ Accounting
  BY FS_EmptySet DEF Init, QueueTypes, Stamped, Accounting
<1>2. TableTypes /\ Distinct
  BY DEF Init, TableTypes, Distinct, Free
<1>3. stack \in Seq(Frames) /\ FramesSound
  BY EmptySeq DEF Init, FramesSound
<1> QED BY <1>1, <1>2, <1>3 DEF IInv, TypeOK

LEMMA Consecution == IInv /\ [Next]_vars => IInv'
<1> SUFFICES ASSUME IInv, [Next]_vars PROVE IInv'
  OBVIOUS
<1>1. QueueTypes' /\ Stamped' /\ Accounting'
  BY CountStep DEF IInv, TypeOK
<1>2. TableTypes' /\ Distinct'
  BY EntryEffect, DistinctStep DEF IInv
<1>3. stack' \in Seq(Frames) /\ FramesSound'
  BY StackStep DEF IInv
<1> QED BY <1>1, <1>2, <1>3 DEF IInv, TypeOK

THEOREM Invariance == Spec => []IInv
BY Initially, Consecution, PTL DEF Spec

\* postEvent, processEvents, dispatchImmediate and the two clears account for
\* every event, however deep handlers nest them and whatever the queues hold:
\* what was accepted is dispatched, cleared or still queued, and nothing else is.
THEOREM AccountingCorrect == Spec => []Accounting
<1>1. IInv => Accounting
  BY DEF IInv
<1> QED BY <1>1, Invariance, PTL

\* However handlers change the table under the scan of dispatchEvent, in any
\* number of nested dispatches: nobody is called twice for an event, and nobody
\* who was registered before it and wants it is passed over.
THEOREM OneCallEachCorrect == Spec => []OneCallEach
<1>1. IInv => OneCallEach
  <2> SUFFICES ASSUME IInv, NEW d \in DOMAIN stack
               PROVE  LET f == stack[d] IN
                      /\ \A i, j \in DOMAIN f.called : f.called[i] = f.called[j] => i = j
                      /\ \A s \in Slots :
                           /\ s < f.at
                           /\ listeners[s].id < f.newFrom /\ listeners[s].id \notin f.touched
                           /\ Wants(s, f.event)
                           => \E i \in DOMAIN f.called : f.called[i] = listeners[s].id
    BY DEF OneCallEach
  <2>1. PICK f \in Frames : f = stack[d]
    BY StackIs DEF IInv, TypeOK
  <2>2. Once(f) /\ Passed(f)
    BY <2>1 DEF IInv, FramesSound, Sound
  <2> QED BY <2>1, <2>2 DEF Once, Passed, Behind, Due, HasCalled
<1> QED BY <1>1, Invariance, PTL
=============================================================================
