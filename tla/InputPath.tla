------------------------------ MODULE InputPath ------------------------------
(***************************************************************************)
(* The desktop's main loop and the interrupts that cut into it.  The loop  *)
(* polls the mouse and the keyboard, posts what they report, drains the    *)
(* event queue and halts.  IRQ 1 runs the keyboard handler, which posts to *)
(* the same queue, between any two statements of the loop: nothing masks   *)
(* interrupts or locks the queue.  A handler itself runs to its end, since *)
(* the IDT entries are interrupt gates.                                    *)
(*                                                                         *)
(* Statements of the loop that touch the queue are one step each, except   *)
(* that m_tail = ..., m_count++ and m_count-- are a load and a store, as   *)
(* they are in the build's unoptimised code.  The copy of one event and    *)
(* the shift of findInsertIndex's range are not cut further.               *)
(***************************************************************************)
EXTENDS Integers, Sequences, FiniteSets

CONSTANTS MaxEvents,    \* EventQueue::MaxEvents
          MaxKeys,      \* bound on the key bytes the keyboard sends
          MaxReports    \* bound on the reports the mouse sends

ASSUME InputAssumption == MaxEvents \in Nat \ {0}

Buttons == {"left", "right"}
Types == {"key", "polled", "move"} \cup Buttons

VARIABLES events, head, tail, count,   \* the members of EventQueue
          pc,          \* the statement the main loop is at
          cur,         \* the event the loop is pushing or has popped
          reg,         \* the value the loop has loaded, or findInsertIndex's result
          keyByte,     \* the byte in the keyboard's output buffer
          keyFull,     \* bit 0 of the status port
          keys,        \* key bytes sent so far
          reports,     \* mouse reports posted so far
          accepted,    \* the events for which push returned true
          cut,         \* the interrupt has pushed where it breaks a push or a pop
          delivered    \* the events dispatched to the listeners

queue == <<events, head, tail, count>>
device == <<keyByte, keyFull, keys, reports>>
vars == <<queue, pc, cur, reg, device, accepted, cut, delivered>>

Q == INSTANCE EventQueue WITH MaxPosts <- MaxKeys + MaxReports, posts <- 0,
                              out <- delivered, wild <- FALSE

\* An event is known by its type and its number among those of its source, so
\* the move and the button changes of one mouse report share a number.  A byte
\* that the loop reads is "polled": the interrupt may have had the same one.
Input(t, n) == [priority |-> IF t = "move" THEN Q!Order!Normal ELSE Q!Order!High,
                type |-> t, timestamp |-> n]

Init == /\ events = [s \in Q!Slots |-> Input("move", 0)]
        /\ head = 0 /\ tail = 0 /\ count = 0
        /\ pc = "poll_mouse" /\ cur = Input("move", 0) /\ reg = 0
        /\ keyByte = 0 /\ keyFull = FALSE /\ keys = 0 /\ reports = 0
        /\ accepted = {} /\ cut = FALSE /\ delivered = {}

-----------------------------------------------------------------------------
(* The devices and the interrupts *)

KeyTyped == /\ keys < MaxKeys
            /\ ~keyFull
            /\ keyFull' = TRUE
            /\ keyByte' = keys + 1
            /\ keys' = keys + 1
            /\ UNCHANGED <<queue, pc, cur, reg, reports, accepted, cut, delivered>>

\* The loop is between the first and the last statement of push or pop.
InQueueCode == pc \in {"push_append", "push_find", "push_insert", "load_tail", "store_tail",
                       "load_count", "store_count", "pop_copy", "pop_head", "pop_load", "pop_store"}

\* Where a push by the interrupt breaks what the loop is in the middle of: what
\* the loop has written is not behind the tail or not counted yet, or the count
\* is loaded and not stored; the last slot goes to the interrupt although the
\* loop has found room; or the event goes to the head, where the loop has
\* already copied another one.
Breaks(e) ==
  \/ pc \in {"load_tail", "store_tail", "load_count", "store_count", "pop_store"}
  \/ pc \in {"push_append", "push_find", "push_insert"} /\ count + 1 = MaxEvents
  \/ pc = "pop_head" /\ Q!InsertIndex(e.priority) = head

\* IRQ 1: read the byte, post the key event; a halted loop goes on after it.
KeyIrq ==
  LET e == Input("key", keyByte) IN
  /\ keyFull
  /\ keyFull' = FALSE
  /\ IF count >= MaxEvents
     THEN UNCHANGED <<queue, accepted, cut>>
     ELSE /\ events' = Q!InsertedAt(Q!InsertIndex(e.priority), e)
          /\ tail' = (tail + 1) % MaxEvents
          /\ count' = count + 1
          /\ head' = head
          /\ accepted' = accepted \cup {e}
          /\ cut' = (cut \/ Breaks(e))
  /\ pc' = IF pc = "halt" THEN "poll_mouse" ELSE pc
  /\ UNCHANGED <<cur, reg, keyByte, keys, reports, delivered>>

\* IRQ 0 only counts ticks, but it ends the hlt.
\* (Mutant: the timer is never unmasked.)
TimerIrq_Masked == FALSE /\ UNCHANGED vars

TimerIrq == /\ pc = "halt"
            /\ pc' = "poll_mouse"
            /\ UNCHANGED <<queue, cur, reg, device, accepted, cut, delivered>>

-----------------------------------------------------------------------------
(* The main loop *)

At(here) == pc = here
Goto(there) == pc' = there

\* Where the loop goes when the push of e is done.
AfterPush(e) == CASE e.type = "move" -> "post_left"
                  [] e.type = "left" -> "post_right"
                  [] e.type = "right" -> "poll_key"
                  [] e.type \in {"key", "polled"} -> "pop_test"

\* The mouse callback posts the move, then the changes of the left and the
\* right button that the report brings.
MouseReport == /\ At("poll_mouse")
               /\ reports < MaxReports
               /\ reports' = reports + 1
               /\ cur' = Input("move", reports + 1)
               /\ Goto("push_test")
               /\ UNCHANGED <<queue, reg, keyByte, keyFull, keys, accepted, cut, delivered>>

NoMouseReport == /\ At("poll_mouse")
                 /\ Goto("poll_key")
                 /\ UNCHANGED <<queue, cur, reg, device, accepted, cut, delivered>>

PostOf == [left |-> "post_left", right |-> "post_right"]
PostButton == /\ \E b \in Buttons :
                   /\ At(PostOf[b])
                   /\ \/ Goto("push_test") /\ cur' = Input(b, reports)
                      \/ Goto(AfterPush(Input(b, reports))) /\ UNCHANGED cur
              /\ UNCHANGED <<queue, reg, device, accepted, cut, delivered>>

\* Keyboard::poll reads the status ...
PollStatus == /\ At("poll_key")
              /\ Goto(IF keyFull THEN "poll_data" ELSE "pop_test")
              /\ UNCHANGED <<queue, cur, reg, device, accepted, cut, delivered>>

\* ... and handleInterrupt the data port, which repeats the last byte when the
\* interrupt took it in between.
PollData == /\ At("poll_data")
            /\ keyFull' = FALSE
            /\ cur' = Input("polled", keyByte)
            /\ Goto("push_test")
            /\ UNCHANGED <<queue, reg, keyByte, keys, reports, accepted, cut, delivered>>

PushTest == /\ At("push_test")
            /\ Goto(IF count >= MaxEvents THEN AfterPush(cur)
                    ELSE IF count = 0 \/ cur.priority <= Q!Order!Normal THEN "push_append"
                    ELSE "push_find")
            /\ UNCHANGED <<queue, cur, reg, device, accepted, cut, delivered>>

PushFind == /\ At("push_find")
            /\ reg' = Q!FindInsertIndex(cur.priority)
            /\ Goto("push_insert")
            /\ UNCHANGED <<queue, cur, device, accepted, cut, delivered>>

PushInsert == /\ At("push_insert")
              /\ events' = Q!InsertedAt(reg, cur)
              /\ Goto("load_tail")
              /\ UNCHANGED <<head, tail, count, cur, reg, device, accepted, cut, delivered>>

PushAppend == /\ At("push_append")
              /\ events' = [events EXCEPT ![tail] = cur]
              /\ Goto("load_tail")
              /\ UNCHANGED <<head, tail, count, cur, reg, device, accepted, cut, delivered>>

LoadTail == /\ At("load_tail")
            /\ reg' = tail
            /\ Goto("store_tail")
            /\ UNCHANGED <<queue, cur, device, accepted, cut, delivered>>

\* (Mutant: the write position does not wrap.)
StoreTail_NoWrap == /\ At("store_tail")
                    /\ tail' = reg + 1
                    /\ Goto("load_count")
                    /\ UNCHANGED <<events, head, count, cur, reg, device, accepted, cut, delivered>>

StoreTail == /\ At("store_tail")
             /\ tail' = (reg + 1) % MaxEvents
             /\ Goto("load_count")
             /\ UNCHANGED <<events, head, count, cur, reg, device, accepted, cut, delivered>>

LoadCount == /\ At("load_count")
             /\ reg' = count
             /\ Goto("store_count")
             /\ UNCHANGED <<queue, cur, device, accepted, cut, delivered>>

StoreCount == /\ At("store_count")
              /\ count' = reg + 1
              /\ accepted' = accepted \cup {cur}
              /\ Goto(AfterPush(cur))
              /\ UNCHANGED <<events, head, tail, cur, reg, device, cut, delivered>>

PopTest == /\ At("pop_test")
           /\ Goto(IF count = 0 THEN "render" ELSE "pop_copy")
           /\ UNCHANGED <<queue, cur, reg, device, accepted, cut, delivered>>

PopCopy == /\ At("pop_copy")
           /\ cur' = events[head]
           /\ Goto("pop_head")
           /\ UNCHANGED <<queue, reg, device, accepted, cut, delivered>>

PopHead == /\ At("pop_head")
           /\ head' = (head + 1) % MaxEvents
           /\ Goto("pop_load")
           /\ UNCHANGED <<events, tail, count, cur, reg, device, accepted, cut, delivered>>

PopLoad == /\ At("pop_load")
           /\ reg' = count
           /\ Goto("pop_store")
           /\ UNCHANGED <<queue, cur, device, accepted, cut, delivered>>

PopStore == /\ At("pop_store")
            /\ count' = reg - 1
            /\ Goto("dispatch")
            /\ UNCHANGED <<events, head, tail, cur, reg, device, accepted, cut, delivered>>

Dispatch == /\ At("dispatch")
            /\ delivered' = delivered \cup {cur}
            /\ Goto("pop_test")
            /\ UNCHANGED <<queue, cur, reg, device, accepted, cut>>

\* The loop renders what is dirty and reaches hlt; what an interrupt queues in
\* between does not keep it from halting.
Render == /\ At("render")
          /\ Goto("halt")
          /\ UNCHANGED <<queue, cur, reg, device, accepted, cut, delivered>>

MainLoop == \/ MouseReport \/ NoMouseReport \/ PostButton \/ PollStatus \/ PollData
            \/ PushTest \/ PushFind \/ PushInsert \/ PushAppend
            \/ LoadTail \/ StoreTail \/ LoadCount \/ StoreCount
            \/ PopTest \/ PopCopy \/ PopHead \/ PopLoad \/ PopStore \/ Dispatch \/ Render

Next == MainLoop \/ KeyTyped \/ KeyIrq \/ TimerIrq

\* The processor always executes the next instruction, a raised interrupt is
\* taken, and the PIT ticks on.
Spec == Init /\ [][Next]_vars /\ WF_vars(MainLoop) /\ WF_vars(KeyIrq) /\ WF_vars(TimerIrq)

-----------------------------------------------------------------------------
\* Higher classes first, and events of one type as they were made; so none twice.
Before(a, b) == \/ a.priority > b.priority
                \/ a.priority = b.priority /\ (a.type = b.type => a.timestamp < b.timestamp)
Newer(e, others) == \A x \in others : x.type = e.type => x.timestamp < e.timestamp

\* EventQueue::push and pop with IRQ 1 between their statements: there are a
\* few at which a push by the interrupt breaks the queue (Breaks).  Until that
\* happened, whatever else was interrupted, the ring is in shape and in order,
\* and every event that push accepted is queued or was taken out, once, after
\* all that are older.  Looked at where the loop is outside of both.
Popped == delivered \cup (IF pc = "dispatch" THEN {cur} ELSE {})
IntactUnlessCut ==
  ~cut /\ ~InQueueCode
    => /\ Q!RingShape
       /\ accepted = Popped \cup Q!Queued
       /\ \A i, j \in 0 .. count - 1 : i < j => Before(events[Q!Slot(i)], events[Q!Slot(j)])
       /\ \A e \in Q!Queued : Newer(e, Popped)
       /\ pc = "dispatch" => Newer(cur, delivered)

\* An event the loop can see does not wait for the next key: hlt after an
\* interrupt that came between the last pop and the hlt ends at the next tick.
Drained == (count # 0) ~> (count = 0)

=============================================================================
