---------------------------- MODULE EventManager ----------------------------
(***************************************************************************)
(* QEvent's EventManager: two queues, the tables of listeners and          *)
(* receivers, and the dispatch of one event at a time.  Everything runs on *)
(* one stack: processEvents and dispatchImmediate call handlers, and a     *)
(* handler may post, clear, add, remove, enable, dispatch and process      *)
(* again.  A frame of the stack is one dispatchEvent in progress; control  *)
(* is in user code when no frame is there or the top frame is in a handler.*)
(* The queues are the ordered sets that EventQueue implements.             *)
(***************************************************************************)
EXTENDS Integers, Sequences, FiniteSets

CONSTANTS MaxListeners,   \* EventManager::MaxListeners, of the listeners' table
          MaxReceivers,   \* and of the receivers' table
          MainCapacity,   \* EventQueue::MaxEvents
          ImmCapacity,    \* ImmediateQueue::MaxEvents
          Filters,        \* what a listener is: [handler, types, minPriority]
          Types,          \* event types
          Priorities,     \* priorities in use
          MaxPosts,       \* bound on posts
          MaxChanges,     \* bound on changes to the tables and on clears
          MaxCalls,       \* bound on dispatchImmediate calls
          MaxDepth        \* bound on nested dispatches

ASSUME ManagerAssumption == {MaxListeners, MaxReceivers, MainCapacity, ImmCapacity} \subseteq Nat \ {0}

Low == 0
Normal == 1
High == 2
Immediate == 4

Event == [priority : Priorities, type : Types, timestamp : 0 .. MaxPosts]

\* A table entry; id 0 (InvalidListenerId) marks a free one.
Free == [id |-> 0, filter |-> [handler |-> 0, types |-> {}, minPriority |-> Low], enabled |-> TRUE]

VARIABLES main, imm,          \* m_mainQueue, m_immediateQueue
          listeners,          \* m_listeners
          listenerCount,      \* m_listenerCount
          nextId,             \* m_nextListenerId
          receivers,          \* m_receivers: the event types each entry wants
          receiverCount,      \* m_receiverCount
          dispatched,         \* m_totalDispatched
          dropped,            \* m_totalDropped
          dispatching,        \* m_dispatching
          run,                \* locals of the processEvents in progress
          stack,              \* the dispatchEvent calls in progress
          posts, calls,       \* posts and dispatchImmediate calls so far
          changes,            \* operations bounded by MaxChanges so far
          cleared             \* events that clearEvents and clearEventsOfType took

queues == <<main, imm, posts, dropped, cleared>>
tables == <<listeners, listenerCount, nextId, receivers, receiverCount, changes>>
control == <<dispatched, dispatching, run, stack, calls>>
vars == <<queues, tables, control>>

Slots == 0 .. MaxListeners - 1
Entries == 0 .. MaxReceivers - 1

Init == /\ main = {} /\ imm = {} /\ posts = 0 /\ dropped = 0 /\ cleared = 0
        /\ listeners = [s \in Slots |-> Free] /\ listenerCount = 0 /\ nextId = 1
        /\ receivers = [s \in Entries |-> {}] /\ receiverCount = 0 /\ changes = 0
        /\ dispatched = 0 /\ calls = 0 /\ dispatching = FALSE
        /\ run = [phase |-> "idle", processed |-> 0, max |-> 0, depth |-> 0]
        /\ stack = <<>>

-----------------------------------------------------------------------------
(* Control *)

Top == stack[Len(stack)]

\* One of the operations that MaxChanges bounds.
Change == /\ changes < MaxChanges
          /\ changes' = changes + 1

\* Which code runs: that of processEvents, of dispatchEvent, or a handler's.
InProcess == dispatching /\ Len(stack) = run.depth
InDispatch == ~InProcess /\ stack # <<>> /\ Top.mode = "scan"
InUser == ~InProcess /\ (stack # <<>> => Top.mode = "handler")

\* dispatchEvent(e) is entered: the scan starts at the first listener.
Frame(e) == [event |-> e, at |-> 0, mode |-> "scan",
             called |-> <<>>, newFrom |-> nextId, touched |-> {}]

Enter(e) == /\ stack' = Append(stack, Frame(e))
            /\ dispatched' = dispatched + 1

-----------------------------------------------------------------------------
(* Posting *)

\* (Mutant: a post that finds its queue full is not counted.)
PostEvent_Uncounted(p, t) ==
  LET e == [priority |-> p, type |-> t, timestamp |-> posts + 1] IN
  /\ InUser
  /\ posts < MaxPosts
  /\ posts' = posts + 1
  /\ IF p = Immediate
     THEN imm' = (IF Cardinality(imm) < ImmCapacity THEN imm \cup {e} ELSE imm) /\ main' = main
     ELSE main' = (IF Cardinality(main) < MainCapacity THEN main \cup {e} ELSE main) /\ imm' = imm
  /\ UNCHANGED <<dropped, cleared, tables, control>>

PostEvent(p, t) ==
  LET e == [priority |-> p, type |-> t, timestamp |-> posts + 1] IN
  /\ InUser
  /\ posts < MaxPosts
  /\ posts' = posts + 1
  /\ \/ /\ p = Immediate /\ Cardinality(imm) < ImmCapacity
        /\ imm' = imm \cup {e}
        /\ UNCHANGED <<main, dropped>>
     \/ /\ p # Immediate /\ Cardinality(main) < MainCapacity
        /\ main' = main \cup {e}
        /\ UNCHANGED <<imm, dropped>>
     \/ /\ IF p = Immediate THEN Cardinality(imm) >= ImmCapacity
                            ELSE Cardinality(main) >= MainCapacity
        /\ dropped' = dropped + 1
        /\ UNCHANGED <<main, imm>>
  /\ UNCHANGED <<cleared, tables, control>>

ClearEvents == /\ InUser /\ Change
               /\ main' = {} /\ imm' = {}
               /\ cleared' = cleared + Cardinality(main) + Cardinality(imm)
               /\ UNCHANGED <<posts, dropped, listeners, listenerCount, nextId, receivers, receiverCount, control>>

\* The immediate queue keeps its events of the type.
ClearEventsOfType(t) == /\ InUser /\ Change
                        /\ main' = {e \in main : e.type # t}
                        /\ cleared' = cleared + Cardinality(main \ main')
                        /\ UNCHANGED <<imm, posts, dropped, listeners, listenerCount, nextId, receivers, receiverCount, control>>

-----------------------------------------------------------------------------
(* Registration *)

FirstFree(s) == listeners[s] = Free /\ \A r \in 0 .. s - 1 : listeners[r] # Free

AddListener(f) ==
  /\ InUser /\ Change
  /\ listenerCount < MaxListeners
  /\ \E s \in Slots :
       /\ FirstFree(s)
       /\ listeners' = [listeners EXCEPT ![s] = [id |-> nextId, filter |-> f, enabled |-> TRUE]]
  /\ listenerCount' = listenerCount + 1
  /\ nextId' = nextId + 1
  /\ UNCHANGED <<receivers, receiverCount, queues, control>>

\* (Mutant: the last entry moves into the gap.)
RemoveListener_Compact(id) ==
  LET last == CHOOSE s \in Slots : listeners[s].id # 0
                     /\ \A r \in Slots : listeners[r].id # 0 => r <= s
  IN  /\ InUser /\ Change
      /\ \E s \in Slots :
           /\ listeners[s].id = id
           /\ listeners' = [listeners EXCEPT ![s] = listeners[last], ![last] = Free]
      /\ listenerCount' = listenerCount - 1
      /\ UNCHANGED <<nextId, receivers, receiverCount, queues, control>>

RemoveListener(id) ==
  /\ InUser /\ Change
  /\ \E s \in Slots :
       /\ listeners[s].id = id
       /\ listeners' = [listeners EXCEPT ![s] = Free]
  /\ listenerCount' = listenerCount - 1
  /\ UNCHANGED <<nextId, receivers, receiverCount, queues, control>>

\* A handler is not null: the free entries' handler is.
RemoveListenersForHandler(h) ==
  LET theirs == {s \in Slots : listeners[s].filter.handler = h} IN
  /\ InUser /\ Change
  /\ h # 0
  /\ listeners' = [s \in Slots |-> IF s \in theirs THEN Free ELSE listeners[s]]
  /\ listenerCount' = listenerCount - Cardinality(theirs)
  /\ UNCHANGED <<nextId, receivers, receiverCount, queues, control>>

\* setListenerEnabled; the frames remember that the listener was not the same
\* all through their dispatch.
SetListenerEnabled(id, on) ==
  /\ InUser /\ Change
  /\ \E s \in Slots :
       /\ listeners[s].id = id
       /\ listeners' = [listeners EXCEPT ![s].enabled = on]
  /\ stack' = [d \in DOMAIN stack |-> [stack[d] EXCEPT !.touched = @ \cup {id}]]
  /\ UNCHANGED <<listenerCount, nextId, receivers, receiverCount, queues,
                 dispatched, dispatching, run, calls>>

\* addReceiver: the entry's index is what its id is made of.
AddReceiver(T) ==
  /\ InUser /\ Change
  /\ receiverCount < MaxReceivers
  /\ \E s \in Entries :
       /\ receivers[s] = {} /\ \A r \in 0 .. s - 1 : receivers[r] # {}
       /\ receivers' = [receivers EXCEPT ![s] = T]
  /\ receiverCount' = receiverCount + 1
  /\ UNCHANGED <<listeners, listenerCount, nextId, queues, control>>

RemoveReceiver(s) ==
  /\ InUser /\ Change
  /\ receivers[s] # {}
  /\ receivers' = [receivers EXCEPT ![s] = {}]
  /\ receiverCount' = receiverCount - 1
  /\ UNCHANGED <<listeners, listenerCount, nextId, queues, control>>

-----------------------------------------------------------------------------
(* Dispatch *)

DispatchImmediate(p, t) ==
  /\ InUser
  /\ calls < MaxCalls /\ Len(stack) < MaxDepth
  /\ calls' = calls + 1
  /\ Enter([priority |-> p, type |-> t, timestamp |-> 0])
  /\ UNCHANGED <<dispatching, run, queues, tables>>

\* The scan of dispatchEvent passes the listeners, then the receivers.
Wants(i, e) ==
  IF i \in Slots
  THEN LET l == listeners[i] IN
       l.id # 0 /\ l.enabled /\ e.type \in l.filter.types /\ e.priority >= l.filter.minPriority
  ELSE e.type \in receivers[i - MaxListeners]

Targets == 0 .. MaxListeners + MaxReceivers - 1

CallHandler ==
  /\ InDispatch
  /\ \E i \in Top.at .. MaxListeners + MaxReceivers - 1 :
       /\ Wants(i, Top.event)
       /\ \A j \in Top.at .. i - 1 : ~Wants(j, Top.event)
       /\ stack' = [stack EXCEPT ![Len(stack)] =
                      [Top EXCEPT !.at = i, !.mode = "handler",
                                  !.called = IF i \in Slots THEN Append(Top.called, listeners[i].id)
                                                            ELSE Top.called]]
  /\ UNCHANGED <<dispatched, dispatching, run, calls, queues, tables>>

Return == stack' = SubSeq(stack, 1, Len(stack) - 1)

NobodyLeft == /\ InDispatch
              /\ \A i \in Top.at .. MaxListeners + MaxReceivers - 1 : ~Wants(i, Top.event)
              /\ Return
              /\ UNCHANGED <<dispatched, dispatching, run, calls, queues, tables>>

\* The handler returns: a handled event goes no further.
HandlerReturns ==
  /\ InUser /\ stack # <<>>
  /\ \/ Return
     \/ stack' = [stack EXCEPT ![Len(stack)].mode = "scan", ![Len(stack)].at = @ + 1]
  /\ UNCHANGED <<dispatched, dispatching, run, calls, queues, tables>>

-----------------------------------------------------------------------------
(* processEvents *)

\* A call with m_dispatching set returns 0 and changes nothing.
ProcessEvents(max) ==
  /\ InUser
  /\ ~dispatching /\ Len(stack) < MaxDepth
  /\ dispatching' = TRUE
  /\ run' = [phase |-> "immediate", processed |-> 0, max |-> max, depth |-> Len(stack)]
  /\ UNCHANGED <<dispatched, stack, calls, queues, tables>>

Class(e) == IF e.priority <= Normal THEN Normal ELSE e.priority
Before(e, f) == \/ Class(e) > Class(f)
                \/ (Class(e) = Class(f) /\ e.timestamp < f.timestamp)

PopImmediate ==
  /\ InProcess /\ run.phase = "immediate" /\ Len(stack) < MaxDepth
  /\ \E e \in imm : /\ \A f \in imm \ {e} : e.timestamp < f.timestamp
                    /\ imm' = imm \ {e}
                    /\ Enter(e)
  /\ run' = [run EXCEPT !.processed = @ + 1]
  /\ UNCHANGED <<dispatching, calls, main, posts, dropped, cleared, tables>>

ImmediateDone == /\ InProcess /\ run.phase = "immediate" /\ imm = {}
                 /\ run' = [run EXCEPT !.phase = "main"]
                 /\ UNCHANGED <<dispatched, dispatching, stack, calls, queues, tables>>

PopMain ==
  /\ InProcess /\ run.phase = "main" /\ Len(stack) < MaxDepth
  /\ \E e \in main : /\ \A f \in main \ {e} : Before(e, f)
                     /\ main' = main \ {e}
                     /\ Enter(e)
  /\ run' = [run EXCEPT !.processed = @ + 1, !.phase = "check"]
  /\ UNCHANGED <<dispatching, calls, imm, posts, dropped, cleared, tables>>

\* The limit is looked at only after an event of the main queue.
CheckLimit == /\ InProcess /\ run.phase = "check"
              /\ run' = [run EXCEPT !.phase = IF run.max > 0 /\ run.processed >= run.max
                                              THEN "done" ELSE "main"]
              /\ UNCHANGED <<dispatched, dispatching, stack, calls, queues, tables>>

\* (Mutant: the return at the limit leaves m_dispatching set.)
ProcessDone_Held ==
  /\ InProcess
  /\ run.phase = "done" \/ (run.phase = "main" /\ main = {})
  /\ dispatching' = (run.phase = "done")
  /\ run' = [phase |-> "idle", processed |-> 0, max |-> 0, depth |-> IF dispatching' THEN -1 ELSE 0]
  /\ UNCHANGED <<dispatched, stack, calls, queues, tables>>

ProcessDone == /\ InProcess
               /\ run.phase = "done" \/ (run.phase = "main" /\ main = {})
               /\ dispatching' = FALSE
               /\ run' = [phase |-> "idle", processed |-> 0, max |-> 0, depth |-> 0]
               /\ UNCHANGED <<dispatched, stack, calls, queues, tables>>

Manager == \/ CallHandler \/ NobodyLeft \/ PopImmediate \/ ImmediateDone
           \/ PopMain \/ CheckLimit \/ ProcessDone

User == \/ \E p \in Priorities, t \in Types : PostEvent(p, t) \/ DispatchImmediate(p, t)
        \/ ClearEvents
        \/ \E t \in Types : ClearEventsOfType(t)
        \/ \E f \in Filters : AddListener(f) \/ RemoveListenersForHandler(f.handler)
        \/ \E id \in 1 .. MaxChanges : \/ RemoveListener(id)
                                    \/ \E on \in BOOLEAN : SetListenerEnabled(id, on)
        \/ \E T \in (SUBSET Types) \ {{}} : AddReceiver(T)
        \/ \E s \in Entries : RemoveReceiver(s)
        \/ \E max \in 0 .. 1 : ProcessEvents(max)

Next == Manager \/ User \/ HandlerReturns

\* The manager's code runs on, handlers return, and the main loop calls
\* processEvents() in every round.
Spec == /\ Init /\ [][Next]_vars
        /\ WF_vars(Manager) /\ WF_vars(HandlerReturns)
        /\ WF_vars(stack = <<>> /\ ProcessEvents(0))

-----------------------------------------------------------------------------

\* Handlers add, remove and re-enable listeners while an event is dispatched.
\* No registration is called twice for it, and none is skipped: a listener that
\* was registered before the dispatch began, wants the event and was not switched
\* meanwhile has been called when the scan is past its entry.
OneCallEach ==
  \A d \in DOMAIN stack :
    LET f == stack[d] IN
    /\ \A i, j \in DOMAIN f.called : f.called[i] = f.called[j] => i = j
    /\ \A s \in Slots :
         /\ s < f.at
         /\ listeners[s].id < f.newFrom /\ listeners[s].id \notin f.touched
         /\ Wants(s, f.event)
         => \E i \in DOMAIN f.called : f.called[i] = listeners[s].id

\* Every event posted or dispatched directly is accounted for: dispatched,
\* dropped, cleared or still queued, whatever handlers post, clear and dispatch
\* in the middle of processEvents.  None is counted twice or lost in between.
Accounting == dispatched + dropped + cleared + Cardinality(main) + Cardinality(imm)
                = posts + calls

\* Whatever is queued is dispatched (or cleared) in the end, provided handlers
\* stop posting: the posts are bounded here.
QueuesDrain == (main \cup imm # {}) ~> (main \cup imm = {})

=============================================================================
