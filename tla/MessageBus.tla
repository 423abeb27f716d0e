------------------------------ MODULE MessageBus ------------------------------
(***************************************************************************)
(* The message bus (QKMsgBus.cpp) and the service registry on top of it    *)
(* (QKServiceRegistry.cpp).  Messages are reference-counted envelopes.     *)
(* publish() takes a reference and posts a custom event that carries the   *)
(* envelope; when the event manager dispatches it, onEvent() walks the     *)
(* subscription slots, calls every handler of the topic and gives the      *)
(* reference back.  The registry is one subscriber: it hands the envelope  *)
(* to the service registered under the envelope's target.                  *)
(*                                                                         *)
(* Everything runs on the main loop, so that a client acts either between  *)
(* two events or from inside the handler that is being called.  Clients    *)
(* are the windows, the terminal and the command processor; here they use  *)
(* the whole interface in any order, with two rules of the callers in this *)
(* repository: a reference is only released by who holds it, and nobody    *)
(* redirects with sendTo the envelope whose delivery it is part of.        *)
(*                                                                         *)
(* Of the event manager the model keeps the capacity of its queue, which   *)
(* other events share, and the order of custom events among themselves:    *)
(* all have Normal priority, and EventOrder keeps one class in order.      *)
(***************************************************************************)
EXTENDS Naturals, Sequences, FiniteSets

CONSTANTS Envelopes,    \* the blocks envelopes are allocated in
          Topics,       \* topics other than the registry's
          Names,        \* hashes of service names
          None,         \* no envelope, no target
          MaxSubs,      \* slots of Bus::m_subs
          MaxServices,  \* slots of Registry::m_entries
          Capacity,     \* events the event queue holds
          MaxClients,   \* bound: subscriptions the clients hold at a time
          MaxSubIds,    \* bound: subscriptions ever handed out
          MaxServiceIds,\* bound: services ever registered
          MaxHeld,      \* bound: references clients hold to one envelope
          MaxPublished  \* bound: events ever published

ASSUME BusAssumption ==
  /\ {MaxSubs, MaxServices, Capacity} \subseteq Nat \ {0}
  /\ None \notin Envelopes \cup Topics \cup Names

SvcMsg == "SVCM"
AllTopics == Topics \cup {SvcMsg}

VARIABLES
  managerUp,   \* EventManager::isInitialized()
  registered,  \* m_receiverId # InvalidListenerId
  subs,        \* m_subs: slot -> id and topic, id 0 in a free slot
  nextId,      \* Bus::m_nextId
  registryUp,  \* Registry::m_initialized
  registrySub, \* Registry::m_subId
  services,    \* m_entries: slot -> id and name hash, id 0 in a free slot
  nextService, \* Registry::m_nextId
  refs,        \* envelope -> refCount, 0 when its block is free
  topic,       \* envelope -> topic
  target,      \* envelope -> targetId
  queue,       \* posted custom events: envelope and topic (param1)
  others,      \* events of other kinds in the same queue
  current,     \* the envelope onEvent is delivering
  slot,        \* the slot whose handler is running
  serving,     \* id of the service whose handler is running, or 0
  held,        \* history: references clients hold, by envelope
  published,   \* history: events posted so far
  called,      \* history: subscriptions called in this delivery
  owed,        \* history: subscriptions that were there when it began
  owedService  \* history: the service registered under its target then

subVars == <<subs, nextId>>
serviceVars == <<registryUp, registrySub, services, nextService>>
envelopeVars == <<refs, topic, target, held>>
queueVars == <<queue, others, published>>
deliveryVars == <<current, slot, serving, called, owed, owedService>>
vars == <<managerUp, registered, subVars, serviceVars, envelopeVars, queueVars,
          deliveryVars>>

NoSub == [id |-> 0, topic |-> None]
NoService == [id |-> 0, name |-> None]
SubIds == {subs[i].id : i \in 1..MaxSubs} \ {0}
ServiceIds == {services[i].id : i \in 1..MaxServices} \ {0}
Idle == current = None

-----------------------------------------------------------------------------
(* Registration with the event manager. *)

Init ==
  /\ managerUp = FALSE /\ registered = FALSE
  /\ subs = [i \in 1..MaxSubs |-> NoSub] /\ nextId = 1
  /\ registryUp = FALSE /\ registrySub = 0
  /\ services = [i \in 1..MaxServices |-> NoService] /\ nextService = 1
  /\ refs = [e \in Envelopes |-> 0] /\ held = [e \in Envelopes |-> 0]
  /\ topic = [e \in Envelopes |-> None] /\ target = [e \in Envelopes |-> None]
  /\ queue = <<>> /\ others = 0 /\ published = 0
  /\ current = None /\ slot = 0 /\ serving = 0
  /\ called = {} /\ owed = {} /\ owedService = 0

(* The event manager is initialised at some point of the boot sequence.    *)
ManagerInit ==
  /\ ~managerUp
  /\ managerUp' = TRUE
  /\ UNCHANGED <<registered, subVars, serviceVars, envelopeVars, queueVars,
                 deliveryVars>>

EnsureRegistered == registered' = (registered \/ managerUp)

-----------------------------------------------------------------------------
(* Subscriptions. *)

FirstFree(table) == CHOOSE i \in DOMAIN table :
  table[i].id = 0 /\ \A j \in 1..(i - 1) : table[j].id # 0
HasFree(table) == \E i \in DOMAIN table : table[i].id = 0

(* subs and nextId after subscribe(t, ...): unchanged when every slot is   *)
(* taken, and then the id returned is 0.                                   *)
Subscribed(t) ==
  IF HasFree(subs)
    THEN /\ subs' = [subs EXCEPT ![FirstFree(subs)] = [id |-> nextId, topic |-> t]]
         /\ nextId' = nextId + 1
    ELSE UNCHANGED subVars
NewSubId == IF HasFree(subs) THEN nextId ELSE 0

Subscribe(t) ==
  /\ nextId <= MaxSubIds /\ Cardinality(SubIds \ {registrySub}) < MaxClients
  /\ EnsureRegistered /\ Subscribed(t)
  /\ UNCHANGED <<managerUp, serviceVars, envelopeVars, queueVars, deliveryVars>>

(* (Mutant: the slots behind the removed one move up.)                     *)
Unsubscribe_Compact(id) ==
  /\ id # registrySub
  /\ LET gone == CHOOSE i \in 1..MaxSubs : subs[i].id = id
     IN  subs' = [i \in 1..MaxSubs |-> IF i < gone THEN subs[i]
                                       ELSE IF i < MaxSubs THEN subs[i + 1] ELSE NoSub]
  /\ owed' = owed \ {id}
  /\ UNCHANGED <<managerUp, registered, nextId, serviceVars, envelopeVars,
                 queueVars, current, slot, serving, called, owedService>>

Unsubscribe(id) ==
  /\ id # registrySub
  /\ subs' = [i \in 1..MaxSubs |-> IF subs[i].id = id THEN NoSub ELSE subs[i]]
  /\ owed' = owed \ {id}
  /\ UNCHANGED <<managerUp, registered, nextId, serviceVars, envelopeVars,
                 queueVars, current, slot, serving, called, owedService>>

-----------------------------------------------------------------------------
(* The registry of services. *)

(* Registry::initialize(), which registerService and sendTo call first.  It *)
(* records success whatever subscribe returned.                             *)
RegistryReady ==
  IF registryUp THEN UNCHANGED <<registered, subVars, registryUp, registrySub>>
  ELSE /\ EnsureRegistered /\ Subscribed(SvcMsg)
       /\ registrySub' = NewSubId /\ registryUp' = TRUE

RegisterService(n) ==
  /\ nextService <= MaxServiceIds
  /\ RegistryReady
  /\ IF HasFree(services) /\ (\A i \in 1..MaxServices : services[i].name # n)
       THEN /\ services' = [services EXCEPT ![FirstFree(services)] =
                                              [id |-> nextService, name |-> n]]
            /\ nextService' = nextService + 1
       ELSE UNCHANGED <<services, nextService>>
  /\ UNCHANGED <<managerUp, envelopeVars, queueVars, deliveryVars>>

UnregisterService(id) ==
  /\ services' = [i \in 1..MaxServices |->
                    IF services[i].id = id THEN NoService ELSE services[i]]
  /\ owedService' = IF owedService = id THEN 0 ELSE owedService
  /\ UNCHANGED <<managerUp, registered, subVars, registryUp, registrySub,
                 nextService, envelopeVars, queueVars, current, slot, serving,
                 called, owed>>

-----------------------------------------------------------------------------
(* Envelopes. *)

(* A client has the right to use e: it holds a reference, or its handler is *)
(* being called with e.                                                     *)
MayUse(e) == held[e] > 0 \/ current = e

MakeEnvelope(e, t) ==
  /\ refs[e] = 0
  /\ refs' = [refs EXCEPT ![e] = 1] /\ held' = [held EXCEPT ![e] = 1]
  /\ topic' = [topic EXCEPT ![e] = t] /\ target' = [target EXCEPT ![e] = None]
  /\ UNCHANGED <<managerUp, registered, subVars, serviceVars, queueVars,
                 deliveryVars>>

Retain(e) ==
  /\ MayUse(e) /\ held[e] < MaxHeld
  /\ refs' = [refs EXCEPT ![e] = @ + 1] /\ held' = [held EXCEPT ![e] = @ + 1]
  /\ UNCHANGED <<managerUp, registered, subVars, serviceVars, topic, target,
                 queueVars, deliveryVars>>

(* refs after one release: the last reference frees the block.             *)
Released(e) == [refs EXCEPT ![e] = IF @ > 1 THEN @ - 1 ELSE 0]

Release(e) ==
  /\ held[e] > 0
  /\ refs' = Released(e) /\ held' = [held EXCEPT ![e] = @ - 1]
  /\ UNCHANGED <<managerUp, registered, subVars, serviceVars, topic, target,
                 queueVars, deliveryVars>>

Room == managerUp /\ Len(queue) + others < Capacity

(* (Mutant: the reference taken for a refused event is not given back.)    *)
Posted_KeepsRef(e, t) ==
  /\ refs' = [refs EXCEPT ![e] = @ + 1]
  /\ IF Room THEN /\ queue' = Append(queue, [env |-> e, topic |-> t])
                  /\ published' = published + 1
             ELSE UNCHANGED <<queue, published>>

(* publish(e) with topic t: a reference for the event when it is posted;   *)
(* taken and given back when the event manager refuses it.                 *)
Posted(e, t) ==
  IF Room
    THEN /\ refs' = [refs EXCEPT ![e] = @ + 1]
         /\ queue' = Append(queue, [env |-> e, topic |-> t])
         /\ published' = published + 1
    ELSE UNCHANGED <<refs, queue, published>>

Publish(e) ==
  /\ MayUse(e) /\ published < MaxPublished
  /\ EnsureRegistered /\ Posted(e, topic[e])
  /\ UNCHANGED <<managerUp, subVars, serviceVars, topic, target, held, others,
                 deliveryVars>>

(* initialize() or publish() registers the bus, whichever comes first.     *)
SendTo(e, n) ==
  /\ held[e] > 0 /\ current # e /\ published < MaxPublished
  /\ IF registryUp THEN EnsureRegistered /\ UNCHANGED <<subVars, registryUp, registrySub>>
                   ELSE RegistryReady
  /\ topic' = [topic EXCEPT ![e] = SvcMsg] /\ target' = [target EXCEPT ![e] = n]
  /\ Posted(e, SvcMsg)
  /\ UNCHANGED <<managerUp, services, nextService, held, others, deliveryVars>>

(* Events of other kinds come and go in the same queue.                    *)
OtherPosted ==
  /\ Room
  /\ others' = others + 1
  /\ UNCHANGED <<managerUp, registered, subVars, serviceVars, envelopeVars,
                 queue, published, deliveryVars>>

OtherDispatched ==
  /\ Idle /\ others > 0
  /\ others' = others - 1
  /\ UNCHANGED <<managerUp, registered, subVars, serviceVars, envelopeVars,
                 queue, published, deliveryVars>>

-----------------------------------------------------------------------------
(* Delivery. *)

(* The slots after i that the loop of onEvent calls for topic t.           *)
Matching(i, t) == {j \in (i + 1)..MaxSubs : subs[j].id # 0 /\ subs[j].topic = t}
Least(S) == CHOOSE i \in S : \A j \in S : i <= j

(* The service onSvcMsg picks for e: the first entry of the target's name. *)
ServiceOf(e) ==
  LET found == {i \in 1..MaxServices : services[i].id # 0 /\ services[i].name = target[e]}
  IN  IF target[e] = None \/ found = {} THEN 0 ELSE services[Least(found)].id

(* (Mutant: onEvent returns early when nobody subscribes to the topic, and  *)
(* does not release.)                                                       *)
Advance_NoRelease(e, i, t, done) ==
  IF Matching(i, t) = {}
    THEN /\ current' = None /\ slot' = 0 /\ serving' = 0 /\ called' = {}
         /\ refs' = IF i = 0 THEN refs ELSE Released(e)
    ELSE LET j == Least(Matching(i, t)) IN
         /\ current' = e /\ slot' = j /\ called' = done \cup {subs[j].id}
         /\ serving' = IF subs[j].id = registrySub THEN ServiceOf(e) ELSE 0
         /\ UNCHANGED refs

(* The loop moves on from slot i: to the next handler, or to the end of    *)
(* onEvent, which releases the reference of the event.                     *)
Advance(e, i, t, done) ==
  IF Matching(i, t) = {}
    THEN /\ current' = None /\ slot' = 0 /\ serving' = 0 /\ called' = {}
         /\ refs' = Released(e)
    ELSE LET j == Least(Matching(i, t)) IN
         /\ current' = e /\ slot' = j /\ called' = done \cup {subs[j].id}
         /\ serving' = IF subs[j].id = registrySub THEN ServiceOf(e) ELSE 0
         /\ UNCHANGED refs

(* What the subscribers and the service are owed after that step.          *)
Settle(wanted, service) ==
  /\ owed' = wanted \ called'
  /\ owedService' = IF serving' = service THEN 0 ELSE service

(* The event manager pops the oldest custom event and calls onEvent, if the *)
(* bus is one of its receivers.                                             *)
OnEvent ==
  /\ Idle /\ queue # <<>>
  /\ queue' = Tail(queue)
  /\ LET e == Head(queue).env
         t == Head(queue).topic
         wanted == {subs[j].id : j \in Matching(0, t)}
     IN  IF registered
           THEN /\ topic' = [topic EXCEPT ![e] = t]
                /\ Advance(e, 0, t, {})
                /\ Settle(wanted, IF t = SvcMsg /\ registrySub # 0 THEN ServiceOf(e) ELSE 0)
           ELSE UNCHANGED <<topic, refs, deliveryVars>>
  /\ UNCHANGED <<managerUp, registered, subVars, serviceVars, target, held,
                 others, published>>

(* The handler that is running returns; onEvent reads the topic from the   *)
(* envelope again for every slot.                                          *)
HandlerReturns ==
  /\ ~Idle
  /\ Advance(current, slot, topic[current], called)
  /\ Settle(owed, owedService)
  /\ UNCHANGED <<managerUp, registered, subVars, serviceVars, topic, target,
                 held, queueVars>>

-----------------------------------------------------------------------------
Client ==
  \/ \E t \in Topics : Subscribe(t)
  \/ \E id \in SubIds : Unsubscribe(id)
  \/ \E n \in Names : RegisterService(n)
  \/ \E id \in ServiceIds : UnregisterService(id)
  \/ \E e \in Envelopes, t \in Topics : MakeEnvelope(e, t)
  \/ \E e \in Envelopes : Retain(e) \/ Release(e) \/ Publish(e)
  \/ \E e \in Envelopes, n \in Names : SendTo(e, n)

Next == \/ ManagerInit \/ Client \/ OtherPosted \/ OtherDispatched
        \/ OnEvent \/ HandlerReturns

(* The main loop keeps dispatching, and handlers return.                   *)
Spec == /\ Init /\ [][Next]_vars
        /\ WF_vars(OnEvent) /\ WF_vars(HandlerReturns)

-----------------------------------------------------------------------------

QueuedCount(e) == Cardinality({i \in 1..Len(queue) : queue[i].env = e})

(* "The queued event owns one ref until delivery finishes" (publish): the  *)
(* count of every envelope is exactly its queued events, its delivery and  *)
(* the references clients hold.  A lower count is a use after free, a      *)
(* higher one a leak.                                                      *)
RefsExact ==
  \A e \in Envelopes :
    refs[e] = QueuedCount(e) + (IF current = e THEN 1 ELSE 0) + held[e]

(* However handlers subscribe and unsubscribe while onEvent walks the      *)
(* slots, no subscription is called twice for one event, and when onEvent  *)
(* returns every subscription to the topic that was there from beginning   *)
(* to end has been called, and so has the service registered under the     *)
(* target all that time.                                                   *)
ExactlyOnce ==
  [][/\ slot' # slot /\ slot' # 0 /\ slot # 0 => subs[slot'].id \notin called
     /\ ~Idle /\ current' = None => owed' = {} /\ owedService' = 0]_vars

(* An envelope that no client holds any more does not live for ever: its   *)
(* events are delivered and the last of them frees it.                     *)
EventuallyFreed ==
  \A e \in Envelopes : (refs[e] > 0 /\ held[e] = 0) ~> (refs[e] = 0 \/ held[e] > 0)

=============================================================================
