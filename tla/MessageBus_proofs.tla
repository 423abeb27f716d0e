-------------------------- MODULE MessageBus_proofs --------------------------
(***************************************************************************)
(* RefsExact and ExactlyOnce hold of MessageBus for every number of slots, *)
(* clients, envelopes and events.  The first needs that a queued event     *)
(* always finds the bus registered; the second is read off what the        *)
(* delivery still owes: Owing says where the subscriptions and the service *)
(* that are owed can be found, and Walked that nothing behind the slot was *)
(* called.                                                                 *)
(***************************************************************************)
EXTENDS MessageBus, FiniteSetTheorems, SequenceTheorems, WellFoundedInduction, TLAPS

Posting == [env : Envelopes, topic : AllTopics \cup {None}]

TypeOK ==
  /\ {managerUp, registered, registryUp} \subseteq BOOLEAN
  /\ subs \in [1..MaxSubs -> [id : Nat, topic : AllTopics \cup {None}]]
  /\ services \in [1..MaxServices -> [id : Nat, name : Names \cup {None}]]
  /\ nextId \in Nat \ {0} /\ nextService \in Nat \ {0} /\ registrySub \in Nat
  /\ refs \in [Envelopes -> Nat] /\ held \in [Envelopes -> Nat]
  /\ topic \in [Envelopes -> AllTopics \cup {None}]
  /\ target \in [Envelopes -> Names \cup {None}]
  /\ queue \in Seq(Posting) /\ others \in Nat /\ published \in Nat
  /\ current \in Envelopes \cup {None} /\ slot \in 0..MaxSubs
  /\ serving \in Nat /\ called \subseteq Nat /\ owed \subseteq Nat /\ owedService \in Nat

\* Who posts an event has registered the bus before.
Listening == queue # <<>> => registered

\* Ids are handed out once, to one slot each.
Distinct ==
  /\ \A i \in 1..MaxSubs : subs[i].id < nextId
  /\ \A i, j \in 1..MaxSubs : subs[i].id = subs[j].id /\ subs[i].id # 0 => i = j

\* The registry's subscription keeps its slot and its topic.
Registry ==
  /\ ~registryUp => registrySub = 0
  /\ registrySub # 0 =>
       \E i \in 1..MaxSubs : subs[i].id = registrySub /\ subs[i].topic = SvcMsg

\* A service has an id and a name that no other has; a free entry has neither.
OneOfAName ==
  /\ \A i \in 1..MaxServices : services[i].id < nextService
  /\ \A i \in 1..MaxServices : services[i].id = 0 <=> services[i].name = None
  /\ \A i, j \in 1..MaxServices :
       services[i].id # 0 /\ (services[i].id = services[j].id \/ services[i].name = services[j].name)
         => i = j

\* Between two deliveries nothing is owed; during one the walk is at a slot,
\* and nothing that was called is in a slot behind it.
Walked ==
  /\ Idle => slot = 0 /\ called = {} /\ owed = {} /\ owedService = 0
  /\ ~Idle => slot # 0
  /\ \A id \in called : id # 0 /\ id < nextId
  /\ \A j \in (slot + 1)..MaxSubs : subs[j].id \notin called

\* What is owed is still ahead: each subscription in a slot that the walk will
\* call, and the service with the registry's subscription.
Owing ==
  ~Idle =>
    /\ \A id \in owed : \E j \in Matching(slot, topic[current]) : subs[j].id = id
    /\ owedService # 0 =>
         /\ \E j \in Matching(slot, topic[current]) : subs[j].id = registrySub
         /\ topic[current] = SvcMsg
         /\ \E i \in 1..MaxServices : /\ services[i].id = owedService
                                      /\ services[i].name = target[current]

IInv == /\ TypeOK /\ RefsExact /\ Listening
        /\ Distinct /\ Registry /\ OneOfAName /\ Walked /\ Owing

-----------------------------------------------------------------------------
(* The operators of the model *)

\* A non-empty set of naturals has a least element.
LEMMA LeastNatural ==
  ASSUME NEW T \in SUBSET Nat, T # {}
  PROVE  \E x \in T : \A y \in T : x <= y
<1> DEFINE R == {p \in Nat \X Nat : p[1] < p[2]}
<1>1. IsWellFoundedOn(R, Nat)
  BY NatLessThanWellFounded DEF OpToRel
<1>2. PICK x \in T : \A y \in T : ~ (<<y, x>> \in R)
  <2> HIDE DEF R
  <2> QED BY <1>1, WFMin
<1>3. \A y \in T : ~ (y < x)
  BY <1>2
<1> QED BY <1>3

LEMMA LeastIs ==
  ASSUME NEW S \in SUBSET Nat, S # {}
  PROVE  Least(S) \in S /\ \A j \in S : Least(S) <= j
<1>1. \E i \in S : \A j \in S : i <= j
  BY LeastNatural
<1> QED BY <1>1 DEF Least

LEMMA FirstFreeIsFree ==
  ASSUME NEW n \in Nat, NEW table, DOMAIN table = 1..n, HasFree(table)
  PROVE  FirstFree(table) \in 1..n /\ table[FirstFree(table)].id = 0
<1> DEFINE S == {i \in 1..n : table[i].id = 0}
<1>1. S \in SUBSET Nat /\ S # {}
  BY DEF HasFree
<1>2. PICK i \in S : \A j \in S : i <= j
  BY <1>1, LeastNatural
<1>3. \A j \in 1..(i - 1) : table[j].id # 0
  <2>1. ASSUME NEW j \in 1..(i - 1), table[j].id = 0 PROVE FALSE
    <3>1. j \in S /\ j < i
      BY <2>1, <1>2
    <3> QED BY <3>1, <1>2
  <2> QED BY <2>1
<1>4. i \in DOMAIN table /\ table[i].id = 0
  BY <1>2
<1> HIDE DEF S
<1>5. \E x \in DOMAIN table : table[x].id = 0 /\ \A j \in 1..(x - 1) : table[j].id # 0
  BY <1>3, <1>4
<1> QED BY <1>5 DEF FirstFree

\* Subscribing takes a free slot, or finds none and changes nothing.
LEMMA SubscribedEffect ==
  ASSUME TypeOK, NEW t, Subscribed(t)
  PROVE  \/ NewSubId = 0 /\ UNCHANGED <<subs, nextId>>
         \/ \E k \in 1..MaxSubs :
              /\ subs[k].id = 0 /\ NewSubId = nextId
              /\ subs' = [subs EXCEPT ![k] = [id |-> nextId, topic |-> t]]
              /\ nextId' = nextId + 1
<1>1. CASE HasFree(subs)
  <2>1. FirstFree(subs) \in 1..MaxSubs /\ subs[FirstFree(subs)].id = 0
    BY <1>1, FirstFreeIsFree, BusAssumption DEF TypeOK
  <2> QED BY <1>1, <2>1 DEF Subscribed, NewSubId
<1>2. CASE ~HasFree(subs)
  BY <1>2 DEF Subscribed, NewSubId, subVars
<1> QED BY <1>1, <1>2

\* What the registry's initialisation does to the subscriptions.
LEMMA ReadyEffect ==
  ASSUME TypeOK, RegistryReady
  PROVE  /\ registered' = registered \/ (~registryUp /\ registered' = (registered \/ managerUp))
         /\ \/ UNCHANGED <<subs, nextId, registryUp, registrySub>>
            \/ /\ ~registryUp /\ registryUp' = TRUE /\ registrySub' = 0
               /\ UNCHANGED <<subs, nextId>>
            \/ /\ ~registryUp /\ registryUp' = TRUE /\ registrySub' = nextId
               /\ nextId' = nextId + 1
               /\ \E k \in 1..MaxSubs :
                    /\ subs[k].id = 0
                    /\ subs' = [subs EXCEPT ![k] = [id |-> nextId, topic |-> SvcMsg]]
<1>1. CASE registryUp
  BY <1>1 DEF RegistryReady, subVars
<1>2. CASE ~registryUp
  <2>1. /\ registered' = (registered \/ managerUp) /\ Subscribed(SvcMsg)
        /\ registrySub' = NewSubId /\ registryUp' = TRUE
    BY <1>2 DEF RegistryReady, EnsureRegistered
  <2> QED BY <1>2, <2>1, SubscribedEffect, Zenon
<1> QED BY <1>1, <1>2

-----------------------------------------------------------------------------
(* Counting queued events *)

Count(q, e) == Cardinality({i \in 1..Len(q) : q[i].env = e})
Same(a, b) == IF a = b THEN 1 ELSE 0

LEMMA SameIs == \A a, b : Same(a, b) \in Nat /\ (a = b => Same(a, b) = 1) /\ (a # b => Same(a, b) = 0)
BY DEF Same

LEMMA CountType ==
  ASSUME NEW q \in Seq(Posting), NEW e
  PROVE  Count(q, e) \in Nat /\ IsFiniteSet({i \in 1..Len(q) : q[i].env = e})
<1>1. IsFiniteSet(1..Len(q))
  BY FS_Interval
<1>2. {i \in 1..Len(q) : q[i].env = e} \in SUBSET (1..Len(q))
  OBVIOUS
<1> QED BY <1>1, <1>2, FS_Subset, FS_CardinalityType DEF Count

LEMMA CountAppend ==
  ASSUME NEW q \in Seq(Posting), NEW x \in Posting, NEW e
  PROVE  Count(Append(q, x), e) = Count(q, e) + Same(x.env, e)
<1> DEFINE S == {i \in 1..Len(q) : q[i].env = e}
           n == Len(q) + 1
           T == {i \in 1..Len(Append(q, x)) : Append(q, x)[i].env = e}
<1>1. /\ Len(Append(q, x)) = n /\ n \in Nat /\ Append(q, x)[n] = x
      /\ \A i \in 1..Len(q) : Append(q, x)[i] = q[i]
  BY AppendProperties
<1>2. T = IF x.env = e THEN S \cup {n} ELSE S
  BY <1>1
<1>3. n \notin S
  BY <1>1
<1>4. IsFiniteSet(S) /\ Cardinality(S) \in Nat
  BY CountType DEF Count
<1>5. Count(q, e) = Cardinality(S) /\ Count(Append(q, x), e) = Cardinality(T)
  BY DEF Count
<1> HIDE DEF S, T, n
<1>6. Cardinality(S \cup {n}) = Cardinality(S) + 1
  BY <1>3, <1>4, FS_AddElement
<1> QED BY <1>2, <1>4, <1>5, <1>6 DEF Same

LEMMA CountTail ==
  ASSUME NEW q \in Seq(Posting), q # <<>>, NEW e
  PROVE  Count(q, e) = Count(Tail(q), e) + Same(Head(q).env, e)
<1> DEFINE S == {i \in 1..Len(Tail(q)) : Tail(q)[i].env = e}
           T == {i \in 2..Len(q) : q[i].env = e}
           f == [i \in S |-> i + 1]
<1>1. /\ Tail(q) \in Seq(Posting) /\ Len(Tail(q)) = Len(q) - 1 /\ Len(q) \in Nat \ {0}
      /\ \A i \in 1..Len(Tail(q)) : Tail(q)[i] = q[i + 1]
      /\ Head(q) = q[1]
  BY HeadTailProperties, EmptySeq
<1>2. f \in Bijection(S, T)
  <2>1. f \in [S -> T]
    BY <1>1
  <2>2. \A a, b \in S : f[a] = f[b] => a = b
    OBVIOUS
  <2>3. \A t \in T : \E s \in S : f[s] = t
    <3>1. ASSUME NEW t \in T PROVE t - 1 \in S /\ f[t - 1] = t
      BY <1>1
    <3> QED BY <3>1
  <2> HIDE DEF f, S, T
  <2>4. f \in Injection(S, T) /\ f \in Surjection(S, T)
    BY <2>1, <2>2, <2>3 DEF Injection, IsInjective, Surjection
  <2> QED BY <2>4 DEF Bijection
<1>3. IsFiniteSet(S) /\ Cardinality(T) = Cardinality(S) /\ IsFiniteSet(T)
  <2>1. IsFiniteSet(S)
    BY <1>1, CountType
  <2>2. ExistsBijection(S, T)
    BY <1>2 DEF ExistsBijection
  <2> HIDE DEF S, T
  <2> QED BY <2>1, <2>2, FS_Bijection
<1>4. {i \in 1..Len(q) : q[i].env = e} = IF Head(q).env = e THEN T \cup {1} ELSE T
  BY <1>1
<1>5. 1 \notin T
  OBVIOUS
<1>6. Cardinality(S) \in Nat
  BY <1>1, CountType DEF Count
<1>7. /\ Count(Tail(q), e) = Cardinality(S)
      /\ Count(q, e) = Cardinality(IF Head(q).env = e THEN T \cup {1} ELSE T)
  BY <1>4 DEF Count
<1> HIDE DEF S, T
<1>8. Cardinality(T \cup {1}) = Cardinality(T) + 1
  BY <1>3, <1>5, FS_AddElement
<1> QED BY <1>3, <1>6, <1>7, <1>8 DEF Same

-----------------------------------------------------------------------------
(* Types *)

LEMMA SubsTyped ==
  ASSUME TypeOK, NEW t \in AllTopics \cup {None}, Subscribed(t)
  PROVE  /\ subs' \in [1..MaxSubs -> [id : Nat, topic : AllTopics \cup {None}]]
         /\ nextId' \in Nat \ {0} /\ NewSubId \in Nat
<1>1. CASE UNCHANGED <<subs, nextId>> /\ NewSubId = 0
  BY <1>1 DEF TypeOK
<1>2. CASE \E k \in 1..MaxSubs : /\ subs[k].id = 0 /\ NewSubId = nextId
                                 /\ subs' = [subs EXCEPT ![k] = [id |-> nextId, topic |-> t]]
                                 /\ nextId' = nextId + 1
  BY <1>2 DEF TypeOK
<1> QED BY <1>1, <1>2, SubscribedEffect

LEMMA ReadyTyped ==
  ASSUME TypeOK, RegistryReady
  PROVE  /\ subs' \in [1..MaxSubs -> [id : Nat, topic : AllTopics \cup {None}]]
         /\ nextId' \in Nat \ {0} /\ registrySub' \in Nat
         /\ {registered', registryUp'} \subseteq BOOLEAN
<1>1. CASE registryUp
  BY <1>1 DEF RegistryReady, TypeOK, subVars
<1>2. CASE ~registryUp
  <2>1. /\ Subscribed(SvcMsg) /\ registrySub' = NewSubId
        /\ registryUp' = TRUE /\ registered' = (registered \/ managerUp)
    BY <1>2 DEF RegistryReady, EnsureRegistered
  <2>2. SvcMsg \in AllTopics \cup {None}
    BY DEF AllTopics
  <2> QED BY <2>1, <2>2, SubsTyped DEF TypeOK
<1> QED BY <1>1, <1>2

LEMMA PostedTyped ==
  ASSUME TypeOK, NEW e \in Envelopes, NEW t \in AllTopics \cup {None}, Posted(e, t)
  PROVE  /\ refs' \in [Envelopes -> Nat] /\ queue' \in Seq(Posting) /\ published' \in Nat
<1>1. [env |-> e, topic |-> t] \in Posting
  BY DEF Posting
<1>2. queue \in Seq(Posting) /\ refs \in [Envelopes -> Nat] /\ published \in Nat
  BY DEF TypeOK
<1>3. Append(queue, [env |-> e, topic |-> t]) \in Seq(Posting)
  BY <1>1, <1>2, AppendProperties
<1>4. [refs EXCEPT ![e] = @ + 1] \in [Envelopes -> Nat] /\ published + 1 \in Nat
  BY <1>2
<1>5. CASE Room
  BY <1>3, <1>4, <1>5 DEF Posted
<1>6. CASE ~Room
  BY <1>2, <1>6 DEF Posted
<1> QED BY <1>5, <1>6

LEMMA ServiceIsNat == TypeOK => \A e \in Envelopes : ServiceOf(e) \in Nat
<1> SUFFICES ASSUME TypeOK, NEW e \in Envelopes PROVE ServiceOf(e) \in Nat
  OBVIOUS
<1> DEFINE found == {i \in 1..MaxServices : services[i].id # 0 /\ services[i].name = target[e]}
<1>1. CASE target[e] = None \/ found = {}
  BY <1>1 DEF ServiceOf
<1>2. CASE ~(target[e] = None \/ found = {})
  <2>1. Least(found) \in found
    BY <1>2, LeastIs
  <2> QED BY <1>2, <2>1 DEF ServiceOf, TypeOK
<1> QED BY <1>1, <1>2

LEMMA MatchingIs ==
  ASSUME TypeOK, NEW i \in 0..MaxSubs, NEW t, Matching(i, t) # {}
  PROVE  /\ Least(Matching(i, t)) \in (i + 1)..MaxSubs
         /\ subs[Least(Matching(i, t))].id # 0 /\ subs[Least(Matching(i, t))].topic = t
         /\ \A j \in Matching(i, t) : Least(Matching(i, t)) <= j
<1>1. Matching(i, t) \in SUBSET Nat
  BY BusAssumption DEF Matching
<1>2. /\ Least(Matching(i, t)) \in Matching(i, t)
      /\ \A j \in Matching(i, t) : Least(Matching(i, t)) <= j
  BY <1>1, LeastIs
<1> QED BY <1>2 DEF Matching

LEMMA AdvanceTyped ==
  ASSUME TypeOK, NEW e \in Envelopes, NEW i \in 0..MaxSubs, NEW t,
         NEW done \in SUBSET Nat, Advance(e, i, t, done)
  PROVE  /\ current' \in Envelopes \cup {None} /\ slot' \in 0..MaxSubs
         /\ serving' \in Nat /\ called' \subseteq Nat /\ refs' \in [Envelopes -> Nat]
<1>1. CASE Matching(i, t) = {}
  BY <1>1, BusAssumption DEF Advance, Released, TypeOK
<1>2. CASE Matching(i, t) # {}
  <2> DEFINE j == Least(Matching(i, t))
  <2>1. j \in 1..MaxSubs /\ j \in 0..MaxSubs /\ subs[j].id \in Nat
    BY <1>2, MatchingIs, BusAssumption DEF TypeOK
  <2>2. /\ current' = e /\ slot' = j /\ called' = done \cup {subs[j].id} /\ refs' = refs
        /\ serving' = IF subs[j].id = registrySub THEN ServiceOf(e) ELSE 0
    BY <1>2 DEF Advance
  <2>3. ServiceOf(e) \in Nat
    BY ServiceIsNat
  <2> HIDE DEF j
  <2> QED BY <2>1, <2>2, <2>3 DEF TypeOK
<1> QED BY <1>1, <1>2

LEMMA TypeStep == TypeOK /\ [Next]_vars => TypeOK'
<1> SUFFICES ASSUME TypeOK, [Next]_vars PROVE TypeOK'
  OBVIOUS
<1> USE DEF subVars, serviceVars, envelopeVars, queueVars, deliveryVars
<1>1. CASE ManagerInit
  BY <1>1 DEF ManagerInit, TypeOK
<1>2. ASSUME NEW t \in Topics, Subscribe(t) PROVE TypeOK'
  <2>1. t \in AllTopics \cup {None}
    BY DEF AllTopics
  <2>2. /\ subs' \in [1..MaxSubs -> [id : Nat, topic : AllTopics \cup {None}]]
        /\ nextId' \in Nat \ {0}
    BY <1>2, <2>1, SubsTyped DEF Subscribe
  <2> QED BY <1>2, <2>2 DEF Subscribe, EnsureRegistered, TypeOK
<1>3. ASSUME NEW id \in SubIds, Unsubscribe(id) PROVE TypeOK'
  BY <1>3 DEF Unsubscribe, NoSub, TypeOK
<1>4. ASSUME NEW n \in Names, RegisterService(n) PROVE TypeOK'
  <2>1. /\ services' \in [1..MaxServices -> [id : Nat, name : Names \cup {None}]]
        /\ nextService' \in Nat \ {0}
    <3>1. [id |-> nextService, name |-> n] \in [id : Nat, name : Names \cup {None}]
      BY DEF TypeOK
    <3>2. CASE UNCHANGED <<services, nextService>>
      BY <3>2 DEF TypeOK
    <3>3. CASE /\ services' = [services EXCEPT ![FirstFree(services)] = [id |-> nextService, name |-> n]]
               /\ nextService' = nextService + 1
      <4>1. services \in [1..MaxServices -> [id : Nat, name : Names \cup {None}]]
            /\ nextService + 1 \in Nat \ {0}
        BY DEF TypeOK
      <4> QED BY <3>1, <3>3, <4>1
    <3> QED BY <1>4, <3>2, <3>3 DEF RegisterService
  <2>2. RegistryReady
    BY <1>4 DEF RegisterService
  <2> QED BY <1>4, <2>1, <2>2, ReadyTyped DEF RegisterService, TypeOK
<1>5. ASSUME NEW id \in ServiceIds, UnregisterService(id) PROVE TypeOK'
  BY <1>5 DEF UnregisterService, NoService, TypeOK
<1>6. ASSUME NEW e \in Envelopes, NEW t \in Topics, MakeEnvelope(e, t) PROVE TypeOK'
  BY <1>6 DEF MakeEnvelope, TypeOK, AllTopics
<1>7. ASSUME NEW e \in Envelopes, Retain(e) PROVE TypeOK'
  BY <1>7 DEF Retain, TypeOK
<1>8. ASSUME NEW e \in Envelopes, Release(e) PROVE TypeOK'
  BY <1>8 DEF Release, Released, TypeOK
<1>9. ASSUME NEW e \in Envelopes, Publish(e) PROVE TypeOK'
  <2>1. topic[e] \in AllTopics \cup {None}
    BY DEF TypeOK
  <2>2. refs' \in [Envelopes -> Nat] /\ queue' \in Seq(Posting) /\ published' \in Nat
    BY <1>9, <2>1, PostedTyped DEF Publish
  <2> QED BY <1>9, <2>2 DEF Publish, EnsureRegistered, TypeOK
<1>10. ASSUME NEW e \in Envelopes, NEW n \in Names, SendTo(e, n) PROVE TypeOK'
  <2>1. SvcMsg \in AllTopics \cup {None}
    BY DEF AllTopics
  <2>2. refs' \in [Envelopes -> Nat] /\ queue' \in Seq(Posting) /\ published' \in Nat
    BY <1>10, <2>1, PostedTyped DEF SendTo
  <2>3. /\ subs' \in [1..MaxSubs -> [id : Nat, topic : AllTopics \cup {None}]]
        /\ nextId' \in Nat \ {0} /\ registrySub' \in Nat
        /\ {registered', registryUp'} \subseteq BOOLEAN
    <3>1. CASE registryUp
      BY <1>10, <3>1 DEF SendTo, EnsureRegistered, TypeOK
    <3>2. CASE ~registryUp
      BY <1>10, <3>2, ReadyTyped DEF SendTo
    <3> QED BY <3>1, <3>2
  <2> QED BY <1>10, <2>1, <2>2, <2>3 DEF SendTo, TypeOK
<1>11. CASE OtherPosted \/ OtherDispatched
  <2>1. others' \in Nat
    BY <1>11 DEF OtherPosted, OtherDispatched, TypeOK
  <2> QED BY <1>11, <2>1 DEF OtherPosted, OtherDispatched, TypeOK
<1>12. CASE OnEvent
  <2> DEFINE e == Head(queue).env
             t == Head(queue).topic
             wanted == {subs[j].id : j \in Matching(0, t)}
             service == IF t = SvcMsg /\ registrySub # 0 THEN ServiceOf(e) ELSE 0
  <2>1. /\ Head(queue) \in Posting /\ queue' \in Seq(Posting)
    BY <1>12, HeadTailProperties DEF OnEvent, TypeOK
  <2>2. e \in Envelopes /\ t \in AllTopics \cup {None}
    BY <2>1 DEF Posting
  <2>3. wanted \subseteq Nat /\ service \in Nat
    <3>1. \A j \in Matching(0, t) : subs[j].id \in Nat
      <4>1. \A j \in Matching(0, t) : j \in 1..MaxSubs
        BY DEF Matching
      <4> QED BY <4>1 DEF TypeOK
    <3>2. ServiceOf(e) \in Nat
      BY <2>2, ServiceIsNat
    <3> QED BY <3>1, <3>2
  <2>4. CASE registered
    <3>1. topic' = [topic EXCEPT ![e] = t] /\ Advance(e, 0, t, {}) /\ Settle(wanted, service)
      BY <1>12, <2>4 DEF OnEvent
    <3>2. /\ current' \in Envelopes \cup {None} /\ slot' \in 0..MaxSubs
          /\ serving' \in Nat /\ called' \subseteq Nat /\ refs' \in [Envelopes -> Nat]
      BY <2>2, <3>1, AdvanceTyped, BusAssumption
    <3>3. owed' \subseteq Nat /\ owedService' \in Nat
      BY <2>3, <3>1 DEF Settle
    <3> QED BY <1>12, <2>1, <2>2, <3>1, <3>2, <3>3 DEF OnEvent, TypeOK
  <2>5. CASE ~registered
    BY <1>12, <2>1, <2>5 DEF OnEvent, TypeOK
  <2> QED BY <2>4, <2>5
<1>13. CASE HandlerReturns
  <2>1. current \in Envelopes /\ Advance(current, slot, topic[current], called)
    BY <1>13 DEF HandlerReturns, Idle, TypeOK
  <2>2. /\ current' \in Envelopes \cup {None} /\ slot' \in 0..MaxSubs
        /\ serving' \in Nat /\ called' \subseteq Nat /\ refs' \in [Envelopes -> Nat]
    BY <2>1, AdvanceTyped DEF TypeOK
  <2>3. owed' \subseteq Nat /\ owedService' \in Nat
    BY <1>13 DEF HandlerReturns, Settle, TypeOK
  <2> QED BY <1>13, <2>2, <2>3 DEF HandlerReturns, TypeOK
<1>14. CASE UNCHANGED vars
  BY <1>14 DEF vars, TypeOK
<1> QED BY <1>1, <1>2, <1>3, <1>4, <1>5, <1>6, <1>7, <1>8, <1>9, <1>10, <1>11, <1>12, <1>13, <1>14
        DEF Next, Client

-----------------------------------------------------------------------------
(* References *)

LEMMA Counted ==
  \A e : QueuedCount(e) = Count(queue, e) /\ QueuedCount(e)' = Count(queue', e)
BY DEF QueuedCount, Count

LEMMA ListeningStep == TypeOK /\ Listening /\ [Next]_vars => Listening'
<1> SUFFICES ASSUME TypeOK, Listening, [Next]_vars PROVE Listening'
  OBVIOUS
<1> USE DEF Listening, subVars, serviceVars, envelopeVars, queueVars, deliveryVars
<1>1. RegistryReady => registered' = registered \/ registered' = (registered \/ managerUp)
  BY ReadyEffect
<1>2. ASSUME NEW e \in Envelopes, Publish(e) PROVE Listening'
  BY <1>2 DEF Publish, EnsureRegistered, Posted, Room
<1>3. ASSUME NEW e \in Envelopes, NEW n \in Names, SendTo(e, n) PROVE Listening'
  <2>1. CASE registryUp
    BY <1>3, <2>1 DEF SendTo, EnsureRegistered, Posted, Room
  <2>2. CASE ~registryUp
    <3>1. registered' = (registered \/ managerUp)
      BY <1>3, <2>2 DEF SendTo, RegistryReady, EnsureRegistered
    <3> QED BY <1>3, <3>1 DEF SendTo, Posted, Room
  <2> QED BY <2>1, <2>2
<1>4. CASE OnEvent
  BY <1>4 DEF OnEvent
<1>5. ASSUME NEW n \in Names, RegisterService(n) PROVE Listening'
  BY <1>1, <1>5 DEF RegisterService, TypeOK
<1>6. CASE UNCHANGED queue /\ (registered => registered')
  BY <1>6
<1>7. CASE ManagerInit \/ HandlerReturns \/ OtherPosted \/ OtherDispatched \/ UNCHANGED vars
  BY <1>6, <1>7 DEF ManagerInit, HandlerReturns, OtherPosted, OtherDispatched, vars
<1>8. ASSUME NEW t \in Topics, Subscribe(t) PROVE Listening'
  BY <1>6, <1>8 DEF Subscribe, EnsureRegistered
<1>9. ASSUME NEW id, Unsubscribe(id) \/ UnregisterService(id) PROVE Listening'
  BY <1>6, <1>9 DEF Unsubscribe, UnregisterService
<1>10. ASSUME NEW e \in Envelopes, (\E t \in Topics : MakeEnvelope(e, t)) \/ Retain(e) \/ Release(e)
      PROVE  Listening'
  BY <1>6, <1>10 DEF MakeEnvelope, Retain, Release
<1> QED BY <1>2, <1>3, <1>4, <1>5, <1>7, <1>8, <1>9, <1>10 DEF Next, Client

\* An event that is posted takes a reference, one that is refused takes none.
LEMMA PostedRefs ==
  ASSUME TypeOK, NEW e \in Envelopes, NEW t \in AllTopics \cup {None}, Posted(e, t),
         NEW x \in Envelopes
  PROVE  refs'[x] - Count(queue', x) = refs[x] - Count(queue, x)
<1>1. CASE Room
  <2> DEFINE ev == [env |-> e, topic |-> t]
  <2>1. ev \in Posting /\ ev.env = e /\ queue \in Seq(Posting)
    BY DEF Posting, TypeOK
  <2>2. queue' = Append(queue, ev) /\ refs' = [refs EXCEPT ![e] = @ + 1]
    BY <1>1 DEF Posted
  <2> HIDE DEF ev
  <2>3. Count(queue', x) = Count(queue, x) + Same(e, x)
    BY <2>1, <2>2, CountAppend
  <2>4. refs \in [Envelopes -> Nat]
    BY DEF TypeOK
  <2>5. refs'[x] = refs[x] + Same(e, x) /\ refs[x] \in Nat
    BY <2>2, <2>4 DEF Same
  <2>6. Count(queue, x) \in Nat /\ Same(e, x) \in Nat
    BY <2>1, CountType, SameIs
  <2> QED BY <2>3, <2>5, <2>6
<1>2. CASE ~Room
  BY <1>2 DEF Posted
<1> QED BY <1>1, <1>2

\* The end of a delivery gives one reference back, the way to it none.
LEMMA AdvanceRefs ==
  ASSUME TypeOK, NEW e \in Envelopes, NEW i, NEW t, NEW done, Advance(e, i, t, done),
         refs[e] > 0, NEW x \in Envelopes
  PROVE  refs'[x] - Same(current', x) = refs[x] - Same(e, x)
<1>1. CASE Matching(i, t) = {}
  <2>1. current' = None /\ refs' = [refs EXCEPT ![e] = IF @ > 1 THEN @ - 1 ELSE 0]
    BY <1>1 DEF Advance, Released
  <2>2. None # x /\ refs[x] \in Nat /\ refs \in [Envelopes -> Nat]
    BY BusAssumption DEF TypeOK
  <2>3. Same(current', x) = 0
    BY <2>1, <2>2, SameIs
  <2>4. CASE e = x
    BY <2>1, <2>2, <2>3, <2>4, SameIs
  <2>5. CASE e # x
    BY <2>1, <2>2, <2>3, <2>5, SameIs
  <2> QED BY <2>4, <2>5
<1>2. CASE Matching(i, t) # {}
  <2>1. current' = e /\ refs' = refs
    BY <1>2 DEF Advance
  <2> QED BY <2>1
<1> QED BY <1>1, <1>2

LEMMA RefsStep == TypeOK /\ RefsExact /\ Listening /\ [Next]_vars => RefsExact'
<1> SUFFICES ASSUME TypeOK, RefsExact, Listening, [Next]_vars, NEW x \in Envelopes
             PROVE  refs'[x] = Count(queue', x) + Same(current', x) + held'[x]
  BY Counted DEF RefsExact, Same
<1> USE DEF subVars, serviceVars, envelopeVars, queueVars, deliveryVars
<1> DEFINE r == refs[x]   c == Count(queue, x)   s == Same(current, x)   h == held[x]
           r2 == refs'[x] c2 == Count(queue', x) s2 == Same(current', x) h2 == held'[x]
           Goal == r2 = c2 + s2 + h2
<1> SUFFICES Goal
  OBVIOUS
<1>1. /\ refs[x] = Count(queue, x) + Same(current, x) + held[x]
      /\ refs \in [Envelopes -> Nat] /\ held \in [Envelopes -> Nat] /\ queue \in Seq(Posting)
      /\ Count(queue, x) \in Nat /\ refs[x] \in Nat /\ held[x] \in Nat /\ Same(current, x) \in Nat
  BY Counted, CountType, SameIs DEF RefsExact, TypeOK, Same
<1>2. ASSUME NEW e \in Envelopes, NEW t \in Topics, MakeEnvelope(e, t) PROVE Goal
  <2>1. /\ refs[e] = 0 /\ refs' = [refs EXCEPT ![e] = 1] /\ held' = [held EXCEPT ![e] = 1]
        /\ queue' = queue /\ current' = current
    BY <1>2 DEF MakeEnvelope
  <2>2. CASE e = x
    <3>1. refs'[x] = 1 /\ held'[x] = 1 /\ Count(queue, x) = 0 /\ Same(current, x) = 0
      BY <1>1, <2>1, <2>2
    <3> QED BY <2>1, <3>1
  <2>3. CASE e # x
    <3>1. refs'[x] = refs[x] /\ held'[x] = held[x]
      BY <1>1, <2>1, <2>3
    <3> QED BY <1>1, <2>1, <3>1
  <2> QED BY <2>2, <2>3
<1>3. ASSUME NEW e \in Envelopes, Retain(e) PROVE Goal
  <2>1. /\ refs' = [refs EXCEPT ![e] = @ + 1] /\ held' = [held EXCEPT ![e] = @ + 1]
        /\ queue' = queue /\ current' = current
    BY <1>3 DEF Retain
  <2>2. refs'[x] = refs[x] + Same(e, x) /\ held'[x] = held[x] + Same(e, x)
    BY <1>1, <2>1 DEF Same
  <2>3. Same(e, x) \in Nat
    BY SameIs
  <2> QED BY <1>1, <2>1, <2>2, <2>3
<1>4. ASSUME NEW e \in Envelopes, Release(e) PROVE Goal
  <2>1. /\ held[e] > 0 /\ refs' = [refs EXCEPT ![e] = IF @ > 1 THEN @ - 1 ELSE 0]
        /\ held' = [held EXCEPT ![e] = @ - 1]
        /\ queue' = queue /\ current' = current
    BY <1>4 DEF Release, Released
  <2>2. CASE e = x
    <3>1. refs[x] >= 1
      BY <1>1, <2>1, <2>2
    <3>2. refs'[x] = refs[x] - 1 /\ held'[x] = held[x] - 1
      BY <1>1, <2>1, <2>2, <3>1
    <3> QED BY <1>1, <2>1, <3>2
  <2>3. CASE e # x
    <3>1. refs'[x] = refs[x] /\ held'[x] = held[x]
      BY <1>1, <2>1, <2>3
    <3> QED BY <1>1, <2>1, <3>1
  <2> QED BY <2>2, <2>3
<1>5. ASSUME NEW e \in Envelopes, NEW t \in AllTopics \cup {None}, Posted(e, t),
             UNCHANGED <<held, current>>
      PROVE  Goal
  <2>1. refs'[x] - Count(queue', x) = refs[x] - Count(queue, x)
    BY <1>5, PostedRefs
  <2>2. refs' \in [Envelopes -> Nat] /\ queue' \in Seq(Posting)
    BY <1>5, PostedTyped
  <2>3. refs'[x] \in Nat /\ Count(queue', x) \in Nat
    BY <2>2, CountType
  <2>4. held'[x] = held[x] /\ Same(current', x) = Same(current, x)
    BY <1>5
  <2>5. /\ r = c + s + h /\ r2 - c2 = r - c /\ s2 = s /\ h2 = h
        /\ {r, c, s, h, r2, c2} \subseteq Nat
    BY <1>1, <2>1, <2>3, <2>4
  <2> HIDE DEF r, c, s, h, r2, c2, s2, h2
  <2> QED BY <2>5
<1>6. ASSUME NEW e \in Envelopes, Publish(e) \/ \E n \in Names : SendTo(e, n) PROVE Goal
  <2>1. CASE Publish(e)
    <3>1. topic[e] \in AllTopics \cup {None} /\ Posted(e, topic[e]) /\ UNCHANGED <<held, current>>
      BY <2>1 DEF Publish, TypeOK
    <3> QED BY <1>5, <3>1
  <2>2. CASE \E n \in Names : SendTo(e, n)
    <3>1. SvcMsg \in AllTopics \cup {None} /\ Posted(e, SvcMsg) /\ UNCHANGED <<held, current>>
      BY <2>2 DEF SendTo, AllTopics
    <3> QED BY <1>5, <3>1
  <2> QED BY <1>6, <2>1, <2>2
<1>7. CASE OnEvent
  <2> DEFINE e == Head(queue).env
             t == Head(queue).topic
  <2>1. /\ queue # <<>> /\ current = None /\ registered /\ queue' = Tail(queue) /\ UNCHANGED held
        /\ Advance(e, 0, t, {})
    BY <1>7 DEF OnEvent, Idle, Listening
  <2>2. Head(queue) \in Posting /\ queue' \in Seq(Posting)
    BY <1>1, <2>1, HeadTailProperties
  <2>3. e \in Envelopes /\ None # x /\ None # e
    BY <2>2, BusAssumption DEF Posting
  <2>4. /\ Count(queue, x) = Count(queue', x) + Same(e, x)
        /\ Count(queue, e) = Count(queue', e) + Same(e, e)
    BY <1>1, <2>1, CountTail
  <2>5. Count(queue', e) \in Nat /\ Count(queue', x) \in Nat /\ Same(e, e) = 1 /\ Same(e, x) \in Nat
        /\ Same(current, e) = 0 /\ Same(current, x) = 0 /\ Same(current', x) \in Nat
    BY <2>1, <2>2, <2>3, CountType, SameIs
  <2>6. refs[e] > 0
    <3>1. refs[e] = Count(queue, e) + Same(current, e) + held[e] /\ held[e] \in Nat
      BY <1>1, <2>3, Counted DEF RefsExact, Same
    <3> QED BY <2>4, <2>5, <3>1
  <2> HIDE DEF e, t
  <2>7. refs'[x] - Same(current', x) = refs[x] - Same(e, x)
    BY <2>1, <2>3, <2>6, AdvanceRefs
  <2>8. refs' \in [Envelopes -> Nat]
    BY <2>1, <2>3, AdvanceTyped, BusAssumption
  <2>9. refs'[x] \in Nat /\ held'[x] = held[x]
    BY <2>1, <2>8
  <2> DEFINE d == Same(e, x)
  <2>10. /\ r = c + s + h /\ s = 0 /\ c = c2 + d /\ r2 - s2 = r - d /\ h2 = h
         /\ r \in Nat /\ c \in Nat /\ h \in Nat /\ r2 \in Nat /\ c2 \in Nat /\ s2 \in Nat /\ d \in Nat
    BY <1>1, <2>4, <2>5, <2>7, <2>9
  <2> HIDE DEF d, r, c, s, h, r2, c2, s2, h2
  <2>11. r = c2 + d + h /\ r2 = (r - d) + s2
    BY <2>10
  <2> QED BY <2>10, <2>11
<1>8. CASE HandlerReturns
  <2>1. /\ current \in Envelopes /\ Advance(current, slot, topic[current], called)
        /\ UNCHANGED <<queue, held>>
    BY <1>8 DEF HandlerReturns, Idle, TypeOK
  <2>2. refs[current] > 0
    <3>1. /\ refs[current] = Count(queue, current) + 1 + held[current]
          /\ held[current] \in Nat /\ Count(queue, current) \in Nat
      BY <1>1, <2>1, Counted, CountType DEF RefsExact
    <3> QED BY <3>1
  <2>3. refs'[x] - Same(current', x) = refs[x] - Same(current, x)
    BY <2>1, <2>2, AdvanceRefs
  <2>4. refs' \in [Envelopes -> Nat]
    BY <2>1, AdvanceTyped DEF TypeOK
  <2>5. refs'[x] \in Nat /\ held'[x] = held[x] /\ Count(queue', x) = Count(queue, x)
        /\ Same(current', x) \in Nat
    BY <2>1, <2>4, SameIs
  <2>6. /\ r = c + s + h /\ c2 = c /\ r2 - s2 = r - s /\ h2 = h
        /\ {r, c, s, h, r2, s2} \subseteq Nat
    BY <1>1, <2>3, <2>5
  <2> HIDE DEF r, c, s, h, r2, c2, s2, h2
  <2> QED BY <2>6
<1>9. ASSUME UNCHANGED <<refs, queue, current, held>> PROVE Goal
  BY <1>1, <1>9
<1>10. CASE ManagerInit \/ OtherPosted \/ OtherDispatched \/ UNCHANGED vars
  <2>1. UNCHANGED <<refs, queue, current, held>>
    BY <1>10 DEF ManagerInit, OtherPosted, OtherDispatched, vars
  <2> QED BY <1>9, <2>1
<1>11. ASSUME NEW a, Subscribe(a) \/ Unsubscribe(a) \/ RegisterService(a) \/ UnregisterService(a)
       PROVE  Goal
  <2>1. UNCHANGED <<refs, queue, current, held>>
    BY <1>11 DEF Subscribe, Unsubscribe, RegisterService, UnregisterService
  <2> QED BY <1>9, <2>1
<1> HIDE DEF Goal
<1>12. CASE Client
  BY <1>2, <1>3, <1>4, <1>6, <1>11, <1>12 DEF Client
<1> QED BY <1>7, <1>8, <1>10, <1>12 DEF Next

-----------------------------------------------------------------------------
(* The tables *)

Table == <<subs, nextId, registryUp, registrySub>>

\* What a step does to the subscriptions: nothing, but the registry may have
\* been refused its slot; one more, in a free slot, which may be the
\* registry's; or one less, which is not.
LEMMA TableEffect ==
  ASSUME TypeOK, [Next]_vars
  PROVE  \/ UNCHANGED Table
         \/ ~registryUp /\ registryUp' = TRUE /\ registrySub' = 0 /\ UNCHANGED <<subs, nextId>>
         \/ \E k \in 1..MaxSubs, t \in AllTopics :
              /\ subs[k].id = 0 /\ subs' = [subs EXCEPT ![k] = [id |-> nextId, topic |-> t]]
              /\ nextId' = nextId + 1
              /\ \/ UNCHANGED <<registryUp, registrySub>>
                 \/ ~registryUp /\ registryUp' = TRUE /\ registrySub' = nextId /\ t = SvcMsg
         \/ \E id \in SubIds : Unsubscribe(id)
<1> DEFINE Ready == \/ UNCHANGED Table
                    \/ ~registryUp /\ registryUp' = TRUE /\ registrySub' = 0 /\ UNCHANGED <<subs, nextId>>
                    \/ \E k \in 1..MaxSubs :
                         /\ subs[k].id = 0 /\ subs' = [subs EXCEPT ![k] = [id |-> nextId, topic |-> SvcMsg]]
                         /\ nextId' = nextId + 1
                         /\ ~registryUp /\ registryUp' = TRUE /\ registrySub' = nextId
<1> USE DEF subVars, serviceVars, envelopeVars, queueVars, deliveryVars
<1>1. RegistryReady => Ready
  BY ReadyEffect, Zenon DEF Table
<1>2. SvcMsg \in AllTopics
  BY DEF AllTopics
<1>3. ASSUME NEW t \in Topics, Subscribe(t)
      PROVE  \/ UNCHANGED Table
             \/ \E k \in 1..MaxSubs, u \in AllTopics :
                  /\ subs[k].id = 0 /\ subs' = [subs EXCEPT ![k] = [id |-> nextId, topic |-> u]]
                  /\ nextId' = nextId + 1 /\ UNCHANGED <<registryUp, registrySub>>
  <2>1. t \in AllTopics /\ Subscribed(t) /\ UNCHANGED <<registryUp, registrySub>>
    BY <1>3 DEF Subscribe, AllTopics
  <2> QED BY <2>1, SubscribedEffect, Zenon DEF Table
<1>4. ASSUME NEW n \in Names, RegisterService(n) PROVE Ready
  BY <1>1, <1>4 DEF RegisterService
<1>5. ASSUME NEW e \in Envelopes, NEW n \in Names, SendTo(e, n) PROVE Ready
  <2>1. CASE registryUp
    BY <1>5, <2>1 DEF SendTo, Table
  <2>2. CASE ~registryUp
    BY <1>1, <1>5, <2>2 DEF SendTo
  <2> QED BY <2>1, <2>2
<1>6. ASSUME NEW a, UnregisterService(a) \/ Retain(a) \/ Release(a) \/ Publish(a)
      PROVE  UNCHANGED Table
  BY <1>6 DEF UnregisterService, Retain, Release, Publish, Table
<1>7. ASSUME NEW e, NEW t, MakeEnvelope(e, t) PROVE UNCHANGED Table
  BY <1>7 DEF MakeEnvelope, Table
<1>8. CASE ManagerInit \/ OtherPosted \/ OtherDispatched \/ UNCHANGED vars
  BY <1>8 DEF ManagerInit, OtherPosted, OtherDispatched, vars, Table
<1>9. CASE OnEvent \/ HandlerReturns
  BY <1>9 DEF OnEvent, HandlerReturns, Table
<1>10. CASE Client
  <2>1. CASE Ready
    BY <1>2, <2>1, Zenon
  <2> HIDE DEF Ready
  <2> QED BY <1>3, <1>4, <1>5, <1>6, <1>7, <1>10, <2>1 DEF Client
<1> QED BY <1>8, <1>9, <1>10 DEF Next

LEMMA TableStep == TypeOK /\ Distinct /\ Registry /\ [Next]_vars => Distinct' /\ Registry'
<1> SUFFICES ASSUME TypeOK, Distinct, Registry, [Next]_vars PROVE Distinct' /\ Registry'
  OBVIOUS
<1>1. /\ subs \in [1..MaxSubs -> [id : Nat, topic : AllTopics \cup {None}]]
      /\ nextId \in Nat \ {0} /\ registrySub \in Nat
  BY DEF TypeOK
<1>2. CASE UNCHANGED Table
  BY <1>2 DEF Table, Distinct, Registry
<1>3. CASE ~registryUp /\ registryUp' = TRUE /\ registrySub' = 0 /\ UNCHANGED <<subs, nextId>>
  BY <1>3 DEF Distinct, Registry
<1>4. ASSUME NEW k \in 1..MaxSubs, NEW t \in AllTopics, subs[k].id = 0,
             subs' = [subs EXCEPT ![k] = [id |-> nextId, topic |-> t]], nextId' = nextId + 1,
             \/ UNCHANGED <<registryUp, registrySub>>
             \/ ~registryUp /\ registryUp' = TRUE /\ registrySub' = nextId /\ t = SvcMsg
      PROVE  Distinct' /\ Registry'
  <2>1. /\ subs'[k].id = nextId /\ subs'[k].topic = t
        /\ \A i \in 1..MaxSubs : i # k => subs'[i] = subs[i]
    BY <1>1, <1>4
  <2>2. \A i \in 1..MaxSubs : subs[i].id < nextId /\ subs[i].id \in Nat
    BY <1>1 DEF Distinct
  <2>3. Distinct'
    <3>1. \A i \in 1..MaxSubs : subs'[i].id < nextId'
      BY <1>1, <1>4, <2>1, <2>2
    <3>2. ASSUME NEW i \in 1..MaxSubs, NEW j \in 1..MaxSubs,
                 subs'[i].id = subs'[j].id, subs'[i].id # 0
          PROVE  i = j
      BY <1>1, <2>1, <2>2, <3>2 DEF Distinct
    <3> QED BY <3>1, <3>2 DEF Distinct
  <2>4. Registry'
    <3>1. CASE UNCHANGED <<registryUp, registrySub>>
      BY <1>4, <2>1, <3>1 DEF Registry
    <3>2. CASE ~registryUp /\ registryUp' = TRUE /\ registrySub' = nextId /\ t = SvcMsg
      BY <2>1, <3>2 DEF Registry
    <3> QED BY <1>4, <3>1, <3>2
  <2> QED BY <2>3, <2>4
<1>5. ASSUME NEW id \in SubIds, Unsubscribe(id) PROVE Distinct' /\ Registry'
  <2>1. /\ id # registrySub /\ UNCHANGED <<nextId, registryUp, registrySub>>
        /\ subs' = [i \in 1..MaxSubs |-> IF subs[i].id = id THEN NoSub ELSE subs[i]]
    BY <1>5 DEF Unsubscribe, serviceVars
  <2>2. \A i \in 1..MaxSubs : /\ subs[i].id # id => subs'[i] = subs[i]
                              /\ subs[i].id = id => subs'[i].id = 0
    BY <2>1 DEF NoSub
  <2>3. Distinct'
    <3>1. \A i \in 1..MaxSubs : subs'[i].id < nextId'
      BY <1>1, <2>1, <2>2 DEF Distinct
    <3>2. ASSUME NEW i \in 1..MaxSubs, NEW j \in 1..MaxSubs,
                 subs'[i].id = subs'[j].id, subs'[i].id # 0
          PROVE  i = j
      BY <1>1, <2>1, <2>2, <3>2 DEF Distinct
    <3> QED BY <3>1, <3>2 DEF Distinct
  <2>4. Registry'
    BY <2>1, <2>2 DEF Registry
  <2> QED BY <2>3, <2>4
<1> QED BY <1>2, <1>3, <1>4, <1>5, TableEffect

\* What a step does to the entries: nothing, one more in a free entry under a
\* name that no other has, or one less.
LEMMA EntriesEffect ==
  ASSUME TypeOK, [Next]_vars
  PROVE  \/ UNCHANGED <<services, nextService>>
         \/ \E k \in 1..MaxServices, n \in Names :
              /\ services[k].id = 0 /\ \A i \in 1..MaxServices : services[i].name # n
              /\ services' = [services EXCEPT ![k] = [id |-> nextService, name |-> n]]
              /\ nextService' = nextService + 1 /\ UNCHANGED <<owedService, current>>
         \/ \E id \in ServiceIds : UnregisterService(id)
<1> USE DEF subVars, serviceVars, envelopeVars, queueVars, deliveryVars
<1>1. ASSUME NEW n \in Names, RegisterService(n), ~UNCHANGED <<services, nextService>>
      PROVE  \E k \in 1..MaxServices :
              /\ services[k].id = 0 /\ \A i \in 1..MaxServices : services[i].name # n
              /\ services' = [services EXCEPT ![k] = [id |-> nextService, name |-> n]]
              /\ nextService' = nextService + 1 /\ UNCHANGED <<owedService, current>>
  <2>1. /\ HasFree(services) /\ \A i \in 1..MaxServices : services[i].name # n
        /\ services' = [services EXCEPT ![FirstFree(services)] = [id |-> nextService, name |-> n]]
        /\ nextService' = nextService + 1 /\ UNCHANGED <<owedService, current>>
    BY <1>1 DEF RegisterService
  <2>2. FirstFree(services) \in 1..MaxServices /\ services[FirstFree(services)].id = 0
    BY <2>1, FirstFreeIsFree, BusAssumption DEF TypeOK
  <2> QED BY <2>1, <2>2
<1>2. ASSUME NEW a, Subscribe(a) \/ Unsubscribe(a) \/ Retain(a) \/ Release(a) \/ Publish(a)
      PROVE  UNCHANGED <<services, nextService>>
  BY <1>2 DEF Subscribe, Unsubscribe, Retain, Release, Publish
<1>3. ASSUME NEW e, NEW t, MakeEnvelope(e, t) \/ SendTo(e, t)
      PROVE  UNCHANGED <<services, nextService>>
  BY <1>3 DEF MakeEnvelope, SendTo
<1>4. CASE ManagerInit \/ OtherPosted \/ OtherDispatched \/ OnEvent \/ HandlerReturns \/ UNCHANGED vars
  BY <1>4 DEF ManagerInit, OtherPosted, OtherDispatched, OnEvent, HandlerReturns, vars
<1>5. CASE Client
  BY <1>1, <1>2, <1>3, <1>5 DEF Client
<1> QED BY <1>4, <1>5 DEF Next

LEMMA EntriesStep == TypeOK /\ OneOfAName /\ [Next]_vars => OneOfAName'
<1> SUFFICES ASSUME TypeOK, OneOfAName, [Next]_vars PROVE OneOfAName'
  OBVIOUS
<1>1. /\ services \in [1..MaxServices -> [id : Nat, name : Names \cup {None}]]
      /\ nextService \in Nat \ {0}
      /\ \A i \in 1..MaxServices : services[i].id < nextService /\ services[i].id \in Nat
  BY DEF TypeOK, OneOfAName
<1>2. CASE UNCHANGED <<services, nextService>>
  BY <1>2 DEF OneOfAName
<1>3. ASSUME NEW k \in 1..MaxServices, NEW n \in Names, services[k].id = 0,
             \A i \in 1..MaxServices : services[i].name # n,
             services' = [services EXCEPT ![k] = [id |-> nextService, name |-> n]],
             nextService' = nextService + 1
      PROVE  OneOfAName'
  <2>1. /\ services'[k].id = nextService /\ services'[k].name = n /\ n # None
        /\ \A i \in 1..MaxServices : i # k => services'[i] = services[i]
    BY <1>1, <1>3, BusAssumption
  <2>2. \A i \in 1..MaxServices : services'[i].id < nextService'
    BY <1>1, <1>3, <2>1
  <2>3. \A i \in 1..MaxServices : services'[i].id = 0 <=> services'[i].name = None
    BY <1>1, <2>1 DEF OneOfAName
  <2>4. ASSUME NEW i \in 1..MaxServices, NEW j \in 1..MaxServices, services'[i].id # 0,
               services'[i].id = services'[j].id \/ services'[i].name = services'[j].name
        PROVE  i = j
    BY <1>1, <1>3, <2>1, <2>4 DEF OneOfAName
  <2> QED BY <2>2, <2>3, <2>4 DEF OneOfAName
<1>4. ASSUME NEW id \in ServiceIds, UnregisterService(id) PROVE OneOfAName'
  <2>1. /\ nextService' = nextService
        /\ services' = [i \in 1..MaxServices |-> IF services[i].id = id THEN NoService ELSE services[i]]
    BY <1>4 DEF UnregisterService
  <2>2. \A i \in 1..MaxServices :
          /\ services[i].id # id => services'[i] = services[i]
          /\ services[i].id = id => services'[i].id = 0 /\ services'[i].name = None
    BY <2>1 DEF NoService
  <2>3. \A i \in 1..MaxServices : services'[i].id < nextService'
    BY <1>1, <2>1, <2>2
  <2>4. \A i \in 1..MaxServices : services'[i].id = 0 <=> services'[i].name = None
    BY <2>2 DEF OneOfAName
  <2>5. ASSUME NEW i \in 1..MaxServices, NEW j \in 1..MaxServices, services'[i].id # 0,
               services'[i].id = services'[j].id \/ services'[i].name = services'[j].name
        PROVE  i = j
    BY <2>2, <2>4, <2>5 DEF OneOfAName
  <2> QED BY <2>3, <2>4, <2>5 DEF OneOfAName
<1> QED BY <1>2, <1>3, <1>4, EntriesEffect

-----------------------------------------------------------------------------
(* Delivery *)

\* The service that onSvcMsg picks is one of the target's name, and of one that
\* has the name it is that one that is picked.
LEMMA ServiceOfIs ==
  ASSUME TypeOK, OneOfAName, NEW e \in Envelopes
  PROVE  /\ ServiceOf(e) # 0 => \E i \in 1..MaxServices : /\ services[i].id = ServiceOf(e)
                                                          /\ services[i].name = target[e]
         /\ \A i \in 1..MaxServices : services[i].id # 0 /\ services[i].name = target[e]
                                        => ServiceOf(e) = services[i].id
<1> DEFINE found == {i \in 1..MaxServices : services[i].id # 0 /\ services[i].name = target[e]}
<1>1. CASE target[e] = None \/ found = {}
  <2>1. ServiceOf(e) = 0
    BY <1>1 DEF ServiceOf
  <2>2. found = {}
    BY <1>1 DEF OneOfAName
  <2> QED BY <2>1, <2>2
<1>2. CASE ~(target[e] = None \/ found = {})
  <2>1. Least(found) \in found
    BY <1>2, LeastIs
  <2>2. ServiceOf(e) = services[Least(found)].id
    BY <1>2 DEF ServiceOf
  <2>3. /\ Least(found) \in 1..MaxServices /\ services[Least(found)].id # 0
        /\ services[Least(found)].name = target[e]
    BY <2>1
  <2> HIDE DEF found
  <2> QED BY <2>2, <2>3 DEF OneOfAName
<1> QED BY <1>1, <1>2

\* One step of the walk keeps what is owed ahead of it.
LEMMA WalkStep ==
  ASSUME TypeOK, Distinct, OneOfAName,
         NEW e \in Envelopes, NEW i \in 0..MaxSubs, NEW t \in AllTopics \cup {None},
         NEW done \in SUBSET Nat, NEW wanted, NEW service \in Nat,
         Advance(e, i, t, done), Settle(wanted, service),
         UNCHANGED <<subs, nextId, registrySub, services, target>>, topic'[e] = t,
         \A id \in done : id # 0 /\ id < nextId,
         \A j \in (i + 1)..MaxSubs : subs[j].id \notin done,
         \A id \in wanted : \E j \in Matching(i, t) : subs[j].id = id,
         service # 0 => /\ \E j \in Matching(i, t) : subs[j].id = registrySub
                        /\ t = SvcMsg
                        /\ \E k \in 1..MaxServices : /\ services[k].id = service
                                                     /\ services[k].name = target[e]
  PROVE  /\ Walked' /\ Owing'
         /\ slot' # 0 => slot' \in (i + 1)..MaxSubs /\ subs[slot'].id \notin done
         /\ current' = None => owed' = {} /\ owedService' = 0
<1>1. CASE Matching(i, t) = {}
  <2>1. current' = None /\ slot' = 0 /\ called' = {}
    BY <1>1 DEF Advance
  <2>2. wanted = {} /\ service = 0
    BY <1>1
  <2>3. owed' = {} /\ owedService' = 0
    BY <2>2 DEF Settle
  <2>4. Walked'
    BY <2>1, <2>3 DEF Walked, Idle
  <2>5. Owing'
    BY <2>1 DEF Owing, Idle
  <2> QED BY <2>1, <2>3, <2>4, <2>5
<1>2. CASE Matching(i, t) # {}
  <2> DEFINE j == Least(Matching(i, t))
  <2>1. /\ j \in (i + 1)..MaxSubs /\ j \in 1..MaxSubs /\ MaxSubs \in Nat /\ i \in Nat
        /\ subs[j].id # 0 /\ subs[j].id \in Nat /\ subs[j].topic = t
        /\ \A x \in Matching(i, t) : j <= x
    <3>1. /\ j \in (i + 1)..MaxSubs /\ subs[j].id # 0 /\ subs[j].topic = t
          /\ \A x \in Matching(i, t) : j <= x
      BY <1>2, MatchingIs
    <3> HIDE DEF j
    <3>2. MaxSubs \in Nat /\ i \in Nat
      BY BusAssumption
    <3>3. j \in 1..MaxSubs
      BY <3>1, <3>2
    <3>4. subs[j].id \in Nat
      BY <3>3 DEF TypeOK
    <3> QED BY <3>1, <3>2, <3>3, <3>4
  <2>2. /\ current' = e /\ slot' = j /\ called' = done \cup {subs[j].id}
        /\ serving' = IF subs[j].id = registrySub THEN ServiceOf(e) ELSE 0
    BY <1>2 DEF Advance
  <2>3. e # None
    BY BusAssumption
  <2> HIDE DEF j
  <2>4. \A x \in (j + 1)..MaxSubs : x \in (i + 1)..MaxSubs /\ x \in 1..MaxSubs /\ x # j
    BY <2>1
  <2>5. \A x \in Matching(i, t) : subs[x].id # subs[j].id => x \in Matching(j, t)
    <3>1. ASSUME NEW x \in Matching(i, t), subs[x].id # subs[j].id PROVE x \in Matching(j, t)
      <4>1. x \in (i + 1)..MaxSubs /\ x # j /\ j <= x /\ subs[x].id # 0 /\ subs[x].topic = t
        BY <2>1, <3>1 DEF Matching
      <4>2. x \in (j + 1)..MaxSubs
        BY <2>1, <4>1
      <4> QED BY <4>1, <4>2 DEF Matching
    <3> QED BY <3>1
  <2>6. Walked'
    <3>1. \A id \in called' : id # 0 /\ id < nextId'
      BY <2>1, <2>2 DEF Distinct
    <3>2. \A x \in (slot' + 1)..MaxSubs : subs'[x].id \notin called'
      <4>1. ASSUME NEW x \in (j + 1)..MaxSubs PROVE subs[x].id \notin called'
        <5>1. subs[x].id \notin done /\ subs[x].id # subs[j].id
          BY <2>1, <2>4 DEF Distinct
        <5> QED BY <2>2, <5>1
      <4> QED BY <2>2, <4>1
    <3>3. slot' # 0 /\ current' # None
      BY <2>1, <2>2, <2>3
    <3> QED BY <3>1, <3>2, <3>3 DEF Walked, Idle
  <2>7. \A id \in owed' : \E x \in Matching(slot', t) : subs'[x].id = id
    <3>1. ASSUME NEW id \in owed' PROVE \E x \in Matching(j, t) : subs[x].id = id
      <4>1. id \in wanted /\ id # subs[j].id
        BY <2>2 DEF Settle
      <4> QED BY <2>5, <4>1
    <3> QED BY <2>2, <3>1
  <2>8. owedService' # 0 => /\ \E x \in Matching(slot', t) : subs'[x].id = registrySub'
                            /\ t = SvcMsg
                            /\ \E k \in 1..MaxServices : /\ services'[k].id = owedService'
                                                         /\ services'[k].name = target'[e]
    <3> SUFFICES ASSUME owedService' # 0
                 PROVE  /\ \E x \in Matching(j, t) : subs[x].id = registrySub
                        /\ t = SvcMsg
                        /\ \E k \in 1..MaxServices : /\ services[k].id = owedService'
                                                     /\ services[k].name = target[e]
      BY <2>2
    <3>1. owedService' = service /\ service # 0 /\ serving' # service
      BY DEF Settle
    <3>2. PICK k \in 1..MaxServices : services[k].id = service /\ services[k].name = target[e]
      BY <3>1
    <3>3. ServiceOf(e) = service
      BY <3>1, <3>2, ServiceOfIs
    <3>4. subs[j].id # registrySub
      BY <2>2, <3>1, <3>3
    <3> QED BY <2>5, <3>1, <3>2, <3>4
  <2>9. Owing'
    <3>1. topic'[current'] = t /\ Matching(slot', t) = Matching(slot, topic[current])'
      <4>1. topic'[current'] = t
        BY <2>2
      <4> QED BY <4>1 DEF Matching
    <3> QED BY <2>2, <2>7, <2>8, <3>1 DEF Owing
  <2> QED BY <2>1, <2>2, <2>3, <2>6, <2>9
<1> QED BY <1>1, <1>2

\* The two steps of a delivery.
LEMMA OnEventStep ==
  ASSUME IInv, OnEvent
  PROVE  /\ Walked' /\ Owing' /\ slot = 0 /\ Idle
<1>1. /\ queue # <<>> /\ registered /\ TypeOK /\ Distinct /\ OneOfAName /\ Registry /\ Idle
      /\ slot = 0
  BY DEF IInv, Listening, OnEvent, Walked
<1> DEFINE e == Head(queue).env
           t == Head(queue).topic
           wanted == {subs[j].id : j \in Matching(0, t)}
           service == IF t = SvcMsg /\ registrySub # 0 THEN ServiceOf(e) ELSE 0
<1>2. Head(queue) \in Posting
  BY <1>1, HeadTailProperties DEF TypeOK
<1>3. e \in Envelopes /\ t \in AllTopics \cup {None}
  BY <1>2 DEF Posting
<1>4. /\ topic' = [topic EXCEPT ![e] = t] /\ Advance(e, 0, t, {}) /\ Settle(wanted, service)
      /\ UNCHANGED <<subs, nextId, registrySub, services, target>>
  BY <1>1 DEF OnEvent, subVars, serviceVars
<1>5. topic'[e] = t
  BY <1>1, <1>3, <1>4 DEF TypeOK
<1>6. service \in Nat
  BY <1>1, <1>3, ServiceIsNat
<1>7. service # 0 => /\ \E j \in Matching(0, t) : subs[j].id = registrySub
                     /\ t = SvcMsg
                     /\ \E k \in 1..MaxServices : /\ services[k].id = service
                                                  /\ services[k].name = target[e]
  <2> HIDE DEF e, t
  <2> SUFFICES ASSUME t = SvcMsg, registrySub # 0, ServiceOf(e) # 0
               PROVE  /\ \E j \in Matching(0, t) : subs[j].id = registrySub
                      /\ \E k \in 1..MaxServices : /\ services[k].id = ServiceOf(e)
                                                   /\ services[k].name = target[e]
    OBVIOUS
  <2>1. PICK j \in 1..MaxSubs : subs[j].id = registrySub /\ subs[j].topic = SvcMsg
    BY <1>1 DEF Registry
  <2>2. j \in Matching(0, t)
    BY <2>1 DEF Matching
  <2> QED BY <1>1, <1>3, <2>1, <2>2, ServiceOfIs
<1>8. \A id \in wanted : \E j \in Matching(0, t) : subs[j].id = id
  OBVIOUS
<1>9. 0 \in 0..MaxSubs /\ {} \in SUBSET Nat
  BY BusAssumption
<1> HIDE DEF e, t, wanted, service
<1> QED BY <1>1, <1>3, <1>4, <1>5, <1>6, <1>7, <1>8, <1>9, WalkStep, SMTT(30)

LEMMA ReturnStep ==
  ASSUME IInv, HandlerReturns
  PROVE  /\ Walked' /\ Owing'
         /\ slot' # 0 => subs[slot'].id \notin called
         /\ current' = None => owed' = {} /\ owedService' = 0
<1>1. /\ TypeOK /\ Distinct /\ OneOfAName /\ Walked /\ Owing /\ ~Idle
  BY DEF IInv, HandlerReturns
<1> DEFINE t == topic[current]
<1>2. /\ current \in Envelopes /\ slot \in 0..MaxSubs /\ called \in SUBSET Nat /\ owedService \in Nat
      /\ t \in AllTopics \cup {None}
  BY <1>1 DEF TypeOK, Idle
<1>3. /\ Advance(current, slot, t, called) /\ Settle(owed, owedService)
      /\ UNCHANGED <<subs, nextId, registrySub, services, target>> /\ topic'[current] = t
  BY DEF HandlerReturns, subVars, serviceVars
<1>4. /\ \A id \in called : id # 0 /\ id < nextId
      /\ \A j \in (slot + 1)..MaxSubs : subs[j].id \notin called
  BY <1>1 DEF Walked
<1>5. /\ \A id \in owed : \E j \in Matching(slot, t) : subs[j].id = id
      /\ owedService # 0 => /\ \E j \in Matching(slot, t) : subs[j].id = registrySub
                            /\ t = SvcMsg
                            /\ \E k \in 1..MaxServices : /\ services[k].id = owedService
                                                         /\ services[k].name = target[current]
  BY <1>1 DEF Owing
<1> HIDE DEF t
<1> QED BY <1>1, <1>2, <1>3, <1>4, <1>5, WalkStep

\* What is owed stays ahead whatever the clients do meanwhile: they neither
\* write to the envelope that is being delivered nor take a slot that is owed.
LEMMA Undisturbed ==
  ASSUME TypeOK, RefsExact, [Next]_vars, ~OnEvent, ~HandlerReturns
  PROVE  /\ UNCHANGED <<current, slot, called>>
         /\ ~Idle => topic'[current] = topic[current] /\ target'[current] = target[current]
<1> USE DEF subVars, serviceVars, envelopeVars, queueVars, deliveryVars
<1>1. /\ topic \in [Envelopes -> AllTopics \cup {None}] /\ target \in [Envelopes -> Names \cup {None}]
      /\ ~Idle => current \in Envelopes
  BY DEF TypeOK, Idle
<1>2. ASSUME NEW e \in Envelopes, NEW t \in Topics, MakeEnvelope(e, t), ~Idle PROVE e # current
  <2>1. current \in Envelopes /\ refs[e] = 0
    BY <1>1, <1>2 DEF MakeEnvelope
  <2>2. /\ refs[current] = Count(queue, current) + 1 + held[current]
        /\ held[current] \in Nat /\ Count(queue, current) \in Nat
    BY <2>1, Counted, CountType DEF RefsExact, TypeOK
  <2>3. refs[current] # 0
    BY <2>2
  <2> QED BY <2>1, <2>3
<1>3. ASSUME NEW e \in Envelopes, NEW t \in Topics, MakeEnvelope(e, t)
      PROVE  /\ UNCHANGED <<current, slot, called>>
             /\ ~Idle => topic'[current] = topic[current] /\ target'[current] = target[current]
  BY <1>1, <1>2, <1>3 DEF MakeEnvelope
<1>4. ASSUME NEW e \in Envelopes, NEW n \in Names, SendTo(e, n)
      PROVE  /\ UNCHANGED <<current, slot, called>>
             /\ ~Idle => topic'[current] = topic[current] /\ target'[current] = target[current]
  BY <1>1, <1>4 DEF SendTo
<1>5. ASSUME NEW a, \/ Subscribe(a) \/ Unsubscribe(a) \/ RegisterService(a) \/ UnregisterService(a)
                    \/ Retain(a) \/ Release(a) \/ Publish(a)
      PROVE  UNCHANGED <<current, slot, called, topic, target>>
  BY <1>5 DEF Subscribe, Unsubscribe, RegisterService, UnregisterService, Retain, Release, Publish
<1>6. CASE ManagerInit \/ OtherPosted \/ OtherDispatched \/ UNCHANGED vars
  BY <1>6 DEF ManagerInit, OtherPosted, OtherDispatched, vars
<1>7. CASE Client
  BY <1>3, <1>4, <1>5, <1>7 DEF Client
<1> QED BY <1>6, <1>7 DEF Next

\* The debts shrink, and only by what is taken out of its table.
LEMMA OwedEffect ==
  ASSUME [Next]_vars, ~OnEvent, ~HandlerReturns
  PROVE  /\ \/ owed' = owed /\ ~\E id \in SubIds : Unsubscribe(id)
            \/ \E id \in SubIds : Unsubscribe(id) /\ owed' = owed \ {id}
         /\ \/ owedService' = owedService /\ ~\E id \in ServiceIds : UnregisterService(id)
            \/ \E id \in ServiceIds : /\ UnregisterService(id)
                                      /\ owedService' = IF owedService = id THEN 0 ELSE owedService
<1> USE DEF subVars, serviceVars, envelopeVars, queueVars, deliveryVars
<1>1. UNCHANGED <<owed, owedService>> \/ (\E id \in SubIds : Unsubscribe(id))
        \/ (\E id \in ServiceIds : UnregisterService(id))
  BY DEF Next, Client, vars, ManagerInit, Subscribe, RegisterService, MakeEnvelope, Retain, Release,
         Publish, SendTo, OtherPosted, OtherDispatched
<1>2. ASSUME NEW id \in SubIds, Unsubscribe(id) PROVE owed' = owed \ {id} /\ owedService' = owedService
  BY <1>2 DEF Unsubscribe
<1>3. ASSUME NEW id \in ServiceIds, UnregisterService(id)
      PROVE  owed' = owed /\ owedService' = IF owedService = id THEN 0 ELSE owedService
  BY <1>3 DEF UnregisterService
<1> QED BY <1>1, <1>2, <1>3

LEMMA ClientStep ==
  ASSUME IInv, [Next]_vars, ~OnEvent, ~HandlerReturns
  PROVE  Walked' /\ Owing'
<1>1. /\ TypeOK /\ RefsExact /\ Distinct /\ Registry /\ OneOfAName /\ Walked /\ Owing
      /\ subs \in [1..MaxSubs -> [id : Nat, topic : AllTopics \cup {None}]]
      /\ services \in [1..MaxServices -> [id : Nat, name : Names \cup {None}]]
      /\ nextId \in Nat \ {0} /\ slot \in 0..MaxSubs /\ called \subseteq Nat
  BY DEF IInv, TypeOK
<1>2. /\ UNCHANGED <<current, slot, called>>
      /\ ~Idle => topic'[current] = topic[current] /\ target'[current] = target[current]
  BY <1>1, Undisturbed
<1>3. owed' \subseteq owed /\ (owedService' = 0 \/ owedService' = owedService)
  BY OwedEffect
<1>4. (slot + 1)..MaxSubs \subseteq 1..MaxSubs
  BY <1>1, BusAssumption
\* What becomes of the slots: each keeps its contents, gets a new id, or is freed.
<1>5. /\ \A j \in 1..MaxSubs : subs'[j] = subs[j] \/ subs'[j].id = nextId \/ subs'[j].id = 0
      /\ nextId' = nextId \/ nextId' = nextId + 1
  <2>1. CASE UNCHANGED <<subs, nextId>>
    BY <2>1
  <2>2. ASSUME NEW k \in 1..MaxSubs, NEW t,
               subs' = [subs EXCEPT ![k] = [id |-> nextId, topic |-> t]], nextId' = nextId + 1
        PROVE  /\ \A j \in 1..MaxSubs : subs'[j] = subs[j] \/ subs'[j].id = nextId
               /\ nextId' = nextId + 1
    BY <1>1, <2>2
  <2>3. ASSUME NEW id, Unsubscribe(id)
        PROVE  /\ \A j \in 1..MaxSubs : subs'[j] = subs[j] \/ subs'[j].id = 0
               /\ nextId' = nextId
    BY <2>3 DEF Unsubscribe, NoSub
  <2> QED BY <1>1, <2>1, <2>2, <2>3, TableEffect DEF Table
<1>6. Walked'
  <2>1. \A id \in called : id # 0 /\ id < nextId' /\ id # nextId
    BY <1>1, <1>5 DEF Walked
  <2>2. ASSUME NEW j \in (slot + 1)..MaxSubs PROVE subs'[j].id \notin called
    BY <1>1, <1>4, <1>5, <2>1 DEF Walked
  <2>3. Idle => slot' = 0 /\ called' = {} /\ owed' = {} /\ owedService' = 0
    BY <1>1, <1>2, <1>3 DEF Walked
  <2>4. ~Idle => slot' # 0
    BY <1>1, <1>2 DEF Walked
  <2> QED BY <1>2, <2>1, <2>2, <2>3, <2>4 DEF Walked, Idle
\* A slot that is taken keeps its contents, unless its subscription is removed.
<1>7. ASSUME NEW j \in 1..MaxSubs, subs[j].id # 0, ~\E id \in SubIds : Unsubscribe(id) /\ subs[j].id = id
      PROVE  subs'[j] = subs[j]
  <2>1. ASSUME NEW k \in 1..MaxSubs, NEW t, subs[k].id = 0,
               subs' = [subs EXCEPT ![k] = [id |-> nextId, topic |-> t]]
        PROVE  subs'[j] = subs[j]
    BY <1>1, <1>7, <2>1
  <2>2. ASSUME NEW id \in SubIds, Unsubscribe(id) PROVE subs'[j] = subs[j]
    BY <1>7, <2>2 DEF Unsubscribe
  <2> QED BY <1>1, <2>1, <2>2, TableEffect DEF Table
<1>8. ASSUME ~Idle PROVE Owing'
  <2> DEFINE t == topic[current]
  <2>1. topic'[current'] = t /\ target'[current'] = target[current]
    BY <1>2, <1>8
  <2>2. ASSUME NEW id \in owed' PROVE \E j \in Matching(slot, t)' : subs'[j].id = id
    <3>1. id \in owed /\ ~Unsubscribe(id)
      <4>1. CASE owed' = owed /\ ~\E x \in SubIds : Unsubscribe(x)
        <5>1. id \in SubIds
          <6>1. PICK j \in Matching(slot, t) : subs[j].id = id
            BY <1>1, <1>8, <4>1, <2>2 DEF Owing
          <6> QED BY <1>4, <6>1 DEF Matching, SubIds
        <5> QED BY <2>2, <4>1, <5>1
      <4>2. ASSUME NEW x \in SubIds, Unsubscribe(x), owed' = owed \ {x} PROVE id \in owed /\ ~Unsubscribe(id)
        <5>1. id \in owed /\ id # x
          BY <2>2, <4>2
        <5>2. PICK j \in Matching(slot, t) : subs[j].id = id
          BY <1>1, <1>8, <5>1 DEF Owing
        <5>3. j \in 1..MaxSubs /\ subs[j].id # 0 /\ id # 0
          BY <1>4, <5>2 DEF Matching
        <5>4. subs'[j] = subs[j]
          BY <4>2, <5>1, <5>2, <5>3 DEF Unsubscribe
        <5>5. Unsubscribe(id) => subs'[j].id = 0
          BY <5>2, <5>3 DEF Unsubscribe, NoSub
        <5> QED BY <5>1, <5>2, <5>3, <5>4, <5>5
      <4> QED BY <4>1, <4>2, OwedEffect
    <3>2. PICK j \in Matching(slot, t) : subs[j].id = id
      BY <1>1, <1>8, <3>1 DEF Owing
    <3>3. j \in (slot + 1)..MaxSubs /\ j \in 1..MaxSubs /\ subs[j].id # 0 /\ subs[j].topic = t
      BY <1>4, <3>2 DEF Matching
    <3>4. subs'[j] = subs[j]
      BY <1>7, <3>1, <3>2, <3>3
    <3> QED BY <1>2, <2>1, <3>2, <3>3, <3>4 DEF Matching
  <2>3. ASSUME owedService' # 0
        PROVE  /\ \E j \in Matching(slot, t)' : subs'[j].id = registrySub'
               /\ t = SvcMsg
               /\ \E i \in 1..MaxServices : /\ services'[i].id = owedService'
                                            /\ services'[i].name = target[current]
    <3>1. owedService # 0 /\ owedService' = owedService
      BY <1>3, <2>3
    <3>2. PICK j \in Matching(slot, t) : subs[j].id = registrySub
      BY <1>1, <1>8, <3>1 DEF Owing
    <3>3. j \in (slot + 1)..MaxSubs /\ j \in 1..MaxSubs /\ subs[j].id # 0 /\ subs[j].topic = t
      BY <1>4, <3>2 DEF Matching
    <3>4. subs'[j] = subs[j]
      <4>1. ~\E id \in SubIds : Unsubscribe(id) /\ subs[j].id = id
        BY <3>2 DEF Unsubscribe
      <4> QED BY <1>7, <3>3, <4>1
    <3>5. registrySub' = registrySub
      <4>1. registryUp
        BY <1>1, <3>2, <3>3 DEF Registry
      <4>2. (\E id \in SubIds : Unsubscribe(id)) => registrySub' = registrySub
        BY DEF Unsubscribe, serviceVars
      <4> QED BY <1>1, <4>1, <4>2, TableEffect DEF Table
    <3>6. PICK i \in 1..MaxServices : services[i].id = owedService /\ services[i].name = target[current]
      BY <1>1, <1>8, <3>1 DEF Owing
    <3>7. services'[i] = services[i]
      <4>1. ASSUME NEW k \in 1..MaxServices, NEW n, services[k].id = 0,
                   services' = [services EXCEPT ![k] = [id |-> nextService, name |-> n]]
            PROVE  services'[i] = services[i]
        BY <1>1, <3>1, <3>6, <4>1
      <4>2. ASSUME NEW id \in ServiceIds, UnregisterService(id) PROVE services'[i] = services[i]
        <5>1. owedService # id
          BY <3>1, <4>2 DEF UnregisterService
        <5> QED BY <3>6, <4>2, <5>1 DEF UnregisterService
      <4> QED BY <1>1, <4>1, <4>2, EntriesEffect
    <3>8. j \in Matching(slot, t)'
      BY <1>2, <2>1, <3>3, <3>4 DEF Matching
    <3>9. t = SvcMsg
      BY <1>1, <1>8, <3>1 DEF Owing
    <3> QED BY <3>1, <3>2, <3>4, <3>5, <3>6, <3>7, <3>8, <3>9
  <2>4. Matching(slot, t)' = Matching(slot, topic[current])'
    BY <2>1 DEF Matching
  <2> HIDE DEF t
  <2> QED BY <2>1, <2>2, <2>3, <2>4 DEF Owing
<1>9. CASE Idle
  BY <1>2, <1>6, <1>9 DEF Owing, Idle
<1> QED BY <1>6, <1>8, <1>9

-----------------------------------------------------------------------------
(* The theorems *)

LEMMA Initially == Init => IInv
<1> SUFFICES ASSUME Init PROVE IInv
  OBVIOUS
<1> USE DEF Init
<1>1. TypeOK
  <2>1. <<>> \in Seq(Posting)
    BY EmptySeq
  <2>2. MaxSubs \in Nat
    BY BusAssumption
  <2>3. /\ subs \in [1..MaxSubs -> [id : Nat, topic : AllTopics \cup {None}]]
        /\ services \in [1..MaxServices -> [id : Nat, name : Names \cup {None}]]
    BY DEF NoSub, NoService
  <2>4. slot \in 0..MaxSubs
    BY <2>2
  <2>5. /\ refs \in [Envelopes -> Nat] /\ held \in [Envelopes -> Nat]
        /\ topic \in [Envelopes -> AllTopics \cup {None}]
        /\ target \in [Envelopes -> Names \cup {None}]
    OBVIOUS
  <2>6. {managerUp, registered, registryUp} \subseteq BOOLEAN
    OBVIOUS
  <2>7. queue \in Seq(Posting)
    BY <2>1
  <2>8. /\ nextId \in Nat \ {0} /\ nextService \in Nat \ {0} /\ registrySub \in Nat
        /\ others \in Nat /\ published \in Nat
    OBVIOUS
  <2>9. /\ current \in Envelopes \cup {None} /\ serving \in Nat /\ owedService \in Nat
        /\ called \subseteq Nat /\ owed \subseteq Nat
    OBVIOUS
  <2> HIDE DEF Init
  <2> QED BY <2>3, <2>4, <2>5, <2>6, <2>7, <2>8, <2>9 DEF TypeOK
<1>2. RefsExact
  <2>1. ASSUME NEW e \in Envelopes PROVE QueuedCount(e) = 0
    <3>1. {i \in 1..Len(queue) : queue[i].env = e} = {}
      BY EmptySeq
    <3> QED BY <3>1, FS_EmptySet DEF QueuedCount
  <2>2. \A e \in Envelopes : None # e
    BY BusAssumption
  <2> QED BY <2>1, <2>2 DEF RefsExact
<1>3. Listening /\ Distinct /\ Registry /\ OneOfAName
  BY DEF Listening, Distinct, Registry, OneOfAName, NoSub, NoService
<1>4. Walked /\ Owing
  BY DEF Walked, Owing, Idle
<1> QED BY <1>1, <1>2, <1>3, <1>4 DEF IInv

LEMMA Consecution == IInv /\ [Next]_vars => IInv'
<1> SUFFICES ASSUME IInv, [Next]_vars PROVE IInv'
  OBVIOUS
<1>1. TypeOK' /\ RefsExact' /\ Listening'
  BY TypeStep, RefsStep, ListeningStep DEF IInv
<1>2. Distinct' /\ Registry' /\ OneOfAName'
  BY TableStep, EntriesStep DEF IInv
<1>3. Walked' /\ Owing'
  BY OnEventStep, ReturnStep, ClientStep
<1> QED BY <1>1, <1>2, <1>3 DEF IInv

THEOREM Invariance == Spec => []IInv
<1> QED BY Initially, Consecution, PTL DEF Spec

\* Every table of the bus and the registry keeps its shape: ids are numbers, a
\* slot holds a topic, a posted event an envelope.
THEOREM TypeCorrect == Spec => []TypeOK
<1>1. IInv => TypeOK
  BY DEF IInv
<1> QED BY <1>1, Invariance, PTL

\* In publish, onEvent, retain and release, the count of an envelope is at every
\* moment its queued events, its delivery and the clients' references: no block
\* is freed in use and none is leaked, however many clients and slots there are.
THEOREM RefsCorrect == Spec => []RefsExact
<1>1. IInv => RefsExact
  BY DEF IInv
<1> QED BY <1>1, Invariance, PTL

\* While onEvent walks the slots, handlers may subscribe, unsubscribe, register
\* and unregister as they like: nobody is called twice for one event and nobody
\* who was there from beginning to end is passed over.
THEOREM ExactlyOnceCorrect == Spec => ExactlyOnce
<1>1. IInv /\ [Next]_vars =>
        [/\ slot' # slot /\ slot' # 0 /\ slot # 0 => subs[slot'].id \notin called
         /\ ~Idle /\ current' = None => owed' = {} /\ owedService' = 0]_vars
  <2> SUFFICES ASSUME IInv, [Next]_vars
               PROVE  /\ slot' # slot /\ slot' # 0 /\ slot # 0 => subs[slot'].id \notin called
                      /\ ~Idle /\ current' = None => owed' = {} /\ owedService' = 0
    OBVIOUS
  <2>1. CASE OnEvent
    BY <2>1, OnEventStep
  <2>2. CASE HandlerReturns
    BY <2>2, ReturnStep
  <2>3. CASE ~OnEvent /\ ~HandlerReturns
    BY <2>3, Undisturbed DEF IInv, Idle
  <2> QED BY <2>1, <2>2, <2>3
<1> QED BY <1>1, Invariance, PTL DEF Spec, ExactlyOnce
=============================================================================
