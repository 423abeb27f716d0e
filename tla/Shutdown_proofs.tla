--------------------------- MODULE Shutdown_proofs ---------------------------
(***************************************************************************)
(* Three parts.  First the shutdown: the controller's types, the agreement *)
(* of phase and dialog, and what the notification loop guarantees, for any *)
(* number of subsystems, requests and queue slots.  Then how volumes come  *)
(* up: the volume manager, the file system tree and the media agree, for   *)
(* any machine, any number of records and any number of rounds that fail.  *)
(* Last the files of the shared volume: no cluster belongs to two files, a *)
(* save reads back, and no cluster is lost, for any size of the volume and *)
(* any number of write errors, power failures and saves.                   *)
(***************************************************************************)
EXTENDS Shutdown, Mounts, SharedVolume, FiniteSetTheorems, SequenceTheorems, WellFoundedInduction, TLAPS

USE BoundsAssumption
HIDE MountsAssumption
HIDE SharedAssumption

Kinds == {"ShutdownRequest", "ShutdownPrepare", "ShutdownNow"}

Distinct(s) == \A i, j \in DOMAIN s : i # j => s[i] # s[j]

\* Where the entry that goes away was; the last one takes its place.
LEMMA WithoutShape ==
  ASSUME NEW S, NEW s \in Seq(S), Distinct(s), NEW h \in Elems(s)
  PROVE  /\ Without(s, h) \in Seq(S)
         /\ Len(Without(s, h)) = Len(s) - 1
         /\ \E i \in DOMAIN s :
              \A k \in 1 .. Len(s) - 1 :
                Without(s, h)[k] = IF k = i THEN s[Len(s)] ELSE s[k]
<1>1. PICK i \in DOMAIN s : s[i] = h
  BY DEF Elems
<1>2. DOMAIN s = 1 .. Len(s) /\ Len(s) \in Nat /\ Len(s) >= 1
  BY <1>1
<1>3. \A k \in 1 .. Len(s) - 1 : Without(s, h)[k] = IF k = i THEN s[Len(s)] ELSE s[k]
  BY <1>1, <1>2 DEF Without, Distinct
<1>4. /\ Without(s, h) \in [1 .. Len(s) - 1 -> S]
      /\ Len(s) - 1 \in Nat
  BY <1>2 DEF Without
<1>5. Without(s, h) \in Seq(S) /\ Len(Without(s, h)) = Len(s) - 1
  <2> DEFINE w == Without(s, h)
  <2> HIDE DEF w
  <2> QED BY <1>4
<1> QED BY <1>3, <1>5

\* What remains is distinct and was there before.
LEMMA WithoutDistinct ==
  ASSUME NEW S, NEW s \in Seq(S), Distinct(s), NEW h \in Elems(s)
  PROVE  Distinct(Without(s, h)) /\ Elems(Without(s, h)) \subseteq Elems(s)
<1> DEFINE w == Without(s, h)
<1>1. w \in Seq(S) /\ Len(w) = Len(s) - 1 /\ DOMAIN w = 1 .. Len(s) - 1
  BY WithoutShape
<1>2. PICK i \in DOMAIN s : \A k \in 1 .. Len(s) - 1 : w[k] = IF k = i THEN s[Len(s)] ELSE s[k]
  BY WithoutShape
<1> HIDE DEF w
<1>3. DOMAIN s = 1 .. Len(s) /\ Len(s) \in Nat
  OBVIOUS
<1>4. Distinct(w)
  BY <1>1, <1>2, <1>3 DEF Distinct
<1>5. Elems(w) \subseteq Elems(s)
  <2> SUFFICES ASSUME NEW k \in DOMAIN w PROVE w[k] \in Elems(s)
    BY DEF Elems
  <2>1. k \in DOMAIN s /\ Len(s) \in DOMAIN s
    BY <1>1, <1>3
  <2> QED BY <1>1, <1>2, <2>1 DEF Elems
<1> QED BY <1>4, <1>5 DEF w

\* Handles are distinct and were all given out before.
Handles == /\ Distinct(subsystems) /\ Distinct(asked)
           /\ \A k \in DOMAIN subsystems : subsystems[k] < nextHandle
           /\ \A k \in DOMAIN asked : asked[k] < nextHandle

\* How far the loop has come: the callback that runs is of the entry it is at.
Seen == IF pc = "callback" THEN at + 1 ELSE at

\* What the loop has still to visit was not asked before.
Fresh == pc \in {"notify", "callback"} =>
           \A k \in DOMAIN subsystems : k > Seen => subsystems[k] \notin Elems(asked)

\* What the loop has gone past without asking, and the entries by which the
\* vector became shorter than that: later registrations may fill them.
Passed == {subsystems[k] : k \in {k \in DOMAIN subsystems : k <= Seen}} \ Elems(asked)
Gap == IF Seen > Len(subsystems) THEN Seen - Len(subsystems) ELSE 0
Missing == pc \in {"notify", "callback"} => Cardinality(Passed) + Gap <= removed

\* What holds together in every state.
IInv == TypeOK /\ Coherent /\ Handles /\ Fresh /\ Missing

LEMMA InitIInv == Init => IInv
<1> SUFFICES ASSUME Init PROVE IInv
  OBVIOUS
<1>1. subsystems \in Seq(Handle) /\ asked \in Seq(Handle) /\ queue \in Seq(Kinds)
  BY DEF Init, Kinds
<1>4. ui \in BOOLEAN /\ dialog \in BOOLEAN /\ vetoed \in BOOLEAN
  BY Zenon DEF Init
<1>5. Len(queue) <= Capacity
  BY DEF Init
<1>2. TypeOK
  BY <1>1, <1>4, <1>5 DEF Init, TypeOK, Kinds
<1>3. Coherent /\ Handles /\ Fresh /\ Missing
  BY DEF Init, Coherent, Handles, Distinct, Fresh, Missing
<1> QED BY <1>2, <1>3 DEF IInv

\* The queue keeps its type and limit.
LEMMA PostedType ==
  ASSUME NEW q \in Seq(Kinds), Len(q) <= Capacity, NEW kind \in Kinds
  PROVE  Posted(q, kind) \in Seq(Kinds) /\ Len(Posted(q, kind)) <= Capacity
BY DEF Posted

LEMMA TailType ==
  ASSUME NEW q \in Seq(Kinds), q # <<>>, Len(q) <= Capacity
  PROVE  Tail(q) \in Seq(Kinds) /\ Len(Tail(q)) <= Capacity
OBVIOUS

\* The actions of requestShutdown, of the main loop's and of the boot script's.
LEMMA BeginType ==
  ASSUME TypeOK, NEW q \in Seq(Kinds), Len(q) <= Capacity, Begin(q),
         UNCHANGED <<subsystems, nextHandle, ui, dialog>>, requests' \in 0 .. MaxRequests
  PROVE  TypeOK'
<1>1. CASE phase # "Idle"
  BY <1>1 DEF Begin, TypeOK, round, Kinds
<1>2. CASE phase = "Idle"
  <2>1. Posted(q, "ShutdownPrepare") \in Seq(Kinds) /\ Len(Posted(q, "ShutdownPrepare")) <= Capacity
    BY PostedType DEF Kinds
  <2>2. queue' \in Seq(Kinds) /\ Len(queue') <= Capacity
    BY <1>2, <2>1 DEF Begin
  <2>3. asked' \in Seq(Handle)
    BY <1>2 DEF Begin
  <2>4. vetoed' \in BOOLEAN
    BY <1>2, Zenon DEF Begin
  <2> QED BY <1>2, <2>2, <2>3, <2>4 DEF Begin, TypeOK, Kinds
<1> QED BY <1>1, <1>2

LEMMA PowerOffType ==
  ASSUME TypeOK, PowerOff, UNCHANGED <<subsystems, nextHandle, ui, at, requests, removed, round>>,
         dialog' \in BOOLEAN
  PROVE  TypeOK'
<1>1. queue' \in Seq(Kinds) /\ Len(queue') <= Capacity
  BY PostedType DEF PowerOff, TypeOK, Kinds
<1> QED BY <1>1 DEF PowerOff, TypeOK, Kinds, round

LEMMA TypeStep == IInv /\ [Next]_vars => TypeOK'
<1> SUFFICES ASSUME IInv, [Next]_vars PROVE TypeOK'
  OBVIOUS
<1> USE DEF IInv
<1>1. CASE RegisterUIHandler
  BY <1>1 DEF RegisterUIHandler, TypeOK, round
<1>2. CASE RegisterSubsystem
  <2>1. subsystems' \in Seq(Handle)
    BY <1>2 DEF RegisterSubsystem, TypeOK, Handle
  <2> QED BY <1>2, <2>1 DEF RegisterSubsystem, TypeOK, round
<1>3. CASE UnregisterSubsystem
  <2>1. subsystems' \in Seq(Handle)
    BY <1>3, WithoutShape DEF UnregisterSubsystem, TypeOK, Handles
  <2> QED BY <1>3, <2>1 DEF UnregisterSubsystem, TypeOK, round
<1>4. CASE PostRequest
  <2>1. queue' \in Seq(Kinds) /\ Len(queue') <= Capacity
    BY <1>4, PostedType DEF PostRequest, TypeOK, Kinds
  <2> QED BY <1>4, <2>1 DEF PostRequest, NewRequest, TypeOK, round, Kinds
<1>5. CASE RequestShutdown
  <2>1. requests' \in 0 .. MaxRequests /\ queue \in Seq(Kinds) /\ Len(queue) <= Capacity
    BY <1>5 DEF RequestShutdown, NewRequest, TypeOK, Kinds
  <2> QED BY <1>5, <2>1, BeginType DEF RequestShutdown
<1>6. CASE Dispatch
  <2>1. Tail(queue) \in Seq(Kinds) /\ Len(Tail(queue)) <= Capacity
    BY <1>6, TailType DEF Dispatch, TypeOK, Kinds
  <2>2. CASE Head(queue) = "ShutdownRequest"
    <3>1. requests' \in 0 .. MaxRequests /\ Begin(Tail(queue))
      BY <1>6, <2>2 DEF Dispatch, TypeOK
    <3> QED BY <1>6, <2>1, <3>1, BeginType DEF Dispatch
  <2>3. CASE Head(queue) # "ShutdownRequest"
    BY <1>6, <2>1, <2>3 DEF Dispatch, TypeOK, round, Kinds
  <2> QED BY <2>2, <2>3
<1>7. CASE CallSubsystem
  <2>1. subsystems[at + 1] \in Handle
    BY <1>7 DEF CallSubsystem, MoreToAsk, TypeOK
  <2>2. asked' \in Seq(Handle)
    BY <1>7, <2>1 DEF CallSubsystem, TypeOK
  <2> QED BY <1>7, <2>2 DEF CallSubsystem, TypeOK
<1>8. CASE Decide
  <2>1. CASE ui
    BY <1>8, <2>1 DEF Decide, TypeOK, round
  <2>2. CASE ~ui
    BY <1>8, <2>2, PowerOffType DEF Decide, TypeOK
  <2> QED BY <2>1, <2>2
<1>9. CASE Approve
  BY <1>9 DEF Approve, TypeOK, round
<1>10. CASE Veto
  BY <1>10 DEF Veto, TypeOK
<1>11. CASE OnConfirm
  BY <1>11, PowerOffType DEF OnConfirm, TypeOK
<1>12. CASE OnCancel
  BY <1>12 DEF OnCancel, TypeOK, round
<1>13. CASE UNCHANGED vars
  BY <1>13 DEF vars, TypeOK
<1> QED BY <1>1, <1>2, <1>3, <1>4, <1>5, <1>6, <1>7, <1>8, <1>9, <1>10, <1>11, <1>12, <1>13
       DEF Next, User, Kernel, Answer, Click

LEMMA CoherentStep == IInv /\ [Next]_vars => Coherent'
<1> SUFFICES ASSUME IInv, [Next]_vars PROVE Coherent'
  OBVIOUS
<1> USE DEF IInv
<1>1. CASE RegisterUIHandler
  BY <1>1 DEF RegisterUIHandler, Coherent, round
<1>2. CASE RegisterSubsystem
  BY <1>2 DEF RegisterSubsystem, Coherent, round
<1>3. CASE UnregisterSubsystem
  BY <1>3 DEF UnregisterSubsystem, Coherent, round
<1>4. CASE PostRequest
  BY <1>4 DEF PostRequest, Coherent, round
<1>5. CASE RequestShutdown
  BY <1>5 DEF RequestShutdown, Begin, Coherent, round
<1>6. CASE Dispatch
  BY <1>6 DEF Dispatch, Begin, Coherent, round
<1>7. CASE CallSubsystem
  BY <1>7 DEF CallSubsystem, Coherent
<1>8. CASE Decide
  BY <1>8 DEF Decide, PowerOff, Coherent, round
<1>9. CASE Approve
  BY <1>9 DEF Approve, Coherent, round
<1>10. CASE Veto
  BY <1>10 DEF Veto, Coherent
<1>11. CASE OnConfirm
  BY <1>11 DEF OnConfirm, PowerOff, Coherent, round
<1>12. CASE OnCancel
  BY <1>12 DEF OnCancel, Coherent, round
<1>13. CASE UNCHANGED vars
  BY <1>13 DEF vars, Coherent
<1> QED BY <1>1, <1>2, <1>3, <1>4, <1>5, <1>6, <1>7, <1>8, <1>9, <1>10, <1>11, <1>12, <1>13
       DEF Next, User, Kernel, Answer, Click

\* The entry that is asked next was not asked, and its handle is an old one.
LEMMA HandlesStep == IInv /\ [Next]_vars => Handles'
<1> SUFFICES ASSUME IInv, [Next]_vars PROVE Handles'
  OBVIOUS
<1> USE DEF IInv
<1>1. CASE UNCHANGED <<subsystems, nextHandle, asked>>
  BY <1>1 DEF Handles
<1>2. CASE RegisterSubsystem
  <2>1. /\ subsystems' = Append(subsystems, nextHandle) /\ asked' = asked
        /\ nextHandle' = nextHandle + 1
    BY <1>2 DEF RegisterSubsystem, round
  <2>2. /\ Len(subsystems') = Len(subsystems) + 1
        /\ \A k \in 1 .. Len(subsystems) : subsystems'[k] = subsystems[k]
        /\ subsystems'[Len(subsystems) + 1] = nextHandle
        /\ DOMAIN subsystems' = 1 .. Len(subsystems) + 1
    BY <2>1 DEF TypeOK
  <2>3. \A k \in DOMAIN subsystems : subsystems[k] \in Int
    BY DEF TypeOK, Handle
  <2>4. \A k \in DOMAIN subsystems' : subsystems'[k] < nextHandle'
    BY <2>1, <2>2, <2>3 DEF Handles, TypeOK
  <2>5. Distinct(subsystems')
    <3>1. /\ \A i, j \in 1 .. Len(subsystems) : i # j => subsystems[i] # subsystems[j]
          /\ \A k \in 1 .. Len(subsystems) : subsystems[k] # nextHandle
          /\ Len(subsystems) \in Nat
      BY <2>3 DEF Handles, Distinct, TypeOK
    <3> QED BY <2>2, <3>1 DEF Distinct
  <2>6. \A k \in DOMAIN asked : asked[k] \in Int
    BY DEF TypeOK, Handle
  <2> QED BY <2>1, <2>4, <2>5, <2>6 DEF Handles, TypeOK
<1>3. CASE UnregisterSubsystem
  <2>1. PICK h \in Elems(subsystems) : subsystems' = Without(subsystems, h)
    BY <1>3 DEF UnregisterSubsystem
  <2>2. Distinct(subsystems') /\ Elems(subsystems') \subseteq Elems(subsystems)
    BY <2>1, WithoutDistinct DEF Handles, TypeOK
  <2>3. nextHandle' = nextHandle /\ asked' = asked
    BY <1>3 DEF UnregisterSubsystem, round
  <2> QED BY <2>2, <2>3 DEF Handles, Elems
<1>4. CASE CallSubsystem
  <2>1. /\ asked' = Append(asked, subsystems[at + 1])
        /\ UNCHANGED <<subsystems, nextHandle>>
        /\ pc = "notify" /\ at + 1 \in DOMAIN subsystems
    BY <1>4 DEF CallSubsystem, MoreToAsk, TypeOK
  <2>2. subsystems[at + 1] \notin Elems(asked)
    BY <2>1 DEF Fresh, Seen, TypeOK
  <2>3. asked \in Seq(Handle) /\ subsystems[at + 1] \in Handle
    BY <2>1 DEF TypeOK
  <2>4. /\ DOMAIN asked' = 1 .. Len(asked) + 1
        /\ \A k \in 1 .. Len(asked) : asked'[k] = asked[k]
        /\ asked'[Len(asked) + 1] = subsystems[at + 1]
        /\ DOMAIN asked = 1 .. Len(asked) /\ Len(asked) \in Nat
    BY <2>1, <2>3
  <2>5. Distinct(asked')
    BY <2>2, <2>4 DEF Handles, Distinct, Elems
  <2> QED BY <2>1, <2>4, <2>5 DEF Handles
<1>5. CASE asked' = <<>> /\ UNCHANGED <<subsystems, nextHandle>>
  BY <1>5 DEF Handles, Distinct
<1> QED BY <1>1, <1>2, <1>3, <1>4, <1>5
       DEF Next, User, Kernel, Answer, Click, vars, round, RegisterUIHandler, PostRequest,
           RequestShutdown, Dispatch, Begin, Decide, Approve, Veto, OnConfirm, OnCancel, PowerOff

\* Steps that leave the vector, the questions and the count alone keep what the
\* loop relies on, if they end the loop or go on from the same place.
LEMMA SameLoop ==
  ASSUME IInv, UNCHANGED <<subsystems, asked, removed>>,
         pc' \in {"notify", "callback"} => pc \in {"notify", "callback"} /\ Seen' = Seen
  PROVE  Fresh' /\ Missing'
<1>1. Fresh'
  BY DEF IInv, Fresh, Seen
<1>2. pc' \in {"notify", "callback"} => Passed' = Passed /\ Gap' = Gap
  BY DEF Passed, Gap
<1>3. Missing'
  BY <1>2 DEF IInv, Missing
<1> QED BY <1>1, <1>3

\* requestShutdown starts the loop with nothing asked and nothing passed.
LEMMA BeginLoop ==
  ASSUME IInv, NEW q, Begin(q), subsystems' = subsystems
  PROVE  Fresh' /\ Missing'
<1>1. CASE phase # "Idle"
  <2>1. UNCHANGED <<subsystems, asked, removed, pc, at>>
    BY <1>1 DEF Begin, round
  <2> QED BY <2>1, SameLoop DEF Seen
<1>2. CASE phase = "Idle"
  <2>1. pc' = "notify" /\ at' = 0 /\ asked' = <<>> /\ removed' = 0
    BY <1>2 DEF Begin
  <2>2. Seen' = 0
    BY <2>1 DEF Seen
  <2>3. subsystems' \in Seq(Handle)
    BY DEF IInv, TypeOK
  <2>4. Passed' = {} /\ Gap' = 0
    BY <2>2, <2>3 DEF Passed, Gap
  <2>5. Fresh'
    BY <2>1 DEF Fresh, Elems
  <2>6. Missing'
    BY <2>1, <2>4, FS_EmptySet DEF Missing
  <2> QED BY <2>5, <2>6
<1> QED BY <1>1, <1>2

LEMMA PassedFinite == IInv => IsFiniteSet(Passed) /\ Cardinality(Passed) \in Nat
<1> SUFFICES ASSUME IInv PROVE IsFiniteSet(Passed) /\ Cardinality(Passed) \in Nat
  OBVIOUS
<1> DEFINE D == {k \in DOMAIN subsystems : k <= Seen}
           f == [k \in D |-> subsystems[k]]
           I == {f[k] : k \in D}
<1>1. DOMAIN subsystems = 1 .. Len(subsystems) /\ Len(subsystems) \in Int
  BY DEF IInv, TypeOK
<1>2. IsFiniteSet(D)
  BY <1>1, FS_Interval, FS_Subset, 1 \in Int
<1>3. IsFiniteSet(I)
  <2>1. f \in Surjection(D, I)
    BY Zenon DEF Surjection
  <2> HIDE DEF D, f, I
  <2> QED BY <1>2, <2>1, FS_Surjection
<1>4. Passed \subseteq I
  BY DEF Passed
<1> HIDE DEF I
<1> QED BY <1>3, <1>4, FS_Subset, FS_CardinalityType

\* One more element at most.
LEMMA OneMore ==
  ASSUME NEW S, IsFiniteSet(S), NEW x, NEW T, T \subseteq S \cup {x}
  PROVE  /\ IsFiniteSet(T) /\ Cardinality(T) \in Nat /\ Cardinality(S) \in Nat
         /\ Cardinality(T) <= Cardinality(S) + 1
<1>3. Cardinality(S) \in Nat
  BY FS_CardinalityType
<1>1. IsFiniteSet(S \cup {x}) /\ Cardinality(S \cup {x}) <= Cardinality(S) + 1
  <2>1. /\ IsFiniteSet(S \cup {x})
        /\ Cardinality(S \cup {x}) = IF x \in S THEN Cardinality(S) ELSE Cardinality(S) + 1
    BY FS_AddElement
  <2> QED BY <1>3, <2>1
<1>2. IsFiniteSet(T) /\ Cardinality(T) <= Cardinality(S \cup {x})
  BY <1>1, FS_Subset
<1>4. Cardinality(T) \in Nat /\ Cardinality(S \cup {x}) \in Nat
  BY <1>1, <1>2, FS_CardinalityType
<1> QED BY <1>1, <1>2, <1>3, <1>4

\* A registration appends: the loop will come to it, or it fills the gap.
LEMMA RegisterLoop == IInv /\ RegisterSubsystem => Fresh' /\ Missing'
<1> SUFFICES ASSUME IInv, RegisterSubsystem, pc' \in {"notify", "callback"}
             PROVE  Fresh' /\ Missing'
  BY DEF Fresh, Missing
<1> DEFINE n == Len(subsystems)
<1>1. /\ subsystems' = Append(subsystems, nextHandle)
      /\ UNCHANGED <<asked, removed, pc, at>>
  BY DEF RegisterSubsystem, round
<1>2. subsystems \in Seq(Handle) /\ n \in Nat /\ Seen \in Nat /\ removed \in Nat
  BY DEF IInv, TypeOK, Seen
<1>3. /\ DOMAIN subsystems' = 1 .. n + 1 /\ DOMAIN subsystems = 1 .. n /\ Len(subsystems') = n + 1
      /\ \A k \in 1 .. n : subsystems'[k] = subsystems[k]
      /\ subsystems'[n + 1] = nextHandle
  BY <1>1, <1>2
<1>4. Seen' = Seen
  BY <1>1 DEF Seen
<1>5. nextHandle \notin Elems(asked)
  <2>1. \A k \in DOMAIN asked : asked[k] \in Int /\ asked[k] < nextHandle /\ nextHandle \in Int
    BY DEF IInv, TypeOK, Handles, Handle
  <2> QED BY <2>1 DEF Elems
<1>6. \A k \in 1 .. n : k > Seen => subsystems[k] \notin Elems(asked)
  BY <1>1, <1>3 DEF IInv, Fresh
<1> HIDE DEF n
<1>7. Fresh'
  <2> SUFFICES ASSUME NEW k \in 1 .. n + 1, k > Seen PROVE subsystems'[k] \notin Elems(asked')
    BY <1>3, <1>4 DEF Fresh
  <2> QED BY <1>1, <1>2, <1>3, <1>5, <1>6
<1>8. Missing'
  <2>1. Cardinality(Passed) + Gap <= removed /\ IsFiniteSet(Passed) /\ Cardinality(Passed) \in Nat
    BY <1>1, PassedFinite DEF IInv, Missing
  <2>2. CASE Seen <= n
    <3>1. Passed' = Passed
      BY <1>1, <1>2, <1>3, <1>4, <2>2 DEF Passed
    <3>2. Gap' = 0 /\ Gap = 0
      <4>1. ~(Seen > Len(subsystems)) /\ ~(Seen' > Len(subsystems'))
        BY <1>2, <1>3, <1>4, <2>2 DEF n
      <4> QED BY <4>1, Zenon DEF Gap
    <3> QED BY <1>1, <2>1, <3>1, <3>2 DEF Missing
  <2>3. CASE Seen > n
    <3>1. Passed' \subseteq Passed \cup {nextHandle}
      BY <1>1, <1>2, <1>3, <1>4, <2>3 DEF Passed
    <3>2. Gap' = Gap - 1 /\ Gap \in Nat
      BY <1>2, <1>3, <1>4, <2>3 DEF Gap, n
    <3>3. Cardinality(Passed') <= Cardinality(Passed) + 1 /\ Cardinality(Passed') \in Nat
      BY <2>1, <3>1, OneMore
    <3> QED BY <1>1, <1>2, <2>1, <3>2, <3>3 DEF Missing
  <2> QED BY <1>2, <2>2, <2>3
<1> QED BY <1>7, <1>8

\* A removal brings at most one entry, the last one, to a place the loop has
\* passed, or shortens what it has passed by one.
LEMMA UnregisterLoop == IInv /\ UnregisterSubsystem => Fresh' /\ Missing'
<1> SUFFICES ASSUME IInv, UnregisterSubsystem, pc' \in {"notify", "callback"}
             PROVE  Fresh' /\ Missing'
  BY DEF Fresh, Missing
<1> DEFINE n == Len(subsystems)
<1>1. UNCHANGED <<asked, pc, at>> /\ removed' = removed + 1
  BY DEF UnregisterSubsystem, round
<1>2. PICK h \in Elems(subsystems) : subsystems' = Without(subsystems, h)
  BY DEF UnregisterSubsystem
<1>3. subsystems \in Seq(Handle) /\ Distinct(subsystems) /\ n \in Nat /\ Seen \in Nat /\ removed \in Nat
  BY DEF IInv, TypeOK, Seen, Handles
<1>4. subsystems' \in Seq(Handle) /\ Len(subsystems') = n - 1
  BY <1>2, <1>3, WithoutShape
<1>5. PICK i \in DOMAIN subsystems :
        \A k \in 1 .. n - 1 : subsystems'[k] = IF k = i THEN subsystems[n] ELSE subsystems[k]
  BY <1>2, <1>3, WithoutShape
<1>6. DOMAIN subsystems = 1 .. n /\ DOMAIN subsystems' = 1 .. n - 1 /\ n >= 1
  BY <1>3, <1>4, <1>5
<1>7. Seen' = Seen
  BY <1>1 DEF Seen
<1>8. \A k \in 1 .. n : k > Seen => subsystems[k] \notin Elems(asked)
  BY <1>1, <1>6 DEF IInv, Fresh
<1>9. Fresh'
  <2> SUFFICES ASSUME NEW k \in 1 .. n - 1, k > Seen PROVE subsystems'[k] \notin Elems(asked')
    BY <1>6, <1>7 DEF Fresh
  <2> HIDE DEF n
  <2> QED BY <1>1, <1>3, <1>5, <1>6, <1>8
<1>10. Missing'
  <2>1. Cardinality(Passed) + Gap <= removed /\ IsFiniteSet(Passed) /\ Cardinality(Passed) \in Nat
    BY <1>1, PassedFinite DEF IInv, Missing
  <2>2. CASE Seen < n
    <3>1. Passed' \subseteq Passed \cup {subsystems[n]}
      <4> SUFFICES ASSUME NEW k \in 1 .. n - 1, k <= Seen, subsystems'[k] \notin Elems(asked)
                   PROVE  subsystems'[k] \in Passed \cup {subsystems[n]}
        BY <1>1, <1>6, <1>7 DEF Passed
      <4> HIDE DEF n
      <4>1. CASE k = i
        BY <1>5, <4>1
      <4>2. CASE k # i
        BY <1>3, <1>5, <1>6, <4>2 DEF Passed
      <4> QED BY <4>1, <4>2
    <3>2. Gap' = 0 /\ Gap = 0
      <4>1. ~(Seen > Len(subsystems)) /\ ~(Seen' > Len(subsystems'))
        BY <1>3, <1>4, <1>7, <2>2
      <4> QED BY <4>1, Zenon DEF Gap
    <3>3. Cardinality(Passed') <= Cardinality(Passed) + 1 /\ Cardinality(Passed') \in Nat
      BY <2>1, <3>1, OneMore
    <3> QED BY <1>1, <1>3, <2>1, <3>2, <3>3 DEF Missing
  <2>3. CASE Seen >= n
    <3>1. Passed' \subseteq Passed
      <4> SUFFICES ASSUME NEW k \in 1 .. n - 1, subsystems'[k] \notin Elems(asked)
                   PROVE  subsystems'[k] \in Passed
        BY <1>1, <1>6, <1>7 DEF Passed
      <4>1. k \in 1 .. n /\ n \in 1 .. n /\ k <= Seen
        BY <1>3, <1>6, <2>3
      <4> HIDE DEF n
      <4>2. subsystems'[k] \in {subsystems[k], subsystems[n]}
        BY <1>5
      <4> QED BY <1>6, <2>3, <4>1, <4>2 DEF Passed
    <3>2. Gap' = Gap + 1 /\ Gap \in Nat
      BY <1>3, <1>4, <1>7, <2>3 DEF Gap
    <3>3. Cardinality(Passed') <= Cardinality(Passed) /\ Cardinality(Passed') \in Nat
      BY <2>1, <3>1, FS_Subset, FS_CardinalityType
    <3> QED BY <1>1, <1>3, <2>1, <3>2, <3>3 DEF Missing
  <2> QED BY <1>3, <2>2, <2>3
<1> QED BY <1>9, <1>10

\* The call of a callback asks the entry that the loop goes past.
LEMMA CallLoop == IInv /\ CallSubsystem => Fresh' /\ Missing'
<1> SUFFICES ASSUME IInv, CallSubsystem PROVE Fresh' /\ Missing'
  OBVIOUS
<1>1. /\ pc = "notify" /\ pc' = "callback" /\ at + 1 \in DOMAIN subsystems
      /\ asked' = Append(asked, subsystems[at + 1])
      /\ UNCHANGED <<subsystems, removed, at>>
  BY DEF CallSubsystem, MoreToAsk, IInv, TypeOK
<1>2. Elems(asked') = Elems(asked) \cup {subsystems[at + 1]}
  <2>1. asked \in Seq(Handle) /\ subsystems[at + 1] \in Handle
    BY <1>1 DEF IInv, TypeOK
  <2>2. /\ DOMAIN asked' = 1 .. Len(asked) + 1 /\ DOMAIN asked = 1 .. Len(asked) /\ Len(asked) \in Nat
        /\ \A k \in 1 .. Len(asked) : asked'[k] = asked[k]
        /\ asked'[Len(asked) + 1] = subsystems[at + 1]
    BY <1>1, <2>1
  <2> QED BY <2>2 DEF Elems
<1>3. Seen = at /\ Seen' = at + 1 /\ at \in Nat /\ removed \in Nat
  BY <1>1 DEF Seen, IInv, TypeOK
<1>4. DOMAIN subsystems = 1 .. Len(subsystems) /\ Len(subsystems) \in Nat
  BY DEF IInv, TypeOK
<1>5. Fresh'
  <2>1. \A k \in DOMAIN subsystems : k > at + 1 => subsystems[k] \notin Elems(asked)
    BY <1>1, <1>3, <1>4 DEF IInv, Fresh
  <2>2. \A k \in DOMAIN subsystems : k > at + 1 => subsystems[k] # subsystems[at + 1]
    BY <1>1, <1>3, <1>4 DEF IInv, Handles, Distinct
  <2> QED BY <1>1, <1>2, <1>3, <2>1, <2>2 DEF Fresh
<1>6. Missing'
  <2>1. Cardinality(Passed) + Gap <= removed /\ IsFiniteSet(Passed) /\ Cardinality(Passed) \in Nat
    BY <1>1, PassedFinite DEF IInv, Missing
  <2>2. Passed' \subseteq Passed
    BY <1>1, <1>2, <1>3, <1>4 DEF Passed
  <2>3. Gap = 0 /\ Gap' = 0
    <3>1. ~(Seen > Len(subsystems)) /\ ~(Seen' > Len(subsystems'))
      BY <1>1, <1>3, <1>4
    <3> QED BY <3>1, Zenon DEF Gap
  <2>4. Cardinality(Passed') <= Cardinality(Passed) /\ Cardinality(Passed') \in Nat
    BY <2>1, <2>2, FS_Subset, FS_CardinalityType
  <2> QED BY <1>1, <1>3, <2>1, <2>3, <2>4 DEF Missing
<1> QED BY <1>5, <1>6

LEMMA LoopStep == IInv /\ [Next]_vars => Fresh' /\ Missing'
<1> SUFFICES ASSUME IInv, [Next]_vars PROVE Fresh' /\ Missing'
  OBVIOUS
<1>1. CASE UNCHANGED <<subsystems, asked, removed, pc, at>>
  BY <1>1, SameLoop DEF Seen
<1>2. CASE RegisterSubsystem
  BY <1>2, RegisterLoop
<1>3. CASE UnregisterSubsystem
  BY <1>3, UnregisterLoop
<1>4. CASE RequestShutdown
  BY <1>4, BeginLoop DEF RequestShutdown
<1>5. CASE Dispatch
  <2>1. CASE Head(queue) = "ShutdownRequest"
    BY <1>5, <2>1, BeginLoop DEF Dispatch
  <2>2. CASE Head(queue) # "ShutdownRequest"
    BY <1>1, <1>5, <2>2 DEF Dispatch, round
  <2> QED BY <2>1, <2>2
<1>6. CASE CallSubsystem
  BY <1>6, CallLoop
<1>7. CASE Approve
  <2>1. /\ UNCHANGED <<subsystems, asked, removed>> /\ pc = "callback" /\ pc' = "notify"
        /\ at' = at + 1
    BY <1>7 DEF Approve, round
  <2> QED BY <2>1, SameLoop DEF Seen
<1>8. CASE UNCHANGED <<subsystems, asked, removed>> /\ pc' \in {"loop", "halted"}
  BY <1>8, SameLoop
<1> QED BY <1>1, <1>2, <1>3, <1>4, <1>5, <1>6, <1>7, <1>8
       DEF Next, User, Kernel, Answer, Click, vars, round, RegisterUIHandler, PostRequest,
           Decide, Veto, OnConfirm, OnCancel, PowerOff

\* A step keeps the whole invariant.
LEMMA StepIInv == IInv /\ [Next]_vars => IInv'
<1> SUFFICES ASSUME IInv, [Next]_vars PROVE IInv'
  OBVIOUS
<1>1. TypeOK' /\ Coherent' /\ Handles'
  BY TypeStep, CoherentStep, HandlesStep
<1>2. Fresh' /\ Missing'
  BY LoopStep
<1> QED BY <1>1, <1>2 DEF IInv

LEMMA Invariance == Spec => []IInv
BY InitIInv, StepIInv, PTL DEF Spec

\* Types, and the queue within its limit, of everything the controller keeps.
THEOREM TypeCorrect == Spec => []TypeOK
<1>1. IInv => TypeOK
  BY DEF IInv
<1> QED BY <1>1, Invariance, PTL

\* The dialog is open exactly while the user's decision is awaited, the phase
\* says what the controller does, and a veto leaves it idle.
THEOREM CoherentCorrect == Spec => []Coherent
<1>1. IInv => Coherent
  BY DEF IInv
<1> QED BY <1>1, Invariance, PTL

\* No subsystem is asked twice in a round, however the vector changes under the
\* loop of notifySubsystems.
THEOREM AskedOnceCorrect == Spec => []AskedOnce
<1>1. IInv => AskedOnce
  BY DEF IInv, Handles, Distinct, AskedOnce
<1> QED BY <1>1, Invariance, PTL

\* When the loop is over, at most as many registered subsystems were not asked
\* as unregistered during the round; with none of those everybody was asked.
THEOREM MissedCorrect == Spec => MissedAtMostRemoved
<1>1. ASSUME IInv, Next, pc = "notify", pc' \in {"loop", "halted"}
      PROVE  Cardinality(Unasked) <= removed
  <2>1. ~MoreToAsk
    BY <1>1 DEF Next, User, Kernel, Answer, Click, RegisterUIHandler, RegisterSubsystem,
                UnregisterSubsystem, PostRequest, RequestShutdown, Dispatch, CallSubsystem,
                Decide, Approve, Veto, OnConfirm, OnCancel, InUser
  <2>2. at \in Nat /\ Len(subsystems) \in Nat /\ removed \in Nat
        /\ DOMAIN subsystems = 1 .. Len(subsystems)
    BY <1>1 DEF IInv, TypeOK
  <2>3. Seen = at /\ Len(subsystems) <= at
    BY <1>1, <2>1, <2>2 DEF Seen, MoreToAsk
  <2>4. Passed = Unasked
    BY <2>2, <2>3 DEF Passed, Unasked, Elems
  <2>5. Gap \in Nat
    BY <2>2, <2>3 DEF Gap
  <2>6. Cardinality(Passed) + Gap <= removed /\ Cardinality(Passed) \in Nat
    BY <1>1, PassedFinite DEF IInv, Missing
  <2> QED BY <2>2, <2>4, <2>5, <2>6
<1>2. IInv /\ [Next]_vars
      => [pc = "notify" /\ pc' \in {"loop", "halted"} => Cardinality(Unasked) <= removed]_vars
  BY <1>1
<1> QED BY <1>2, Invariance, PTL DEF Spec, MissedAtMostRemoved

-----------------------------------------------------------------------------
(* Volumes: sequences whose elements have no common type.                  *)
HIDE BoundsAssumption

IsSeq(s) == s \in Seq({s[i] : i \in DOMAIN s})

LEMMA SeqFacts ==
  ASSUME NEW s, IsSeq(s)
  PROVE  Len(s) \in Nat /\ DOMAIN s = 1..Len(s)
BY LenProperties DEF IsSeq

LEMMA SeqIsSeq ==
  ASSUME NEW S, NEW s \in Seq(S)
  PROVE  IsSeq(s)
<1>1. /\ Len(s) \in Nat /\ s \in [1..Len(s) -> S] /\ DOMAIN s = 1..Len(s)
  BY LenProperties
<1>2. s \in [1..Len(s) -> {s[i] : i \in DOMAIN s}]
  BY <1>1
<1> QED
  BY <1>1, <1>2, SeqDef DEF IsSeq

LEMMA AppendFacts ==
  ASSUME NEW s, IsSeq(s), NEW e
  PROVE  /\ IsSeq(Append(s, e)) /\ Len(Append(s, e)) = Len(s) + 1
         /\ \A i \in 1..Len(s) : Append(s, e)[i] = s[i]
         /\ Append(s, e)[Len(s) + 1] = e
<1> DEFINE S == {s[i] : i \in DOMAIN s} \cup {e}
<1>1. s \in Seq(S)
  BY SeqMonotonic DEF IsSeq
<1>2. /\ Append(s, e) \in Seq(S) /\ Len(Append(s, e)) = Len(s) + 1
      /\ \A i \in 1..Len(s) : Append(s, e)[i] = s[i]
      /\ Append(s, e)[Len(s) + 1] = e
  <2> HIDE DEF S
  <2> QED BY <1>1, e \in S, AppendProperties, SeqFacts DEF S
<1> QED
  BY <1>2, SeqIsSeq

LEMMA UpdateFacts ==
  ASSUME NEW s, IsSeq(s), NEW i \in DOMAIN s, NEW e
  PROVE  /\ IsSeq([s EXCEPT ![i] = e]) /\ DOMAIN [s EXCEPT ![i] = e] = DOMAIN s
         /\ \A j \in DOMAIN s : [s EXCEPT ![i] = e][j] = IF j = i THEN e ELSE s[j]
<1> DEFINE S == {s[j] : j \in DOMAIN s} \cup {e}
<1>1. s \in Seq(S) /\ i \in 1..Len(s) /\ e \in S
  BY SeqMonotonic, SeqFacts DEF IsSeq
<1>2. [s EXCEPT ![i] = e] \in Seq(S)
  <2> HIDE DEF S
  <2> QED BY <1>1, ExceptSeq
<1> QED
  BY <1>2, SeqIsSeq

\* unregisterVolume and unmount: the entries behind one that goes move up.
LEMMA ShiftedFacts ==
  ASSUME NEW s, IsSeq(s), NEW i \in DOMAIN s
  PROVE  /\ IsSeq(Shifted(s, i)) /\ DOMAIN Shifted(s, i) = 1..Len(s) - 1
         /\ \A j \in DOMAIN Shifted(s, i) :
              \E k \in DOMAIN s \ {i} : Shifted(s, i)[j] = s[k] /\ k = IF j < i THEN j ELSE j + 1
         /\ \A k \in DOMAIN s \ {i} : \E j \in DOMAIN Shifted(s, i) : Shifted(s, i)[j] = s[k]
<1>1. Len(s) \in Nat /\ DOMAIN s = 1..Len(s) /\ i \in 1..Len(s)
  BY SeqFacts
<1> DEFINE S == {s[j] : j \in DOMAIN s}
<1>2. PICK n : n = Len(s) - 1
  OBVIOUS
<1>3. n \in Nat /\ \A j \in 1..n : j \in DOMAIN s /\ j + 1 \in DOMAIN s
  BY <1>1, <1>2
<1>4. Shifted(s, i) = [j \in 1..n |-> IF j < i THEN s[j] ELSE s[j + 1]]
  BY <1>2 DEF Shifted
<1>5. Shifted(s, i) \in [1..n -> S]
  BY <1>3, <1>4
<1>6. Shifted(s, i) \in Seq(S)
  <2> HIDE DEF S
  <2> QED BY <1>3, <1>5, SeqDef
<1>7. ASSUME NEW j \in 1..n
      PROVE  \E k \in DOMAIN s \ {i} : Shifted(s, i)[j] = s[k] /\ k = IF j < i THEN j ELSE j + 1
  <2>1. CASE j < i
    BY <2>1, <1>1, <1>2, <1>4
  <2>2. CASE ~(j < i)
    <3>1. j + 1 \in DOMAIN s \ {i} /\ Shifted(s, i)[j] = s[j + 1]
      BY <2>2, <1>1, <1>2, <1>4
    <3> QED BY <3>1, <2>2
  <2> QED BY <2>1, <2>2
<1>8. ASSUME NEW k \in DOMAIN s \ {i}
      PROVE  \E j \in 1..n : Shifted(s, i)[j] = s[k]
  <2>1. CASE k < i
    <3>1. k \in 1..n /\ Shifted(s, i)[k] = s[k]
      BY <2>1, <1>1, <1>2, <1>4
    <3> QED BY <3>1
  <2>2. CASE ~(k < i)
    <3>1. k - 1 \in 1..n /\ ~(k - 1 < i) /\ (k - 1) + 1 = k
      BY <2>2, <1>1, <1>2
    <3>2. Shifted(s, i)[k - 1] = s[k]
      BY <3>1, <1>4
    <3> QED BY <3>1, <3>2
  <2> QED BY <2>1, <2>2
<1>9. DOMAIN Shifted(s, i) = 1..n
  BY <1>4
<1> QED
  BY <1>2, <1>6, <1>7, <1>8, <1>9, SeqIsSeq

\* A set of numbers has a least one.
LEMMA LeastExists ==
  ASSUME NEW S \in SUBSET Nat, S # {}
  PROVE  \E i \in S : \A j \in S : i <= j
<1> DEFINE R == {p \in Nat \X Nat : p[1] < p[2]}
<1>1. IsWellFoundedOn(R, Nat)
  BY NatLessThanWellFounded DEF OpToRel
<1>2. PICK i \in S : \A j \in S : ~(<<j, i>> \in R)
  <2> HIDE DEF R
  <2> QED BY <1>1, WFMin
<1>3. \A j \in S : ~(j < i)
  BY <1>2
<1>4. \A j \in S : i <= j
  BY <1>3
<1> QED
  BY <1>4

\* The least of a set of numbers is one of them.
LEMMA FirstOfFacts ==
  ASSUME NEW S \in SUBSET Nat, S # {}
  PROVE  FirstOf(S) \in S
BY LeastExists DEF FirstOf

-----------------------------------------------------------------------------
(* What the tree serves.                                                   *)

\* Mount points: what the volume manager hands to VFS::mount.
PointOk(p) == p \in MountPaths(machine) /\ p # <<>> /\ p[1] = "/"
PointsOk ==
  /\ \A j \in DOMAIN mounts : PointOk(mounts[j].path)
  /\ \A j, k \in DOMAIN mounts : j # k => mounts[j].path # mounts[k].path

LEMMA PathFacts ==
  ASSUME machine \in Machines, NEW p, PointOk(p)
  PROVE  /\ IsSeq(p) /\ Len(p) \in Nat \ {0} /\ DOMAIN p = 1..Len(p) /\ p[1] = "/"
         /\ Len(p) = 1 => p = RootPath
<1>1. p \in Seq({p[i] : i \in DOMAIN p})
  <2>1. CASE p = RootPath \/ p = SharedPath
    <3>1. RootPath \in Seq({"/", "s"}) /\ SharedPath \in Seq({"/", "s"})
      BY DEF RootPath, SharedPath
    <3> QED BY <2>1, <3>1, SeqIsSeq DEF IsSeq
  <2>2. CASE \E k \in DOMAIN machine.modules : p = machine.modules[k].path
    <3>1. p \in Seq(DOMAIN LowerOf)
      BY <2>2, MountsAssumption
    <3> QED BY <3>1, SeqIsSeq DEF IsSeq
  <2> QED BY <2>1, <2>2 DEF PointOk, MountPaths
<1>2. Len(p) \in Nat /\ DOMAIN p = 1..Len(p) /\ (p # <<>> => Len(p) \in Nat \ {0})
  BY <1>1, LenProperties, EmptySeq
<1>3. ASSUME Len(p) = 1 PROVE p = RootPath
  <2>1. p = [i \in 1..1 |-> "/"]
    <3>1. p \in [1..Len(p) -> {p[i] : i \in DOMAIN p}]
      BY <1>1, LenProperties
    <3> QED BY <3>1, <1>3, p[1] = "/" DEF PointOk
  <2> QED BY <2>1 DEF RootPath
<1>4. IsSeq(p)
  BY <1>1 DEF IsSeq
<1> QED
  BY <1>2, <1>3, <1>4 DEF PointOk

\* A mount point above something that lies in the directory of another one is shorter.
LEMMA OthersAreShorter ==
  ASSUME machine \in Machines, Plain(machine), NEW p, IsSeq(p),
         NEW d, PointOk(d), InDir(p, d),
         NEW m, PointOk(m), IsMountPrefix(p, m), ~SameText(m, p)
  PROVE  m = d \/ Len(m) < Len(d)
<1>1. /\ Len(p) \in Nat /\ DOMAIN p = 1..Len(p)
      /\ Len(m) \in Nat \ {0} /\ DOMAIN m = 1..Len(m) /\ (Len(m) = 1 => m = RootPath)
      /\ Len(d) \in Nat \ {0} /\ DOMAIN d = 1..Len(d) /\ (Len(d) = 1 => d = RootPath)
  BY SeqFacts, PathFacts
<1>0. Len(p) \in Int /\ Len(m) \in Int /\ Len(d) \in Int /\ Len(m) >= 1 /\ Len(d) >= 1
  BY <1>1
<1>2. /\ Len(m) <= Len(p)
      /\ \A k \in 1..Len(m) : LowerOf[p[k]] = LowerOf[m[k]]
      /\ m[Len(m)] = "/" \/ Len(p) = Len(m) \/ p[Len(m) + 1] = "/"
  BY <1>1 DEF IsMountPrefix
<1>3. Len(p) # Len(m)
  BY <1>1, <1>2 DEF SameText
<1>4. CASE m = RootPath
  <2>1. Len(m) = 1
    BY <1>4 DEF RootPath
  <2> QED BY <2>1, <1>1, <1>4
<1>5. CASE m # RootPath
  <2>1. p[Len(m) + 1] = "/" /\ Len(m) + 1 \in 1..Len(p)
    <3>1. m[Len(m)] # "/"
      BY <1>5 DEF Plain, PointOk
    <3>2. p[Len(m) + 1] = "/"
      BY <3>1, <1>2, <1>3
    <3> QED BY <3>2, <1>0, <1>2, <1>3
  <2>2. CASE d = RootPath
    <3>1. \A k \in 1..Len(p) : p[k] = "/" <=> k = 1
      BY <2>2 DEF InDir, Stem
    <3> QED BY <2>1, <3>1, <1>1
  <2>3. CASE d # RootPath
    <3>1. /\ \A k \in Len(d) + 1..Len(p) : p[k] = "/" <=> k = Len(d) + 1
          /\ SameText(SubSeq(p, 1, Len(d)), SubSeq(d, 1, Len(d)))
          /\ Len(p) > Len(d) + 1
      BY <2>3 DEF InDir, Stem
    <3>2. Len(m) <= Len(d)
      <4>1. Len(m) + 1 > Len(d) => Len(m) + 1 = Len(d) + 1
        BY <2>1, <3>1, <1>1
      <4> QED BY <4>1, <1>1
    <3>3. ASSUME Len(m) = Len(d) PROVE m = d
      <4>1. ASSUME NEW k \in 1..Len(d) PROVE LowerOf[p[k]] = LowerOf[d[k]]
        <5>1. /\ Len(SubSeq(p, 1, Len(d))) = Len(d)
              /\ \A i \in 1..Len(d) : SubSeq(p, 1, Len(d))[i] = p[i]
              /\ \A i \in 1..Len(d) : SubSeq(d, 1, Len(d))[i] = d[i]
              /\ DOMAIN SubSeq(p, 1, Len(d)) = 1..Len(d)
          BY <1>1, <3>1
        <5> QED BY <5>1, <3>1 DEF SameText
      <4>2. SameText(m, d)
        BY <3>3, <4>1, <1>1, <1>2 DEF SameText
      <4> QED BY <4>2 DEF Plain, PointOk
    <3>4. Len(m) = Len(d) \/ Len(m) < Len(d)
      BY <3>2, <1>0
    <3> QED BY <3>3, <3>4
  <2> QED BY <2>2, <2>3
<1> QED
  BY <1>4, <1>5

LEMMA DirIsPrefix ==
  ASSUME machine \in Machines, NEW p, IsSeq(p), NEW d, PointOk(d), InDir(p, d)
  PROVE  IsMountPrefix(p, d) /\ Relative(p, d) = SubSeq(p, Stem(d) + 1, Len(p))
<1>1. /\ Len(p) \in Nat /\ DOMAIN p = 1..Len(p) /\ p \in Seq({p[i] : i \in DOMAIN p})
      /\ Len(d) \in Nat \ {0} /\ DOMAIN d = 1..Len(d)
  BY SeqFacts, PathFacts DEF IsSeq
<1>2. CASE d = RootPath
  <2>1. /\ Stem(d) = 0 /\ Len(d) = 1 /\ d[1] = "/" /\ d[Len(d)] = "/"
    BY <1>2 DEF RootPath, Stem
  <2>2. Len(p) > 1 /\ \A k \in 1..Len(p) : p[k] = "/" <=> k = 1
    BY <2>1 DEF InDir
  <2>3. p[1] = "/" /\ p[2] # "/"
    BY <2>2, <1>1
  <2>4. IsMountPrefix(p, d)
    BY <2>1, <2>2, <2>3, <1>1 DEF IsMountPrefix
  <2> DEFINE S == {p[i] : i \in DOMAIN p}
  <2> DEFINE rest == SubSeq(p, 2, Len(p))
  <2>5. /\ rest \in Seq(S) /\ Len(rest) = Len(p) - 1
        /\ \A i \in 1..Len(p) - 1 : rest[i] = p[i + 1]
    <3>1. \A i \in 2..Len(p) : p[i] \in S
      BY <1>1
    <3>2. /\ SubSeq(p, 2, Len(p)) \in Seq(S) /\ Len(SubSeq(p, 2, Len(p))) = Len(p) - 2 + 1
          /\ \A i \in 1..Len(p) - 2 + 1 : SubSeq(p, 2, Len(p))[i] = p[2 + i - 1]
      <4> HIDE DEF S
      <4> QED BY <3>1, <2>2, <1>1, SubSeqProperties
    <3> QED BY <3>2, <2>2, <1>1
  <2>6. RootPath \o rest = p
    <3>1. RootPath \in Seq(S) /\ Len(RootPath) = 1 /\ RootPath[1] = "/"
      BY <2>3, <1>1, <2>2 DEF RootPath
    <3>2. /\ RootPath \o rest \in Seq(S) /\ Len(RootPath \o rest) = 1 + (Len(p) - 1)
          /\ \A i \in 1..1 + (Len(p) - 1) :
               (RootPath \o rest)[i] = IF i <= 1 THEN RootPath[i] ELSE rest[i - 1]
      <4>1. /\ RootPath \o rest \in Seq(S) /\ Len(RootPath \o rest) = Len(RootPath) + Len(rest)
            /\ \A i \in 1..Len(RootPath) + Len(rest) :
                 (RootPath \o rest)[i] = IF i <= Len(RootPath) THEN RootPath[i] ELSE rest[i - Len(RootPath)]
        <5> HIDE DEF S, rest
        <5>1. RootPath \in Seq(S) /\ rest \in Seq(S)
          BY <3>1, <2>5
        <5> QED BY <5>1, ConcatProperties
      <4> HIDE DEF S, rest
      <4> QED BY <4>1, <3>1, <2>5
    <3>3. ASSUME NEW i \in 1..Len(p) PROVE (RootPath \o rest)[i] = p[i]
      <4>1. CASE i = 1
        BY <4>1, <3>1, <3>2, <2>3, <1>1
      <4>2. CASE i # 1
        <5>1. i - 1 \in 1..Len(p) - 1 /\ (i - 1) + 1 = i /\ ~(i <= 1)
          BY <4>2, <1>1
        <5>2. rest[i - 1] = p[i]
          BY <5>1, <2>5
        <5>3. (RootPath \o rest)[i] = IF i <= 1 THEN RootPath[i] ELSE rest[i - 1]
          <6>1. i \in 1..1 + (Len(p) - 1)
            BY <1>1
          <6> HIDE DEF rest
          <6> QED BY <6>1, <3>2
        <5> HIDE DEF rest
        <5> QED BY <5>1, <5>2, <5>3
      <4> QED BY <4>1, <4>2
    <3>4. Len(RootPath \o rest) = Len(p)
      BY <3>2, <1>1
    <3> HIDE DEF S, rest
    <3> QED BY <1>1, <3>2, <3>3, <3>4, SeqEqual DEF S
  <2>7. rest # <<>> /\ rest[1] # "/"
    <3>1. Len(rest) # 0 /\ rest[1] = p[2]
      BY <2>5, <2>2, <1>1
    <3> HIDE DEF rest
    <3> QED BY <3>1, <2>3, Len(<<>>) = 0
  <2>8. Relative(p, d) = p
    BY <2>1, <2>6, <2>7 DEF Relative
  <2>9. SubSeq(p, Stem(d) + 1, Len(p)) = p
    BY <2>1, <1>1, SubSeqFull
  <2> QED BY <2>4, <2>8, <2>9
<1>3. CASE d # RootPath
  <2>1. Stem(d) = Len(d)
    BY <1>3 DEF Stem
  <2>2. /\ \A k \in Len(d) + 1..Len(p) : p[k] = "/" <=> k = Len(d) + 1
        /\ SameText(SubSeq(p, 1, Len(d)), SubSeq(d, 1, Len(d)))
        /\ Len(p) > Len(d) + 1
    BY <2>1 DEF InDir
  <2>3. p[Len(d) + 1] = "/"
    BY <2>2, <1>1
  <2>4. ASSUME NEW k \in 1..Len(d) PROVE LowerOf[p[k]] = LowerOf[d[k]]
    <3>1. /\ Len(SubSeq(p, 1, Len(d))) = Len(d)
          /\ \A i \in 1..Len(d) : SubSeq(p, 1, Len(d))[i] = p[i]
          /\ \A i \in 1..Len(d) : SubSeq(d, 1, Len(d))[i] = d[i]
          /\ DOMAIN SubSeq(p, 1, Len(d)) = 1..Len(d)
      BY <1>1, <2>2
    <3> QED BY <3>1, <2>2 DEF SameText
  <2>5. IsMountPrefix(p, d)
    BY <1>1, <2>2, <2>3, <2>4 DEF IsMountPrefix
  <2>6. PICK rest : rest = SubSeq(p, Len(d) + 1, Len(p))
    OBVIOUS
  <2>7. Len(rest) = Len(p) - Len(d) /\ rest[1] = p[Len(d) + 1]
    <3> DEFINE S == {p[i] : i \in DOMAIN p}
    <3>1. \A i \in Len(d) + 1..Len(p) : p[i] \in S
      BY <1>1
    <3>2. PICK i : i = Len(d) + 1
      OBVIOUS
    <3>3. PICK n : n = Len(p)
      OBVIOUS
    <3>4. i \in Int /\ n \in Int /\ i <= n /\ 1 \in 1..n - i + 1 /\ i + 1 - 1 = i
      BY <3>2, <3>3, <2>2, <1>1
    <3>5. /\ Len(SubSeq(p, i, n)) = IF i <= n THEN n - i + 1 ELSE 0
          /\ \A k \in 1..n - i + 1 : SubSeq(p, i, n)[k] = p[i + k - 1]
      <4> HIDE DEF S
      <4> QED BY <3>1, <3>2, <3>3, <3>4, SubSeqProperties
    <3>6. rest = SubSeq(p, i, n)
      BY <2>6, <3>2, <3>3
    <3>7. rest[1] = p[i] /\ Len(rest) = n - i + 1
      BY <3>4, <3>5, <3>6
    <3> QED BY <3>7, <3>2, <3>3, <1>1
  <2>8. rest # <<>> /\ rest[1] = "/"
    BY <2>7, <2>3, <2>2, <1>1
  <2>9. Relative(p, d) = rest
    BY <2>6, <2>8 DEF Relative
  <2> QED BY <2>1, <2>5, <2>6, <2>9
<1> QED
  BY <1>2, <1>3

\* VFS::resolvePath finds, for something in the directory of a mount point, that mount point.
LEMMA Resolves ==
  ASSUME machine \in Machines, Plain(machine), PointsOk, IsSeq(mounts),
         NEW j \in DOMAIN mounts, NEW p, IsSeq(p), InDir(p, mounts[j].path),
         \A k \in DOMAIN mounts : ~SameText(mounts[k].path, p)
  PROVE  /\ Above(p) # {}
         /\ ResolvePath(p) = [fs |-> mounts[j].fs, rest |-> SubSeq(p, Stem(mounts[j].path) + 1, Len(p))]
<1>1. \A k \in DOMAIN mounts : PointOk(mounts[k].path) /\ Len(mounts[k].path) \in Nat
  BY PathFacts DEF PointsOk
<1>2. DOMAIN mounts \subseteq Nat
  BY SeqFacts
<1>3. j \in Above(p)
  BY <1>1, DirIsPrefix DEF Above
<1>4. ASSUME NEW k \in Above(p), k # j PROVE Len(mounts[k].path) < Len(mounts[j].path)
  <2>1. k \in DOMAIN mounts /\ IsMountPrefix(p, mounts[k].path) /\ mounts[k].path # mounts[j].path
    BY <1>4 DEF Above, PointsOk
  <2> QED BY <2>1, <1>1, OthersAreShorter
<1>5. \A k \in Above(p) :
         Len(mounts[k].path) < Len(mounts[j].path) \/ (Len(mounts[k].path) = Len(mounts[j].path) /\ j <= k)
  BY <1>2, <1>3, <1>4
<1>6. ASSUME NEW b \in Above(p),
             \A k \in Above(p) :
               Len(mounts[k].path) < Len(mounts[b].path) \/ (Len(mounts[k].path) = Len(mounts[b].path) /\ b <= k)
      PROVE  b = j
  <2>1. Len(mounts[j].path) \in Nat /\ Len(mounts[b].path) \in Nat
    BY <1>1 DEF Above
  <2>2. ~(Len(mounts[b].path) < Len(mounts[j].path))
    BY <1>3, <1>6, <2>1
  <2> QED BY <2>2, <1>4
<1>7. Best(p) = j
  BY <1>3, <1>5, <1>6 DEF Best
<1>8. Relative(p, mounts[j].path) = SubSeq(p, Stem(mounts[j].path) + 1, Len(p))
  BY <1>1, DirIsPrefix
<1> QED
  BY <1>3, <1>7, <1>8 DEF ResolvePath

-----------------------------------------------------------------------------
(* The records of the volume manager, the mount points and the file system *)
(* objects, and how they are tied to each other.                           *)

\* What a volume is made from: a port, a module that says it is a volume, or the ramdisk.
Source(m, r) ==
  \/ r.device.on = "port" /\ r.device.k \in DOMAIN m.disks /\ r.name = "QFS_SHARED"
  \/ /\ r.device.on = "module" /\ r.device.k \in DOMAIN m.modules
     /\ m.modules[r.device.k].tag = "volume" /\ r.name = m.modules[r.device.k].name
  \/ /\ r.device.on = "module" /\ r.device.k \in DOMAIN m.modules
     /\ r.device.k = RamdiskModule(m) /\ r.name = "QFS_RAMDISK0"
Proper(m, r) ==
  /\ r = [name |-> r.name, path |-> r.path, kind |-> r.kind, device |-> r.device, fs |-> r.fs, mounted |-> r.mounted]
  /\ r.mounted \in BOOLEAN
  /\ r.path \in MountPaths(m) /\ r.path # <<>> /\ r.path[1] = "/"
  /\ Source(m, r)
Good(m, recs) ==
  /\ IsSeq(recs)
  /\ \A i \in DOMAIN recs : Proper(m, recs[i])
  /\ \A i, j \in DOMAIN recs : i # j => recs[i].name # recs[j].name /\ recs[i].path # recs[j].path

\* What mountRecord makes of a record.
FatOf(m, r) == CreateFileSystem(r.kind, Boot(m, r.device))
Served(m, r, v) ==
  /\ Mountable(FatOf(m, r), Boot(m, r.device))
  /\ v = [device |-> r.device, fat |-> FatOf(m, r), data |-> DataStart(FatOf(m, r), Boot(m, r.device))]
Point(r) == [path |-> r.path, fs |-> r.fs]
Tied(m, recs, ms, lv) ==
  /\ IsSeq(ms) /\ lv = [f \in Ids |-> lv[f]]
  /\ \A i \in DOMAIN recs : recs[i].mounted => recs[i].fs \in Ids /\ Served(m, recs[i], lv[recs[i].fs])
  /\ \A i \in DOMAIN recs : recs[i].mounted => \E j \in DOMAIN ms : ms[j] = Point(recs[i])
  /\ \A j \in DOMAIN ms : \E i \in DOMAIN recs : recs[i].mounted /\ ms[j] = Point(recs[i])
  /\ \A i, j \in DOMAIN recs : i # j /\ recs[i].mounted /\ recs[j].mounted => recs[i].fs # recs[j].fs
  /\ \A j, k \in DOMAIN ms : j # k => ms[j].path # ms[k].path /\ ms[j].fs # ms[k].fs
  /\ \A f \in Ids : lv[f] # Dead => \E i \in DOMAIN recs : recs[i].mounted /\ recs[i].fs = f
ShownInRoot(m, ms, lv, ds) ==
  Plain(m) => \A j, k \in DOMAIN ms :
    j < k /\ ms[j].path = RootPath /\ lv[ms[j].fs].fat = "FAT32" /\ InDir(ms[k].path, RootPath) =>
      <<lv[ms[j].fs].device, ms[k].path>> \in ds

\* mountRecord keeps the ties, and the names.
TieStep(m, recs, ms, lv, i, f, v) ==
  \A recs2, ms2, lv2 :
    /\ recs2 = [recs EXCEPT ![i].fs = f, ![i].mounted = TRUE]
    /\ ms2 = Append(ms, [path |-> recs[i].path, fs |-> f])
    /\ lv2 = [lv EXCEPT ![f] = v]
    => /\ Good(m, recs2) /\ Tied(m, recs2, ms2, lv2)
       /\ DOMAIN recs2 = DOMAIN recs /\ \A k \in DOMAIN recs : recs2[k].name = recs[k].name

\* A record that is not mounted is tied to a new file system object.
LEMMA TieFacts ==
  ASSUME NEW m, NEW recs, NEW ms, NEW lv, Good(m, recs), Tied(m, recs, ms, lv),
         NEW i \in DOMAIN recs, ~recs[i].mounted,
         NEW f \in Ids, lv[f] = Dead, NEW v, Served(m, recs[i], v)
  PROVE  TieStep(m, recs, ms, lv, i, f, v)
<1>a. PICK recs2 : recs2 = [recs EXCEPT ![i].fs = f, ![i].mounted = TRUE]
  OBVIOUS
<1>b. PICK ms2 : ms2 = Append(ms, [path |-> recs[i].path, fs |-> f])
  OBVIOUS
<1>c. PICK lv2 : lv2 = [lv EXCEPT ![f] = v]
  OBVIOUS
<1>1. PICK r : r = recs[i]
  OBVIOUS
<1>2. PICK r2 : r2 = [name |-> r.name, path |-> r.path, kind |-> r.kind, device |-> r.device, fs |-> f, mounted |-> TRUE]
  OBVIOUS
<1>3. Proper(m, r) /\ IsSeq(recs)
  BY <1>1 DEF Good
<1>4. recs2 = [recs EXCEPT ![i] = r2]
  <2>1. recs2 = [recs EXCEPT ![i] = [[recs[i] EXCEPT !.fs = f] EXCEPT !.mounted = TRUE]]
    BY <1>a
  <2>2. [[r EXCEPT !.fs = f] EXCEPT !.mounted = TRUE] = r2
    <3>1. PICK q : q = [name |-> r.name, path |-> r.path, kind |-> r.kind, device |-> r.device, fs |-> f, mounted |-> r.mounted]
      OBVIOUS
    <3>2. [r EXCEPT !.fs = f] = q
      BY <3>1, <1>3 DEF Proper
    <3>3. PICK s : s = [q EXCEPT !.mounted = TRUE]
      OBVIOUS
    <3>4. s = [name |-> r.name, path |-> r.path, kind |-> r.kind, device |-> r.device, fs |-> f, mounted |-> TRUE]
      BY <3>1, <3>3, Zenon
    <3> QED BY <3>2, <3>3, <3>4, <1>2
  <2> QED BY <2>1, <2>2, <1>1
<1>5. /\ IsSeq(recs2) /\ DOMAIN recs2 = DOMAIN recs
      /\ \A j \in DOMAIN recs : recs2[j] = IF j = i THEN r2 ELSE recs[j]
  <2>1. /\ IsSeq([recs EXCEPT ![i] = r2]) /\ DOMAIN [recs EXCEPT ![i] = r2] = DOMAIN recs
        /\ \A j \in DOMAIN recs : [recs EXCEPT ![i] = r2][j] = IF j = i THEN r2 ELSE recs[j]
    BY <1>3, UpdateFacts
  <2> QED BY <2>1, <1>4
<1>6. r2.name = r.name /\ r2.path = r.path /\ r2.device = r.device /\ r2.kind = r.kind /\ r2.mounted /\ r2.fs = f
  BY <1>2
<1>7. /\ IsSeq(ms2) /\ DOMAIN ms2 = DOMAIN ms \cup {Len(ms) + 1} /\ Len(ms) + 1 \notin DOMAIN ms
      /\ \A j \in DOMAIN ms : ms2[j] = ms[j]
      /\ ms2[Len(ms) + 1] = Point(r2)
  <2>1. IsSeq(ms)
    BY DEF Tied
  <2>2. /\ IsSeq(ms2) /\ Len(ms2) = Len(ms) + 1
        /\ \A j \in 1..Len(ms) : ms2[j] = ms[j]
        /\ ms2[Len(ms) + 1] = [path |-> r.path, fs |-> f]
    BY <2>1, AppendFacts, <1>1, <1>b
  <2>3. DOMAIN ms = 1..Len(ms) /\ DOMAIN ms2 = 1..Len(ms) + 1 /\ Len(ms) \in Nat
    BY <2>1, <2>2, SeqFacts
  <2>4. 1..Len(ms) + 1 = (1..Len(ms)) \cup {Len(ms) + 1} /\ Len(ms) + 1 \notin 1..Len(ms)
    BY <2>3
  <2> QED BY <2>2, <2>3, <2>4, <1>6 DEF Point
<1>8. v.fat \in Fats /\ v # Dead
  <2>1. v.fat \in Fats
    BY DEF Served, Mountable
  <2>2. Dead.fat \notin Fats
    BY DEF Dead, Fats
  <2> QED BY <2>1, <2>2
<1>9. DOMAIN lv = Ids /\ lv2 = [g \in Ids |-> lv2[g]] /\ lv2[f] = v /\ \A g \in Ids : g # f => lv2[g] = lv[g]
  <2>1. lv = [g \in Ids |-> lv[g]]
    BY DEF Tied
  <2>2. DOMAIN lv = Ids
    BY <2>1
  <2>3. lv2 = [g \in Ids |-> IF g = f THEN v ELSE lv[g]]
    BY <2>2, <1>c
  <2> QED BY <2>2, <2>3
<1>10. \A k \in DOMAIN recs : recs[k].mounted => k # i /\ recs[k].fs # f /\ recs[k].path # r.path
  <2>1. ASSUME NEW k \in DOMAIN recs, recs[k].mounted PROVE recs[k].fs # f
    <3>1. Served(m, recs[k], lv[recs[k].fs])
      BY <2>1 DEF Tied
    <3>2. lv[recs[k].fs].fat \in Fats
      BY <3>1 DEF Served, Mountable
    <3> QED BY <3>2 DEF Dead, Fats
  <2> QED BY <2>1, <1>1 DEF Good
<1>11. Good(m, recs2)
  <2>1. Proper(m, r2)
    BY <1>2, <1>3, <1>6 DEF Proper, Source
  <2>2. \A k \in DOMAIN recs2 : recs2[k].name = recs[k].name /\ recs2[k].path = recs[k].path
    BY <1>1, <1>5, <1>6
  <2> QED BY <2>1, <2>2, <1>5 DEF Good
<1>12. ASSUME NEW k \in DOMAIN recs2, recs2[k].mounted
       PROVE  /\ recs2[k].fs \in Ids /\ Served(m, recs2[k], lv2[recs2[k].fs])
              /\ \E j \in DOMAIN ms2 : ms2[j] = Point(recs2[k])
  <2>1. CASE k = i
    <3>1. recs2[k] = r2
      BY <2>1, <1>5
    <3>2. Served(m, r2, v)
      BY <1>1, <1>6 DEF Served, FatOf
    <3> QED BY <3>1, <3>2, <1>6, <1>7, <1>9
  <2>2. CASE k # i
    <3>1. recs2[k] = recs[k] /\ recs[k].mounted /\ k \in DOMAIN recs
      BY <2>2, <1>5, <1>12
    <3>2. recs[k].fs \in Ids /\ Served(m, recs[k], lv[recs[k].fs]) /\ \E j \in DOMAIN ms : ms[j] = Point(recs[k])
      BY <3>1 DEF Tied
    <3>3. lv2[recs[k].fs] = lv[recs[k].fs]
      BY <3>1, <3>2, <1>9, <1>10
    <3> QED BY <3>1, <3>2, <3>3, <1>7
  <2> QED BY <2>1, <2>2
<1>13. ASSUME NEW j \in DOMAIN ms2
       PROVE  \E k \in DOMAIN recs2 : recs2[k].mounted /\ ms2[j] = Point(recs2[k])
  <2>1. CASE j \in DOMAIN ms
    <3>1. PICK k \in DOMAIN recs : recs[k].mounted /\ ms[j] = Point(recs[k])
      BY <2>1 DEF Tied
    <3>2. recs2[k] = recs[k]
      BY <3>1, <1>5, <1>10
    <3> QED BY <2>1, <3>1, <3>2, <1>5, <1>7
  <2>2. CASE j = Len(ms) + 1
    BY <2>2, <1>5, <1>6, <1>7
  <2> QED BY <2>1, <2>2, <1>7
<1>14. ASSUME NEW j \in DOMAIN recs2, NEW k \in DOMAIN recs2, j # k, recs2[j].mounted, recs2[k].mounted
       PROVE  recs2[j].fs # recs2[k].fs
  <2>1. CASE j # i /\ k # i
    BY <2>1, <1>14, <1>5 DEF Tied
  <2>2. CASE j = i \/ k = i
    BY <2>2, <1>14, <1>5, <1>6, <1>10
  <2> QED BY <2>1, <2>2
<1>15. ASSUME NEW j \in DOMAIN ms PROVE ms[j].path # r.path /\ ms[j].fs # f
  <2>1. PICK k \in DOMAIN recs : recs[k].mounted /\ ms[j] = Point(recs[k])
    BY DEF Tied
  <2>2. ms[j].path = recs[k].path /\ ms[j].fs = recs[k].fs
    BY <2>1 DEF Point
  <2> QED BY <2>1, <2>2, <1>10
<1>16. ASSUME NEW j \in DOMAIN ms2, NEW k \in DOMAIN ms2, j # k
       PROVE  ms2[j].path # ms2[k].path /\ ms2[j].fs # ms2[k].fs
  <2>1. ms2[Len(ms) + 1].path = r.path /\ ms2[Len(ms) + 1].fs = f
    BY <1>6, <1>7 DEF Point
  <2>2. CASE j \in DOMAIN ms /\ k \in DOMAIN ms
    <3>1. ms[j].path # ms[k].path /\ ms[j].fs # ms[k].fs
      BY <2>2, <1>16 DEF Tied
    <3> QED BY <3>1, <2>2, <1>7
  <2>3. CASE j = Len(ms) + 1 \/ k = Len(ms) + 1
    BY <2>1, <2>3, <1>7, <1>15, <1>16
  <2> QED BY <2>2, <2>3, <1>7
<1>17. ASSUME NEW g \in Ids, lv2[g] # Dead
       PROVE  \E k \in DOMAIN recs2 : recs2[k].mounted /\ recs2[k].fs = g
  <2>1. CASE g = f
    BY <2>1, <1>5, <1>6
  <2>2. CASE g # f
    <3>1. PICK k \in DOMAIN recs : recs[k].mounted /\ recs[k].fs = g
      BY <2>2, <1>9, <1>17 DEF Tied
    <3>2. recs2[k] = recs[k]
      BY <3>1, <1>5, <1>10
    <3> QED BY <3>1, <3>2, <1>5
  <2> QED BY <2>1, <2>2
<1>18. Tied(m, recs2, ms2, lv2)
  <2>1. IsSeq(ms2) /\ lv2 = [g \in Ids |-> lv2[g]]
    BY <1>7, <1>9
  <2>2. /\ \A k \in DOMAIN recs2 : recs2[k].mounted => recs2[k].fs \in Ids /\ Served(m, recs2[k], lv2[recs2[k].fs])
        /\ \A k \in DOMAIN recs2 : recs2[k].mounted => \E j \in DOMAIN ms2 : ms2[j] = Point(recs2[k])
    BY <1>12
  <2>3. \A j \in DOMAIN ms2 : \E k \in DOMAIN recs2 : recs2[k].mounted /\ ms2[j] = Point(recs2[k])
    BY <1>13
  <2>4. \A j, k \in DOMAIN recs2 : j # k /\ recs2[j].mounted /\ recs2[k].mounted => recs2[j].fs # recs2[k].fs
    BY <1>14
  <2>5. \A j, k \in DOMAIN ms2 : j # k => ms2[j].path # ms2[k].path /\ ms2[j].fs # ms2[k].fs
    BY <1>16
  <2>6. \A g \in Ids : lv2[g] # Dead => \E k \in DOMAIN recs2 : recs2[k].mounted /\ recs2[k].fs = g
    BY <1>17
  <2> QED BY <2>1, <2>2, <2>3, <2>4, <2>5, <2>6 DEF Tied
<1> QED
  <2>1. \A k \in DOMAIN recs : recs2[k].name = recs[k].name
    BY <1>5, <1>1, <1>6
  <2> QED BY <2>1, <1>11, <1>18, <1>5, <1>a, <1>b, <1>c DEF TieStep

\* A record that goes takes its mount point and its file system object with it.
LEMMA UntieFacts ==
  ASSUME NEW m, NEW recs, NEW ms, NEW lv, Good(m, recs), Tied(m, recs, ms, lv),
         NEW i \in DOMAIN recs, NEW recs2, recs2 = Shifted(recs, i)
  PROVE  /\ Good(m, recs2)
         /\ ~recs[i].mounted => Tied(m, recs2, ms, lv)
         /\ recs[i].mounted =>
              \A lv2 : lv2 = [lv EXCEPT ![recs[i].fs] = Dead] =>
                \A h \in DOMAIN ms : ms[h].path = recs[i].path => Tied(m, recs2, Shifted(ms, h), lv2)
<1>1. /\ IsSeq(recs2) /\ DOMAIN recs2 = 1..Len(recs) - 1
      /\ \A j \in DOMAIN recs2 :
           \E k \in DOMAIN recs \ {i} : recs2[j] = recs[k] /\ k = IF j < i THEN j ELSE j + 1
      /\ \A k \in DOMAIN recs \ {i} : \E j \in DOMAIN recs2 : recs2[j] = recs[k]
  BY ShiftedFacts DEF Good
<1>2. DOMAIN recs = 1..Len(recs) /\ Len(recs) \in Nat
  BY SeqFacts DEF Good
<1>3. ASSUME NEW j \in DOMAIN recs2, NEW k \in DOMAIN recs2, j # k
      PROVE  \E a, b \in DOMAIN recs \ {i} : a # b /\ recs2[j] = recs[a] /\ recs2[k] = recs[b]
  <2>1. PICK a \in DOMAIN recs \ {i} : recs2[j] = recs[a] /\ a = IF j < i THEN j ELSE j + 1
    BY <1>1
  <2>2. PICK b \in DOMAIN recs \ {i} : recs2[k] = recs[b] /\ b = IF k < i THEN k ELSE k + 1
    BY <1>1
  <2>3. j \in Int /\ k \in Int /\ i \in Int
    BY <1>1, <1>2
  <2>4. a # b
    BY <2>1, <2>2, <2>3, <1>3
  <2> QED BY <2>1, <2>2, <2>4
<1>4. Good(m, recs2)
  <2>1. \A j \in DOMAIN recs2 : Proper(m, recs2[j])
    BY <1>1 DEF Good
  <2>2. \A j, k \in DOMAIN recs2 : j # k => recs2[j].name # recs2[k].name /\ recs2[j].path # recs2[k].path
    <3> SUFFICES ASSUME NEW j \in DOMAIN recs2, NEW k \in DOMAIN recs2, j # k
                 PROVE  recs2[j].name # recs2[k].name /\ recs2[j].path # recs2[k].path
      OBVIOUS
    <3>1. PICK a \in DOMAIN recs \ {i}, b \in DOMAIN recs \ {i} : a # b /\ recs2[j] = recs[a] /\ recs2[k] = recs[b]
      BY <1>3
    <3>2. recs[a].name # recs[b].name /\ recs[a].path # recs[b].path
      BY <3>1 DEF Good
    <3> QED BY <3>1, <3>2
  <2> QED BY <2>1, <2>2, <1>1 DEF Good
<1>5. \A j, k \in DOMAIN recs2 : j # k /\ recs2[j].mounted /\ recs2[k].mounted => recs2[j].fs # recs2[k].fs
  <2> SUFFICES ASSUME NEW j \in DOMAIN recs2, NEW k \in DOMAIN recs2, j # k, recs2[j].mounted, recs2[k].mounted
               PROVE  recs2[j].fs # recs2[k].fs
    OBVIOUS
  <2>1. PICK a \in DOMAIN recs \ {i}, b \in DOMAIN recs \ {i} : a # b /\ recs2[j] = recs[a] /\ recs2[k] = recs[b]
    BY <1>3
  <2>2. recs[a].fs # recs[b].fs
    BY <2>1 DEF Tied
  <2> QED BY <2>1, <2>2
<1>6. ASSUME ~recs[i].mounted PROVE Tied(m, recs2, ms, lv)
  <2>1. \A j \in DOMAIN recs2 : recs2[j].mounted => recs2[j].fs \in Ids /\ Served(m, recs2[j], lv[recs2[j].fs])
    BY <1>1 DEF Tied
  <2>2. \A j \in DOMAIN recs2 : recs2[j].mounted => \E k \in DOMAIN ms : ms[k] = Point(recs2[j])
    BY <1>1 DEF Tied
  <2>3. \A j \in DOMAIN ms : \E k \in DOMAIN recs2 : recs2[k].mounted /\ ms[j] = Point(recs2[k])
    <3> SUFFICES ASSUME NEW j \in DOMAIN ms PROVE \E k \in DOMAIN recs2 : recs2[k].mounted /\ ms[j] = Point(recs2[k])
      OBVIOUS
    <3>1. PICK a \in DOMAIN recs : recs[a].mounted /\ ms[j] = Point(recs[a])
      BY DEF Tied
    <3>2. PICK k \in DOMAIN recs2 : recs2[k] = recs[a]
      BY <3>1, <1>1, <1>6
    <3> QED BY <3>1, <3>2
  <2>4. \A f \in Ids : lv[f] # Dead => \E k \in DOMAIN recs2 : recs2[k].mounted /\ recs2[k].fs = f
    <3> SUFFICES ASSUME NEW f \in Ids, lv[f] # Dead PROVE \E k \in DOMAIN recs2 : recs2[k].mounted /\ recs2[k].fs = f
      OBVIOUS
    <3>1. PICK a \in DOMAIN recs : recs[a].mounted /\ recs[a].fs = f
      BY DEF Tied
    <3>2. PICK k \in DOMAIN recs2 : recs2[k] = recs[a]
      BY <3>1, <1>1, <1>6
    <3> QED BY <3>1, <3>2
  <2>5. /\ IsSeq(ms) /\ lv = [f \in Ids |-> lv[f]]
        /\ \A j, k \in DOMAIN ms : j # k => ms[j].path # ms[k].path /\ ms[j].fs # ms[k].fs
    BY DEF Tied
  <2> QED BY <2>1, <2>2, <2>3, <2>4, <2>5, <1>5 DEF Tied
<1>7. ASSUME recs[i].mounted, NEW lv2, lv2 = [lv EXCEPT ![recs[i].fs] = Dead],
             NEW h \in DOMAIN ms, ms[h].path = recs[i].path
      PROVE  Tied(m, recs2, Shifted(ms, h), lv2)
  <2>1. PICK ms2 : ms2 = Shifted(ms, h)
    OBVIOUS
  <2>2. PICK g : g = recs[i].fs
    OBVIOUS
  <2>3. IsSeq(ms) /\ DOMAIN ms = 1..Len(ms) /\ Len(ms) \in Nat
    BY SeqFacts DEF Tied
  <2>4. /\ IsSeq(ms2) /\ DOMAIN ms2 = 1..Len(ms) - 1
        /\ \A j \in DOMAIN ms2 : \E k \in DOMAIN ms \ {h} : ms2[j] = ms[k] /\ k = IF j < h THEN j ELSE j + 1
        /\ \A k \in DOMAIN ms \ {h} : \E j \in DOMAIN ms2 : ms2[j] = ms[k]
    <3>1. IsSeq(ms)
      BY DEF Tied
    <3>2. /\ IsSeq(Shifted(ms, h)) /\ DOMAIN Shifted(ms, h) = 1..Len(ms) - 1
          /\ \A j \in DOMAIN Shifted(ms, h) :
               \E k \in DOMAIN ms \ {h} : Shifted(ms, h)[j] = ms[k] /\ k = IF j < h THEN j ELSE j + 1
          /\ \A k \in DOMAIN ms \ {h} : \E j \in DOMAIN Shifted(ms, h) : Shifted(ms, h)[j] = ms[k]
      BY <3>1, ShiftedFacts
    <3> QED BY <3>2, <2>1
  <2>5. ms[h] = Point(recs[i])
    <3>1. PICK j \in DOMAIN ms : ms[j] = Point(recs[i])
      BY <1>7 DEF Tied
    <3>2. ms[j].path = recs[i].path
      BY <3>1 DEF Point
    <3>3. j = h
      BY <3>2, <1>7 DEF Tied
    <3> QED BY <3>1, <3>3
  <2>6. ASSUME NEW k \in DOMAIN ms \ {h} PROVE ms[k].fs # g /\ ms[k].path # recs[i].path
    <3>1. ms[h].fs = g /\ ms[h].path = recs[i].path
      BY <2>2, <2>5 DEF Point
    <3>2. ms[k].fs # ms[h].fs /\ ms[k].path # ms[h].path
      BY DEF Tied
    <3> QED BY <3>1, <3>2
  <2>7. DOMAIN lv = Ids /\ g \in Ids
    <3>1. lv = [f \in Ids |-> lv[f]]
      BY DEF Tied
    <3>2. DOMAIN lv = Ids
      BY <3>1
    <3>3. g \in Ids
      BY <1>7, <2>2 DEF Tied
    <3> QED BY <3>2, <3>3
  <2>8. lv2 = [f \in Ids |-> IF f = g THEN Dead ELSE lv[f]]
    BY <2>7, <2>2, <1>7
  <2>9. \A k \in DOMAIN recs \ {i} : recs[k].mounted => recs[k].fs # g /\ recs[k].fs \in Ids
    BY <1>7, <2>2 DEF Tied
  <2>10. \A j \in DOMAIN recs2 : recs2[j].mounted => recs2[j].fs \in Ids /\ Served(m, recs2[j], lv2[recs2[j].fs])
    <3> SUFFICES ASSUME NEW j \in DOMAIN recs2, recs2[j].mounted
                 PROVE  recs2[j].fs \in Ids /\ Served(m, recs2[j], lv2[recs2[j].fs])
      OBVIOUS
    <3>1. PICK k \in DOMAIN recs \ {i} : recs2[j] = recs[k]
      BY <1>1
    <3>2. Served(m, recs[k], lv[recs[k].fs])
      BY <3>1 DEF Tied
    <3>3. lv2[recs[k].fs] = lv[recs[k].fs]
      BY <2>8, <2>9, <3>1
    <3> QED BY <3>1, <3>2, <3>3, <2>9
  <2>11. \A j \in DOMAIN recs2 : recs2[j].mounted => \E k \in DOMAIN ms2 : ms2[k] = Point(recs2[j])
    <3> SUFFICES ASSUME NEW j \in DOMAIN recs2, recs2[j].mounted
                 PROVE  \E k \in DOMAIN ms2 : ms2[k] = Point(recs2[j])
      OBVIOUS
    <3>1. PICK a \in DOMAIN recs \ {i} : recs2[j] = recs[a]
      BY <1>1
    <3>2. PICK b \in DOMAIN ms : ms[b] = Point(recs[a])
      BY <3>1 DEF Tied
    <3>3. ms[b].path = recs[a].path
      BY <3>2 DEF Point
    <3>4. b # h
      BY <3>3, <1>7 DEF Good
    <3> QED BY <3>1, <3>2, <3>4, <2>4
  <2>12. \A j \in DOMAIN ms2 : \E k \in DOMAIN recs2 : recs2[k].mounted /\ ms2[j] = Point(recs2[k])
    <3> SUFFICES ASSUME NEW j \in DOMAIN ms2
                 PROVE  \E k \in DOMAIN recs2 : recs2[k].mounted /\ ms2[j] = Point(recs2[k])
      OBVIOUS
    <3>1. PICK b \in DOMAIN ms \ {h} : ms2[j] = ms[b]
      BY <2>4
    <3>2. PICK a \in DOMAIN recs : recs[a].mounted /\ ms[b] = Point(recs[a])
      BY DEF Tied
    <3>3. ms[b].path = recs[a].path
      BY <3>2 DEF Point
    <3>4. a # i
      BY <3>3, <2>6
    <3>5. PICK k \in DOMAIN recs2 : recs2[k] = recs[a]
      BY <3>4, <1>1
    <3> QED BY <3>1, <3>2, <3>5
  <2>13. \A j, k \in DOMAIN ms2 : j # k => ms2[j].path # ms2[k].path /\ ms2[j].fs # ms2[k].fs
    <3> SUFFICES ASSUME NEW j \in DOMAIN ms2, NEW k \in DOMAIN ms2, j # k
                 PROVE  ms2[j].path # ms2[k].path /\ ms2[j].fs # ms2[k].fs
      OBVIOUS
    <3>1. PICK a \in DOMAIN ms \ {h} : ms2[j] = ms[a] /\ a = IF j < h THEN j ELSE j + 1
      BY <2>4
    <3>2. PICK b \in DOMAIN ms \ {h} : ms2[k] = ms[b] /\ b = IF k < h THEN k ELSE k + 1
      BY <2>4
    <3>3. j \in Int /\ k \in Int /\ h \in Int
      BY <2>3, <2>4
    <3>4. a # b
      BY <3>1, <3>2, <3>3
    <3>5. ms[a].path # ms[b].path /\ ms[a].fs # ms[b].fs
      BY <3>4 DEF Tied
    <3> QED BY <3>1, <3>2, <3>5
  <2>14. \A f \in Ids : lv2[f] # Dead => \E k \in DOMAIN recs2 : recs2[k].mounted /\ recs2[k].fs = f
    <3> SUFFICES ASSUME NEW f \in Ids, lv2[f] # Dead PROVE \E k \in DOMAIN recs2 : recs2[k].mounted /\ recs2[k].fs = f
      OBVIOUS
    <3>1. f # g /\ lv[f] # Dead
      BY <2>8
    <3>2. PICK a \in DOMAIN recs : recs[a].mounted /\ recs[a].fs = f
      BY <3>1 DEF Tied
    <3>3. a # i
      BY <2>2, <3>1, <3>2
    <3>4. PICK k \in DOMAIN recs2 : recs2[k] = recs[a]
      BY <3>3, <1>1
    <3> QED BY <3>2, <3>4
  <2>15. IsSeq(ms2) /\ lv2 = [f \in Ids |-> lv2[f]]
    BY <2>4, <2>8
  <2> QED BY <2>1, <2>10, <2>11, <2>12, <2>13, <2>14, <2>15, <1>5 DEF Tied
<1> QED
  BY <1>4, <1>6, <1>7

\* What was seen of the mount points that stay is seen still.
LEMMA ShownShifted ==
  ASSUME NEW m, NEW recs, NEW ms, NEW lv, NEW ds, Tied(m, recs, ms, lv), ShownInRoot(m, ms, lv, ds),
         NEW h \in DOMAIN ms, NEW lv2, lv2 = [lv EXCEPT ![ms[h].fs] = Dead]
  PROVE  ShownInRoot(m, Shifted(ms, h), lv2, ds)
<1>1. PICK ms2 : ms2 = Shifted(ms, h)
  OBVIOUS
<1>2. IsSeq(ms) /\ DOMAIN ms = 1..Len(ms) /\ Len(ms) \in Nat
  BY SeqFacts DEF Tied
<1>3. /\ DOMAIN ms2 = 1..Len(ms) - 1
      /\ \A j \in DOMAIN ms2 : \E k \in DOMAIN ms \ {h} : ms2[j] = ms[k] /\ k = IF j < h THEN j ELSE j + 1
  <2>1. IsSeq(ms)
    BY DEF Tied
  <2>2. /\ IsSeq(Shifted(ms, h)) /\ DOMAIN Shifted(ms, h) = 1..Len(ms) - 1
        /\ \A j \in DOMAIN Shifted(ms, h) :
             \E k \in DOMAIN ms \ {h} : Shifted(ms, h)[j] = ms[k] /\ k = IF j < h THEN j ELSE j + 1
        /\ \A k \in DOMAIN ms \ {h} : \E j \in DOMAIN Shifted(ms, h) : Shifted(ms, h)[j] = ms[k]
    BY <2>1, ShiftedFacts
  <2> QED BY <2>2, <1>1
<1>4. ASSUME NEW k \in DOMAIN ms \ {h} PROVE lv2[ms[k].fs] = lv[ms[k].fs]
  <2>1. ms[k].fs # ms[h].fs
    BY DEF Tied
  <2>2. lv = [f \in Ids |-> lv[f]]
    BY DEF Tied
  <2> QED BY <2>1, <2>2
<1>5. ASSUME Plain(m), NEW j \in DOMAIN ms2, NEW k \in DOMAIN ms2, j < k, ms2[j].path = RootPath,
             lv2[ms2[j].fs].fat = "FAT32", InDir(ms2[k].path, RootPath)
      PROVE  <<lv2[ms2[j].fs].device, ms2[k].path>> \in ds
  <2>1. PICK a \in DOMAIN ms \ {h} : ms2[j] = ms[a] /\ a = IF j < h THEN j ELSE j + 1
    BY <1>3
  <2>2. PICK b \in DOMAIN ms \ {h} : ms2[k] = ms[b] /\ b = IF k < h THEN k ELSE k + 1
    BY <1>3
  <2>3. j \in Int /\ k \in Int /\ h \in Int
    BY <1>2, <1>3
  <2>4. a < b
    BY <2>1, <2>2, <2>3, <1>5
  <2>5. lv2[ms2[j].fs] = lv[ms[a].fs]
    BY <2>1, <1>4
  <2>6. <<lv[ms[a].fs].device, ms[b].path>> \in ds
    BY <1>5, <2>1, <2>2, <2>4, <2>5 DEF ShownInRoot
  <2> QED BY <2>2, <2>5, <2>6
<1>6. ShownInRoot(m, ms2, lv2, ds)
  BY <1>5 DEF ShownInRoot
<1> QED
  BY <1>1, <1>6

-----------------------------------------------------------------------------
(* The steps.                                                              *)

LEMMA RootIsPoint ==
  ASSUME machine \in Machines
  PROVE  PointOk(RootPath) /\ PointOk(SharedPath) /\ Len(RootPath) = 1 /\ Stem(RootPath) = 0
BY DEF PointOk, MountPaths, RootPath, SharedPath, Stem

LEMMA PointsFollow ==
  ASSUME Good(machine, records), Tied(machine, records, mounts, live)
  PROVE  PointsOk
<1>1. ASSUME NEW j \in DOMAIN mounts PROVE PointOk(mounts[j].path)
  <2>1. PICK i \in DOMAIN records : mounts[j] = Point(records[i])
    BY DEF Tied
  <2>2. mounts[j].path = records[i].path
    BY <2>1 DEF Point
  <2> QED BY <2>2 DEF Good, Proper, PointOk
<1> QED
  BY <1>1 DEF PointsOk, Tied

\* ensureMountPathExists makes the directory of a mount point in the root directory, if it
\* is served by a FAT32 volume.
LEMMA MakesDirectory ==
  ASSUME machine \in Machines, Plain(machine), PointsOk, IsSeq(mounts),
         NEW p, PointOk(p), \A k \in DOMAIN mounts : mounts[k].path # p, InDir(p, RootPath),
         NEW j \in DOMAIN mounts, mounts[j].path = RootPath, live[mounts[j].fs].fat = "FAT32"
  PROVE  <<live[mounts[j].fs].device, p>> \in EnsureMountPathExists(p, Len(p))
<1>1. Len(p) \in Nat /\ DOMAIN p = 1..Len(p) /\ IsSeq(p)
  BY PathFacts DEF PointOk
<1>2. Len(p) > 1 /\ \A k \in 1..Len(p) : p[k] = "/" <=> k = 1
  BY RootIsPoint DEF InDir
<1>3. SubSeq(p, 1, Len(p)) = p
  BY <1>1, SubSeqFull DEF IsSeq
<1>4. \A k \in DOMAIN mounts : ~SameText(mounts[k].path, p)
  BY DEF PointsOk, PointOk, Plain
<1>5. /\ Above(p) # {}
      /\ ResolvePath(p) = [fs |-> mounts[j].fs, rest |-> p]
  <2>1. Stem(mounts[j].path) + 1 = 1
    BY RootIsPoint
  <2>2. /\ Above(p) # {}
        /\ ResolvePath(p) = [fs |-> mounts[j].fs, rest |-> SubSeq(p, Stem(mounts[j].path) + 1, Len(p))]
    BY <1>1, <1>4, Resolves
  <2> QED BY <2>1, <2>2, <1>3
<1>6. ResolvePath(p).fs = mounts[j].fs /\ ResolvePath(p).rest = p
  BY <1>5
<1>7. Passes(p)
  <2>1. p # RootPath
    BY <1>2, RootIsPoint
  <2> QED BY <2>1, <1>5, <1>6 DEF Passes
<1>8. Partials(p) = {p}
  <2>1. ASSUME NEW k \in DOMAIN p, p[k] # "/", k = Len(p) \/ p[k + 1] = "/"
        PROVE  k = Len(p)
    <3>1. k \in 1..Len(p) /\ k # 1 /\ k \in Int
      BY <2>1, <1>1, <1>2
    <3>2. k # Len(p) => k + 1 \in 1..Len(p) /\ k + 1 # 1
      BY <3>1, <1>1
    <3> QED BY <2>1, <3>2, <1>2
  <2>2. Len(p) \in DOMAIN p /\ p[Len(p)] # "/"
    BY <1>1, <1>2
  <2> QED BY <2>1, <2>2, <1>3 DEF Partials
<1>9. Place(p) \in EnsureMountPathExists(p, Len(p))
  <2>1. Len(p) <= Len(p)
    BY <1>1
  <2> QED BY <2>1, <1>7, <1>8 DEF EnsureMountPathExists
<1> QED
  BY <1>6, <1>9 DEF Place

LEMMA MountStep ==
  ASSUME machine \in Machines, NEW recs, Good(machine, recs), Tied(machine, recs, mounts, live), PointsOk,
         NEW i \in DOMAIN recs, ~recs[i].mounted, NEW outcome \in Outcomes, MountRecord(recs, i, outcome)
  PROVE  /\ Good(machine, records') /\ Tied(machine, records', mounts', live')
         /\ outcome = "fine" /\ ShownInRoot(machine, mounts, live, dirs) => ShownInRoot(machine, mounts', live', dirs')
         /\ DOMAIN records' = DOMAIN recs /\ \A k \in DOMAIN recs : records'[k].name = recs[k].name
<1>1. PICK b : b = Boot(machine, recs[i].device)
  OBVIOUS
<1>2. PICK fat : fat = CreateFileSystem(recs[i].kind, b)
  OBVIOUS
<1>3. CASE outcome = "unread" \/ ~Mountable(fat, b)
  <2>1. records' = recs /\ UNCHANGED <<mounts, live, dirs>>
    BY <1>1, <1>2, <1>3 DEF MountRecord
  <2> QED BY <2>1
<1>4. CASE ~(outcome = "unread" \/ ~Mountable(fat, b))
  <2>1. PICK v : v = [device |-> recs[i].device, fat |-> fat, data |-> DataStart(fat, b)]
    OBVIOUS
  <2>2. /\ \E f \in Ids : live[f] = Dead
        /\ live' = [live EXCEPT ![NewId] = v]
        /\ \E upto \in IF outcome = "cut" THEN 0..Len(recs[i].path) - 1 ELSE {Len(recs[i].path)} :
              dirs' = EnsureMountPathExists(recs[i].path, upto)
        /\ mounts' = Append(mounts, [path |-> recs[i].path, fs |-> NewId])
        /\ records' = [recs EXCEPT ![i].fs = NewId, ![i].mounted = TRUE]
    BY <1>1, <1>2, <1>4, <2>1 DEF MountRecord
  <2>3. PICK f : f = NewId
    OBVIOUS
  <2>4. f \in Ids /\ live[f] = Dead
    BY <2>2, <2>3 DEF NewId
  <2>5. Served(machine, recs[i], v)
    BY <1>1, <1>2, <1>4, <2>1 DEF Served, FatOf
  <2>6. PICK recs2, ms2, lv2 : recs2 = records' /\ ms2 = mounts' /\ lv2 = live'
    OBVIOUS
  <2>7. /\ recs2 = [recs EXCEPT ![i].fs = f, ![i].mounted = TRUE]
        /\ ms2 = Append(mounts, [path |-> recs[i].path, fs |-> f])
        /\ lv2 = [live EXCEPT ![f] = v]
    BY <2>2, <2>3, <2>6
  <2>8. /\ Good(machine, recs2) /\ Tied(machine, recs2, ms2, lv2)
        /\ DOMAIN recs2 = DOMAIN recs /\ \A k \in DOMAIN recs : recs2[k].name = recs[k].name
    <3>1. TieStep(machine, recs, mounts, live, i, f, v)
      BY <2>4, <2>5, TieFacts
    <3> QED BY <2>7, <3>1 DEF TieStep
  <2>9. ASSUME outcome = "fine", ShownInRoot(machine, mounts, live, dirs)
        PROVE  ShownInRoot(machine, ms2, lv2, dirs')
    <3>1. PICK p : p = recs[i].path
      OBVIOUS
    <3>2. dirs' = EnsureMountPathExists(p, Len(p)) /\ dirs \subseteq dirs'
      <4>1. dirs' = EnsureMountPathExists(p, Len(p))
        BY <2>2, <2>9, <3>1
      <4> QED BY <4>1 DEF EnsureMountPathExists
    <3>3. PointOk(p)
      BY <3>1 DEF Good, Proper, PointOk
    <3>4. IsSeq(mounts) /\ DOMAIN mounts = 1..Len(mounts) /\ Len(mounts) \in Nat
      BY SeqFacts DEF Tied
    <3>5. /\ DOMAIN ms2 = DOMAIN mounts \cup {Len(mounts) + 1}
          /\ \A k \in DOMAIN mounts : ms2[k] = mounts[k]
          /\ ms2[Len(mounts) + 1].path = p
      <4>1. PICK e : e = [path |-> recs[i].path, fs |-> f]
        OBVIOUS
      <4>2. ms2 = Append(mounts, e) /\ e.path = p
        BY <4>1, <2>7, <3>1
      <4>3. /\ IsSeq(Append(mounts, e)) /\ Len(Append(mounts, e)) = Len(mounts) + 1
            /\ \A k \in 1..Len(mounts) : Append(mounts, e)[k] = mounts[k]
            /\ Append(mounts, e)[Len(mounts) + 1] = e
        BY <3>4, AppendFacts
      <4>4. DOMAIN ms2 = 1..Len(mounts) + 1
        BY <4>2, <4>3, SeqFacts
      <4>5. 1..Len(mounts) + 1 = (1..Len(mounts)) \cup {Len(mounts) + 1}
        BY <3>4
      <4> QED BY <4>2, <4>3, <4>4, <4>5, <3>4
    <3>6. ASSUME NEW k \in DOMAIN mounts PROVE mounts[k].path # p
      <4>1. PICK a \in DOMAIN recs : recs[a].mounted /\ mounts[k] = Point(recs[a])
        BY DEF Tied
      <4>2. mounts[k].path = recs[a].path /\ a # i
        BY <4>1 DEF Point
      <4> QED BY <4>2, <3>1 DEF Good
    <3>7. ASSUME NEW k \in DOMAIN mounts, live[mounts[k].fs].fat = "FAT32" \/ lv2[mounts[k].fs].fat = "FAT32"
          PROVE  lv2[mounts[k].fs] = live[mounts[k].fs]
      <4>1. PICK a \in DOMAIN recs : recs[a].mounted /\ mounts[k] = Point(recs[a])
        BY DEF Tied
      <4>2. mounts[k].fs = recs[a].fs
        BY <4>1 DEF Point
      <4>3. recs[a].fs \in Ids /\ Served(machine, recs[a], live[recs[a].fs])
        BY <4>1 DEF Tied
      <4>4. live[recs[a].fs].fat \in Fats
        BY <4>3 DEF Served, Mountable
      <4>5. recs[a].fs # f
        BY <4>4, <2>4 DEF Dead, Fats
      <4>6. live = [g \in Ids |-> live[g]]
        BY DEF Tied
      <4> QED BY <4>2, <4>3, <4>5, <4>6, <2>7
    <3>8. ASSUME Plain(machine), NEW j \in DOMAIN ms2, NEW k \in DOMAIN ms2, j < k, ms2[j].path = RootPath,
                 lv2[ms2[j].fs].fat = "FAT32", InDir(ms2[k].path, RootPath)
          PROVE  <<lv2[ms2[j].fs].device, ms2[k].path>> \in dirs'
      <4>1. j \in DOMAIN mounts /\ ms2[j] = mounts[j]
        <5>1. j # Len(mounts) + 1
          <6>1. j \in Int /\ k \in Int /\ Len(mounts) \in Int /\ k <= Len(mounts) + 1
            BY <3>4, <3>5
          <6> QED BY <6>1, <3>8
        <5> QED BY <5>1, <3>5
      <4>2. lv2[mounts[j].fs] = live[mounts[j].fs]
        BY <4>1, <3>7, <3>8
      <4>3. CASE k \in DOMAIN mounts
        <5>1. <<live[mounts[j].fs].device, mounts[k].path>> \in dirs
          BY <4>1, <4>2, <4>3, <2>9, <3>5, <3>8 DEF ShownInRoot
        <5> QED BY <5>1, <4>1, <4>2, <4>3, <3>2, <3>5
      <4>4. CASE k = Len(mounts) + 1
        <5>1. ms2[k].path = p
          BY <4>4, <3>5
        <5>2. <<live[mounts[j].fs].device, p>> \in EnsureMountPathExists(p, Len(p))
          BY <5>1, <4>1, <4>2, <3>3, <3>4, <3>6, <3>8, MakesDirectory
        <5> QED BY <5>1, <5>2, <4>1, <4>2, <3>2
      <4> QED BY <4>3, <4>4, <3>5
    <3> QED BY <3>8 DEF ShownInRoot
  <2> QED BY <2>6, <2>8, <2>9
<1> QED
  BY <1>3, <1>4

\* What the volume manager keeps whatever is registered, mounted or taken away.
VolumesOk == Good(machine, records) /\ Tied(machine, records, mounts, live)
\* A step that keeps that, and what is seen in the root directory unless something failed.
Keeps ==
  /\ VolumesOk'
  /\ faults' = 0 /\ (faults = 0 => ShownInRoot(machine, mounts, live, dirs)) => ShownInRoot(machine', mounts', live', dirs')

LEMMA RegisterStep ==
  ASSUME machine \in Machines, machine' = machine, VolumesOk, faults \in Nat,
         NEW name, NEW path \in MountPaths(machine), path # <<>>, NEW kind, NEW device,
         \A fs, mounted : Source(machine, [name |-> name, path |-> path, kind |-> kind, device |-> device,
                                           fs |-> fs, mounted |-> mounted]),
         NEW outcome \in Outcomes, Register(name, path, kind, device, outcome),
         faults' \in Nat, faults' = 0 => faults = 0 /\ (outcome = "fine" \/ ~Valid(name, path) \/ Taken(name, path))
  PROVE  /\ Keeps
         /\ Valid(name, path) /\ records = <<>> => \E i \in DOMAIN records' : records'[i].name = name
<1>2. CASE ~Valid(name, path) \/ Taken(name, path)
  <2>1. UNCHANGED <<records, mounts, live, dirs>>
    BY <1>2 DEF Register
  <2>2. records = <<>> => ~Taken(name, path)
    BY DEF Taken
  <2> QED BY <1>2, <2>1, <2>2 DEF Keeps, VolumesOk
<1>3. CASE Valid(name, path) /\ ~Taken(name, path)
  <2>1. PICK r : r = Record(name, path, kind, device)
    OBVIOUS
  <2>2. PICK recs : recs = Append(records, r)
    OBVIOUS
  <2>3. MountRecord(recs, Len(records) + 1, outcome)
    BY <1>3, <2>1, <2>2 DEF Register
  <2>4. IsSeq(records) /\ DOMAIN records = 1..Len(records) /\ Len(records) \in Nat
    BY SeqFacts DEF VolumesOk, Good
  <2>5. /\ IsSeq(recs) /\ DOMAIN recs = DOMAIN records \cup {Len(records) + 1} /\ Len(records) + 1 \notin DOMAIN records
        /\ \A k \in DOMAIN records : recs[k] = records[k]
        /\ recs[Len(records) + 1] = r
    <3>1. /\ IsSeq(Append(records, r)) /\ Len(Append(records, r)) = Len(records) + 1
          /\ \A k \in 1..Len(records) : Append(records, r)[k] = records[k]
          /\ Append(records, r)[Len(records) + 1] = r
      BY <2>4, AppendFacts
    <3>2. DOMAIN recs = 1..Len(records) + 1
      BY <2>2, <3>1, SeqFacts
    <3>3. 1..Len(records) + 1 = (1..Len(records)) \cup {Len(records) + 1} /\ Len(records) + 1 \notin 1..Len(records)
      BY <2>4
    <3> QED BY <2>2, <2>4, <3>1, <3>2, <3>3
  <2>6. /\ r.name = name /\ r.path = path /\ r.device = device /\ ~r.mounted
        /\ r = [name |-> name, path |-> path, kind |-> kind, device |-> device, fs |-> 0, mounted |-> FALSE]
    BY <2>1 DEF Record
  <2>7. Proper(machine, r)
    <3>1. Source(machine, r)
      BY <2>6
    <3>2. /\ r = [name |-> r.name, path |-> r.path, kind |-> r.kind, device |-> r.device, fs |-> r.fs, mounted |-> r.mounted]
          /\ r.mounted \in BOOLEAN
      BY <2>6
    <3>3. r.path \in MountPaths(machine) /\ r.path # <<>> /\ r.path[1] = "/"
      BY <1>3, <2>6 DEF Valid
    <3> QED BY <3>1, <3>2, <3>3 DEF Proper
  <2>8. ASSUME NEW k \in DOMAIN records PROVE records[k].name # name /\ records[k].path # path
    BY <1>3 DEF Taken
  <2>9. Good(machine, recs)
    <3>1. \A k \in DOMAIN recs : Proper(machine, recs[k])
      BY <2>5, <2>7 DEF VolumesOk, Good
    <3>2. ASSUME NEW j \in DOMAIN recs, NEW k \in DOMAIN recs, j # k
          PROVE  recs[j].name # recs[k].name /\ recs[j].path # recs[k].path
      <4>1. CASE j \in DOMAIN records /\ k \in DOMAIN records
        <5>1. records[j].name # records[k].name /\ records[j].path # records[k].path
          BY <4>1, <3>2 DEF VolumesOk, Good
        <5> QED BY <5>1, <4>1, <2>5
      <4>2. CASE j = Len(records) + 1 \/ k = Len(records) + 1
        BY <4>2, <3>2, <2>5, <2>6, <2>8
      <4> QED BY <4>1, <4>2, <2>5
    <3> QED BY <3>1, <3>2, <2>5 DEF Good
  <2>10. Tied(machine, recs, mounts, live)
    <3>1. \A k \in DOMAIN recs : recs[k].mounted => k \in DOMAIN records /\ recs[k] = records[k]
      BY <2>5, <2>6
    <3>2. Tied(machine, records, mounts, live)
      BY DEF VolumesOk
    <3>3. /\ \A k \in DOMAIN recs : recs[k].mounted =>
               /\ recs[k].fs \in Ids /\ Served(machine, recs[k], live[recs[k].fs])
               /\ \E j \in DOMAIN mounts : mounts[j] = Point(recs[k])
          /\ \A j, k \in DOMAIN recs : j # k /\ recs[j].mounted /\ recs[k].mounted => recs[j].fs # recs[k].fs
      BY <3>1, <3>2 DEF Tied
    <3>4. \A j \in DOMAIN mounts : \E k \in DOMAIN recs : recs[k].mounted /\ mounts[j] = Point(recs[k])
      <4> SUFFICES ASSUME NEW j \in DOMAIN mounts PROVE \E k \in DOMAIN recs : recs[k].mounted /\ mounts[j] = Point(recs[k])
        OBVIOUS
      <4>1. PICK k \in DOMAIN records : records[k].mounted /\ mounts[j] = Point(records[k])
        BY <3>2 DEF Tied
      <4> QED BY <4>1, <2>5
    <3>5. \A f \in Ids : live[f] # Dead => \E k \in DOMAIN recs : recs[k].mounted /\ recs[k].fs = f
      <4> SUFFICES ASSUME NEW f \in Ids, live[f] # Dead PROVE \E k \in DOMAIN recs : recs[k].mounted /\ recs[k].fs = f
        OBVIOUS
      <4>1. PICK k \in DOMAIN records : records[k].mounted /\ records[k].fs = f
        BY <3>2 DEF Tied
      <4> QED BY <4>1, <2>5
    <3>6. /\ IsSeq(mounts) /\ live = [f \in Ids |-> live[f]]
          /\ \A j, k \in DOMAIN mounts : j # k => mounts[j].path # mounts[k].path /\ mounts[j].fs # mounts[k].fs
      BY <3>2 DEF Tied
    <3> QED BY <3>3, <3>4, <3>5, <3>6 DEF Tied
  <2>11. PICK i : i = Len(records) + 1
    OBVIOUS
  <2>12. i \in DOMAIN recs /\ ~recs[i].mounted /\ recs[i].name = name
    BY <2>5, <2>6, <2>11
  <2>13. MountRecord(recs, i, outcome) /\ PointsOk
    BY <2>3, <2>11, PointsFollow DEF VolumesOk
  <2>14. /\ Good(machine, records') /\ Tied(machine, records', mounts', live')
         /\ outcome = "fine" /\ ShownInRoot(machine, mounts, live, dirs) => ShownInRoot(machine, mounts', live', dirs')
         /\ DOMAIN records' = DOMAIN recs /\ \A k \in DOMAIN recs : records'[k].name = recs[k].name
    BY <2>9, <2>10, <2>12, <2>13, MountStep
  <2>15. faults' = 0 => outcome = "fine"
    BY <1>3
  <2>16. records'[i].name = name /\ i \in DOMAIN records'
    BY <2>12, <2>14
  <2> QED BY <2>14, <2>15, <2>16 DEF Keeps, VolumesOk
<1> QED
  BY <1>2, <1>3

\* mountRecord on a record that waits.
LEMMA RetryStep ==
  ASSUME machine \in Machines, machine' = machine, VolumesOk, faults \in Nat,
         NEW i \in DOMAIN records, ~records[i].mounted,
         NEW outcome \in Outcomes, MountRecord(records, i, outcome), Counted(outcome # "fine")
  PROVE  Keeps /\ faults' \in Nat
<1>1. faults' \in Nat /\ (faults' = 0 => faults = 0 /\ outcome = "fine")
  BY DEF Counted
<1>2. PICK recs : recs = records
  OBVIOUS
<1>3. /\ Good(machine, recs) /\ Tied(machine, recs, mounts, live) /\ PointsOk
      /\ i \in DOMAIN recs /\ ~recs[i].mounted /\ MountRecord(recs, i, outcome)
  BY <1>2, PointsFollow DEF VolumesOk
<1>4. /\ Good(machine, records') /\ Tied(machine, records', mounts', live')
      /\ outcome = "fine" /\ ShownInRoot(machine, mounts, live, dirs) => ShownInRoot(machine, mounts', live', dirs')
  BY <1>3, MountStep
<1> QED
  BY <1>1, <1>4 DEF Keeps, VolumesOk

\* unregisterVolume.
LEMMA RemovalStep ==
  ASSUME machine \in Machines, machine' = machine, VolumesOk, faults \in Nat,
         NEW name, UnregisterVolume(name)
  PROVE  Keeps
<1>1. PICK i : i = IndexOf(name)
  OBVIOUS
<1>2. i \in DOMAIN records
  BY <1>1 DEF IndexOf, UnregisterVolume
<1>3. PICK r, recs : r = records[i] /\ recs = records
  OBVIOUS
<1>4. /\ records' = Shifted(records, i) /\ dirs' = dirs /\ faults' = faults
      /\ IF r.mounted THEN mounts' = Unmounted(r.path) /\ live' = [live EXCEPT ![r.fs] = Dead]
         ELSE UNCHANGED <<mounts, live>>
  BY <1>1, <1>3 DEF UnregisterVolume
<1>5. Good(machine, recs) /\ Tied(machine, recs, mounts, live) /\ i \in DOMAIN recs /\ r = recs[i]
  BY <1>2, <1>3 DEF VolumesOk
<1>6. PICK recs2, ms2, lv2 : recs2 = records' /\ ms2 = mounts' /\ lv2 = live'
  OBVIOUS
<1>7. /\ Good(machine, recs2)
      /\ ~r.mounted => Tied(machine, recs2, mounts, live)
      /\ r.mounted =>
           \A l : l = [live EXCEPT ![r.fs] = Dead] =>
             \A h \in DOMAIN mounts : mounts[h].path = r.path => Tied(machine, recs2, Shifted(mounts, h), l)
  <2>1. recs2 = Shifted(recs, i)
    BY <1>3, <1>4, <1>6
  <2>2. /\ Good(machine, recs2)
        /\ ~recs[i].mounted => Tied(machine, recs2, mounts, live)
        /\ recs[i].mounted =>
             \A l : l = [live EXCEPT ![recs[i].fs] = Dead] =>
               \A h \in DOMAIN mounts : mounts[h].path = recs[i].path => Tied(machine, recs2, Shifted(mounts, h), l)
    BY <1>5, <2>1, UntieFacts
  <2> QED BY <2>2, <1>5
<1>8. CASE ~r.mounted
  <2>1. UNCHANGED <<mounts, live>>
    BY <1>4, <1>8
  <2> QED BY <1>4, <1>6, <1>7, <1>8, <2>1 DEF Keeps, VolumesOk
<1>9. CASE r.mounted
  <2>1. PICK h \in DOMAIN mounts : mounts[h] = Point(r)
    BY <1>5, <1>9 DEF Tied
  <2>2. mounts[h].path = r.path /\ mounts[h].fs = r.fs
    BY <2>1 DEF Point
  <2>3. {k \in DOMAIN mounts : mounts[k].path = r.path} = {h}
    BY <1>5, <2>2 DEF Tied
  <2>4. FirstOf({h}) = h
    <3>1. h \in Nat
      BY <1>5, SeqFacts DEF Tied
    <3> QED BY <3>1, FirstOfFacts
  <2>5. ms2 = Shifted(mounts, h) /\ lv2 = [live EXCEPT ![r.fs] = Dead]
    BY <1>4, <1>6, <1>9, <2>3, <2>4 DEF Unmounted
  <2>6. Tied(machine, recs2, ms2, lv2)
    BY <1>7, <1>9, <2>2, <2>5
  <2>7. ShownInRoot(machine, mounts, live, dirs) => ShownInRoot(machine, ms2, lv2, dirs)
    <3> SUFFICES ASSUME ShownInRoot(machine, mounts, live, dirs) PROVE ShownInRoot(machine, ms2, lv2, dirs)
      OBVIOUS
    <3>1. lv2 = [live EXCEPT ![mounts[h].fs] = Dead]
      BY <2>2, <2>5
    <3>2. ShownInRoot(machine, Shifted(mounts, h), lv2, dirs)
      BY <1>5, <3>1, ShownShifted
    <3> QED BY <3>2, <2>5
  <2> QED BY <1>4, <1>6, <1>7, <2>6, <2>7 DEF Keeps, VolumesOk
<1> QED
  BY <1>8, <1>9

VolumesInv ==
  /\ machine \in Machines /\ cursor \in Nat \ {0} /\ faults \in Nat
  /\ VolumesOk
  /\ faults = 0 => ShownInRoot(machine, mounts, live, dirs)
  /\ stage = "ramdisk" => records = <<>>
  /\ stage = "retry" => \E i \in DOMAIN records : records[i].name = "QFS_RAMDISK0"

LEMMA RamdiskModuleFacts ==
  ASSUME NEW m \in Machines, RamdiskModule(m) # 0
  PROVE  /\ RamdiskModule(m) \in DOMAIN m.modules
         /\ Tagged(m) # {} => m.modules[RamdiskModule(m)].tag = "ramdisk"
<1>1. Len(m.modules) \in Nat /\ DOMAIN m.modules = 1..Len(m.modules)
  BY MountsAssumption
<1>2. CASE Tagged(m) # {}
  <2>1. FirstOf(Tagged(m)) \in Tagged(m)
    <3>1. Tagged(m) \in SUBSET Nat
      BY <1>1 DEF Tagged
    <3> QED BY <3>1, <1>2, FirstOfFacts
  <2> QED BY <1>2, <2>1 DEF RamdiskModule, Tagged
<1>3. CASE Tagged(m) = {}
  <2>1. RamdiskModule(m) = 1 /\ Len(m.modules) # 0
    BY <1>3 DEF RamdiskModule
  <2> QED BY <2>1, <1>1, <1>3
<1> QED
  BY <1>2, <1>3

LEMMA VolumesInit == MountsInit => VolumesInv
<1> SUFFICES ASSUME MountsInit PROVE VolumesInv
  OBVIOUS
<1>1. IsSeq(<<>>) /\ DOMAIN <<>> = {}
  <2>1. <<>> \in Seq(BOOLEAN) /\ Len(<<>>) = 0
    BY EmptySeq
  <2>2. IsSeq(<<>>)
    BY <2>1, SeqIsSeq
  <2>3. DOMAIN <<>> = 1..0
    BY <2>1, <2>2, SeqFacts
  <2> QED BY <2>2, <2>3
<1>2. Good(machine, records) /\ Tied(machine, records, mounts, live)
  <2>1. records = <<>> /\ mounts = <<>> /\ live = [f \in Ids |-> Dead]
    BY DEF MountsInit
  <2>2. live = [f \in Ids |-> live[f]] /\ \A f \in Ids : live[f] = Dead
    BY <2>1
  <2> QED BY <1>1, <2>1, <2>2 DEF Good, Tied
<1>3. ShownInRoot(machine, mounts, live, dirs)
  BY <1>1 DEF MountsInit, ShownInRoot
<1> QED
  BY <1>2, <1>3 DEF MountsInit, VolumesInv, VolumesOk

LEMMA VolumesStep == VolumesInv /\ [MountsNext]_volumes => VolumesInv'
<1> SUFFICES ASSUME VolumesInv, [MountsNext]_volumes PROVE VolumesInv'
  OBVIOUS
<1>0. machine \in Machines /\ faults \in Nat /\ VolumesOk /\ cursor \in Nat \ {0}
      /\ (faults = 0 => ShownInRoot(machine, mounts, live, dirs))
  BY DEF VolumesInv
<1>00. DOMAIN records = 1..Len(records) /\ Len(records) \in Nat
  BY <1>0, SeqFacts DEF VolumesOk, Good
<1>k. ASSUME Keeps, machine' = machine, cursor' \in Nat \ {0}, faults' \in Nat, stage' \notin {"ramdisk", "retry"}
      PROVE  VolumesInv'
  BY <1>0, <1>k DEF Keeps, VolumesInv
<1>u. ASSUME UNCHANGED <<records, mounts, live, dirs, faults, machine>> PROVE Keeps
  BY <1>0, <1>u DEF Keeps, VolumesOk
<1>1. ASSUME NEW outcome \in Outcomes, RegisterRamdisk(outcome) PROVE VolumesInv'
  <2>1. machine' = machine /\ cursor' = cursor /\ records = <<>> /\ faults' \in Nat /\ (faults' = 0 => faults = 0)
    BY <1>0, <1>1 DEF RegisterRamdisk, VolumesInv, Counted
  <2>2. CASE HasRamdisk(machine)
    <3>1. PICK path, device : path = RootPath /\ device = ModuleDevice(machine, RamdiskModule(machine))
      OBVIOUS
    <3>2. /\ Register("QFS_RAMDISK0", path, "FAT32", device, outcome) /\ stage' = "retry"
          /\ faults' = 0 => outcome = "fine"
      BY <1>0, <1>1, <2>2, <3>1 DEF RegisterRamdisk, Counted
    <3>3. path \in MountPaths(machine) /\ path # <<>>
      BY <1>0, <3>1, RootIsPoint DEF PointOk
    <3>4. \A fs, mounted : Source(machine, [name |-> "QFS_RAMDISK0", path |-> path, kind |-> "FAT32", device |-> device,
                                            fs |-> fs, mounted |-> mounted])
      <4>1. device.on = "module" /\ device.k = RamdiskModule(machine)
        BY <3>1 DEF ModuleDevice, Device
      <4>2. device.k \in DOMAIN machine.modules
        BY <4>1, <2>2, <1>0, RamdiskModuleFacts DEF HasRamdisk
      <4> QED BY <4>1, <4>2 DEF Source
    <3>5. Valid("QFS_RAMDISK0", path)
      BY <3>1, MountsAssumption DEF Valid, RootPath
    <3>6. Keeps /\ \E i \in DOMAIN records' : records'[i].name = "QFS_RAMDISK0"
      BY <1>0, <2>1, <3>2, <3>3, <3>4, <3>5, RegisterStep
    <3> QED BY <1>0, <2>1, <3>2, <3>6 DEF Keeps, VolumesInv
  <2>3. CASE ~HasRamdisk(machine)
    <3>1. stage' = "ports" /\ UNCHANGED <<records, mounts, live, dirs>>
      BY <1>1, <2>3 DEF RegisterRamdisk
    <3> QED BY <1>0, <2>1, <3>1 DEF VolumesOk, VolumesInv
  <2> QED BY <2>2, <2>3
<1>2. ASSUME NEW outcome \in Outcomes, NEW setting \in BOOLEAN, MountRamdisk(outcome, setting) PROVE VolumesInv'
  <2>1. /\ machine' = machine /\ cursor' = cursor /\ stage' = "ports" /\ stage = "retry"
        /\ Counted(outcome # "fine" /\ ~IsMounted("QFS_RAMDISK0"))
    BY <1>2 DEF MountRamdisk
  <2>2. faults' \in Nat /\ (faults' = 0 => faults = 0)
    BY <1>0, <2>1 DEF Counted
  <2>3. CASE IsMounted("QFS_RAMDISK0")
    <3>1. UNCHANGED <<records, mounts, live, dirs>>
      BY <1>2, <2>3 DEF MountRamdisk
    <3> QED BY <1>0, <2>1, <2>2, <3>1 DEF VolumesOk, VolumesInv
  <2>4. CASE ~IsMounted("QFS_RAMDISK0")
    <3>1. PICK i : i = IndexOf("QFS_RAMDISK0")
      OBVIOUS
    <3>2. i \in DOMAIN records /\ records[i].name = "QFS_RAMDISK0"
      BY <2>1, <3>1 DEF VolumesInv, IndexOf
    <3>3. ~records[i].mounted
      BY <2>4, <3>2 DEF IsMounted
    <3>4. MountRecord(records, i, outcome) /\ Counted(outcome # "fine")
      BY <1>2, <2>1, <2>4, <3>1 DEF MountRamdisk, Counted
    <3>5. Keeps
      BY <1>0, <2>1, <3>2, <3>3, <3>4, RetryStep
    <3> QED BY <1>0, <1>k, <2>1, <2>2, <3>5
  <2> QED BY <2>3, <2>4
<1>3. ASSUME NEW outcome \in Outcomes, NEW bad \in SUBSET (0..4), ProbePort(bad, outcome) PROVE VolumesInv'
  <2>1. PICK window : window = FindFatPartition(machine.disks[cursor], bad)
    OBVIOUS
  <2>2. /\ Counted(bad # {} \/ (outcome # "fine" /\ window.n # 0)) /\ machine' = machine /\ cursor <= Len(machine.disks)
        /\ IF window.n = 0 THEN cursor' = cursor + 1 /\ UNCHANGED <<stage, records, mounts, live, dirs>>
           ELSE /\ Register("QFS_SHARED", SharedPath, "auto", Device("port", cursor, window.from, window.n), outcome)
                /\ stage' = "pending" /\ cursor' = 1
    BY <1>3, <2>1 DEF ProbePort
  <2>3. faults' \in Nat /\ (faults' = 0 => faults = 0) /\ stage = "ports"
    BY <1>0, <1>3, <2>2 DEF Counted, ProbePort
  <2>4. CASE window.n = 0
    <3>1. UNCHANGED <<stage, records, mounts, live, dirs>> /\ cursor' \in Nat \ {0}
      BY <1>0, <2>2, <2>4
    <3> QED BY <1>0, <2>2, <2>3, <3>1 DEF VolumesOk, VolumesInv
  <2>5. CASE window.n # 0
    <3>1. PICK path, device : path = SharedPath /\ device = Device("port", cursor, window.from, window.n)
      OBVIOUS
    <3>2. Register("QFS_SHARED", path, "auto", device, outcome) /\ stage' = "pending" /\ cursor' = 1
      BY <2>2, <2>5, <3>1
    <3>3. path \in MountPaths(machine) /\ path # <<>>
      BY <1>0, <3>1, RootIsPoint DEF PointOk
    <3>4. \A fs, mounted : Source(machine, [name |-> "QFS_SHARED", path |-> path, kind |-> "auto", device |-> device,
                                            fs |-> fs, mounted |-> mounted])
      <4>1. cursor \in DOMAIN machine.disks
        BY <1>0, <2>2, MountsAssumption
      <4>2. device.on = "port" /\ device.k = cursor
        BY <3>1 DEF Device
      <4> QED BY <4>1, <4>2 DEF Source
    <3>5. faults' = 0 => outcome = "fine"
      BY <2>2, <2>5, <1>0 DEF Counted
    <3>6. Keeps
      BY <1>0, <2>2, <2>3, <3>2, <3>3, <3>4, <3>5, RegisterStep
    <3> QED BY <1>k, <2>2, <2>3, <3>2, <3>6
  <2> QED BY <2>4, <2>5
<1>4. CASE PortsProbed
  <2>1. UNCHANGED <<records, mounts, live, dirs, faults, machine>> /\ stage' = "pending" /\ cursor' = 1
    BY <1>4 DEF PortsProbed
  <2> QED BY <1>0, <1>k, <1>u, <2>1
<1>5. ASSUME NEW outcome \in Outcomes, ProbeModule(outcome) PROVE VolumesInv'
  <2>1. PICK m : m = machine.modules[cursor]
    OBVIOUS
  <2>2. /\ stage = "modules" /\ cursor <= Len(machine.modules) /\ cursor' = cursor + 1
        /\ machine' = machine /\ stage' = stage
        /\ IF m.size # 0 /\ ParseDescriptor(m)
           THEN /\ Counted(outcome # "fine" /\ Valid(m.name, m.path) /\ ~Taken(m.name, m.path))
                /\ Register(m.name, m.path, Kind(m.token), ModuleDevice(machine, cursor), outcome)
           ELSE UNCHANGED <<records, mounts, live, dirs, faults>>
    BY <1>5, <2>1 DEF ProbeModule
  <2>3. cursor' \in Nat \ {0} /\ cursor \in DOMAIN machine.modules
    BY <1>0, <2>2, MountsAssumption
  <2>4. CASE m.size # 0 /\ ParseDescriptor(m)
    <3>1. PICK device, name, path : device = ModuleDevice(machine, cursor) /\ name = m.name /\ path = m.path
      OBVIOUS
    <3>2. /\ Register(name, path, Kind(m.token), device, outcome)
          /\ Counted(outcome # "fine" /\ Valid(name, path) /\ ~Taken(name, path))
      BY <2>2, <2>4, <3>1
    <3>3. path \in MountPaths(machine) /\ path # <<>>
      BY <1>0, <2>1, <2>3, <2>4, <3>1, MountsAssumption DEF MountPaths, ParseDescriptor
    <3>4. \A fs, mounted : Source(machine, [name |-> name, path |-> path, kind |-> Kind(m.token), device |-> device,
                                            fs |-> fs, mounted |-> mounted])
      <4>1. device.on = "module" /\ device.k = cursor
        BY <3>1 DEF ModuleDevice, Device
      <4>2. machine.modules[cursor].tag = "volume" /\ name = machine.modules[cursor].name
        BY <2>1, <2>4, <3>1 DEF ParseDescriptor
      <4> QED BY <4>1, <4>2, <2>3 DEF Source
    <3>5. /\ faults' \in Nat
          /\ faults' = 0 => faults = 0 /\ (outcome = "fine" \/ ~Valid(name, path) \/ Taken(name, path))
      BY <1>0, <3>2 DEF Counted
    <3>6. Keeps
      BY <1>0, <2>2, <3>2, <3>3, <3>4, <3>5, RegisterStep
    <3> QED BY <1>k, <2>2, <2>3, <3>5, <3>6
  <2>5. CASE ~(m.size # 0 /\ ParseDescriptor(m))
    <3>1. UNCHANGED <<records, mounts, live, dirs, faults, machine>>
      BY <2>2, <2>5
    <3> QED BY <1>0, <1>k, <1>u, <2>2, <2>3, <3>1
  <2> QED BY <2>4, <2>5
<1>6. CASE ModulesProbed
  <2>1. UNCHANGED <<records, mounts, live, dirs, faults, machine>> /\ stage' = "poll" /\ cursor' = 1
    BY <1>6 DEF ModulesProbed
  <2> QED BY <1>0, <1>k, <1>u, <2>1
<1>7. ASSUME NEW outcome \in Outcomes, MountPendingRound(outcome) PROVE VolumesInv'
  <2>1. /\ cursor \in DOMAIN records /\ ~records[cursor].mounted /\ Counted(outcome # "fine")
        /\ MountRecord(records, cursor, outcome) /\ cursor' = cursor + 1 /\ machine' = machine
        /\ stage' = stage /\ stage \in {"pending", "poll"}
    BY <1>0, <1>00, <1>7 DEF MountPendingRound, InSweep
  <2>2. Keeps /\ faults' \in Nat
    BY <1>0, <2>1, RetryStep
  <2>3. cursor' \in Nat \ {0}
    BY <1>0, <2>1
  <2> QED BY <1>k, <2>1, <2>2, <2>3
<1>8. CASE PassMounted
  <2>1. /\ UNCHANGED <<records, mounts, live, dirs, faults, machine>> /\ cursor' = cursor + 1
        /\ stage' = stage /\ stage \in {"pending", "poll"}
    BY <1>8 DEF PassMounted, InSweep
  <2>2. cursor' \in Nat \ {0}
    BY <1>0, <2>1
  <2> QED BY <1>0, <1>k, <1>u, <2>1, <2>2
<1>9. CASE Swept
  <2>1. UNCHANGED <<records, mounts, live, dirs, faults, machine>> /\ stage' \in {"modules", "poll"} /\ cursor' = 1
    BY <1>9 DEF Swept
  <2> QED BY <1>0, <1>k, <1>u, <2>1
<1>10. ASSUME NEW name \in Standard, UnregisterVolume(name) PROVE VolumesInv'
  <2>1. machine' = machine /\ cursor' = cursor /\ faults' = faults /\ stage' = stage /\ stage = "poll"
    BY <1>10 DEF UnregisterVolume
  <2>2. Keeps
    BY <1>0, <1>10, <2>1, RemovalStep
  <2> QED BY <1>0, <1>k, <2>1, <2>2
<1>11. CASE UNCHANGED volumes
  <2>1. UNCHANGED <<machine, stage, cursor, records, mounts, live, dirs, faults>>
    BY <1>11 DEF volumes
  <2> QED BY <2>1 DEF VolumesInv, VolumesOk
<1> QED
  BY <1>1, <1>2, <1>3, <1>4, <1>5, <1>6, <1>7, <1>8, <1>9, <1>10, <1>11 DEF MountsNext, Boots, Sweeps

\* The volumes of a port, of a module and of the ramdisk have media of their own.
LEMMA ApartFacts ==
  ASSUME machine \in Machines, VolumesOk
  PROVE  Apart
<1> SUFFICES ASSUME Tagged(machine) # {}, NEW i \in DOMAIN records, NEW j \in DOMAIN records, i # j,
                    records[i].device.on = records[j].device.on, records[i].device.k = records[j].device.k
             PROVE  FALSE
  BY DEF Apart
<1>1. Source(machine, records[i]) /\ Source(machine, records[j]) /\ records[i].name # records[j].name
  BY DEF VolumesOk, Good, Proper
<1>2. ASSUME NEW k \in DOMAIN machine.modules, k = RamdiskModule(machine) PROVE machine.modules[k].tag # "volume"
  <2>1. RamdiskModule(machine) # 0
    BY <1>2, MountsAssumption
  <2> QED BY <1>2, <2>1, RamdiskModuleFacts
<1> QED
  BY <1>1, <1>2 DEF Source

\* FAT32::mount and FAT16::mount take the data to begin where the probe of the boot sector
\* takes them to begin.
LEMMA SameDataStart ==
  ASSUME NEW b \in Sectors, NEW fat, Mountable(fat, b), Regular(fat, b)
  PROVE  DataStart(fat, b) = FirstDataSector(b)
<1>1. /\ b.reserved \in Nat /\ b.fats \in Nat /\ b.size32 \in Nat /\ b.bytes \in Nat
      /\ b.bytes = SectorSize /\ SectorSize \in Nat /\ SectorSize > 0 /\ fat \in {"FAT16", "FAT32"}
  BY MountsAssumption DEF Sectors, Mountable, Fats
<1>2. CASE fat = "FAT32"
  <2>1. b.size16 = 0 /\ b.rootEntries = 0
    BY <1>2 DEF Regular
  <2>2. Choose(b.size16, b.size32) = b.size32
    BY <2>1 DEF Choose
  <2>3. RootDirSectors(b) = 0
    <3>1. RootDirSectors(b) = (0 * 32 + SectorSize - 1) \div SectorSize
      BY <1>1, <2>1 DEF RootDirSectors
    <3>2. (0 * 32 + SectorSize - 1) \div SectorSize = 0
      BY <1>1
    <3> QED BY <3>1, <3>2
  <2>4. b.fats * b.size32 \in Nat
    BY <1>1
  <2>5. b.reserved + b.fats * b.size32 + 0 = b.reserved + b.fats * b.size32
    BY <1>1, <2>4
  <2> QED BY <1>2, <2>2, <2>3, <2>5 DEF DataStart, FirstDataSector
<1>3. CASE fat = "FAT16"
  <2>1. Choose(b.size16, b.size32) = b.size16
    BY <1>3 DEF Regular, Choose
  <2> QED BY <1>3, <2>1 DEF DataStart, FirstDataSector
<1> QED
  BY <1>1, <1>2, <1>3

LEMMA BootIsSector ==
  ASSUME NEW m \in Machines, NEW r, Source(m, r)
  PROVE  Boot(m, r.device) \in Sectors
<1>1. NoSector \in Sectors
  <2>1. <<>> \in Seq([fat : BOOLEAN, first : Nat, count : Nat])
    BY EmptySeq
  <2> QED BY <2>1 DEF NoSector, Sectors
<1>2. CASE r.device.on = "module"
  <2>1. r.device.k \in DOMAIN m.modules
    BY <1>2 DEF Source
  <2>2. m.modules[r.device.k].boot \in Sectors
    BY <2>1, MountsAssumption
  <2> QED BY <1>1, <1>2, <2>2 DEF Boot
<1>3. CASE r.device.on # "module"
  <2>1. r.device.k \in DOMAIN m.disks
    BY <1>3 DEF Source
  <2>2. SectorOf(m.disks[r.device.k], r.device.from) \in Sectors
    BY <1>1, <2>1, MountsAssumption DEF SectorOf
  <2> QED BY <1>1, <1>3, <2>2 DEF Boot
<1> QED
  BY <1>2, <1>3

\* From the inductive invariant to what the run checks.
LEMMA VolumesAgree == VolumesInv => MountsAgree
<1> SUFFICES ASSUME VolumesInv PROVE MountsAgree
  OBVIOUS
<1>1. /\ machine \in Machines /\ VolumesOk /\ PointsOk
      /\ Good(machine, records) /\ Tied(machine, records, mounts, live) /\ IsSeq(mounts)
  BY PointsFollow DEF VolumesInv, VolumesOk, Tied
<1>2. ASSUME NEW i \in Mounted
      PROVE  /\ i \in DOMAIN records /\ records[i].fs \in Ids
             /\ Served(machine, records[i], live[records[i].fs])
             /\ \E j \in DOMAIN mounts : mounts[j] = Point(records[i])
             /\ live[records[i].fs].device = records[i].device /\ live[records[i].fs].fat \in Fats
  <2>1. i \in DOMAIN records /\ records[i].mounted
    BY DEF Mounted
  <2>2. /\ records[i].fs \in Ids /\ Served(machine, records[i], live[records[i].fs])
        /\ \E j \in DOMAIN mounts : mounts[j] = Point(records[i])
    BY <2>1, <1>1 DEF Tied
  <2>3. PICK v, r : v = live[records[i].fs] /\ r = records[i]
    OBVIOUS
  <2>4. v.device = r.device /\ v.fat \in Fats
    BY <2>2, <2>3 DEF Served, Mountable
  <2> QED BY <2>1, <2>2, <2>3, <2>4
<1>3. OneEach
  <2>1. \A i \in Mounted : \E j \in DOMAIN mounts : mounts[j] = [path |-> records[i].path, fs |-> records[i].fs]
    BY <1>2 DEF Point
  <2>2. \A j \in DOMAIN mounts : \E i \in Mounted : mounts[j] = [path |-> records[i].path, fs |-> records[i].fs]
    BY <1>1 DEF Tied, Point, Mounted
  <2>3. \A j, k \in DOMAIN mounts : j # k => mounts[j].path # mounts[k].path /\ mounts[j].fs # mounts[k].fs
    BY <1>1 DEF Tied
  <2>4. \A f \in Ids : live[f] # Dead <=> \E i \in Mounted : records[i].fs = f
    <3>1. ASSUME NEW f \in Ids, live[f] # Dead PROVE \E i \in Mounted : records[i].fs = f
      BY <1>1, <3>1 DEF Tied, Mounted
    <3>2. ASSUME NEW f \in Ids, NEW i \in Mounted, records[i].fs = f PROVE live[f] # Dead
      <4>1. live[f].fat \in Fats
        BY <1>2, <3>2
      <4> QED BY <4>1 DEF Dead, Fats
    <3> QED BY <3>1, <3>2
  <2>5. \A i \in Mounted : live[records[i].fs].device = records[i].device
    BY <1>2
  <2> QED BY <2>1, <2>2, <2>3, <2>4, <2>5 DEF OneEach
<1>4. Apart
  BY <1>1, ApartFacts
<1>5. LayoutAgrees
  <2> SUFFICES ASSUME NEW i \in Mounted
               PROVE  LET r == records[i]  v == live[r.fs]  b == Boot(machine, r.device)
                      IN /\ v.fat \in Fats /\ (r.kind = "auto" => v.fat = ProbeFATBootSector(b))
                         /\ Regular(v.fat, b) => v.data = FirstDataSector(b)
    BY DEF LayoutAgrees
  <2>1. PICK r, v : r = records[i] /\ v = live[records[i].fs]
    OBVIOUS
  <2>2. Served(machine, r, v) /\ Source(machine, r)
    BY <1>1, <1>2, <2>1 DEF Good, Proper
  <2>3. PICK b : b = Boot(machine, r.device)
    OBVIOUS
  <2>4. b \in Sectors
    BY <1>1, <2>2, <2>3, BootIsSector
  <2>5. Mountable(FatOf(machine, r), b) /\ v.fat = FatOf(machine, r) /\ v.data = DataStart(FatOf(machine, r), b)
    BY <2>2, <2>3 DEF Served
  <2>6. v.fat \in Fats
    BY <2>5 DEF Mountable
  <2>7. r.kind = "auto" => v.fat = ProbeFATBootSector(b)
    BY <2>3, <2>5 DEF FatOf, CreateFileSystem
  <2>8. Regular(v.fat, b) => v.data = FirstDataSector(b)
    BY <2>4, <2>5, SameDataStart
  <2> QED BY <2>1, <2>3, <2>6, <2>7, <2>8
<1>6. TreeLeads
  <2> SUFFICES ASSUME Plain(machine), NEW i \in Mounted, NEW p \in Paths, InDir(p, records[i].path),
                      \A j \in Mounted : ~SameText(records[j].path, p)
               PROVE  ResolvePath(p) = [fs |-> records[i].fs, rest |-> SubSeq(p, Stem(records[i].path) + 1, Len(p))]
    BY DEF TreeLeads
  <2>1. PICK j \in DOMAIN mounts : mounts[j] = Point(records[i])
    BY <1>2
  <2>2. mounts[j].path = records[i].path /\ mounts[j].fs = records[i].fs
    BY <2>1 DEF Point
  <2>3. ASSUME NEW k \in DOMAIN mounts PROVE ~SameText(mounts[k].path, p)
    <3>1. PICK l \in Mounted : mounts[k] = Point(records[l])
      BY <1>1 DEF Tied, Mounted
    <3> QED BY <3>1 DEF Point
  <2>4. IsSeq(p)
    <3>1. p \in Seq(DOMAIN LowerOf)
      BY MountsAssumption
    <3> QED BY <3>1, SeqIsSeq
  <2>5. ResolvePath(p) = [fs |-> mounts[j].fs, rest |-> SubSeq(p, Stem(mounts[j].path) + 1, Len(p))]
    BY <1>1, <2>2, <2>3, <2>4, Resolves
  <2> QED BY <2>2, <2>5
<1>7. Listed
  BY DEF VolumesInv, ShownInRoot, Listed
<1> QED
  BY <1>3, <1>4, <1>5, <1>6, <1>7 DEF MountsAgree

\* registerBlockDevice, mountRecord, mountPending, unregisterVolume, VFS::mount, unmount,
\* resolvePath and ensureMountPathExists: however the boot went and whatever failed, what the
\* volume manager, the file system tree and the media say of the volumes is the same.
THEOREM MountsCorrect == MountsSpec => []MountsAgree
<1>1. MountsInit => VolumesInv
  BY VolumesInit
<1>2. VolumesInv /\ [MountsNext]_volumes => VolumesInv'
  BY VolumesStep
<1>3. VolumesInv => MountsAgree
  BY VolumesAgree
<1> QED
  BY <1>1, <1>2, <1>3, PTL DEF MountsSpec

-----------------------------------------------------------------------------
(* The shared volume: what is where.                                       *)

Tags == Nat \X Nat
Busy == {"lookup", "create", "free", "clear", "alloc", "link", "walk", "store", "close"}
After == {"alloc", "link", "walk", "store", "close"}    \* the entry was cleared
Media == [fat : [Clusters -> Nat], dir : [Slots -> [name : Names \cup {NoName}, first : {0} \cup Clusters, size : Nat]],
          data : [Clusters -> Tags]]
Jobs == [pc : Busy \cup {"idle"}, name : Names \cup {NoName}, slot : Nat, old : Nat, start : {0} \cup Clusters,
         put : Seq(Tags), at : Nat, left : Nat, body : Nat, tail : Nat]
JobOk(j) ==
  /\ j \in Jobs
  /\ j.pc # "idle" => j.name \in Names
  /\ j.pc = "idle" => j = Idle
  /\ j.pc \in After \cup {"free", "clear"} => j.slot \in Slots
  /\ j.pc \notin After => j.start = 0 /\ j.put = <<>>
  /\ j.start = 0 => j.put = <<>>
  /\ j.pc = "free" => j.old \in Clusters
  /\ j.pc \in {"walk", "link", "store"} => j.start \in Clusters /\ j.at \in Clusters
  /\ j.pc = "alloc" /\ j.start # 0 => j.at \in Clusters /\ j.left >= 1
  /\ j.pc = "link" => j.old \in Clusters /\ j.left >= 1

SharedType ==
  /\ disk \in Media /\ JobOk(job)
  /\ up \in [on : BOOLEAN, known : BOOLEAN, mounted : BOOLEAN]
  /\ last \in [Names -> Seq(Tags)] /\ torn \in BOOLEAN
  /\ counts \in [errors : Nat, failed : SUBSET (Busy \cup {"idle"}), crashes : Nat, saves : Nat]
  /\ counts.crashes = 0 => ~torn

LEMMA Numbers ==
  /\ NClusters \in Nat /\ NEntries \in Nat /\ NEntries >= 1
  /\ Slots = 1..NEntries /\ Clusters = 2..NClusters + 1
  /\ 0 \notin Clusters /\ EOC \notin Clusters /\ EOC \in Nat /\ EOC # 0 /\ Free = 0
  /\ NoSlot \in Nat /\ NoSlot \notin Slots /\ NoSlot # 0 /\ 0 \notin Slots
<1>1. NClusters \in Nat /\ NEntries \in Nat /\ NEntries >= 1
  BY SharedAssumption
<1>2. Slots = 1..NEntries /\ Clusters = 2..NClusters + 1 /\ EOC = NClusters + 2 /\ NoSlot = NEntries + 1 /\ Free = 0
  BY DEF Slots, Clusters, EOC, Free, NoSlot
<1> QED
  BY <1>1, <1>2

LEMMA JobFields ==
  ASSUME NEW j \in Jobs
  PROVE  /\ j.start \in {0} \cup Clusters /\ j.start \in Nat /\ j.put \in Seq(Tags) /\ Len(j.put) \in Nat
         /\ j.left \in Nat /\ j.body \in Nat /\ j.tail \in Nat /\ j.at \in Nat /\ j.old \in Nat /\ j.slot \in Nat
<1>1. /\ j.start \in {0} \cup Clusters /\ j.put \in Seq(Tags)
      /\ j.left \in Nat /\ j.body \in Nat /\ j.tail \in Nat /\ j.at \in Nat /\ j.old \in Nat /\ j.slot \in Nat
  BY DEF Jobs
<1>2. Len(j.put) \in Nat
  BY <1>1, LenProperties
<1> QED
  BY <1>1, <1>2, Numbers

LEMMA IdleOk == JobOk(Idle) /\ Idle.pc = "idle" /\ Idle.start = 0 /\ Idle.put = <<>> /\ Idle.name = NoName
<1>1. <<>> \in Seq(Tags)
  BY EmptySeq
<1>2. Idle \in Jobs
  BY <1>1, Numbers DEF Idle, Jobs
<1>3. Idle.pc = "idle" /\ Idle.start = 0 /\ Idle.put = <<>> /\ Idle.name = NoName
  BY DEF Idle
<1> QED
  BY <1>2, <1>3 DEF JobOk, After, Busy

Onwards(j, k) ==
  /\ k.pc \in {"close", "alloc", "walk"}
  /\ k.name = j.name /\ k.slot = j.slot /\ k.start = j.start /\ k.put = j.put
  /\ k.pc = "alloc" => j.start = 0
  /\ k.pc = "walk" => k.at = j.start /\ k.left = Len(j.put) /\ j.start # 0

\* write goes on with the next piece, from the first cluster of the file.
LEMMA OnwardFacts ==
  ASSUME NEW j \in Jobs, j.pc # "idle", j.name \in Names, j.slot \in Slots,
         j.start = 0 => j.put = <<>>, Onward(j)
  PROVE  JobOk(job') /\ Onwards(j, job')
<1>0. Len(j.put) \in Nat /\ Len(j.put) >= 0
  BY JobFields
<1>1. CASE j.body + j.tail = 0
  <2>1. PICK k : k = [j EXCEPT !.pc = "close"]
    OBVIOUS
  <2>2. job' = k
    BY <1>1, <2>1 DEF Onward
  <2>3. /\ k \in Jobs /\ k.pc = "close" /\ k.name = j.name /\ k.slot = j.slot /\ k.start = j.start
        /\ k.put = j.put /\ k.old = j.old
    BY <2>1 DEF Jobs, Busy
  <2> QED BY <2>2, <2>3 DEF JobOk, After, Onwards
<1>2. CASE j.body + j.tail # 0 /\ j.start = 0
  <2>1. PICK k : k = [j EXCEPT !.pc = "alloc"]
    OBVIOUS
  <2>2. job' = k
    <3>1. j.body + j.tail > 0
      BY <1>2, JobFields
    <3> QED BY <1>2, <2>1, <3>1 DEF Onward
  <2>3. /\ k \in Jobs /\ k.pc = "alloc" /\ k.name = j.name /\ k.slot = j.slot /\ k.start = j.start
        /\ k.put = j.put /\ k.old = j.old
    BY <2>1 DEF Jobs, Busy
  <2> QED BY <1>2, <2>2, <2>3 DEF JobOk, After, Onwards
<1>3. CASE j.body + j.tail # 0 /\ j.start # 0
  <2>1. PICK k : k = [j EXCEPT !.pc = "walk", !.at = j.start, !.left = Len(j.put)]
    OBVIOUS
  <2>2. job' = k
    <3>1. j.body + j.tail > 0
      BY <1>3, JobFields
    <3> QED BY <1>3, <2>1, <3>1 DEF Onward
  <2>3. j.start \in Clusters /\ j.start \in Nat
    BY <1>3, JobFields
  <2>4. /\ k \in Jobs /\ k.pc = "walk" /\ k.name = j.name /\ k.slot = j.slot /\ k.start = j.start
        /\ k.put = j.put /\ k.old = j.old /\ k.at = j.start /\ k.left = Len(j.put)
    BY <1>0, <2>1, <2>3 DEF Jobs, Busy
  <2> QED BY <1>3, <2>2, <2>3, <2>4 DEF JobOk, After, Onwards
<1> QED
  BY <1>1, <1>2, <1>3

LEMMA MediaFields ==
  ASSUME NEW d \in Media
  PROVE  /\ d = [fat |-> d.fat, dir |-> d.dir, data |-> d.data]
         /\ d.fat \in [Clusters -> Nat] /\ d.data \in [Clusters -> Tags]
         /\ d.dir \in [Slots -> [name : Names \cup {NoName}, first : {0} \cup Clusters, size : Nat]]
BY DEF Media

LEMMA FatUpdate ==
  ASSUME NEW d \in Media, NEW c \in Clusters, NEW v \in Nat, NEW d2, d2 = [d EXCEPT !.fat[c] = v]
  PROVE  /\ d2 \in Media /\ d2.dir = d.dir /\ d2.data = d.data /\ d2.fat[c] = v
         /\ \A x \in Clusters : x # c => d2.fat[x] = d.fat[x]
<1>1. PICK f : f = [d.fat EXCEPT ![c] = v]
  OBVIOUS
<1>2. f \in [Clusters -> Nat] /\ f[c] = v /\ \A x \in Clusters : x # c => f[x] = d.fat[x]
  BY <1>1, MediaFields
<1>3. d2 = [fat |-> f, dir |-> d.dir, data |-> d.data]
  BY <1>1, MediaFields
<1> QED
  BY <1>2, <1>3, MediaFields DEF Media

Written(d, c, v) == [d EXCEPT !.data[c] = v]
LEMMA DataUpdate ==
  ASSUME NEW d \in Media, NEW c \in Clusters, NEW v \in Tags, NEW d2, d2 = Written(d, c, v)
  PROVE  /\ d2 \in Media /\ d2.dir = d.dir /\ d2.fat = d.fat /\ d2.data[c] = v
         /\ \A x \in Clusters : x # c => d2.data[x] = d.data[x]
<1>1. PICK f : f = [d.data EXCEPT ![c] = v]
  OBVIOUS
<1>2. f \in [Clusters -> Tags] /\ f[c] = v /\ \A x \in Clusters : x # c => f[x] = d.data[x]
  BY <1>1, MediaFields
<1>3. d2 = [fat |-> d.fat, dir |-> d.dir, data |-> f]
  BY <1>1, MediaFields DEF Written
<1> QED
  BY <1>2, <1>3, MediaFields DEF Media

Renewed(d, s, e) == [d EXCEPT !.dir[s] = e]
LEMMA EntryUpdate ==
  ASSUME NEW d \in Media, NEW s \in Slots, NEW e \in [name : Names \cup {NoName}, first : {0} \cup Clusters, size : Nat],
         NEW d2, d2 = Renewed(d, s, e)
  PROVE  /\ d2 \in Media /\ d2.fat = d.fat /\ d2.data = d.data /\ d2.dir[s] = e
         /\ \A x \in Slots : x # s => d2.dir[x] = d.dir[x]
<1> DEFINE E == [name : Names \cup {NoName}, first : {0} \cup Clusters, size : Nat]
<1>1. PICK f : f = [d.dir EXCEPT ![s] = e]
  OBVIOUS
<1>2. f \in [Slots -> E] /\ f[s] = e /\ \A x \in Slots : x # s => f[x] = d.dir[x]
  <2>1. d.dir \in [Slots -> E] /\ e \in E
    BY MediaFields
  <2> HIDE DEF E
  <2> QED BY <1>1, <2>1
<1>3. d2 = [fat |-> d.fat, dir |-> f, data |-> d.data]
  BY <1>1, MediaFields DEF Renewed
<1> QED
  BY <1>2, <1>3, MediaFields DEF Media

\* allocateCluster: the mark in the table and the zeroed data.
LEMMA MarkUpdate ==
  ASSUME disk \in Media, NEW c \in Clusters, NEW d2, d2 = Marked(c)
  PROVE  /\ d2 \in Media /\ d2.dir = disk.dir /\ d2.fat[c] = EOC /\ d2.data[c] = Blank
         /\ \A x \in Clusters : x # c => d2.fat[x] = disk.fat[x] /\ d2.data[x] = disk.data[x]
<1>1. PICK d : d = disk
  OBVIOUS
<1>2. PICK d1 : d1 = [d EXCEPT !.fat[c] = EOC]
  OBVIOUS
<1>3. /\ d1 \in Media /\ d1.dir = d.dir /\ d1.data = d.data /\ d1.fat[c] = EOC
      /\ \A x \in Clusters : x # c => d1.fat[x] = d.fat[x]
  BY <1>1, <1>2, Numbers, FatUpdate
<1>0. PICK b : b = Blank
  OBVIOUS
<1>4. d2 = [d1 EXCEPT !.data[c] = b]
  BY <1>0, <1>1, <1>2 DEF Marked
<1>5. b \in Tags
  BY <1>0 DEF Blank, Tags
<1>6. /\ d2 \in Media /\ d2.dir = d1.dir /\ d2.fat = d1.fat /\ d2.data[c] = b
      /\ \A x \in Clusters : x # c => d2.data[x] = d1.data[x]
  <2>1. d1 \in Media /\ d1 = [fat |-> d1.fat, dir |-> d1.dir, data |-> d1.data] /\ d1.data \in [Clusters -> Tags]
    BY <1>3, MediaFields
  <2>2. PICK g : g = [d1.data EXCEPT ![c] = b]
    OBVIOUS
  <2>3. g \in [Clusters -> Tags] /\ g[c] = b /\ \A x \in Clusters : x # c => g[x] = d1.data[x]
    BY <2>1, <2>2, <1>5
  <2>4. d2 = [fat |-> d1.fat, dir |-> d1.dir, data |-> g]
    BY <2>1, <2>2, <1>4
  <2> QED BY <2>1, <2>3, <2>4, MediaFields DEF Media
<1> QED
  BY <1>0, <1>1, <1>3, <1>6

\* close: size and first cluster.
LEMMA EnterUpdate ==
  ASSUME disk \in Media, JobOk(job), job.slot \in Slots, NEW d2, d2 = Entered
  PROVE  /\ d2 \in Media /\ d2.fat = disk.fat /\ d2.data = disk.data
         /\ d2.dir[job.slot].name = disk.dir[job.slot].name
         /\ d2.dir[job.slot].first = job.start /\ d2.dir[job.slot].size = Len(job.put)
         /\ \A x \in Slots : x # job.slot => d2.dir[x] = disk.dir[x]
<1>1. PICK d, s : d = disk /\ s = job.slot
  OBVIOUS
<1>2. PICK e : e = [name |-> d.dir[s].name, first |-> job.start, size |-> Len(job.put)]
  OBVIOUS
<1>3. d \in Media /\ s \in Slots /\ d.dir[s] \in [name : Names \cup {NoName}, first : {0} \cup Clusters, size : Nat]
  BY <1>1, MediaFields
<1>4. e \in [name : Names \cup {NoName}, first : {0} \cup Clusters, size : Nat]
  BY <1>2, <1>3, JobFields DEF JobOk
<1>5. PICK d1 : d1 = Renewed(d, s, e)
  OBVIOUS
<1>6. /\ d1 \in Media /\ d1.fat = d.fat /\ d1.data = d.data /\ d1.dir[s] = e
      /\ \A x \in Slots : x # s => d1.dir[x] = d.dir[x]
  <2>1. d \in Media /\ s \in Slots
    BY <1>3
  <2> QED BY <1>4, <1>5, <2>1, EntryUpdate
<1>7. d2 = d1
  <2>1. d2 = [d EXCEPT !.dir = [[d.dir EXCEPT ![s] = [d.dir[s] EXCEPT !.size = Len(job.put)]]
                                EXCEPT ![s] = [[d.dir EXCEPT ![s] = [d.dir[s] EXCEPT !.size = Len(job.put)]][s]
                                               EXCEPT !.first = job.start]]]
    BY <1>1, <1>3, MediaFields DEF Entered
  <2>2. PICK g : g = [d.dir[s] EXCEPT !.size = Len(job.put)]
    OBVIOUS
  <2>3. PICK D : D = d.dir
    OBVIOUS
  <2>4. [D EXCEPT ![s] = g][s] = g
    BY <1>3, <2>3, MediaFields
  <2>5. [g EXCEPT !.first = job.start] = e
    <3>1. PICK r, k, c : r = d.dir[s] /\ k = Len(job.put) /\ c = job.start
      OBVIOUS
    <3>2. PICK h : h = [g EXCEPT !.first = c]
      OBVIOUS
    <3>3. r \in [name : Names \cup {NoName}, first : {0} \cup Clusters, size : Nat] /\ g = [r EXCEPT !.size = k]
      BY <1>3, <2>2, <3>1
    <3>4. g = [name |-> r.name, first |-> r.first, size |-> k]
      BY <3>3
    <3>5. h = [name |-> r.name, first |-> c, size |-> k]
      BY <3>2, <3>4
    <3> QED BY <1>2, <3>1, <3>2, <3>5
  <2>6. [[D EXCEPT ![s] = g] EXCEPT ![s] = e] = [D EXCEPT ![s] = e]
    BY <1>3, <2>3, MediaFields
  <2>7. d2 = [d EXCEPT !.dir = [D EXCEPT ![s] = e]]
    BY <2>1, <2>2, <2>3, <2>4, <2>5, <2>6
  <2> QED BY <1>5, <2>3, <2>7 DEF Renewed
<1> QED
  BY <1>1, <1>2, <1>6, <1>7

\* A write that stops early.
LEMMA BreakFacts ==
  ASSUME JobOk(job), job.pc \in After, Break
  PROVE  JobOk(job') /\ Onwards(job, job')
<1>1. job \in Jobs /\ job.name \in Names /\ job.slot \in Slots /\ (job.start = 0 => job.put = <<>>)
  BY DEF JobOk, After
<1>2. PICK j : j = IF job.body > 0 THEN [job EXCEPT !.body = 0] ELSE [job EXCEPT !.tail = 0]
  OBVIOUS
<1>3. Onward(j)
  BY <1>2 DEF Break
<1>4. /\ j \in Jobs /\ j.pc = job.pc /\ j.name = job.name /\ j.slot = job.slot /\ j.start = job.start /\ j.put = job.put
  <2>1. CASE job.body > 0
    <3>1. j = [job EXCEPT !.body = 0]
      BY <1>2, <2>1
    <3> QED BY <1>1, <3>1 DEF Jobs
  <2>2. CASE ~(job.body > 0)
    <3>1. j = [job EXCEPT !.tail = 0]
      BY <1>2, <2>2
    <3> QED BY <1>1, <3>1 DEF Jobs
  <2> QED BY <2>1, <2>2
<1>5. j.pc # "idle" /\ j.name \in Names /\ j.slot \in Slots /\ (j.start = 0 => j.put = <<>>)
  BY <1>1, <1>4 DEF After
<1>6. JobOk(job') /\ Onwards(j, job')
  BY <1>3, <1>4, <1>5, OnwardFacts
<1> QED
  BY <1>4, <1>6 DEF Onwards

-----------------------------------------------------------------------------
\* Who has a cluster: an entry, the file being written, or the chain being freed.
JobMark == NEntries + 1
FreedMark == NEntries + 2
Named(d) == {s \in Slots : d.dir[s].name # NoName}
InHand(j, s) == j.pc \in After \cup {"free", "clear"} /\ s = j.slot
AtIts(j) == j.pc \in {"walk", "link", "store"} \/ (j.pc = "alloc" /\ j.start # 0)   \* job.at is in the chain

Owned(own, d, j) ==
  /\ own \in [Clusters -> 0..NEntries + 2]
  /\ \A c \in Clusters : own[c] \in 1..NEntries + 1 => d.fat[c] # Free
  /\ \A c \in Clusters : own[c] # 0 /\ d.fat[c] \in Clusters => own[d.fat[c]] = own[c]
  /\ \A s \in Named(d) : d.dir[s].first # 0 /\ ~(j.pc \in {"free", "clear"} /\ s = j.slot) => own[d.dir[s].first] = s
  /\ j.start # 0 => own[j.start] = JobMark
  /\ j.pc = "free" => own[j.old] = FreedMark
  /\ j.pc # "free" => \A c \in Clusters : own[c] # FreedMark
  /\ AtIts(j) => own[j.at] = JobMark
  /\ j.pc = "link" => own[j.old] = JobMark /\ d.fat[j.old] = EOC
  /\ j.pc \in After \cup {"free", "clear"} => d.dir[j.slot].name = j.name
  /\ j.pc \in After => d.dir[j.slot].first = 0 /\ d.dir[j.slot].size = 0

\* The entry's file holds the text, in clusters of its own.
Holds(own, d, s, text) ==
  /\ d.dir[s].size = Len(text)
  /\ \E route \in [1..Len(text) -> Clusters] :
       /\ text # <<>> => route[1] = d.dir[s].first
       /\ \A k \in 1..Len(text) - 1 : d.fat[route[k]] = route[k + 1]
       /\ \A k \in 1..Len(text) : d.data[route[k]] = text[k] /\ own[route[k]] = s
\* The clusters written so far, and perhaps one more, are a chain.
Chained(own, d, start, put, path) ==
  /\ start = 0 => path = <<>>
  /\ start # 0 => path # <<>> /\ path[1] = start
  /\ \A k \in 1..Len(path) : own[path[k]] = JobMark
  /\ \A k \in 1..Len(path) - 1 : d.fat[path[k]] = path[k + 1]
  /\ path # <<>> => d.fat[path[Len(path)]] = EOC
  /\ \A k, m \in 1..Len(path) : path[k] = path[m] => k = m
  /\ Len(path) = Len(put) \/ Len(path) = Len(put) + 1
  /\ \A k \in 1..Len(put) : d.data[path[k]] = put[k]
Laid(own, d, j, path) ==
  /\ Chained(own, d, j.start, j.put, path)
  /\ j.pc = "walk" => j.left <= Len(j.put) /\ Len(j.put) - j.left + 1 <= Len(path) /\ j.at = path[Len(j.put) - j.left + 1]
  /\ j.pc = "alloc" /\ j.start # 0 => j.left = 1 /\ Len(path) = Len(j.put) /\ j.at = path[Len(path)]
  /\ j.pc = "link" => j.left = 1 /\ Len(path) = Len(j.put) /\ j.at = path[Len(path)] /\ \A k \in 1..Len(path) : path[k] # j.old
  /\ j.pc = "store" => Len(path) = Len(j.put) + 1 /\ j.at = path[Len(path)]
Told(own, d, j, l) ==
  /\ \A s, t \in Named(d) : d.dir[s].name = d.dir[t].name => s = t
  /\ \A f \in Names : (\A s \in Slots : d.dir[s].name # f) => l[f] = <<>>
  /\ \A s \in Named(d) : ~InHand(j, s) => Holds(own, d, s, l[d.dir[s].name])
  /\ j.pc = "create" => \A s \in Slots : d.dir[s].name # j.name
  /\ j.pc \in {"free", "clear"} /\ d.dir[j.slot].first = 0 => d.dir[j.slot].size = 0 /\ l[j.name] = <<>>
  /\ j.pc \in After => \E path \in Seq(Clusters) : Laid(own, d, j, path)

\* Every cluster in use is reached from its entry, or from the job's chain.
Full(own, d, j) ==
  /\ \A c \in Clusters : d.fat[c] # Free => own[c] # 0
  /\ \A c \in Clusters : own[c] \in Slots => /\ own[c] \in Named(d) /\ ~(j.pc \in {"free", "clear"} /\ own[c] = j.slot)
                                             /\ c \in Reached(d.fat, d.dir[own[c]].first)
  /\ \A c \in Clusters : own[c] = JobMark => c \in Reached(d.fat, j.start) \/ (j.pc = "link" /\ c = j.old)
  /\ j.pc = "free" => \A c \in Clusters : own[c] = FreedMark => c \in Reached(d.fat, j.old) \/ d.fat[c] = Free
  /\ AtIts(j) => j.at \in Reached(d.fat, j.start)
  /\ j.pc = "link" \/ (j.pc = "alloc" /\ j.start # 0) => d.fat[j.at] = EOC

Sharing(own) ==
  ~torn /\ Spared({"clear", "alloc"}) =>
    /\ Owned(own, disk, job)
    /\ Spared({"lookup", "clear", "alloc", "link", "close"}) => Told(own, disk, job, last)
    /\ counts.crashes = 0 /\ Spared({"free", "clear", "alloc", "link", "close"}) => Full(own, disk, job)

LEMMA ReachedFacts ==
  ASSUME NEW fat, NEW x
  PROVE  /\ Reached(fat, x) \subseteq Clusters
         /\ x \in Clusters => x \in Reached(fat, x)
         /\ \A c \in Reached(fat, x) : fat[c] \in Clusters => fat[c] \in Reached(fat, x)
         /\ x \notin Clusters => Reached(fat, x) = {}
<1>1. Reached(fat, x) \subseteq Clusters /\ (x \in Clusters => x \in Reached(fat, x))
  BY DEF Reached
<1>2. ASSUME NEW c \in Reached(fat, x), fat[c] \in Clusters
      PROVE  fat[c] \in Reached(fat, x)
  BY <1>2 DEF Reached
<1>3. ASSUME x \notin Clusters, NEW c \in Reached(fat, x)
      PROVE  FALSE
  <2>1. c \in {}
    BY <1>3 DEF Reached
  <2> QED BY <2>1
<1> QED
  BY <1>1, <1>2, <1>3

\* What holds of the first and is handed on by the links holds of all.
LEMMA ReachedLeast ==
  ASSUME NEW fat, NEW x, NEW S, S \subseteq Clusters,
         x \in Clusters => x \in S,
         \A c \in S : fat[c] \in Clusters => fat[c] \in S
  PROVE  Reached(fat, x) \subseteq S
BY DEF Reached

\* A chain whose links stay is still reached.
LEMMA ReachedStays ==
  ASSUME NEW fat, NEW fat2, NEW x,
         \A c \in Reached(fat, x) : fat[c] \in Clusters => fat2[c] = fat[c]
  PROVE  Reached(fat, x) \subseteq Reached(fat2, x)
<1> DEFINE S == Reached(fat, x) \cap Reached(fat2, x)
<1>1. S \subseteq Clusters
  BY ReachedFacts
<1>2. x \in Clusters => x \in S
  BY ReachedFacts
<1>3. \A c \in S : fat[c] \in Clusters => fat[c] \in S
  <2>1. SUFFICES ASSUME NEW c \in S, fat[c] \in Clusters
                 PROVE  fat[c] \in S
    OBVIOUS
  <2>2. fat[c] \in Reached(fat, x)
    BY <2>1, ReachedFacts
  <2>3. fat2[c] = fat[c]
    BY <2>1
  <2>4. fat2[c] \in Reached(fat2, x)
    BY <2>1, <2>3, ReachedFacts
  <2> QED BY <2>2, <2>3, <2>4
<1>4. Reached(fat, x) \subseteq S
  <2> HIDE DEF S
  <2> QED BY <1>1, <1>2, <1>3, ReachedLeast
<1> QED
  BY <1>4

\* A chain whose first link is freed: what is reached from the second.
LEMMA ReachedNext ==
  ASSUME NEW fat, NEW fat2, NEW x \in Clusters,
         \A c \in Clusters : c # x => fat2[c] = fat[c]
  PROVE  Reached(fat, x) \subseteq {x} \cup Reached(fat2, fat[x])
<1> DEFINE S == {x} \cup Reached(fat2, fat[x])
<1>1. S \subseteq Clusters /\ x \in S
  BY ReachedFacts
<1>2. \A c \in S : fat[c] \in Clusters => fat[c] \in S
  <2>1. SUFFICES ASSUME NEW c \in S, fat[c] \in Clusters
                 PROVE  fat[c] \in S
    OBVIOUS
  <2>2. CASE c = x
    BY <2>1, <2>2, ReachedFacts
  <2>3. CASE c # x
    <3>1. c \in Reached(fat2, fat[x]) /\ c \in Clusters
      BY <1>1, <2>3
    <3>2. fat2[c] = fat[c]
      BY <2>3, <3>1
    <3> QED BY <2>1, <3>1, <3>2, ReachedFacts
  <2> QED BY <2>2, <2>3
<1>3. Reached(fat, x) \subseteq S
  <2> HIDE DEF S
  <2> QED BY <1>1, <1>2, ReachedLeast
<1> QED
  BY <1>3

\* A chain is one owner's.
LEMMA ChainOwned ==
  ASSUME NEW own, NEW d, NEW j, Owned(own, d, j), NEW x \in Clusters, own[x] # 0
  PROVE  \A c \in Reached(d.fat, x) : c \in Clusters /\ own[c] = own[x]
<1> DEFINE S == {c \in Clusters : own[c] = own[x]}
<1>1. S \subseteq Clusters /\ x \in S
  OBVIOUS
<1>2. \A c \in S : d.fat[c] \in Clusters => d.fat[c] \in S
  BY DEF Owned
<1>3. Reached(d.fat, x) \subseteq S
  <2> HIDE DEF S
  <2> QED BY <1>1, <1>2, ReachedLeast
<1> QED
  BY <1>3

LEMMA Marks ==
  /\ JobMark \in Nat /\ FreedMark \in Nat /\ JobMark # 0 /\ FreedMark # 0 /\ JobMark # FreedMark
  /\ JobMark \notin Slots /\ FreedMark \notin Slots /\ 0..NEntries + 2 = {0, JobMark, FreedMark} \cup Slots
  /\ 1..NEntries + 1 = {JobMark} \cup Slots
<1>1. NEntries \in Nat /\ NEntries >= 1 /\ Slots = 1..NEntries
  BY Numbers
<1>2. JobMark = NEntries + 1 /\ FreedMark = NEntries + 2
  BY DEF JobMark, FreedMark
<1> QED
  BY <1>1, <1>2

\* A file whose clusters stay its own and as they are is held.
LEMMA HoldsStays ==
  ASSUME NEW own, NEW own2, NEW d, NEW e, NEW s, NEW text, Holds(own, d, s, text), e.dir[s] = d.dir[s],
         \A c \in Clusters : own[c] = s => own2[c] = s /\ e.fat[c] = d.fat[c] /\ e.data[c] = d.data[c],
         Len(text) \in Nat
  PROVE  Holds(own2, e, s, text)
<1>1. PICK route \in [1..Len(text) -> Clusters] :
        /\ text # <<>> => route[1] = d.dir[s].first
        /\ \A k \in 1..Len(text) - 1 : d.fat[route[k]] = route[k + 1]
        /\ \A k \in 1..Len(text) : d.data[route[k]] = text[k] /\ own[route[k]] = s
  BY DEF Holds
<1>2. \A k \in 1..Len(text) : route[k] \in Clusters /\ own2[route[k]] = s /\ e.data[route[k]] = text[k]
                              /\ e.fat[route[k]] = d.fat[route[k]]
  BY <1>1
<1>3. \A k \in 1..Len(text) - 1 : k \in 1..Len(text)
  OBVIOUS
<1>4. \A k \in 1..Len(text) - 1 : e.fat[route[k]] = route[k + 1]
  BY <1>1, <1>2, <1>3
<1>5. e.dir[s].size = Len(text)
  BY DEF Holds
<1> QED
  BY <1>1, <1>2, <1>4, <1>5 DEF Holds

\* An entry without clusters holds nothing.
LEMMA HoldsNothing ==
  ASSUME NEW own, NEW d, NEW s, d.dir[s].size = 0
  PROVE  Holds(own, d, s, <<>>)
<1>1. Len(<<>>) = 0
  OBVIOUS
<1>2. PICK route : route = [k \in 1..0 |-> 2]
  OBVIOUS
<1>3. route \in [1..0 -> Clusters]
  BY <1>2
<1>4. \A k \in 1..0 : FALSE
  OBVIOUS
<1>5. \A k \in 1..0 - 1 : FALSE
  OBVIOUS
<1> QED
  BY <1>1, <1>3, <1>4, <1>5 DEF Holds

\* The job goes on without a new cluster or link.
LEMMA OwnedGoesOn ==
  ASSUME NEW own, NEW d, NEW e, NEW j, NEW k, Owned(own, d, j), e.dir = d.dir, e.fat = d.fat,
         j.pc \in After, k.pc \in After, k.pc # "link", k.slot = j.slot, k.name = j.name, k.start = j.start,
         AtIts(k) => own[k.at] = JobMark
  PROVE  Owned(own, e, k)
<1>1. j.pc # "free" /\ k.pc # "free" /\ j.pc \notin {"free", "clear"} /\ k.pc \notin {"free", "clear"}
  BY DEF After
<1>2. Named(e) = Named(d)
  BY DEF Named
<1>3. /\ own \in [Clusters -> 0..NEntries + 2]
      /\ \A c \in Clusters : own[c] \in 1..NEntries + 1 => e.fat[c] # Free
      /\ \A c \in Clusters : own[c] # 0 /\ e.fat[c] \in Clusters => own[e.fat[c]] = own[c]
  BY DEF Owned
<1>4. \A s \in Named(e) : e.dir[s].first # 0 => own[e.dir[s].first] = s
  BY <1>1, <1>2 DEF Owned
<1>5. /\ j.start # 0 => own[j.start] = JobMark
      /\ \A c \in Clusters : own[c] # FreedMark
      /\ e.dir[j.slot].name = j.name /\ e.dir[j.slot].first = 0 /\ e.dir[j.slot].size = 0
  BY <1>1 DEF Owned
<1> QED
  BY <1>1, <1>3, <1>4, <1>5 DEF Owned

LEMMA FullGoesOn ==
  ASSUME NEW own, NEW d, NEW e, NEW j, NEW k, Full(own, d, j), e.dir = d.dir, e.fat = d.fat,
         j.pc \in After, k.pc \in After, j.pc # "link", k.pc # "link", k.start = j.start,
         AtIts(k) => k.at \in Reached(d.fat, k.start),
         k.pc = "alloc" /\ k.start # 0 => d.fat[k.at] = EOC
  PROVE  Full(own, e, k)
<1>1. j.pc \notin {"free", "clear"} /\ k.pc \notin {"free", "clear"} /\ Named(e) = Named(d)
  BY DEF After, Named
<1>2. \A c \in Clusters : own[c] \in Slots => own[c] \in Named(e) /\ c \in Reached(e.fat, e.dir[own[c]].first)
  BY <1>1 DEF Full
<1>3. \A c \in Clusters : /\ e.fat[c] # Free => own[c] # 0
                          /\ own[c] = JobMark => c \in Reached(e.fat, k.start)
  BY DEF Full
<1> QED
  BY <1>1, <1>2, <1>3 DEF Full

\* The clusters of the entries are left alone.
LeftAlone(own, own2, d, e) ==
  \A c \in Clusters : own[c] \in Slots => own2[c] = own[c] /\ e.fat[c] = d.fat[c] /\ e.data[c] = d.data[c]

LEMMA ToldGoesOn ==
  ASSUME NEW own, NEW own2, NEW d \in Media, NEW e, NEW j, NEW k, NEW l \in [Names -> Seq(Tags)], Told(own, d, j, l), e.dir = d.dir,
         j.pc \in After, k.pc \in After, k.slot = j.slot,
         LeftAlone(own, own2, d, e),
         \E path \in Seq(Clusters) : Laid(own2, e, k, path)
  PROVE  Told(own2, e, k, l)
<1>1. k.pc # "create" /\ k.pc \notin {"free", "clear"} /\ Named(e) = Named(d) /\ \A s : InHand(k, s) <=> InHand(j, s)
  BY DEF After, Named, InHand
<1>2. ASSUME NEW s \in Named(e), ~InHand(k, s)
      PROVE  Holds(own2, e, s, l[e.dir[s].name])
  <2>1. s \in Slots /\ e.dir[s].name \in Names
    BY <1>1, MediaFields DEF Named
  <2>2. PICK text : text = l[e.dir[s].name]
    OBVIOUS
  <2>3. Len(text) \in Nat
    BY <2>1, <2>2, LenProperties
  <2>4. Holds(own, d, s, text)
    BY <1>1, <1>2, <2>2 DEF Told
  <2>5. Holds(own2, e, s, text)
    BY <2>1, <2>3, <2>4, HoldsStays DEF LeftAlone
  <2> QED BY <2>2, <2>5
<1>3. /\ \A s, t \in Named(e) : e.dir[s].name = e.dir[t].name => s = t
      /\ \A f \in Names : (\A s \in Slots : e.dir[s].name # f) => l[f] = <<>>
  BY <1>1 DEF Told
<1> QED
  BY <1>1, <1>2, <1>3 DEF Told

\* Onward begins at the first cluster.
LEMMA LaidOnwards ==
  ASSUME NEW own, NEW e, NEW k, NEW j, NEW path \in Seq(Clusters), Onwards(j, k), j.put \in Seq(Tags),
         Chained(own, e, k.start, k.put, path)
  PROVE  Laid(own, e, k, path)
<1>1. Len(path) \in Nat /\ Len(k.put) \in Nat
  BY LenProperties DEF Onwards
<1>2. k.pc = "walk" => k.left <= Len(k.put) /\ Len(k.put) - k.left + 1 <= Len(path) /\ k.at = path[Len(k.put) - k.left + 1]
  <2>1. SUFFICES ASSUME k.pc = "walk"
                 PROVE  k.left <= Len(k.put) /\ Len(k.put) - k.left + 1 <= Len(path) /\ k.at = path[Len(k.put) - k.left + 1]
    OBVIOUS
  <2>2. k.at = k.start /\ k.left = Len(k.put) /\ k.start # 0
    BY <2>1 DEF Onwards
  <2>3. path # <<>> /\ path[1] = k.start
    BY <2>2 DEF Chained
  <2>4. Len(path) >= 1
    BY <1>1, <2>3, EmptySeq
  <2>5. Len(k.put) - k.left + 1 = 1
    BY <1>1, <2>2
  <2> QED BY <1>1, <2>2, <2>3, <2>4, <2>5
<1>3. k.pc \notin {"link", "store"} /\ (k.pc = "alloc" => k.start = 0)
  BY DEF Onwards
<1> QED
  BY <1>2, <1>3 DEF Laid

LEMMA BrokenOff ==
  ASSUME NEW own, NEW d \in Media, NEW e, NEW j, NEW k, JobOk(j), JobOk(k), j.pc \in After, Onwards(j, k), e.dir = d.dir, e.fat = d.fat
  PROVE  /\ Owned(own, d, j) => Owned(own, e, k)
         /\ j.pc # "link" /\ Full(own, d, j) => Full(own, e, k)
<1>1. k.pc \in After /\ k.pc # "link" /\ k.pc # "store" /\ k.slot = j.slot /\ k.name = j.name /\ k.start = j.start
  BY DEF Onwards, After
<1>2. AtIts(k) => k.at = j.start /\ j.start \in Clusters /\ k.pc = "walk"
  <2>1. k.pc = "alloc" => j.start = 0
    BY DEF Onwards
  <2>2. k.pc = "walk" => k.at = j.start /\ j.start # 0
    BY DEF Onwards
  <2>3. j.start \in {0} \cup Clusters
    BY JobFields DEF JobOk
  <2> QED BY <1>1, <2>1, <2>2, <2>3 DEF AtIts
<1>3. ASSUME Owned(own, d, j)
      PROVE  Owned(own, e, k)
  <2>1. AtIts(k) => own[k.at] = JobMark
    BY <1>2, <1>3, Numbers DEF Owned
  <2> QED BY <1>1, <1>3, <2>1, OwnedGoesOn
<1>4. ASSUME j.pc # "link", Full(own, d, j)
      PROVE  Full(own, e, k)
  <2>1. AtIts(k) => k.at \in Reached(d.fat, k.start)
    BY <1>1, <1>2, ReachedFacts
  <2>2. k.pc = "alloc" => k.start = 0
    BY DEF Onwards
  <2> QED BY <1>1, <1>4, <2>1, <2>2, FullGoesOn
<1> QED
  BY <1>3, <1>4

-----------------------------------------------------------------------------
(* The steps one by one: a step changes who has a cluster as its disk      *)
(* accesses do, and what held of the entries and of the job holds again.   *)

\* Errors are counted and remembered.
ErrorsCounted == /\ counts' \in [errors : Nat, failed : SUBSET (Busy \cup {"idle"}), crashes : Nat, saves : Nat]
           /\ counts.failed \subseteq counts'.failed /\ counts'.crashes = counts.crashes

LEMMA Counts ==
  ASSUME SharedType
  PROVE  /\ Works => ErrorsCounted
         /\ Fails => ErrorsCounted /\ job.pc \in counts'.failed
<1>1. /\ counts \in [errors : Nat, failed : SUBSET (Busy \cup {"idle"}), crashes : Nat, saves : Nat]
      /\ job.pc \in Busy \cup {"idle"}
  BY DEF SharedType, JobOk, Jobs
<1>2. Works => ErrorsCounted
  BY <1>1 DEF Works, ErrorsCounted
<1>3. ASSUME Fails
      PROVE  ErrorsCounted /\ job.pc \in counts'.failed
  <2>1. PICK m, p : m = counts /\ p = job.pc
    OBVIOUS
  <2>2. PICK m2 : m2 = [m EXCEPT !.errors = m.errors + 1, !.failed = m.failed \cup {p}]
    OBVIOUS
  <2>3. counts' = m2
    BY <1>3, <2>1, <2>2 DEF Fails
  <2>4. m2 = [errors |-> m.errors + 1, failed |-> m.failed \cup {p}, crashes |-> m.crashes, saves |-> m.saves]
    BY <1>1, <2>1, <2>2
  <2> QED BY <1>1, <2>1, <2>3, <2>4 DEF ErrorsCounted
<1> QED
  BY <1>2, <1>3

LEMMA SharingStep ==
  ASSUME NEW own, NEW own2, Sharing(own), torn' = torn, ErrorsCounted,
         {"clear", "alloc"} \cap counts'.failed = {} /\ Owned(own, disk, job) => Owned(own2, disk', job'),
         {"lookup", "clear", "alloc", "link", "close"} \cap counts'.failed = {}
           /\ Owned(own, disk, job) /\ Told(own, disk, job, last) => Told(own2, disk', job', last'),
         {"free", "clear", "alloc", "link", "close"} \cap counts'.failed = {}
           /\ Owned(own, disk, job) /\ Full(own, disk, job) => Full(own2, disk', job')
  PROVE  Sharing(own2)'
<1>1. \A S : counts'.failed \cap S = {} => counts.failed \cap S = {} /\ S \cap counts'.failed = {}
  BY DEF ErrorsCounted
<1>2. counts'.crashes = counts.crashes
  BY DEF ErrorsCounted
<1>3. SUFFICES ASSUME ~torn', counts'.failed \cap {"clear", "alloc"} = {}
               PROVE  /\ Owned(own2, disk', job')
                      /\ counts'.failed \cap {"lookup", "clear", "alloc", "link", "close"} = {} => Told(own2, disk', job', last')
                      /\ counts'.crashes = 0 /\ counts'.failed \cap {"free", "clear", "alloc", "link", "close"} = {} => Full(own2, disk', job')
  BY DEF Sharing, Spared
<1>4. Owned(own, disk, job)
  BY <1>1, <1>3 DEF Sharing, Spared
<1>5. /\ counts'.failed \cap {"lookup", "clear", "alloc", "link", "close"} = {} => Told(own, disk, job, last)
      /\ counts'.crashes = 0 /\ counts'.failed \cap {"free", "clear", "alloc", "link", "close"} = {} => Full(own, disk, job)
  BY <1>1, <1>2, <1>3 DEF Sharing, Spared
<1> QED
  BY <1>1, <1>3, <1>4, <1>5

KeepsFile(j, k) == k.name = j.name /\ k.slot = j.slot /\ k.start = j.start /\ k.put = j.put

LEMMA WalkFacts ==
  ASSUME SharedType, Walk
  PROVE  /\ JobOk(job') /\ job.pc = "walk" /\ KeepsFile(job, job') /\ ErrorsCounted
         /\ \/ job.left = 0 /\ job'.pc = "store" /\ job'.at = job.at
            \/ /\ job.left > 0 /\ disk.fat[job.at] \in Clusters
               /\ job'.pc = "walk" /\ job'.at = disk.fat[job.at] /\ job'.left = job.left - 1
            \/ job.left > 0 /\ disk.fat[job.at] = EOC /\ job'.pc = "alloc" /\ job'.at = job.at /\ job'.left = job.left
            \/ Onwards(job, job')
<1>1. JobOk(job) /\ job.pc = "walk" /\ job.pc \in After /\ (Works \/ Fails)
  BY DEF SharedType, Walk, At, After
<1>0. ErrorsCounted
  BY <1>1, Counts
<1>2. /\ job \in Jobs /\ job.name \in Names /\ job.slot \in Slots /\ (job.start = 0 => job.put = <<>>)
      /\ job.start \in Clusters /\ job.at \in Clusters
  BY <1>1 DEF JobOk, After
<1>3. CASE job.left = 0 /\ Go("store")
  <2>1. PICK j, k : j = job /\ k = [j EXCEPT !.pc = "store"]
    OBVIOUS
  <2>2. job' = k
    BY <1>3, <2>1 DEF Go
  <2>3. k \in Jobs /\ k.pc = "store" /\ KeepsFile(j, k) /\ k.at = j.at
    BY <1>2, <2>1 DEF Jobs, Busy, KeepsFile
  <2> QED BY <1>0, <1>1, <1>2, <1>3, <2>1, <2>2, <2>3 DEF JobOk, After, KeepsFile
<1>4. CASE /\ job.left > 0 /\ disk.fat[job.at] \in Clusters
           /\ job' = [job EXCEPT !.at = disk.fat[job.at], !.left = @ - 1]
  <2>1. PICK j, a, m : j = job /\ a = disk.fat[job.at] /\ m = job.left - 1
    OBVIOUS
  <2>2. PICK k : k = [j EXCEPT !.at = a, !.left = m]
    OBVIOUS
  <2>3. job' = k
    BY <1>4, <2>1, <2>2
  <2>4. m \in Nat /\ a \in Nat /\ a \in Clusters
    <3>1. job.left \in Nat /\ job.left > 0
      BY <1>2, <1>4, JobFields
    <3>2. m \in Nat
      BY <2>1, <3>1
    <3> QED BY <1>4, <2>1, <3>2, Numbers
  <2>5. k \in Jobs /\ k.pc = "walk" /\ KeepsFile(j, k) /\ k.at = a /\ k.left = m
    BY <1>1, <1>2, <2>1, <2>2, <2>4 DEF Jobs, Busy, KeepsFile
  <2> QED BY <1>0, <1>1, <1>2, <1>4, <2>1, <2>3, <2>4, <2>5 DEF JobOk, After, KeepsFile
<1>5. CASE job.left > 0 /\ disk.fat[job.at] = EOC /\ Go("alloc")
  <2>1. PICK j, k : j = job /\ k = [j EXCEPT !.pc = "alloc"]
    OBVIOUS
  <2>2. job' = k
    BY <1>5, <2>1 DEF Go
  <2>3. k \in Jobs /\ k.pc = "alloc" /\ KeepsFile(j, k) /\ k.at = j.at /\ k.left = j.left
    BY <1>2, <2>1 DEF Jobs, Busy, KeepsFile
  <2>4. k.left >= 1
    <3>1. job.left \in Nat
      BY <1>2, JobFields
    <3> QED BY <1>5, <2>1, <2>3, <3>1
  <2> QED BY <1>0, <1>1, <1>2, <1>5, <2>1, <2>2, <2>3, <2>4 DEF JobOk, After, KeepsFile
<1>6. CASE Break
  <2>1. JobOk(job') /\ Onwards(job, job')
    BY <1>1, <1>6, BreakFacts
  <2> QED BY <1>0, <1>1, <2>1 DEF Onwards, KeepsFile
<1> QED
  BY <1>3, <1>4, <1>5, <1>6 DEF Walk

LEMMA WalkShares ==
  ASSUME SharedType, Walk, NEW own, Sharing(own)
  PROVE  JobOk(job') /\ ErrorsCounted /\ Sharing(own)'
<1>1. /\ disk' = disk /\ last' = last /\ torn' = torn /\ disk \in Media /\ last \in [Names -> Seq(Tags)] /\ JobOk(job)
      /\ job.put \in Seq(Tags) /\ Len(job.put) \in Nat /\ job.left \in Nat
  BY JobFields DEF SharedType, Walk, At, JobOk
<1>2. /\ JobOk(job') /\ job.pc = "walk" /\ KeepsFile(job, job') /\ ErrorsCounted
      /\ \/ job.left = 0 /\ job'.pc = "store" /\ job'.at = job.at
         \/ /\ job.left > 0 /\ disk.fat[job.at] \in Clusters
            /\ job'.pc = "walk" /\ job'.at = disk.fat[job.at] /\ job'.left = job.left - 1
         \/ job.left > 0 /\ disk.fat[job.at] = EOC /\ job'.pc = "alloc" /\ job'.at = job.at /\ job'.left = job.left
         \/ Onwards(job, job')
  BY WalkFacts
<1>3. PICK d, j, k : d = disk /\ j = job /\ k = job'
  OBVIOUS
<1>4. /\ d \in Media /\ JobOk(j) /\ JobOk(k) /\ j.pc = "walk" /\ j.pc \in After /\ k.pc \in After /\ k.pc # "link" /\ KeepsFile(j, k)
      /\ j.put \in Seq(Tags) /\ Len(j.put) \in Nat /\ j.left \in Nat
      /\ j.start \in Clusters /\ j.at \in Clusters
  BY <1>1, <1>2, <1>3 DEF After, Onwards, JobOk
<1>5. ASSUME Owned(own, d, j)
      PROVE  Owned(own, d, k)
  <2>1. own[j.at] = JobMark /\ own[j.start] = JobMark
    BY <1>4, <1>5, Numbers DEF Owned, AtIts
  <2>2. CASE Onwards(j, k)
    BY <1>4, <1>5, <2>2, BrokenOff
  <2>3. CASE k.at = j.at
    BY <1>4, <1>5, <2>1, <2>3, OwnedGoesOn DEF KeepsFile
  <2>4. CASE d.fat[j.at] \in Clusters /\ k.at = d.fat[j.at]
    <3>1. own[k.at] = JobMark
      BY <1>4, <1>5, <2>1, <2>4, Marks DEF Owned
    <3> QED BY <1>4, <1>5, <3>1, OwnedGoesOn DEF KeepsFile
  <2> QED BY <1>2, <1>3, <2>2, <2>3, <2>4
<1>6. ASSUME Full(own, d, j)
      PROVE  Full(own, d, k)
  <2>1. j.at \in Reached(d.fat, j.start)
    BY <1>4, <1>6 DEF Full, AtIts
  <2>2. CASE Onwards(j, k)
    BY <1>4, <1>6, <2>2, BrokenOff
  <2>3. CASE k.at = j.at /\ (k.pc = "store" \/ d.fat[j.at] = EOC)
    BY <1>4, <1>6, <2>1, <2>3, FullGoesOn DEF KeepsFile
  <2>4. CASE d.fat[j.at] \in Clusters /\ k.at = d.fat[j.at] /\ k.pc = "walk"
    <3>1. k.at \in Reached(d.fat, j.start)
      BY <2>1, <2>4, ReachedFacts
    <3> QED BY <1>4, <1>6, <2>4, <3>1, FullGoesOn DEF KeepsFile
  <2> QED BY <1>2, <1>3, <2>2, <2>3, <2>4
<1>7. ASSUME Told(own, d, j, last)
      PROVE  Told(own, d, k, last)
  <2>1. PICK path \in Seq(Clusters) : Laid(own, d, j, path)
    BY <1>4, <1>7 DEF Told
  <2>2. /\ Chained(own, d, j.start, j.put, path) /\ Chained(own, d, k.start, k.put, path)
        /\ Len(path) \in Nat /\ \A i \in 1..Len(path) : path[i] \in Clusters
        /\ j.left <= Len(j.put) /\ Len(j.put) - j.left + 1 <= Len(path) /\ j.at = path[Len(j.put) - j.left + 1]
        /\ Len(path) = Len(j.put) \/ Len(path) = Len(j.put) + 1
    BY <1>4, <2>1, LenProperties, ElementOfSeq DEF Laid, Chained, KeepsFile
  <2>3. PICK a, m, i : a = Len(path) /\ m = Len(j.put) /\ i = m - j.left + 1
    OBVIOUS
  <2>4. a \in Nat /\ m \in Nat /\ i \in Int /\ 1 <= i /\ i <= a /\ (a = m \/ a = m + 1) /\ j.at = path[i]
    BY <1>4, <2>2, <2>3
  <2>5. /\ i < a => d.fat[path[i]] = path[i + 1] /\ path[i + 1] \in Clusters
        /\ i = a => d.fat[path[i]] = EOC
    <3>1. i < a => i \in 1..a - 1 /\ i + 1 \in 1..a
      BY <2>4
    <3>2. path # <<>>
      BY <1>4, <2>2, Numbers DEF Chained
    <3> QED BY <2>2, <2>3, <3>1, <3>2 DEF Chained
  <2> SUFFICES Laid(own, d, k, path)
    BY <1>1, <1>3, <1>4, <1>7, ToldGoesOn DEF KeepsFile, LeftAlone
  <2>6. CASE Onwards(j, k)
    BY <1>4, <2>2, <2>6, LaidOnwards
  <2>7. CASE j.left = 0 /\ k.pc = "store" /\ k.at = j.at
    <3>1. i = m + 1 /\ a = m + 1
      BY <2>3, <2>4, <2>7
    <3> QED BY <1>4, <2>2, <2>3, <2>4, <2>7, <3>1 DEF Laid, KeepsFile
  <2>8. CASE j.left > 0 /\ d.fat[j.at] \in Clusters /\ k.pc = "walk" /\ k.at = d.fat[j.at] /\ k.left = j.left - 1
    <3>1. i # a
      BY <2>4, <2>5, <2>8, Numbers
    <3>2. i < a /\ k.left <= m /\ m - k.left + 1 = i + 1 /\ i + 1 <= a
      BY <1>4, <2>3, <2>4, <2>8, <3>1
    <3>3. k.at = path[i + 1] /\ Len(k.put) = m
      BY <2>3, <2>4, <2>5, <2>8, <3>2, <1>4 DEF KeepsFile
    <3> QED BY <2>2, <2>3, <2>8, <3>2, <3>3 DEF Laid
  <2>9. CASE j.left > 0 /\ d.fat[j.at] = EOC /\ k.pc = "alloc" /\ k.at = j.at /\ k.left = j.left
    <3>1. ~(i < a)
      BY <2>4, <2>5, <2>9, Numbers
    <3>2. i = a
      BY <2>4, <3>1
    <3>3. j.left = 1 /\ a = m
      BY <1>4, <2>3, <2>4, <2>9, <3>2
    <3> QED BY <1>4, <2>2, <2>3, <2>4, <2>9, <3>2, <3>3 DEF Laid, KeepsFile
  <2> QED BY <1>2, <1>3, <2>6, <2>7, <2>8, <2>9
<1>8. Sharing(own)'
  BY <1>1, <1>2, <1>3, <1>5, <1>6, <1>7, SharingStep
<1> QED
  BY <1>2, <1>8

LEMMA StoreFacts ==
  ASSUME SharedType, Store
  PROVE  /\ JobOk(job') /\ job.pc = "store" /\ KeepsFile(job, [job' EXCEPT !.put = job.put]) /\ ErrorsCounted
         /\ disk' \in Media /\ disk'.dir = disk.dir /\ disk'.fat = disk.fat
         /\ \A c \in Clusters : c # job.at => disk'.data[c] = disk.data[c]
         /\ \E i : /\ JobOk(i) /\ i.pc = "store" /\ i.name = job.name /\ i.slot = job.slot /\ i.start = job.start
                   /\ i.at = job.at /\ Onwards(i, job')
                   /\ \/ i.put = job.put
                      \/ \E t \in Tags : i.put = Append(job.put, t) /\ disk'.data[job.at] = t
<1>1. /\ JobOk(job) /\ job.pc = "store" /\ job.pc \in After /\ (Works \/ Fails) /\ disk \in Media
      /\ job \in Jobs /\ job.name \in Names /\ job.slot \in Slots /\ job.start \in Clusters /\ job.at \in Clusters
  BY DEF SharedType, Store, At, After, JobOk
<1>2. ErrorsCounted
  BY <1>1, Counts
<1>3. PICK t : t = Tag
  OBVIOUS
<1>4. t \in Tags
  <2>1. counts.saves \in Nat
    BY DEF SharedType
  <2>2. Len(job.put) + 1 \in Nat
    BY <1>1, JobFields
  <2> QED BY <1>3, <2>1, <2>2 DEF Tag, Tags
<1>5. PICK d, j, a, e : d = disk /\ j = job /\ a = job.at /\ e = disk'
  OBVIOUS
<1>6. PICK p : p = Written(d, a, t)
  OBVIOUS
<1>7. /\ p \in Media /\ p.dir = d.dir /\ p.fat = d.fat /\ p.data[a] = t
      /\ \A x \in Clusters : x # a => p.data[x] = d.data[x]
  <2>1. d \in Media /\ a \in Clusters
    BY <1>1, <1>5
  <2> QED BY <1>4, <1>6, <2>1, DataUpdate
<1>8. Put = p
  BY <1>3, <1>5, <1>6 DEF Put, Written
<1>9. e \in {d, p}
  BY <1>5, <1>8 DEF Store
<1>10. e \in Media /\ e.dir = d.dir /\ e.fat = d.fat /\ \A c \in Clusters : c # a => e.data[c] = d.data[c]
  BY <1>1, <1>5, <1>7, <1>9
<1>11. CASE Break
  <2>1. JobOk(job') /\ Onwards(job, job')
    BY <1>1, <1>11, BreakFacts
  <2> QED BY <1>1, <1>2, <1>5, <1>10, <2>1 DEF Onwards, KeepsFile
<1>12. CASE /\ disk' = Put
            /\ Onward([job EXCEPT !.put = Append(@, Tag), !.body = IF @ > 0 THEN @ - 1 ELSE 0,
                                  !.tail = IF job.body > 0 THEN @ ELSE 0])
  <2>1. PICK q, b, z : q = Append(j.put, t) /\ b = (IF j.body > 0 THEN j.body - 1 ELSE 0) /\ z = (IF j.body > 0 THEN j.tail ELSE 0)
    OBVIOUS
  <2>2. PICK i : i = [j EXCEPT !.put = q, !.body = b, !.tail = z]
    OBVIOUS
  <2>3. Onward(i)
    BY <1>3, <1>5, <1>12, <2>1, <2>2
  <2>4. b \in Nat /\ z \in Nat
    <3>1. j.body \in Nat /\ j.tail \in Nat
      BY <1>1, <1>5, JobFields
    <3> QED BY <2>1, <3>1
  <2>5. q \in Seq(Tags)
    <3>1. j.put \in Seq(Tags)
      BY <1>1, <1>5, JobFields
    <3> QED BY <1>4, <2>1, <3>1, AppendProperties
  <2>6. /\ i \in Jobs /\ i.pc = "store" /\ i.name = j.name /\ i.slot = j.slot /\ i.start = j.start /\ i.at = j.at /\ i.put = q
    BY <1>1, <1>5, <2>2, <2>4, <2>5 DEF Jobs
  <2>7. JobOk(i)
    BY <1>1, <1>5, <2>6, Numbers DEF JobOk, After
  <2>8. JobOk(job') /\ Onwards(i, job')
    <3>1. i.pc # "idle" /\ i.name \in Names /\ i.slot \in Slots /\ (i.start = 0 => i.put = <<>>)
      BY <1>1, <1>5, <2>6, Numbers
    <3> QED BY <2>3, <2>6, <3>1, OnwardFacts
  <2>9. disk'.data[job.at] = t
    BY <1>5, <1>7, <1>8, <1>12
  <2> QED BY <1>1, <1>2, <1>4, <1>5, <1>10, <2>1, <2>6, <2>7, <2>8, <2>9 DEF Onwards, KeepsFile
<1> QED
  BY <1>11, <1>12 DEF Store

LEMMA StoreShares ==
  ASSUME SharedType, Store, NEW own, Sharing(own)
  PROVE  JobOk(job') /\ ErrorsCounted /\ disk' \in Media /\ Sharing(own)'
<1>1. last' = last /\ torn' = torn /\ disk \in Media /\ last \in [Names -> Seq(Tags)] /\ JobOk(job)
  BY DEF SharedType, Store, At
<1>2. PICK d, e, j, k : d = disk /\ e = disk' /\ j = job /\ k = job'
  OBVIOUS
<1>3. PICK i : /\ JobOk(i) /\ i.pc = "store" /\ i.name = j.name /\ i.slot = j.slot /\ i.start = j.start
               /\ i.at = j.at /\ Onwards(i, k)
               /\ \/ i.put = j.put
                  \/ \E t \in Tags : i.put = Append(j.put, t) /\ e.data[j.at] = t
  BY <1>2, StoreFacts
<1>4. /\ JobOk(j) /\ JobOk(k) /\ j.pc = "store" /\ j.pc \in After /\ k.pc \in After /\ d \in Media /\ e \in Media
      /\ e.dir = d.dir /\ e.fat = d.fat /\ ErrorsCounted /\ k.slot = j.slot
      /\ \A c \in Clusters : c # j.at => e.data[c] = d.data[c]
  BY <1>1, <1>2, <1>3, StoreFacts DEF After, Onwards
<1>5. j.at \in Clusters /\ j.put \in Seq(Tags) /\ i.put \in Seq(Tags) /\ Len(j.put) \in Nat /\ i.pc \in After
  BY <1>3, <1>4, JobFields DEF JobOk
<1>6. ASSUME Owned(own, d, j)
      PROVE  Owned(own, e, k)
  <2>1. AtIts(i)
    BY <1>3 DEF AtIts
  <2>2. AtIts(j)
    BY <1>4 DEF AtIts
  <2>3. own[i.at] = JobMark
    BY <1>3, <1>6, <2>2 DEF Owned
  <2>4. Owned(own, d, i)
    BY <1>3, <1>4, <1>5, <1>6, <2>3, OwnedGoesOn
  <2> QED BY <1>3, <1>4, <1>5, <2>4, BrokenOff
<1>7. ASSUME Full(own, d, j)
      PROVE  Full(own, e, k)
  <2>1. AtIts(j)
    BY <1>4 DEF AtIts
  <2>2. i.at \in Reached(d.fat, i.start)
    BY <1>3, <1>7, <2>1 DEF Full
  <2>3. Full(own, d, i)
    BY <1>3, <1>4, <1>5, <1>7, <2>2, FullGoesOn
  <2> QED BY <1>3, <1>4, <1>5, <2>3, BrokenOff
<1>8. ASSUME Owned(own, d, j), Told(own, d, j, last)
      PROVE  Told(own, e, k, last)
  <2>1. PICK path \in Seq(Clusters) : Laid(own, d, j, path)
    BY <1>4, <1>8 DEF Told
  <2>2. Chained(own, d, j.start, j.put, path) /\ Len(path) = Len(j.put) + 1 /\ j.at = path[Len(path)] /\ Len(path) \in Nat
    BY <1>4, <2>1, LenProperties DEF Laid
  <2>3. \A x \in 1..Len(j.put) : path[x] # j.at /\ path[x] \in Clusters
    <3>1. \A x \in 1..Len(j.put) : x \in 1..Len(path) /\ Len(path) \in 1..Len(path) /\ x # Len(path)
      BY <1>5, <2>2
    <3> QED BY <2>2, <3>1, ElementOfSeq DEF Chained
  <2>4. Chained(own, e, k.start, k.put, path)
    <3>1. \A x \in 1..Len(j.put) : e.data[path[x]] = j.put[x]
      BY <1>4, <2>2, <2>3 DEF Chained
    <3>2. k.put = i.put /\ k.start = j.start
      BY <1>3 DEF Onwards
    <3>3. CASE i.put = j.put
      BY <1>4, <2>2, <3>1, <3>2, <3>3 DEF Chained
    <3>4. ASSUME NEW t \in Tags, i.put = Append(j.put, t), e.data[j.at] = t
          PROVE  Chained(own, e, k.start, k.put, path)
      <4>1. Len(i.put) = Len(j.put) + 1 /\ (\A x \in 1..Len(j.put) : i.put[x] = j.put[x]) /\ i.put[Len(j.put) + 1] = t
        BY <1>5, <3>4, AppendProperties
      <4>2. \A x \in 1..Len(i.put) : e.data[path[x]] = i.put[x]
        <5>1. SUFFICES ASSUME NEW x \in 1..Len(i.put)
                       PROVE  e.data[path[x]] = i.put[x]
          OBVIOUS
        <5>2. x \in 1..Len(j.put) \/ x = Len(j.put) + 1
          BY <1>5, <4>1
        <5> QED BY <2>2, <3>1, <3>4, <4>1, <5>2
      <4> QED BY <1>4, <2>2, <3>2, <4>1, <4>2 DEF Chained
    <3> QED BY <1>3, <3>3, <3>4
  <2>5. Laid(own, e, k, path)
    BY <1>3, <1>5, <2>4, LaidOnwards
  <2>6. LeftAlone(own, own, d, e)
    <3>1. own[j.at] = JobMark
      BY <1>4, <1>8 DEF Owned, AtIts
    <3> QED BY <1>4, <3>1, Marks DEF LeftAlone
  <2> QED BY <1>1, <1>4, <1>8, <2>5, <2>6, ToldGoesOn
<1>9. Sharing(own)'
  BY <1>1, <1>2, <1>4, <1>6, <1>7, <1>8, SharingStep
<1> QED
  BY <1>2, <1>4, <1>9

LEMMA LinkFacts ==
  ASSUME SharedType, Link
  PROVE  /\ JobOk(job') /\ job.pc = "link" /\ ErrorsCounted /\ KeepsFile(job, job')
         /\ job'.pc = "walk" /\ job'.at = job.old /\ job'.left = job.left - 1
         /\ job.at \in Clusters /\ job.old \in Clusters /\ job.start \in Clusters /\ job.left \in Nat
         /\ disk' \in Media /\ disk'.dir = disk.dir /\ disk'.data = disk.data
         /\ \A c \in Clusters : c # job.at => disk'.fat[c] = disk.fat[c]
         /\ \/ disk'.fat[job.at] = job.old
            \/ disk' = disk /\ "link" \in counts'.failed
<1>1. /\ JobOk(job) /\ job.pc = "link" /\ job.pc \in After /\ (Works \/ Fails) /\ disk \in Media
      /\ job \in Jobs /\ job.name \in Names /\ job.slot \in Slots /\ job.start \in Clusters /\ job.at \in Clusters
      /\ job.old \in Clusters /\ job.left >= 1
  BY DEF SharedType, Link, At, After, JobOk
<1>2. ErrorsCounted /\ (Fails => "link" \in counts'.failed)
  BY <1>1, Counts
<1>3. PICK j, m : j = job /\ m = job.left - 1
  OBVIOUS
<1>4. PICK o : o = job.old
  OBVIOUS
<1>5. PICK k : k = [j EXCEPT !.pc = "walk", !.at = o, !.left = m]
  OBVIOUS
<1>6. job' = k
  BY <1>3, <1>4, <1>5 DEF Link
<1>7. m \in Nat /\ o \in Nat /\ o \in Clusters /\ job.left \in Nat
  <2>1. job.left \in Nat /\ job.left >= 1 /\ job.old \in Nat
    BY <1>1, JobFields
  <2> QED BY <1>1, <1>3, <1>4, <2>1
<1>8. k \in Jobs /\ k.pc = "walk" /\ KeepsFile(j, k) /\ k.at = o /\ k.left = m
  BY <1>1, <1>3, <1>5, <1>7 DEF Jobs, Busy, KeepsFile
<1>9. JobOk(k)
  BY <1>1, <1>3, <1>7, <1>8, Numbers DEF JobOk, After, KeepsFile
<1>10. /\ disk' \in Media /\ disk'.dir = disk.dir /\ disk'.data = disk.data
       /\ \A c \in Clusters : c # job.at => disk'.fat[c] = disk.fat[c]
       /\ \/ disk'.fat[job.at] = job.old
          \/ disk' = disk /\ "link" \in counts'.failed
  <2>1. CASE Fails /\ disk' = disk
    BY <1>1, <1>2, <2>1
  <2>2. CASE disk' = [disk EXCEPT !.fat[job.at] = job.old]
    <3>1. PICK d, a, e : d = disk /\ a = job.at /\ e = disk'
      OBVIOUS
    <3>2. d \in Media /\ a \in Clusters /\ o \in Nat /\ e = [d EXCEPT !.fat[a] = o]
      BY <1>1, <1>4, <1>7, <2>2, <3>1
    <3>3. /\ e \in Media /\ e.dir = d.dir /\ e.data = d.data /\ e.fat[a] = o
          /\ \A x \in Clusters : x # a => e.fat[x] = d.fat[x]
      BY <3>2, FatUpdate
    <3> QED BY <1>4, <3>1, <3>3
  <2> QED BY <2>1, <2>2 DEF Link
<1> QED
  BY <1>1, <1>2, <1>3, <1>4, <1>6, <1>7, <1>8, <1>9, <1>10

LEMMA LinkShares ==
  ASSUME SharedType, Link, NEW own, Sharing(own)
  PROVE  JobOk(job') /\ ErrorsCounted /\ disk' \in Media /\ Sharing(own)'
<1>1. last' = last /\ torn' = torn /\ disk \in Media /\ last \in [Names -> Seq(Tags)] /\ JobOk(job)
  BY DEF SharedType, Link, At
<1>2. PICK d, e, j, k : d = disk /\ e = disk' /\ j = job /\ k = job'
  OBVIOUS
<1>3. /\ JobOk(k) /\ j.pc = "link" /\ ErrorsCounted /\ KeepsFile(j, k)
      /\ k.pc = "walk" /\ k.at = j.old /\ k.left = j.left - 1
      /\ j.at \in Clusters /\ j.old \in Clusters /\ j.start \in Clusters /\ j.left \in Nat
      /\ d \in Media /\ e \in Media /\ e.dir = d.dir /\ e.data = d.data
      /\ \A c \in Clusters : c # j.at => e.fat[c] = d.fat[c]
      /\ \/ e.fat[j.at] = j.old
         \/ e = d /\ "link" \in counts'.failed
  BY <1>1, <1>2, LinkFacts
<1>4. /\ j.pc \in After /\ k.pc \in After /\ j.pc # "free" /\ AtIts(j) /\ AtIts(k) /\ k.slot = j.slot /\ k.name = j.name
      /\ k.start = j.start /\ k.put = j.put /\ j.put \in Seq(Tags) /\ Len(j.put) \in Nat /\ Named(e) = Named(d)
  BY <1>1, <1>2, <1>3, JobFields DEF After, AtIts, KeepsFile, JobOk, Named
<1>5. ASSUME Owned(own, d, j)
      PROVE  Owned(own, e, k)
  <2>1. own[j.at] = JobMark /\ own[j.old] = JobMark
    BY <1>3, <1>4, <1>5 DEF Owned
  <2>2. e.fat[j.at] = d.fat[j.at] \/ e.fat[j.at] = j.old
    BY <1>3
  <2>3. \A c \in Clusters : own[c] \in 1..NEntries + 1 => e.fat[c] # Free
    <3>1. SUFFICES ASSUME NEW c \in Clusters, own[c] \in 1..NEntries + 1
                   PROVE  e.fat[c] # Free
      OBVIOUS
    <3>2. CASE c = j.at /\ e.fat[j.at] = j.old
      BY <1>3, <3>2, Numbers
    <3>3. CASE e.fat[c] = d.fat[c]
      BY <1>5, <3>1, <3>3 DEF Owned
    <3> QED BY <1>3, <2>2, <3>2, <3>3
  <2>4. \A c \in Clusters : own[c] # 0 /\ e.fat[c] \in Clusters => own[e.fat[c]] = own[c]
    <3>1. SUFFICES ASSUME NEW c \in Clusters, own[c] # 0, e.fat[c] \in Clusters
                   PROVE  own[e.fat[c]] = own[c]
      OBVIOUS
    <3>2. CASE e.fat[c] = d.fat[c]
      BY <1>5, <3>1, <3>2 DEF Owned
    <3>3. CASE c = j.at /\ e.fat[c] = j.old
      BY <2>1, <3>3
    <3> QED BY <1>3, <2>2, <3>2, <3>3
  <2>5. \A s \in Named(e) : e.dir[s].first # 0 => own[e.dir[s].first] = s
    BY <1>3, <1>4, <1>5 DEF Owned, After
  <2> QED BY <1>3, <1>4, <1>5, <2>1, <2>3, <2>4, <2>5 DEF Owned, After
<1>6. ASSUME Full(own, d, j), e.fat[j.at] = j.old
      PROVE  Full(own, e, k)
  <2>1. j.at \in Reached(d.fat, j.start) /\ d.fat[j.at] = EOC
    BY <1>3, <1>4, <1>6 DEF Full
  <2>2. \A x : Reached(d.fat, x) \subseteq Reached(e.fat, x)
    <3>1. SUFFICES ASSUME NEW x
                   PROVE  Reached(d.fat, x) \subseteq Reached(e.fat, x)
      OBVIOUS
    <3>2. \A c \in Clusters : d.fat[c] \in Clusters => e.fat[c] = d.fat[c]
      BY <1>3, <2>1, Numbers
    <3>3. \A c \in Reached(d.fat, x) : d.fat[c] \in Clusters => e.fat[c] = d.fat[c]
      BY <3>2, ReachedFacts
    <3> QED BY <3>3, ReachedStays
  <2>3. j.old \in Reached(e.fat, j.start)
    BY <1>3, <1>6, <2>1, <2>2, ReachedFacts
  <2>4. \A c \in Clusters : e.fat[c] # Free => own[c] # 0
    BY <1>3, <1>6, <2>1, Numbers DEF Full
  <2>5. \A c \in Clusters : own[c] \in Slots => /\ own[c] \in Named(e) /\ c \in Reached(e.fat, e.dir[own[c]].first)
    <3>1. SUFFICES ASSUME NEW c \in Clusters, own[c] \in Slots
                   PROVE  own[c] \in Named(e) /\ c \in Reached(e.fat, e.dir[own[c]].first)
      OBVIOUS
    <3>2. own[c] \in Named(d) /\ c \in Reached(d.fat, d.dir[own[c]].first)
      BY <1>6, <3>1 DEF Full
    <3> QED BY <1>3, <1>4, <2>2, <3>2
  <2>6. \A c \in Clusters : own[c] = JobMark => c \in Reached(e.fat, k.start)
    BY <1>4, <1>6, <2>2, <2>3 DEF Full
  <2> QED BY <1>3, <1>4, <2>3, <2>4, <2>5, <2>6 DEF Full
<1>7. ASSUME Owned(own, d, j), Told(own, d, j, last), e.fat[j.at] = j.old
      PROVE  Told(own, e, k, last)
  <2>1. PICK path \in Seq(Clusters) : Laid(own, d, j, path)
    BY <1>4, <1>7 DEF Told
  <2>2. PICK a : a = Len(path)
    OBVIOUS
  <2>3. /\ Chained(own, d, j.start, j.put, path) /\ a = Len(j.put) /\ a \in Nat /\ a >= 1 /\ j.left = 1 /\ j.at = path[a]
        /\ \A x \in 1..a : path[x] # j.old /\ path[x] \in Clusters
        /\ path # <<>> /\ path[1] = j.start
    <3>1. Chained(own, d, j.start, j.put, path) /\ path # <<>> /\ path[1] = j.start
      BY <1>3, <2>1, Numbers DEF Laid, Chained
    <3>2. a \in Nat /\ a >= 1
      BY <2>2, <3>1, LenProperties, EmptySeq
    <3> QED BY <1>3, <2>1, <2>2, <3>1, <3>2, ElementOfSeq DEF Laid
  <2>4. PICK path2 : path2 = Append(path, j.old)
    OBVIOUS
  <2>5. /\ path2 \in Seq(Clusters) /\ Len(path2) = a + 1 /\ path2[a + 1] = j.old
        /\ \A x \in 1..a : path2[x] = path[x]
    BY <1>3, <2>2, <2>4, AppendProperties
  <2>6. own[j.at] = JobMark /\ own[j.old] = JobMark /\ d.fat[j.old] = EOC
    BY <1>3, <1>4, <1>7 DEF Owned
  <2>7. \A x \in 1..a + 1 : x \in 1..a \/ x = a + 1
    BY <2>3
  <2>8. /\ 1 \in 1..a /\ a \in 1..a /\ \A x \in 1..a - 1 : x \in 1..a /\ x + 1 \in 1..a /\ x # a
        /\ a + 1 - 1 = a
    BY <2>3
  <2>9. Chained(own, e, k.start, k.put, path2)
    <3>1. path2 # <<>> /\ path2[1] = j.start
      <4>1. a + 1 # 0
        BY <2>3
      <4>2. path2 # <<>>
        BY <2>5, <4>1, EmptySeq
      <4> QED BY <2>3, <2>5, <2>8, <4>2
    <3>2. \A x \in 1..a + 1 : own[path2[x]] = JobMark
      BY <2>2, <2>3, <2>5, <2>6, <2>7 DEF Chained
    <3>3. \A x \in 1..a : e.fat[path2[x]] = path2[x + 1]
      <4>1. SUFFICES ASSUME NEW x \in 1..a
                     PROVE  e.fat[path2[x]] = path2[x + 1]
        OBVIOUS
      <4>2. CASE x = a
        BY <1>7, <2>3, <2>5, <4>2
      <4>3. CASE x # a
        <5>1. x \in 1..a - 1 /\ x + 1 \in 1..a /\ a \in 1..a
          BY <2>3, <4>3
        <5>2. path[x] # path[a]
          BY <2>2, <2>3, <4>3, <5>1 DEF Chained
        <5>3. e.fat[path[x]] = d.fat[path[x]] /\ d.fat[path[x]] = path[x + 1]
          BY <1>3, <2>2, <2>3, <5>1, <5>2 DEF Chained
        <5> QED BY <2>5, <5>1, <5>3
      <4> QED BY <4>2, <4>3
    <3>4. e.fat[path2[a + 1]] = EOC
      BY <1>3, <2>3, <2>5, <2>6, <2>8
    <3>5. \A x, y \in 1..a + 1 : path2[x] = path2[y] => x = y
      BY <2>2, <2>3, <2>5, <2>7 DEF Chained
    <3>6. \A x \in 1..a : e.data[path2[x]] = j.put[x]
      BY <1>3, <2>2, <2>3, <2>5 DEF Chained
    <3>7. Len(path2) = a + 1 /\ Len(path2) - 1 = a /\ Len(k.put) = a /\ k.put = j.put /\ k.start = j.start
      BY <1>4, <2>3, <2>5, <2>8
    <3>8. k.start # 0
      BY <1>3, <3>7, Numbers
    <3>9. e.fat[path2[Len(path2)]] = EOC /\ \A x \in 1..Len(path2) - 1 : e.fat[path2[x]] = path2[x + 1]
      BY <3>3, <3>4, <3>7
    <3> QED BY <3>1, <3>2, <3>5, <3>6, <3>7, <3>8, <3>9 DEF Chained
  <2>10. Laid(own, e, k, path2)
    <3>1. k.left = 0 /\ Len(k.put) = a /\ a - 0 + 1 = a + 1
      BY <1>3, <1>4, <2>3
    <3> QED BY <1>3, <2>3, <2>5, <2>9, <3>1 DEF Laid
  <2>11. LeftAlone(own, own, d, e)
    BY <1>3, <2>6, Marks DEF LeftAlone
  <2> QED BY <1>1, <1>3, <1>4, <1>7, <2>5, <2>10, <2>11, ToldGoesOn
<1>8. Sharing(own)'
  BY <1>1, <1>2, <1>3, <1>5, <1>6, <1>7, SharingStep
<1> QED
  BY <1>2, <1>3, <1>8

\* The job has its cluster: the first of the file, or one to be linked.
LEMMA GotFacts ==
  ASSUME JobOk(job), job.pc = "alloc", NEW c \in Clusters, Got(c)
  PROVE  /\ JobOk(job') /\ job'.pc \in {"store", "link"} /\ job'.name = job.name /\ job'.slot = job.slot /\ job'.put = job.put
         /\ job.start = 0 => job'.pc = "store" /\ job'.start = c /\ job'.at = c
         /\ job.start # 0 => job'.pc = "link" /\ job'.old = c /\ job'.start = job.start /\ job'.at = job.at /\ job'.left = job.left
<1>1. /\ job \in Jobs /\ job.name \in Names /\ job.slot \in Slots /\ (job.start = 0 => job.put = <<>>)
      /\ (job.start # 0 => job.at \in Clusters /\ job.left >= 1)
      /\ job.start \in {0} \cup Clusters /\ c \in Nat /\ c # 0
  BY JobFields, Numbers DEF JobOk, After
<1>2. PICK j : j = job
  OBVIOUS
<1>3. CASE job.start = 0
  <2>1. PICK k : k = [j EXCEPT !.pc = "store", !.start = c, !.at = c]
    OBVIOUS
  <2>2. job' = k
    BY <1>2, <1>3, <2>1 DEF Got
  <2>3. /\ k \in Jobs /\ k.pc = "store" /\ k.start = c /\ k.at = c /\ k.name = j.name /\ k.slot = j.slot /\ k.put = j.put
    BY <1>1, <1>2, <2>1 DEF Jobs, Busy
  <2> QED BY <1>1, <1>2, <1>3, <2>2, <2>3 DEF JobOk, After
<1>4. CASE job.start # 0
  <2>1. PICK k : k = [j EXCEPT !.pc = "link", !.old = c]
    OBVIOUS
  <2>2. job' = k
    BY <1>2, <1>4, <2>1 DEF Got
  <2>3. /\ k \in Jobs /\ k.pc = "link" /\ k.old = c /\ k.start = j.start /\ k.at = j.at /\ k.left = j.left
        /\ k.name = j.name /\ k.slot = j.slot /\ k.put = j.put
    BY <1>1, <1>2, <2>1 DEF Jobs, Busy
  <2> QED BY <1>1, <1>2, <1>4, <2>2, <2>3 DEF JobOk, After
<1> QED
  BY <1>3, <1>4

LEMMA FirstFreeFacts ==
  ASSUME FreeClusters # {}
  PROVE  FirstFree \in Clusters /\ disk.fat[FirstFree] = Free
<1>1. FreeClusters \subseteq Clusters /\ FreeClusters \subseteq Nat
  BY Numbers DEF FreeClusters
<1>2. \E c \in FreeClusters : \A d \in FreeClusters : c <= d
  BY <1>1, LeastExists
<1>3. FirstFree \in FreeClusters
  BY <1>2 DEF FirstFree
<1> QED
  BY <1>3 DEF FreeClusters

LEMMA AllocateFacts ==
  ASSUME SharedType, Allocate
  PROVE  /\ JobOk(job') /\ disk' \in Media /\ ErrorsCounted
         /\ \/ disk' = disk /\ Onwards(job, job')
            \/ "alloc" \in counts'.failed
            \/ /\ FirstFree \in Clusters /\ disk.fat[FirstFree] = Free
               /\ Got(FirstFree) /\ disk' = Marked(FirstFree)
<1>1. JobOk(job) /\ job.pc = "alloc" /\ job.pc \in After /\ (Works \/ Fails) /\ disk \in Media
  BY DEF SharedType, Allocate, At, After
<1>2. ErrorsCounted /\ (Fails => "alloc" \in counts'.failed)
  BY <1>1, Counts
<1>3. CASE Break /\ UNCHANGED disk
  BY <1>1, <1>2, <1>3, BreakFacts
<1>4. CASE FreeClusters # {} /\ Got(FirstFree) /\ disk' = Marked(FirstFree)
  <2>1. FirstFree \in Clusters /\ disk.fat[FirstFree] = Free
    BY <1>4, FirstFreeFacts
  <2>2. JobOk(job')
    BY <1>1, <1>4, <2>1, GotFacts
  <2>3. disk' \in Media
    <3>1. PICK c : c = FirstFree
      OBVIOUS
    <3>2. Marked(c) \in Media
      BY <1>1, <2>1, <3>1, MarkUpdate
    <3> QED BY <1>4, <3>1, <3>2
  <2> QED BY <1>2, <1>4, <2>1, <2>2, <2>3
<1>5. CASE /\ FreeClusters # {} /\ Fails /\ Got(FirstFree)
           /\ disk' \in {[disk EXCEPT !.data[FirstFree] = Blank], [disk EXCEPT !.fat[FirstFree] = EOC]}
  <2>1. FirstFree \in Clusters
    BY <1>5, FirstFreeFacts
  <2>2. JobOk(job')
    BY <1>1, <1>5, <2>1, GotFacts
  <2>3. PICK c, d, b : c = FirstFree /\ d = disk /\ b = Blank
    OBVIOUS
  <2>4. b \in Tags /\ c \in Clusters /\ d \in Media
    BY <1>1, <2>1, <2>3 DEF Blank, Tags
  <2>5. Written(d, c, b) \in Media
    BY <2>4, DataUpdate
  <2>6. PICK e : e = [d EXCEPT !.fat[c] = EOC]
    OBVIOUS
  <2>7. e \in Media
    BY <2>4, <2>6, Numbers, FatUpdate
  <2>8. disk' = Written(d, c, b) \/ disk' = e
    BY <1>5, <2>3, <2>6 DEF Written
  <2> QED BY <1>2, <1>5, <2>2, <2>5, <2>7, <2>8
<1>6. CASE Fails /\ \E c \in Clusters : Got(c) /\ disk' = Marked(c)
  <2>1. PICK c \in Clusters : Got(c) /\ disk' = Marked(c)
    BY <1>6
  <2>2. JobOk(job')
    BY <1>1, <2>1, GotFacts
  <2>3. PICK e : e = Marked(c)
    OBVIOUS
  <2>4. e \in Media
    BY <1>1, <2>3, MarkUpdate
  <2> QED BY <1>2, <1>6, <2>1, <2>2, <2>3, <2>4
<1> QED
  BY <1>3, <1>4, <1>5, <1>6 DEF Allocate

LEMMA AllocateShares ==
  ASSUME SharedType, Allocate, NEW own, Sharing(own)
  PROVE  JobOk(job') /\ ErrorsCounted /\ disk' \in Media /\ \E own2 : Sharing(own2)'
<1>1. /\ last' = last /\ torn' = torn /\ disk \in Media /\ last \in [Names -> Seq(Tags)] /\ JobOk(job) /\ job.pc = "alloc"
  BY DEF SharedType, Allocate, At
<1>2. /\ JobOk(job') /\ disk' \in Media /\ ErrorsCounted
  BY AllocateFacts
<1>3. CASE "alloc" \in counts'.failed
  <2>1. Sharing(own)'
    BY <1>1, <1>2, <1>3, SharingStep
  <2> QED BY <1>2, <2>1
<1>4. CASE disk' = disk /\ Onwards(job, job')
  <2>1. PICK d, j, k : d = disk /\ j = job /\ k = job'
    OBVIOUS
  <2>2. /\ d \in Media /\ JobOk(j) /\ JobOk(k) /\ j.pc \in After /\ j.pc # "link" /\ Onwards(j, k) /\ k.pc \in After
        /\ k.slot = j.slot /\ j.put \in Seq(Tags)
    BY <1>1, <1>2, <1>4, <2>1, JobFields DEF After, Onwards, JobOk
  <2>3. /\ Owned(own, d, j) => Owned(own, d, k)
        /\ Full(own, d, j) => Full(own, d, k)
    BY <2>2, BrokenOff
  <2>4. ASSUME Told(own, d, j, last)
        PROVE  Told(own, d, k, last)
    <3>1. PICK path \in Seq(Clusters) : Laid(own, d, j, path)
      BY <2>2, <2>4 DEF Told
    <3>2. Chained(own, d, k.start, k.put, path)
      BY <2>2, <3>1 DEF Laid, Onwards
    <3>3. Laid(own, d, k, path)
      BY <2>2, <3>2, LaidOnwards
    <3> QED BY <1>1, <2>2, <2>4, <3>3, ToldGoesOn DEF LeftAlone
  <2>5. Sharing(own)'
    BY <1>1, <1>2, <1>4, <2>1, <2>3, <2>4, SharingStep
  <2> QED BY <1>2, <2>5
<1>5. CASE FirstFree \in Clusters /\ disk.fat[FirstFree] = Free /\ Got(FirstFree) /\ disk' = Marked(FirstFree)
  <2>1. PICK d, e, j, k, f : d = disk /\ e = disk' /\ j = job /\ k = job' /\ f = FirstFree
    OBVIOUS
  <2>2. /\ d \in Media /\ e \in Media /\ f \in Clusters /\ d.fat[f] = Free /\ e.dir = d.dir /\ e.fat[f] = EOC
        /\ \A x \in Clusters : x # f => e.fat[x] = d.fat[x] /\ e.data[x] = d.data[x]
    <3>1. f \in Clusters /\ e = Marked(f) /\ d.fat[f] = Free
      BY <1>5, <2>1
    <3> QED BY <1>1, <1>2, <2>1, <3>1, MarkUpdate
  <2>3. /\ JobOk(j) /\ JobOk(k) /\ j.pc = "alloc" /\ k.pc \in {"store", "link"} /\ k.name = j.name /\ k.slot = j.slot /\ k.put = j.put
        /\ j.start = 0 => k.pc = "store" /\ k.start = f /\ k.at = f
        /\ j.start # 0 => k.pc = "link" /\ k.old = f /\ k.start = j.start /\ k.at = j.at /\ k.left = j.left
    BY <1>1, <1>2, <1>5, <2>1, GotFacts
  <2>4. /\ j.pc \in After /\ k.pc \in After /\ Named(e) = Named(d) /\ AtIts(k) /\ (j.start # 0 => AtIts(j))
        /\ (j.start # 0 => j.at \in Clusters /\ j.start \in Clusters) /\ (j.start = 0 => j.put = <<>>) /\ j.put \in Seq(Tags) /\ Len(j.put) \in Nat
    BY <2>2, <2>3, JobFields DEF After, Named, AtIts, JobOk
  <2>5. PICK o2 : o2 = [own EXCEPT ![f] = JobMark]
    OBVIOUS
  <2>6. ASSUME Owned(own, d, j)
        PROVE  /\ o2 \in [Clusters -> 0..NEntries + 2] /\ o2[f] = JobMark /\ own[f] = 0
               /\ \A x \in Clusters : x # f => o2[x] = own[x]
               /\ \A x \in Clusters : own[x] # 0 => o2[x] = own[x]
    <3>1. own \in [Clusters -> 0..NEntries + 2] /\ JobMark \in 0..NEntries + 2
      BY <2>6, Marks DEF Owned
    <3>2. own[f] = 0
      <4>1. own[f] \notin {JobMark} \cup Slots
        BY <2>2, <2>6, Marks DEF Owned
      <4>2. own[f] # FreedMark
        BY <2>2, <2>3, <2>6 DEF Owned
      <4>3. own[f] \in {0, JobMark, FreedMark} \cup Slots
        BY <2>2, <3>1, Marks
      <4> QED BY <4>1, <4>2, <4>3
    <3> QED BY <2>2, <2>5, <3>1, <3>2
  <2>7. ASSUME Owned(own, d, j)
        PROVE  Owned(o2, e, k)
    <3>1. /\ o2 \in [Clusters -> 0..NEntries + 2] /\ o2[f] = JobMark /\ own[f] = 0
          /\ \A x \in Clusters : x # f => o2[x] = own[x]
          /\ \A x \in Clusters : own[x] # 0 => o2[x] = own[x]
      BY <2>6, <2>7
    <3>2. \A c \in Clusters : o2[c] \in 1..NEntries + 1 => e.fat[c] # Free
      <4>1. SUFFICES ASSUME NEW c \in Clusters, o2[c] \in 1..NEntries + 1
                     PROVE  e.fat[c] # Free
        OBVIOUS
      <4>2. CASE c = f
        BY <2>2, <4>2, Numbers
      <4>3. CASE c # f
        <5>1. own[c] \in 1..NEntries + 1 /\ e.fat[c] = d.fat[c]
          BY <2>2, <3>1, <4>1, <4>3
        <5> QED BY <2>7, <5>1 DEF Owned
      <4> QED BY <4>2, <4>3
    <3>3. \A c \in Clusters : o2[c] # 0 /\ e.fat[c] \in Clusters => o2[e.fat[c]] = o2[c]
      <4>1. SUFFICES ASSUME NEW c \in Clusters, o2[c] # 0, e.fat[c] \in Clusters
                     PROVE  o2[e.fat[c]] = o2[c]
        OBVIOUS
      <4>2. c # f
        BY <2>2, <4>1, Numbers
      <4>3. own[c] # 0 /\ e.fat[c] = d.fat[c] /\ own[d.fat[c]] = own[c]
        BY <2>2, <2>7, <3>1, <4>1, <4>2 DEF Owned
      <4> QED BY <3>1, <4>1, <4>3
    <3>4. \A s \in Named(e) : e.dir[s].first # 0 => o2[e.dir[s].first] = s
      <4>1. SUFFICES ASSUME NEW s \in Named(e), e.dir[s].first # 0
                     PROVE  o2[e.dir[s].first] = s
        OBVIOUS
      <4>2. s \in Slots /\ e.dir[s].first \in Clusters
        BY <2>2, <4>1, MediaFields DEF Named
      <4>3. own[e.dir[s].first] = s
        BY <2>2, <2>3, <2>4, <2>7, <4>1 DEF Owned
      <4> QED BY <3>1, <4>2, <4>3, Numbers
    <3>5. o2[k.start] = JobMark /\ o2[k.at] = JobMark
      <4>1. CASE j.start = 0
        BY <2>3, <3>1, <4>1
      <4>2. CASE j.start # 0
        <5>1. own[j.start] = JobMark /\ own[j.at] = JobMark
          BY <2>4, <2>7, <4>2 DEF Owned
        <5> QED BY <2>3, <2>4, <3>1, <4>2, <5>1, Marks
      <4> QED BY <4>1, <4>2
    <3>6. k.pc = "link" => o2[k.old] = JobMark /\ e.fat[k.old] = EOC
      BY <2>2, <2>3, <3>1
    <3>7. \A c \in Clusters : o2[c] # FreedMark
      BY <2>3, <2>7, <3>1, Marks DEF Owned
    <3>8. e.dir[k.slot].name = k.name /\ e.dir[k.slot].first = 0 /\ e.dir[k.slot].size = 0
      BY <2>2, <2>3, <2>4, <2>7 DEF Owned
    <3> QED BY <2>3, <3>1, <3>2, <3>3, <3>4, <3>5, <3>6, <3>7, <3>8 DEF Owned
  <2>8. ASSUME Owned(own, d, j), Full(own, d, j)
        PROVE  Full(o2, e, k)
    <3>1. /\ o2[f] = JobMark /\ own[f] = 0
          /\ \A x \in Clusters : x # f => o2[x] = own[x]
          /\ \A x \in Clusters : own[x] # 0 => o2[x] = own[x]
      BY <2>6, <2>8
    <3>2. \A x : Reached(d.fat, x) \subseteq Reached(e.fat, x)
      <4>1. SUFFICES ASSUME NEW x
                     PROVE  Reached(d.fat, x) \subseteq Reached(e.fat, x)
        OBVIOUS
      <4>2. \A c \in Clusters : d.fat[c] \in Clusters => e.fat[c] = d.fat[c]
        BY <2>2, Numbers
      <4>3. \A c \in Reached(d.fat, x) : d.fat[c] \in Clusters => e.fat[c] = d.fat[c]
        BY <4>2, ReachedFacts
      <4> QED BY <4>3, ReachedStays
    <3>3. \A c \in Clusters : e.fat[c] # Free => o2[c] # 0
      BY <2>2, <2>8, <3>1, Marks DEF Full
    <3>4. \A c \in Clusters : o2[c] \in Slots => /\ o2[c] \in Named(e) /\ c \in Reached(e.fat, e.dir[o2[c]].first)
      <4>1. SUFFICES ASSUME NEW c \in Clusters, o2[c] \in Slots
                     PROVE  o2[c] \in Named(e) /\ c \in Reached(e.fat, e.dir[o2[c]].first)
        OBVIOUS
      <4>2. own[c] = o2[c]
        BY <3>1, <4>1, Marks
      <4>3. own[c] \in Named(d) /\ c \in Reached(d.fat, d.dir[own[c]].first)
        BY <2>8, <4>1, <4>2 DEF Full
      <4> QED BY <2>2, <2>4, <3>2, <4>2, <4>3
    <3>5. \A c \in Clusters : o2[c] = JobMark => c \in Reached(e.fat, k.start) \/ (k.pc = "link" /\ c = k.old)
      <4>1. SUFFICES ASSUME NEW c \in Clusters, o2[c] = JobMark
                     PROVE  c \in Reached(e.fat, k.start) \/ (k.pc = "link" /\ c = k.old)
        OBVIOUS
      <4>2. CASE c = f
        BY <2>2, <2>3, <4>2, ReachedFacts
      <4>3. CASE c # f
        <5>1. own[c] = JobMark
          BY <3>1, <4>1, <4>3
        <5>2. c \in Reached(d.fat, j.start)
          BY <2>3, <2>8, <5>1 DEF Full
        <5>3. j.start # 0
          BY <5>2, Numbers, ReachedFacts
        <5> QED BY <2>3, <3>2, <5>2, <5>3
      <4> QED BY <4>2, <4>3
    <3>6. k.at \in Reached(e.fat, k.start)
      <4>1. CASE j.start = 0
        BY <2>2, <2>3, <4>1, ReachedFacts
      <4>2. CASE j.start # 0
        BY <2>3, <2>4, <2>8, <3>2, <4>2 DEF Full
      <4> QED BY <4>1, <4>2
    <3>7. k.pc = "link" => e.fat[k.at] = EOC
      <4>1. SUFFICES ASSUME k.pc = "link"
                     PROVE  e.fat[k.at] = EOC
        OBVIOUS
      <4>2. j.start # 0 /\ k.at = j.at /\ d.fat[j.at] = EOC /\ j.at \in Clusters
        BY <2>3, <2>4, <2>8, <4>1 DEF Full
      <4> QED BY <2>2, <4>2
    <3> QED BY <2>3, <3>3, <3>4, <3>5, <3>6, <3>7 DEF Full
  <2>9. ASSUME Owned(own, d, j), Told(own, d, j, last)
        PROVE  Told(o2, e, k, last)
    <3>1. /\ o2[f] = JobMark /\ own[f] = 0
          /\ \A x \in Clusters : own[x] # 0 => o2[x] = own[x]
      BY <2>6, <2>9
    <3>2. LeftAlone(own, o2, d, e)
      BY <2>2, <3>1, Numbers DEF LeftAlone
    <3>3. PICK path \in Seq(Clusters) : Laid(own, d, j, path)
      BY <2>4, <2>9 DEF Told
    <3>4. \E path2 \in Seq(Clusters) : Laid(o2, e, k, path2)
      <4>1. CASE j.start = 0
        <5>1. PICK p : p = <<f>>
          OBVIOUS
        <5>2. p \in Seq(Clusters) /\ Len(p) = 1 /\ p[1] = f /\ p # <<>>
          BY <2>2, <5>1
        <5>3. Len(j.put) = 0 /\ k.put = j.put /\ k.start = f /\ f # 0
          BY <2>2, <2>3, <2>4, <4>1, EmptySeq, Numbers
        <5>4. Chained(o2, e, k.start, k.put, p)
          <6>1. \A x \in 1..1 : x = 1
            OBVIOUS
          <6>2. \A x \in 1..0 : FALSE
            OBVIOUS
          <6> QED BY <2>2, <3>1, <5>2, <5>3, <6>1, <6>2 DEF Chained
        <5>5. Laid(o2, e, k, p)
          BY <2>3, <4>1, <5>2, <5>3, <5>4 DEF Laid
        <5> QED BY <5>2, <5>5
      <4>2. CASE j.start # 0
        <5>1. /\ Chained(own, d, j.start, j.put, path) /\ j.left = 1 /\ Len(path) = Len(j.put) /\ j.at = path[Len(path)]
              /\ Len(path) \in Nat /\ path # <<>> /\ \A x \in 1..Len(path) : path[x] \in Clusters
          BY <2>3, <3>3, <4>2, LenProperties, ElementOfSeq DEF Laid, Chained
        <5>2. \A x \in 1..Len(path) : own[path[x]] = JobMark /\ path[x] # f
          BY <3>1, <5>1, Marks DEF Chained
        <5>3. \A x \in 1..Len(path) : o2[path[x]] = JobMark /\ e.fat[path[x]] = d.fat[path[x]] /\ e.data[path[x]] = d.data[path[x]]
          BY <2>2, <3>1, <5>1, <5>2, Marks
        <5>4. Len(path) \in 1..Len(path) /\ \A x \in 1..Len(path) - 1 : x \in 1..Len(path)
          <6>1. Len(path) # 0
            BY <5>1, EmptySeq
          <6> QED BY <5>1, <6>1
        <5>5. Chained(o2, e, k.start, k.put, path)
          <6>1. \A x \in 1..Len(path) - 1 : e.fat[path[x]] = path[x + 1]
            BY <5>1, <5>3, <5>4 DEF Chained
          <6>2. e.fat[path[Len(path)]] = EOC
            BY <5>1, <5>3, <5>4 DEF Chained
          <6>3. \A x \in 1..Len(k.put) : e.data[path[x]] = k.put[x]
            BY <2>3, <5>1, <5>3 DEF Chained
          <6> QED BY <2>3, <4>2, <5>1, <5>3, <6>1, <6>2, <6>3 DEF Chained
        <5>6. Laid(o2, e, k, path)
          BY <2>3, <4>2, <5>1, <5>2, <5>5 DEF Laid
        <5> QED BY <5>6
      <4> QED BY <4>1, <4>2
    <3>5. d \in Media /\ e.dir = d.dir /\ j.pc \in After /\ k.pc \in After /\ k.slot = j.slot /\ last \in [Names -> Seq(Tags)]
      BY <1>1, <2>2, <2>3, <2>4
    <3>6. Told(own, d, j, last)
      BY <2>9
    <3> QED BY <3>2, <3>4, <3>5, <3>6, ToldGoesOn
  <2>10. Sharing(o2)'
    BY <1>1, <1>2, <2>1, <2>7, <2>8, <2>9, SharingStep
  <2> QED BY <1>2, <2>10
<1> QED
  BY <1>3, <1>4, <1>5, AllocateFacts

LEMMA CloseShares ==
  ASSUME SharedType, Close, NEW own, Sharing(own)
  PROVE  JobOk(job') /\ ErrorsCounted /\ disk' \in Media /\ last' \in [Names -> Seq(Tags)] /\ \E own2 : Sharing(own2)'
<1>1. /\ torn' = torn /\ disk \in Media /\ last \in [Names -> Seq(Tags)] /\ JobOk(job) /\ job.pc = "close" /\ job' = Idle
      /\ (Works \/ Fails) /\ job.pc \in After /\ job.slot \in Slots /\ job.name \in Names /\ job.put \in Seq(Tags)
      /\ job.start \in {0} \cup Clusters
  BY JobFields DEF SharedType, Close, At, JobOk, After
<1>2. JobOk(job') /\ ErrorsCounted /\ (Fails => "close" \in counts'.failed)
  BY <1>1, IdleOk, Counts
<1>3. PICK d, e, j, k, l : d = disk /\ e = disk' /\ j = job /\ k = job' /\ l = last'
  OBVIOUS
<1>4. PICK g : g = Entered
  OBVIOUS
<1>5. /\ g \in Media /\ g.fat = d.fat /\ g.data = d.data
      /\ g.dir[j.slot].name = d.dir[j.slot].name
      /\ g.dir[j.slot].first = j.start /\ g.dir[j.slot].size = Len(j.put)
      /\ \A x \in Slots : x # j.slot => g.dir[x] = d.dir[x]
  BY <1>1, <1>3, <1>4, EnterUpdate
<1>6. e \in {d, g} /\ (e = g \/ "close" \in counts'.failed)
  BY <1>1, <1>2, <1>3, <1>4 DEF Close
<1>7. l \in [Names -> Seq(Tags)] /\ l[j.name] = j.put /\ \A f \in Names : f # j.name => l[f] = last[f]
  BY <1>1, <1>3 DEF Close
<1>8. /\ d \in Media /\ e \in Media /\ JobOk(j) /\ j.pc = "close" /\ j.slot \in Slots /\ j.name \in Names /\ j.put \in Seq(Tags)
      /\ Len(j.put) \in Nat /\ k = Idle /\ k.pc = "idle" /\ k.start = 0 /\ k.put = <<>> /\ j.start \in {0} \cup Clusters /\ j.pc \in After
      /\ j.name # NoName
  BY <1>1, <1>3, <1>5, <1>6, IdleOk, SharedAssumption, JobFields DEF JobOk
<1>9. e.fat = d.fat /\ e.data = d.data /\ Named(e) = Named(d) /\ \A x \in Slots : e.dir[x].name = d.dir[x].name
  <2>1. e.fat = d.fat /\ e.data = d.data /\ \A x \in Slots : e.dir[x].name = d.dir[x].name
    BY <1>5, <1>6
  <2> QED BY <2>1 DEF Named
<1>10. PICK o2 : o2 = [c \in Clusters |-> IF own[c] = JobMark THEN IF e = g THEN j.slot ELSE 0 ELSE own[c]]
  OBVIOUS
<1>11. /\ \A c \in Clusters : own[c] = JobMark => o2[c] = IF e = g THEN j.slot ELSE 0
       /\ \A c \in Clusters : own[c] # JobMark => o2[c] = own[c]
  BY <1>10
<1>12. ASSUME Owned(own, d, j)
       PROVE  Owned(o2, e, k)
  <2>1. /\ own \in [Clusters -> 0..NEntries + 2]
        /\ \A c \in Clusters : own[c] \in 1..NEntries + 1 => d.fat[c] # Free
        /\ \A c \in Clusters : own[c] # 0 /\ d.fat[c] \in Clusters => own[d.fat[c]] = own[c]
        /\ \A s \in Named(d) : d.dir[s].first # 0 => own[d.dir[s].first] = s
        /\ j.start # 0 => own[j.start] = JobMark
        /\ \A c \in Clusters : own[c] # FreedMark
        /\ d.dir[j.slot].name = j.name /\ d.dir[j.slot].first = 0 /\ d.dir[j.slot].size = 0
    BY <1>8, <1>12 DEF Owned, After
  <2>2. o2 \in [Clusters -> 0..NEntries + 2]
    <3>1. j.slot \in 0..NEntries + 2 /\ 0 \in 0..NEntries + 2
      BY <1>8, Marks
    <3> QED BY <1>10, <2>1, <3>1
  <2>3. \A c \in Clusters : o2[c] \in 1..NEntries + 1 => e.fat[c] # Free
    <3>1. SUFFICES ASSUME NEW c \in Clusters, o2[c] \in 1..NEntries + 1
                   PROVE  e.fat[c] # Free
      OBVIOUS
    <3>2. own[c] \in 1..NEntries + 1
      BY <1>11, <3>1, Marks
    <3> QED BY <1>9, <2>1, <3>2
  <2>4. \A c \in Clusters : o2[c] # 0 /\ e.fat[c] \in Clusters => o2[e.fat[c]] = o2[c]
    <3>1. SUFFICES ASSUME NEW c \in Clusters, o2[c] # 0, e.fat[c] \in Clusters
                   PROVE  o2[e.fat[c]] = o2[c]
      OBVIOUS
    <3>2. own[c] # 0
      BY <1>11, <3>1, Marks
    <3>3. own[e.fat[c]] = own[c]
      BY <1>9, <2>1, <3>1, <3>2
    <3> QED BY <1>11, <3>1, <3>3
  <2>5. \A s \in Named(e) : e.dir[s].first # 0 => o2[e.dir[s].first] = s
    <3>1. SUFFICES ASSUME NEW s \in Named(e), e.dir[s].first # 0
                   PROVE  o2[e.dir[s].first] = s
      OBVIOUS
    <3>2. s \in Slots /\ e.dir[s].first \in Clusters /\ s \in Named(d)
      BY <1>8, <1>9, <3>1, MediaFields DEF Named
    <3>3. CASE e.dir[s] = d.dir[s]
      <4>1. own[e.dir[s].first] = s
        BY <2>1, <3>1, <3>2, <3>3
      <4> QED BY <1>11, <3>2, <4>1, Marks
    <3>4. CASE e = g /\ s = j.slot
      <4>1. e.dir[s].first = j.start /\ own[j.start] = JobMark
        BY <1>5, <2>1, <3>1, <3>4
      <4> QED BY <1>11, <3>2, <3>4, <4>1
    <3> QED BY <1>5, <1>6, <3>2, <3>3, <3>4
  <2>6. \A c \in Clusters : o2[c] # FreedMark
    BY <1>8, <1>11, <2>1, Marks
  <2> QED BY <1>8, <2>2, <2>3, <2>4, <2>5, <2>6 DEF Owned, AtIts, After
<1>13. ASSUME Owned(own, d, j), Full(own, d, j), e = g
       PROVE  Full(o2, e, k)
  <2>1. d.dir[j.slot].name = j.name /\ \A c \in Clusters : own[c] # FreedMark
    BY <1>8, <1>13 DEF Owned, After
  <2>2. j.slot \in Named(e)
    BY <1>8, <1>9, <2>1 DEF Named
  <2>3. \A c \in Clusters : e.fat[c] # Free => o2[c] # 0
    <3>1. SUFFICES ASSUME NEW c \in Clusters, e.fat[c] # Free
                   PROVE  o2[c] # 0
      OBVIOUS
    <3>2. own[c] # 0
      BY <1>9, <1>13, <3>1 DEF Full
    <3> QED BY <1>8, <1>11, <1>13, <3>2, Numbers
  <2>4. \A c \in Clusters : o2[c] \in Slots => o2[c] \in Named(e) /\ c \in Reached(e.fat, e.dir[o2[c]].first)
    <3>1. SUFFICES ASSUME NEW c \in Clusters, o2[c] \in Slots
                   PROVE  o2[c] \in Named(e) /\ c \in Reached(e.fat, e.dir[o2[c]].first)
      OBVIOUS
    <3>2. CASE own[c] = JobMark
      <4>1. c \in Reached(d.fat, j.start) /\ o2[c] = j.slot
        BY <1>8, <1>11, <1>13, <3>2 DEF Full
      <4> QED BY <1>5, <1>9, <1>13, <2>2, <4>1
    <3>3. CASE own[c] # JobMark
      <4>1. o2[c] = own[c]
        BY <1>11, <3>3
      <4>2. own[c] \in Named(d) /\ c \in Reached(d.fat, d.dir[own[c]].first)
        BY <1>13, <3>1, <4>1 DEF Full
      <4>3. own[c] # j.slot
        <5>1. d.dir[j.slot].first = 0
          BY <1>8, <1>13 DEF Owned
        <5>2. Reached(d.fat, 0) = {}
          BY Numbers, ReachedFacts
        <5> QED BY <4>2, <5>1, <5>2
      <4>4. e.dir[own[c]] = d.dir[own[c]]
        BY <1>5, <1>13, <3>1, <4>1, <4>3
      <4> QED BY <1>9, <4>1, <4>2, <4>4
    <3> QED BY <3>2, <3>3
  <2>5. \A c \in Clusters : o2[c] # JobMark
    BY <1>8, <1>11, <1>13, Marks
  <2> QED BY <1>8, <2>3, <2>4, <2>5 DEF Full, AtIts
<1>14. ASSUME Owned(own, d, j), Told(own, d, j, last), e = g
       PROVE  Told(o2, e, k, l)
  <2>1. /\ \A s, t \in Named(d) : d.dir[s].name = d.dir[t].name => s = t
        /\ \A f \in Names : (\A s \in Slots : d.dir[s].name # f) => last[f] = <<>>
        /\ \A s \in Named(d) : ~InHand(j, s) => Holds(own, d, s, last[d.dir[s].name])
    BY <1>14 DEF Told
  <2>2. d.dir[j.slot].name = j.name /\ j.slot \in Named(d)
    BY <1>8, <1>14 DEF Owned, After, Named
  <2>3. \A s, t \in Named(e) : e.dir[s].name = e.dir[t].name => s = t
    BY <1>9, <2>1 DEF Named
  <2>4. \A f \in Names : (\A s \in Slots : e.dir[s].name # f) => l[f] = <<>>
    <3>1. SUFFICES ASSUME NEW f \in Names, \A s \in Slots : e.dir[s].name # f
                   PROVE  l[f] = <<>>
      OBVIOUS
    <3>2. f # j.name
      BY <1>8, <1>9, <2>2, <3>1
    <3> QED BY <1>7, <1>9, <2>1, <3>1, <3>2
  <2>5. ASSUME NEW s \in Named(e)
        PROVE  Holds(o2, e, s, l[e.dir[s].name])
    <3>1. s \in Slots /\ s \in Named(d) /\ e.dir[s].name \in Names
      BY <1>8, <1>9, <2>5, MediaFields DEF Named
    <3>2. CASE s = j.slot
      <4>1. PICK path \in Seq(Clusters) : Laid(own, d, j, path)
        BY <1>8, <1>14 DEF Told
      <4>2. PICK m, p : m = Len(j.put) /\ p = j.put
        OBVIOUS
      <4>3. /\ Chained(own, d, j.start, p, path) /\ Len(path) \in Nat /\ m \in Nat /\ m <= Len(path)
            /\ \A x \in 1..Len(path) : path[x] \in Clusters /\ own[path[x]] = JobMark
        <5>1. Chained(own, d, j.start, p, path) /\ Len(path) \in Nat /\ m \in Nat
          BY <1>8, <4>1, <4>2, LenProperties DEF Laid
        <5>2. Len(path) = m \/ Len(path) = m + 1
          BY <4>2, <5>1 DEF Chained
        <5>3. \A x \in 1..Len(path) : path[x] \in Clusters /\ own[path[x]] = JobMark
          BY <5>1, ElementOfSeq DEF Chained
        <5> QED BY <5>1, <5>2, <5>3
      <4>4. PICK route : route = [x \in 1..m |-> path[x]]
        OBVIOUS
      <4>5. \A x \in 1..m : x \in 1..Len(path)
        BY <4>3
      <4>6. route \in [1..m -> Clusters] /\ \A x \in 1..m : route[x] = path[x] /\ o2[route[x]] = s
        BY <1>11, <1>14, <3>2, <4>3, <4>4, <4>5
      <4>7. p # <<>> => route[1] = e.dir[s].first
        <5>1. SUFFICES ASSUME p # <<>>
                       PROVE  route[1] = e.dir[s].first
          OBVIOUS
        <5>2. m # 0 /\ 1 \in 1..m
          <6>1. m # 0
            BY <1>8, <4>2, <5>1, EmptySeq
          <6> QED BY <4>3, <6>1
        <5>3. j.start # 0
          BY <1>8, <4>2, <5>1 DEF JobOk
        <5>4. path[1] = j.start
          BY <4>3, <5>3 DEF Chained
        <5> QED BY <1>5, <1>14, <3>2, <4>6, <5>2, <5>4
      <4>8. \A x \in 1..m - 1 : e.fat[route[x]] = route[x + 1]
        <5>1. \A x \in 1..m - 1 : x \in 1..m /\ x + 1 \in 1..m /\ x \in 1..Len(path) - 1
          BY <4>3
        <5> QED BY <1>9, <4>3, <4>6, <5>1 DEF Chained
      <4>9. \A x \in 1..m : e.data[route[x]] = p[x]
        BY <1>9, <4>2, <4>3, <4>6 DEF Chained
      <4>10. e.dir[s].size = Len(p) /\ l[e.dir[s].name] = p /\ m = Len(p)
        BY <1>5, <1>7, <1>9, <1>14, <2>2, <3>1, <3>2, <4>2
      <4> QED BY <4>6, <4>7, <4>8, <4>9, <4>10 DEF Holds
    <3>3. CASE s # j.slot
      <4>1. e.dir[s] = d.dir[s] /\ ~InHand(j, s) /\ e.dir[s].name # j.name
        BY <1>5, <1>9, <1>14, <2>1, <2>2, <3>1, <3>3 DEF InHand
      <4>2. PICK text : text = last[e.dir[s].name]
        OBVIOUS
      <4>3. Holds(own, d, s, text) /\ Len(text) \in Nat /\ l[e.dir[s].name] = text
        BY <1>1, <1>7, <2>1, <3>1, <4>1, <4>2, LenProperties
      <4>4. \A c \in Clusters : own[c] = s => o2[c] = s /\ e.fat[c] = d.fat[c] /\ e.data[c] = d.data[c]
        BY <1>9, <1>11, <3>1, Marks
      <4>5. Holds(o2, e, s, text)
        BY <4>1, <4>3, <4>4, HoldsStays
      <4> QED BY <4>3, <4>5
    <3> QED BY <3>2, <3>3
  <2> QED BY <1>8, <2>3, <2>4, <2>5 DEF Told, After
<1>15. Sharing(o2)'
  BY <1>1, <1>2, <1>3, <1>6, <1>12, <1>13, <1>14, SharingStep
<1> QED
  BY <1>2, <1>3, <1>7, <1>8, <1>15

LEMMA ClearShares ==
  ASSUME SharedType, Clear, NEW own, Sharing(own)
  PROVE  JobOk(job') /\ ErrorsCounted /\ disk' \in Media /\ Sharing(own)'
<1>1. /\ torn' = torn /\ last' = last /\ disk \in Media /\ last \in [Names -> Seq(Tags)] /\ JobOk(job) /\ job.pc = "clear"
      /\ (Works \/ Fails) /\ job \in Jobs /\ job.slot \in Slots /\ job.name \in Names /\ job.start = 0 /\ job.put = <<>>
      /\ Onward(job)
  BY DEF SharedType, Clear, At, JobOk, After
<1>2. ErrorsCounted /\ (Fails => "clear" \in counts'.failed)
  BY <1>1, Counts
<1>3. JobOk(job') /\ Onwards(job, job')
  BY <1>1, OnwardFacts
<1>4. PICK d, e, j, k : d = disk /\ e = disk' /\ j = job /\ k = job'
  OBVIOUS
<1>5. PICK x : x = [name |-> j.name, first |-> 0, size |-> 0]
  OBVIOUS
<1>6. PICK s : s = j.slot
  OBVIOUS
<1>7. PICK g : g = Renewed(d, s, x)
  OBVIOUS
<1>8. /\ g \in Media /\ g.fat = d.fat /\ g.data = d.data /\ g.dir[s] = x /\ \A y \in Slots : y # s => g.dir[y] = d.dir[y]
  <2>1. x \in [name : Names \cup {NoName}, first : {0} \cup Clusters, size : Nat] /\ d \in Media /\ s \in Slots
    BY <1>1, <1>4, <1>5, <1>6
  <2> QED BY <1>7, <2>1, EntryUpdate
<1>9. Cleared = g
  <2>1. [Unused EXCEPT !.name = job.name] = x
    <3>1. PICK nm : nm = job.name
      OBVIOUS
    <3>2. [Unused EXCEPT !.name = nm] = [name |-> nm, first |-> 0, size |-> 0]
      BY DEF Unused
    <3> QED BY <1>4, <1>5, <3>1, <3>2
  <2> QED BY <1>4, <1>6, <1>7, <2>1 DEF Cleared, Renewed
<1>10. e \in {d, g} /\ (e = g \/ "clear" \in counts'.failed)
  BY <1>2, <1>4, <1>9 DEF Clear
<1>11. e \in Media
  BY <1>1, <1>4, <1>8, <1>10
<1>12. /\ j.pc = "clear" /\ k.pc \in After /\ k.pc # "link" /\ k.pc # "store" /\ k.pc # "walk" /\ k.start = 0 /\ j.start = 0 /\ k.put = <<>>
       /\ k.slot = s /\ k.name = j.name /\ s \in Slots /\ j.name \in Names /\ j.name # NoName /\ ~AtIts(k) /\ d \in Media
  BY <1>1, <1>3, <1>4, <1>6, SharedAssumption DEF Onwards, After, AtIts
<1>13. ASSUME e = g, Owned(own, d, j)
       PROVE  /\ d.dir[s].name = j.name /\ Named(e) = Named(d) /\ s \in Named(e)
              /\ \A y \in Slots : e.dir[y].name = d.dir[y].name
              /\ Owned(own, e, k)
  <2>1. d.dir[s].name = j.name
    BY <1>6, <1>12, <1>13 DEF Owned
  <2>2. \A y \in Slots : e.dir[y].name = d.dir[y].name
    BY <1>5, <1>8, <1>13, <2>1
  <2>3. Named(e) = Named(d) /\ s \in Named(e)
    BY <1>12, <2>1, <2>2 DEF Named
  <2>4. \A y \in Named(e) : e.dir[y].first # 0 => own[e.dir[y].first] = y
    <3>1. SUFFICES ASSUME NEW y \in Named(e), e.dir[y].first # 0
                   PROVE  own[e.dir[y].first] = y
      OBVIOUS
    <3>2. y # s
      BY <1>5, <1>8, <1>13, <3>1
    <3>3. e.dir[y] = d.dir[y] /\ y \in Named(d)
      BY <1>8, <1>13, <2>3, <3>1, <3>2 DEF Named
    <3> QED BY <1>6, <1>13, <3>1, <3>2, <3>3 DEF Owned
  <2>5. e.fat = d.fat /\ e.dir[s].name = k.name /\ e.dir[s].first = 0 /\ e.dir[s].size = 0
    BY <1>5, <1>8, <1>12, <1>13
  <2> QED BY <1>12, <1>13, <2>1, <2>2, <2>3, <2>4, <2>5 DEF Owned, After
<1>14. ASSUME e = g, Owned(own, d, j), Full(own, d, j)
       PROVE  Full(own, e, k)
  <2>1. Named(e) = Named(d) /\ e.fat = d.fat
    BY <1>8, <1>13, <1>14
  <2>2. \A c \in Clusters : own[c] \in Slots => own[c] \in Named(e) /\ c \in Reached(e.fat, e.dir[own[c]].first)
    <3>1. SUFFICES ASSUME NEW c \in Clusters, own[c] \in Slots
                   PROVE  own[c] \in Named(e) /\ c \in Reached(e.fat, e.dir[own[c]].first)
      OBVIOUS
    <3>2. own[c] \in Named(d) /\ own[c] # s /\ c \in Reached(d.fat, d.dir[own[c]].first)
      BY <1>6, <1>12, <1>14, <3>1 DEF Full
    <3> QED BY <1>8, <1>14, <2>1, <3>1, <3>2
  <2> QED BY <1>12, <1>14, <2>1, <2>2 DEF Full, After
<1>15. ASSUME e = g, Owned(own, d, j), Told(own, d, j, last)
       PROVE  Told(own, e, k, last)
  <2>1. Named(e) = Named(d) /\ e.fat = d.fat /\ e.data = d.data /\ \A y \in Slots : e.dir[y].name = d.dir[y].name
    BY <1>8, <1>13, <1>15
  <2>2. ASSUME NEW y \in Named(e), ~InHand(k, y)
        PROVE  Holds(own, e, y, last[e.dir[y].name])
    <3>1. y # s /\ y \in Slots /\ y \in Named(d) /\ e.dir[y].name \in Names
      BY <1>11, <1>12, <2>1, <2>2, MediaFields DEF InHand, Named
    <3>2. e.dir[y] = d.dir[y] /\ ~InHand(j, y)
      BY <1>6, <1>8, <1>15, <3>1 DEF InHand
    <3>3. PICK text : text = last[e.dir[y].name]
      OBVIOUS
    <3>4. Holds(own, d, y, text) /\ Len(text) \in Nat
      BY <1>1, <1>15, <3>1, <3>2, <3>3, LenProperties DEF Told
    <3>5. Holds(own, e, y, text)
      BY <2>1, <3>2, <3>4, HoldsStays
    <3> QED BY <3>3, <3>5
  <2>3. \E path \in Seq(Clusters) : Laid(own, e, k, path)
    <3>1. PICK p : p = <<>>
      OBVIOUS
    <3>2. p \in Seq(Clusters) /\ Len(p) = 0 /\ Len(k.put) = 0
      BY <1>12, <3>1
    <3>3. \A y \in 1..0 : FALSE
      OBVIOUS
    <3>4. \A y \in 1..0 - 1 : FALSE
      OBVIOUS
    <3>5. Chained(own, e, k.start, k.put, p)
      BY <1>12, <3>1, <3>2, <3>3, <3>4 DEF Chained
    <3>6. Laid(own, e, k, p)
      BY <1>12, <3>5 DEF Laid
    <3> QED BY <3>2, <3>6
  <2>4. /\ \A y, t \in Named(e) : e.dir[y].name = e.dir[t].name => y = t
        /\ \A f \in Names : (\A y \in Slots : e.dir[y].name # f) => last[f] = <<>>
    BY <1>15, <2>1 DEF Told, Named
  <2>5. k.pc # "create" /\ k.pc \notin {"free", "clear"}
    BY <1>12 DEF After
  <2> QED BY <2>2, <2>3, <2>4, <2>5 DEF Told
<1>16. Sharing(own)'
  BY <1>1, <1>2, <1>4, <1>10, <1>13, <1>14, <1>15, SharingStep
<1> QED
  BY <1>2, <1>3, <1>4, <1>11, <1>16

LEMMA FreeLinkFacts ==
  ASSUME SharedType, FreeLink
  PROVE  /\ JobOk(job') /\ job.pc = "free" /\ ErrorsCounted /\ KeepsFile(job, job') /\ job'.pc \in {"free", "clear"}
         /\ job.old \in Clusters /\ job.start = 0
         /\ job'.pc = "free" => job'.old = disk.fat[job.old] /\ job'.old \in Clusters
         /\ disk' \in Media /\ disk'.dir = disk.dir /\ disk'.data = disk.data
         /\ \A c \in Clusters : c # job.old => disk'.fat[c] = disk.fat[c]
         /\ disk' = disk \/ disk'.fat[job.old] = Free
         /\ \/ "free" \in counts'.failed
            \/ disk'.fat[job.old] = Free /\ (job'.pc = "clear" => disk.fat[job.old] \notin Clusters)
<1>1. /\ JobOk(job) /\ job.pc = "free" /\ (Works \/ Fails) /\ disk \in Media /\ job \in Jobs /\ job.old \in Clusters
      /\ job.slot \in Slots /\ job.name \in Names /\ job.start = 0 /\ job.put = <<>>
  BY DEF SharedType, FreeLink, At, JobOk, After
<1>2. ErrorsCounted /\ (Fails => "free" \in counts'.failed)
  BY <1>1, Counts
<1>3. PICK d, e, j, a : d = disk /\ e = disk' /\ j = job /\ a = job.old
  OBVIOUS
<1>4. PICK g : g = [d EXCEPT !.fat[a] = Free]
  OBVIOUS
<1>5. /\ g \in Media /\ g.dir = d.dir /\ g.data = d.data /\ g.fat[a] = Free /\ \A c \in Clusters : c # a => g.fat[c] = d.fat[c]
  <2>1. d \in Media /\ a \in Clusters /\ Free \in Nat
    BY <1>1, <1>3, Numbers
  <2> QED BY <1>4, <2>1, FatUpdate
<1>6. Unlink(job.old) = g
  BY <1>3, <1>4 DEF Unlink
<1>7. ASSUME NEW next \in {0, disk.fat[job.old]}, Freed(next)
      PROVE  /\ JobOk(job') /\ KeepsFile(job, job') /\ job'.pc \in {"free", "clear"}
             /\ job'.pc = "free" => job'.old = disk.fat[job.old] /\ job'.old \in Clusters
             /\ job'.pc = "clear" => next \notin Clusters
  <2>1. CASE next \in Clusters
    <3>1. PICK k : k = [j EXCEPT !.old = next]
      OBVIOUS
    <3>2. job' = k
      BY <1>3, <1>7, <2>1, <3>1 DEF Freed
    <3>3. next \in Nat /\ next = disk.fat[job.old]
      BY <1>7, <2>1, Numbers
    <3>4. k \in Jobs /\ k.pc = "free" /\ KeepsFile(j, k) /\ k.old = next
      BY <1>1, <1>3, <3>1, <3>3 DEF Jobs, KeepsFile
    <3>5. JobOk(k)
      BY <1>1, <1>3, <2>1, <3>4 DEF JobOk, After, KeepsFile
    <3> QED BY <1>3, <2>1, <3>2, <3>3, <3>4, <3>5
  <2>2. CASE next \notin Clusters
    <3>1. PICK k : k = [j EXCEPT !.pc = "clear"]
      OBVIOUS
    <3>2. job' = k
      BY <1>3, <1>7, <2>2, <3>1 DEF Freed
    <3>3. k \in Jobs /\ k.pc = "clear" /\ KeepsFile(j, k)
      BY <1>1, <1>3, <3>1 DEF Jobs, KeepsFile, Busy
    <3>4. JobOk(k)
      BY <1>1, <1>3, <3>3 DEF JobOk, After, KeepsFile
    <3> QED BY <1>3, <2>2, <3>2, <3>3, <3>4
  <2> QED BY <2>1, <2>2
<1>8. CASE Works /\ disk' = Unlink(job.old) /\ Freed(disk.fat[job.old])
  BY <1>1, <1>2, <1>3, <1>5, <1>6, <1>7, <1>8
<1>9. CASE Fails /\ disk' = Unlink(job.old) /\ Freed(0)
  BY <1>1, <1>2, <1>3, <1>5, <1>6, <1>7, <1>9
<1>10. CASE Fails /\ disk' = disk /\ Freed(disk.fat[job.old])
  BY <1>1, <1>2, <1>3, <1>7, <1>10
<1> QED
  BY <1>8, <1>9, <1>10 DEF FreeLink

LEMMA FreeLinkShares ==
  ASSUME SharedType, FreeLink, NEW own, Sharing(own)
  PROVE  JobOk(job') /\ ErrorsCounted /\ disk' \in Media /\ \E own2 : Sharing(own2)'
<1>1. /\ torn' = torn /\ last' = last /\ disk \in Media /\ last \in [Names -> Seq(Tags)] /\ JobOk(job) /\ job.slot \in Slots
  BY DEF SharedType, FreeLink, At, JobOk
<1>2. PICK d, e, j, k, a : d = disk /\ e = disk' /\ j = job /\ k = job' /\ a = job.old
  OBVIOUS
<1>3. /\ JobOk(k) /\ j.pc = "free" /\ ErrorsCounted /\ KeepsFile(j, k) /\ k.pc \in {"free", "clear"}
      /\ a = j.old /\ a \in Clusters /\ j.start = 0 /\ j.slot \in Slots
      /\ k.pc = "free" => k.old = d.fat[a] /\ k.old \in Clusters
      /\ d \in Media /\ e \in Media /\ e.dir = d.dir /\ e.data = d.data
      /\ \A c \in Clusters : c # a => e.fat[c] = d.fat[c]
      /\ e = d \/ e.fat[a] = Free
      /\ \/ "free" \in counts'.failed
         \/ e.fat[a] = Free /\ (k.pc = "clear" => d.fat[a] \notin Clusters)
  BY <1>1, <1>2, FreeLinkFacts
<1>4. /\ Named(e) = Named(d) /\ k.slot = j.slot /\ k.name = j.name /\ k.start = 0 /\ j.pc \notin After /\ k.pc \notin After /\ ~AtIts(k)
      /\ k.pc # "link" /\ k.pc # "create"
  BY <1>3 DEF Named, KeepsFile, After, AtIts
<1>5. PICK o2 : o2 = IF k.pc = "free" THEN own ELSE [c \in Clusters |-> IF own[c] = FreedMark THEN 0 ELSE own[c]]
  OBVIOUS
<1>6. /\ k.pc = "free" => o2 = own
      /\ k.pc = "clear" => \A c \in Clusters : o2[c] = IF own[c] = FreedMark THEN 0 ELSE own[c]
      /\ \A c \in Clusters : own[c] # FreedMark => o2[c] = own[c]
      /\ \A c \in Clusters : o2[c] # 0 => o2[c] = own[c]
  BY <1>3, <1>5
<1>7. ASSUME Owned(own, d, j)
      PROVE  Owned(o2, e, k)
  <2>1. /\ own \in [Clusters -> 0..NEntries + 2]
        /\ \A c \in Clusters : own[c] \in 1..NEntries + 1 => d.fat[c] # Free
        /\ \A c \in Clusters : own[c] # 0 /\ d.fat[c] \in Clusters => own[d.fat[c]] = own[c]
        /\ \A s \in Named(d) : d.dir[s].first # 0 /\ s # j.slot => own[d.dir[s].first] = s
        /\ own[a] = FreedMark /\ d.dir[j.slot].name = j.name
    BY <1>3, <1>7 DEF Owned
  <2>2. o2 \in [Clusters -> 0..NEntries + 2]
    BY <1>5, <2>1, Marks
  <2>3. \A c \in Clusters : o2[c] \in 1..NEntries + 1 => e.fat[c] # Free
    <3>1. SUFFICES ASSUME NEW c \in Clusters, o2[c] \in 1..NEntries + 1
                   PROVE  e.fat[c] # Free
      OBVIOUS
    <3>2. o2[c] \in {JobMark} \cup Slots
      BY <3>1, Marks
    <3>3. own[c] = o2[c]
      BY <1>6, <3>2, Marks, Numbers
    <3>4. c # a
      BY <2>1, <3>2, <3>3, Marks
    <3> QED BY <1>3, <2>1, <3>1, <3>3, <3>4
  <2>4. \A c \in Clusters : o2[c] # 0 /\ e.fat[c] \in Clusters => o2[e.fat[c]] = o2[c]
    <3>1. SUFFICES ASSUME NEW c \in Clusters, o2[c] # 0, e.fat[c] \in Clusters
                   PROVE  o2[e.fat[c]] = o2[c]
      OBVIOUS
    <3>2. e.fat[c] = d.fat[c]
      BY <1>3, <3>1, Numbers
    <3>3. own[c] = o2[c]
      BY <1>6, <3>1
    <3>4. own[e.fat[c]] = own[c]
      BY <2>1, <3>1, <3>2, <3>3
    <3>5. CASE k.pc = "free"
      BY <1>6, <3>4, <3>5
    <3>6. CASE k.pc = "clear"
      BY <1>6, <3>1, <3>3, <3>4, <3>6
    <3> QED BY <1>3, <3>5, <3>6
  <2>5. \A s \in Named(e) : e.dir[s].first # 0 /\ s # k.slot => o2[e.dir[s].first] = s
    <3>1. SUFFICES ASSUME NEW s \in Named(e), e.dir[s].first # 0, s # k.slot
                   PROVE  o2[e.dir[s].first] = s
      OBVIOUS
    <3>2. s \in Slots /\ e.dir[s].first \in Clusters
      BY <1>3, <3>1, MediaFields DEF Named
    <3>3. own[e.dir[s].first] = s
      BY <1>3, <1>4, <2>1, <3>1
    <3> QED BY <1>6, <3>2, <3>3, Marks
  <2>6. k.pc = "free" => o2[k.old] = FreedMark
    BY <1>3, <1>6, <2>1, Marks
  <2>7. k.pc # "free" => \A c \in Clusters : o2[c] # FreedMark
    BY <1>3, <1>6, Marks
  <2> QED BY <1>3, <1>4, <2>1, <2>2, <2>3, <2>4, <2>5, <2>6, <2>7 DEF Owned
<1>8. ASSUME Owned(own, d, j), Full(own, d, j), e.fat[a] = Free, k.pc = "clear" => d.fat[a] \notin Clusters
      PROVE  Full(o2, e, k)
  <2>1. own[a] = FreedMark
    BY <1>3, <1>8 DEF Owned
  <2>2. Reached(d.fat, a) \subseteq {a} \cup Reached(e.fat, d.fat[a])
    BY <1>3, ReachedNext
  <2>3. \A c \in Clusters : own[c] = FreedMark => e.fat[c] = Free \/ (k.pc = "free" /\ c \in Reached(e.fat, k.old))
    <3>1. SUFFICES ASSUME NEW c \in Clusters, own[c] = FreedMark
                   PROVE  e.fat[c] = Free \/ (k.pc = "free" /\ c \in Reached(e.fat, k.old))
      OBVIOUS
    <3>2. c \in Reached(d.fat, a) \/ d.fat[c] = Free
      BY <1>3, <1>8, <3>1 DEF Full
    <3>3. CASE c = a
      BY <1>8, <3>3
    <3>4. CASE c # a
      <4>1. e.fat[c] = d.fat[c]
        BY <1>3, <3>4
      <4>2. d.fat[c] = Free \/ c \in Reached(e.fat, d.fat[a])
        BY <2>2, <3>2, <3>4
      <4>3. k.pc = "clear" => Reached(e.fat, d.fat[a]) = {}
        BY <1>8, ReachedFacts
      <4> QED BY <1>3, <4>1, <4>2, <4>3
    <3> QED BY <3>3, <3>4
  <2>4. \A c \in Clusters : e.fat[c] # Free => o2[c] # 0
    <3>1. SUFFICES ASSUME NEW c \in Clusters, e.fat[c] # Free
                   PROVE  o2[c] # 0
      OBVIOUS
    <3>2. c # a /\ d.fat[c] # Free
      BY <1>3, <1>8, <3>1
    <3>3. own[c] # 0
      BY <1>8, <3>2 DEF Full
    <3>4. k.pc = "clear" => own[c] # FreedMark
      BY <2>3, <3>1
    <3> QED BY <1>3, <1>6, <3>3, <3>4
  <2>5. \A c \in Clusters : o2[c] \in Slots => /\ o2[c] \in Named(e) /\ o2[c] # k.slot
                                               /\ c \in Reached(e.fat, e.dir[o2[c]].first)
    <3>1. SUFFICES ASSUME NEW c \in Clusters, o2[c] \in Slots
                   PROVE  o2[c] \in Named(e) /\ o2[c] # k.slot /\ c \in Reached(e.fat, e.dir[o2[c]].first)
      OBVIOUS
    <3>2. own[c] = o2[c]
      BY <1>6, <3>1, Numbers
    <3>3. PICK s, x : s = own[c] /\ x = d.dir[s].first
      OBVIOUS
    <3>4. s \in Slots /\ s \in Named(d) /\ s # j.slot /\ c \in Reached(d.fat, x)
      BY <1>3, <1>8, <3>1, <3>2, <3>3 DEF Full
    <3>5. x \in Clusters
      BY <3>4, ReachedFacts
    <3>6. own[x] = s
      BY <1>3, <1>8, <3>3, <3>4, <3>5, Numbers DEF Owned
    <3>7. \A y \in Reached(d.fat, x) : y \in Clusters /\ own[y] = s
      <4>1. Owned(own, d, j) /\ own[x] # 0
        BY <1>8, <3>4, <3>6, Numbers
      <4> QED BY <3>4, <3>5, <3>6, <4>1, ChainOwned
    <3>8. \A y \in Reached(d.fat, x) : d.fat[y] \in Clusters => e.fat[y] = d.fat[y]
      BY <1>3, <2>1, <3>4, <3>7, Marks
    <3>9. Reached(d.fat, x) \subseteq Reached(e.fat, x)
      BY <3>8, ReachedStays
    <3> QED BY <1>3, <1>4, <3>2, <3>3, <3>4, <3>9
  <2>6. \A c \in Clusters : o2[c] # JobMark
    <3>1. SUFFICES ASSUME NEW c \in Clusters, o2[c] = JobMark
                   PROVE  FALSE
      OBVIOUS
    <3>2. own[c] = JobMark
      BY <1>6, <3>1, Marks
    <3>3. c \in Reached(d.fat, 0)
      BY <1>3, <1>8, <3>2 DEF Full
    <3> QED BY <3>3, Numbers, ReachedFacts
  <2>7. k.pc = "free" => \A c \in Clusters : o2[c] = FreedMark => c \in Reached(e.fat, k.old) \/ e.fat[c] = Free
    BY <1>6, <2>3
  <2> QED BY <1>4, <2>4, <2>5, <2>6, <2>7 DEF Full
<1>9. ASSUME Owned(own, d, j), Told(own, d, j, last)
      PROVE  Told(o2, e, k, last)
  <2>1. ASSUME NEW s \in Named(e), ~InHand(k, s)
        PROVE  Holds(o2, e, s, last[e.dir[s].name])
    <3>1. s \in Slots /\ e.dir[s] = d.dir[s] /\ ~InHand(j, s) /\ e.dir[s].name \in Names /\ s \in Named(d)
      BY <1>3, <1>4, <2>1, MediaFields DEF InHand, Named
    <3>2. PICK text : text = last[e.dir[s].name]
      OBVIOUS
    <3>3. Holds(own, d, s, text) /\ Len(text) \in Nat
      BY <1>1, <1>9, <3>1, <3>2, LenProperties DEF Told
    <3>4. own[a] # s
      BY <1>3, <1>9, <3>1, Marks DEF Owned
    <3>5. \A c \in Clusters : own[c] = s => o2[c] = s /\ e.fat[c] = d.fat[c] /\ e.data[c] = d.data[c]
      BY <1>3, <1>6, <3>1, <3>4, Marks
    <3>6. Holds(o2, e, s, text)
      BY <3>1, <3>3, <3>5, HoldsStays
    <3> QED BY <3>2, <3>6
  <2>2. /\ \A s, t \in Named(e) : e.dir[s].name = e.dir[t].name => s = t
        /\ \A f \in Names : (\A s \in Slots : e.dir[s].name # f) => last[f] = <<>>
    BY <1>3, <1>4, <1>9 DEF Told
  <2>3. e.dir[k.slot].first = 0 => e.dir[k.slot].size = 0 /\ last[k.name] = <<>>
    BY <1>3, <1>4, <1>9 DEF Told
  <2> QED BY <1>4, <2>1, <2>2, <2>3 DEF Told
<1>10. Sharing(o2)'
  BY <1>1, <1>2, <1>3, <1>7, <1>8, <1>9, SharingStep
<1> QED
  BY <1>2, <1>3, <1>10

\* The search ends at the first entry of the name, or, among those it could read, at none.
LEMMA LookupFacts ==
  ASSUME SharedType, Lookup
  PROVE  /\ JobOk(job') /\ job.pc = "lookup" /\ ErrorsCounted /\ disk' = disk /\ job'.name = job.name /\ job.name \in Names
         /\ job'.start = 0 /\ job'.put = <<>> /\ job.start = 0
         /\ \/ /\ job'.pc = "create"
               /\ "lookup" \in counts'.failed \/ \A s \in Slots : disk.dir[s].name # job.name
            \/ /\ job'.pc = IF disk.dir[job'.slot].first = 0 THEN "clear" ELSE "free"
               /\ job'.slot \in Slots /\ job'.old = disk.dir[job'.slot].first /\ disk.dir[job'.slot].name = job.name
<1>1. /\ JobOk(job) /\ job.pc = "lookup" /\ (Works \/ Fails) /\ disk \in Media /\ disk' = disk /\ job \in Jobs /\ job.name \in Names
      /\ job.start = 0 /\ job.put = <<>>
  BY DEF SharedType, Lookup, At, JobOk, After
<1>2. ErrorsCounted /\ (Fails => "lookup" \in counts'.failed)
  BY <1>1, Counts
<1>3. PICK m \in 0..NEntries : LookedUp(m) /\ (m = NEntries \/ "lookup" \in counts'.failed)
  <2>1. NEntries \in Nat /\ NEntries \in 0..NEntries /\ \A i \in 0..NEntries - 1 : i \in 0..NEntries
    BY Numbers
  <2> QED BY <1>2, <2>1 DEF Lookup
<1>4. \A s \in 1..m : s \in Slots /\ s \in Nat
  BY Numbers
<1>5. CASE Matches(m) = {}
  <2>1. PICK j, k : j = job /\ k = [j EXCEPT !.pc = "create"]
    OBVIOUS
  <2>2. job' = k
    BY <1>3, <1>5, <2>1 DEF LookedUp
  <2>3. k \in Jobs /\ k.pc = "create" /\ KeepsFile(j, k)
    BY <1>1, <2>1 DEF Jobs, Busy, KeepsFile
  <2>4. JobOk(k)
    BY <1>1, <2>1, <2>3 DEF JobOk, After, KeepsFile
  <2>5. m = NEntries => \A s \in Slots : disk.dir[s].name # job.name
    BY <1>5, Numbers DEF Matches
  <2> QED BY <1>1, <1>2, <1>3, <2>1, <2>2, <2>3, <2>4, <2>5 DEF KeepsFile
<1>6. CASE Matches(m) # {}
  <2>1. Matches(m) \subseteq Nat
    BY <1>4 DEF Matches
  <2>2. PICK s : s = CHOOSE x \in Matches(m) : \A y \in Matches(m) : x <= y
    OBVIOUS
  <2>3. s \in Matches(m)
    <3>1. \E x \in Matches(m) : \A y \in Matches(m) : x <= y
      BY <1>6, <2>1, LeastExists
    <3> QED BY <2>2, <3>1
  <2>4. s \in Slots /\ disk.dir[s].name = job.name /\ disk.dir[s].first \in {0} \cup Clusters /\ s \in Nat
    BY <1>1, <1>4, <2>3, MediaFields DEF Matches
  <2>5. PICK j, o, p : j = job /\ o = disk.dir[s].first /\ p = IF disk.dir[s].first = 0 THEN "clear" ELSE "free"
    OBVIOUS
  <2>6. PICK k : k = [j EXCEPT !.slot = s, !.old = o, !.pc = p]
    OBVIOUS
  <2>7. job' = k
    BY <1>3, <1>6, <2>2, <2>5, <2>6 DEF LookedUp
  <2>8. o \in Nat /\ (p = "free" => o \in Clusters) /\ p \in {"free", "clear"}
    BY <2>4, <2>5, Numbers
  <2>9. k \in Jobs /\ k.pc = p /\ k.slot = s /\ k.old = o /\ k.name = j.name /\ k.start = j.start /\ k.put = j.put
    BY <1>1, <2>4, <2>5, <2>6, <2>8 DEF Jobs, Busy
  <2>10. JobOk(k)
    BY <1>1, <2>4, <2>5, <2>8, <2>9 DEF JobOk, After
  <2> QED BY <1>1, <1>2, <2>4, <2>5, <2>7, <2>9, <2>10
<1> QED
  BY <1>5, <1>6

LEMMA LookupShares ==
  ASSUME SharedType, Lookup, NEW own, Sharing(own)
  PROVE  JobOk(job') /\ ErrorsCounted /\ disk' = disk /\ \E own2 : Sharing(own2)'
<1>1. torn' = torn /\ last' = last /\ disk \in Media /\ last \in [Names -> Seq(Tags)] /\ JobOk(job)
  BY DEF SharedType, Lookup, At
<1>2. PICK d, j, k, s : d = disk /\ j = job /\ k = job' /\ s = job'.slot
  OBVIOUS
<1>3. /\ JobOk(k) /\ j.pc = "lookup" /\ ErrorsCounted /\ disk' = d /\ k.name = j.name /\ j.name \in Names
      /\ k.start = 0 /\ k.put = <<>> /\ j.start = 0 /\ d \in Media /\ k.slot = s
      /\ \/ /\ k.pc = "create"
            /\ "lookup" \in counts'.failed \/ \A x \in Slots : d.dir[x].name # j.name
         \/ /\ k.pc = IF d.dir[s].first = 0 THEN "clear" ELSE "free"
            /\ s \in Slots /\ k.old = d.dir[s].first /\ d.dir[s].name = j.name
  BY <1>1, <1>2, LookupFacts
<1>4. k.pc \notin After /\ ~AtIts(k) /\ k.pc # "link" /\ \A x : ~InHand(j, x)
  BY <1>3 DEF After, AtIts, InHand
<1>5. j.name # NoName
  BY <1>3, SharedAssumption
<1>6. CASE k.pc \in {"create", "clear"}
  <2>1. ASSUME Owned(own, d, j)
        PROVE  Owned(own, d, k)
    BY <1>3, <1>4, <1>6, <2>1 DEF Owned
  <2>2. ASSUME Owned(own, d, j), Full(own, d, j)
        PROVE  Full(own, d, k)
    <3>1. \A c \in Clusters : own[c] \in Slots /\ k.pc = "clear" => own[c] # s
      <4>1. SUFFICES ASSUME NEW c \in Clusters, own[c] = s, s \in Slots, d.dir[s].first = 0
                     PROVE  FALSE
        BY <1>3
      <4>2. c \in Reached(d.fat, 0)
        BY <2>2, <4>1 DEF Full
      <4> QED BY <4>2, Numbers, ReachedFacts
    <3> QED BY <1>3, <1>4, <1>6, <2>2, <3>1 DEF Full
  <2>3. ASSUME Told(own, d, j, last), "lookup" \notin counts'.failed
        PROVE  Told(own, d, k, last)
    <3>1. k.pc = "clear" => d.dir[s].size = 0 /\ last[k.name] = <<>>
      <4>1. SUFFICES ASSUME k.pc = "clear"
                     PROVE  d.dir[s].size = 0 /\ last[k.name] = <<>>
        OBVIOUS
      <4>2. s \in Named(d) /\ d.dir[s].name = k.name /\ d.dir[s].first = 0
        BY <1>3, <1>5, <4>1 DEF Named
      <4>3. PICK text : text = last[k.name]
        OBVIOUS
      <4>4. Holds(own, d, s, text) /\ text \in Seq(Tags) /\ Len(text) \in Nat
        BY <1>1, <1>3, <1>4, <2>3, <4>2, <4>3, LenProperties DEF Told
      <4>5. PICK route \in [1..Len(text) -> Clusters] : text # <<>> => route[1] = d.dir[s].first
        BY <4>4 DEF Holds
      <4>6. text = <<>>
        <5>1. SUFFICES ASSUME text # <<>>
                       PROVE  FALSE
          OBVIOUS
        <5>2. Len(text) # 0
          BY <4>4, <5>1, EmptySeq
        <5>3. 1 \in 1..Len(text)
          BY <4>4, <5>2
        <5> QED BY <4>2, <4>5, <5>1, <5>3, Numbers
      <4>7. d.dir[s].size = Len(text)
        BY <4>4 DEF Holds
      <4> QED BY <4>3, <4>6, <4>7
    <3>2. k.pc = "create" => \A x \in Slots : d.dir[x].name # k.name
      BY <1>3, <2>3
    <3>3. \A x \in Named(d) : Holds(own, d, x, last[d.dir[x].name])
      BY <1>4, <2>3 DEF Told
    <3>4. /\ \A x, t \in Named(d) : d.dir[x].name = d.dir[t].name => x = t
          /\ \A f \in Names : (\A x \in Slots : d.dir[x].name # f) => last[f] = <<>>
      BY <2>3 DEF Told
    <3> QED BY <1>3, <1>4, <1>6, <3>1, <3>2, <3>3, <3>4 DEF Told
  <2>4. Sharing(own)'
    BY <1>1, <1>2, <1>3, <2>1, <2>2, <2>3, SharingStep
  <2> QED BY <1>2, <1>3, <2>4
<1>7. CASE k.pc = "free"
  <2>1. /\ d.dir[s].first # 0 /\ s \in Slots /\ k.old = d.dir[s].first /\ d.dir[s].name = j.name /\ s \in Named(d)
        /\ d.dir[s].first \in Clusters
    BY <1>3, <1>5, <1>7, MediaFields DEF Named
  <2>2. PICK o2 : o2 = [c \in Clusters |-> IF own[c] = s THEN FreedMark ELSE own[c]]
    OBVIOUS
  <2>3. /\ \A c \in Clusters : own[c] = s => o2[c] = FreedMark
        /\ \A c \in Clusters : own[c] # s => o2[c] = own[c]
    BY <2>2
  <2>4. ASSUME Owned(own, d, j)
        PROVE  Owned(o2, d, k)
    <3>1. /\ own \in [Clusters -> 0..NEntries + 2]
          /\ \A c \in Clusters : own[c] \in 1..NEntries + 1 => d.fat[c] # Free
          /\ \A c \in Clusters : own[c] # 0 /\ d.fat[c] \in Clusters => own[d.fat[c]] = own[c]
          /\ \A x \in Named(d) : d.dir[x].first # 0 => own[d.dir[x].first] = x
      BY <1>3, <2>4 DEF Owned
    <3>2. o2 \in [Clusters -> 0..NEntries + 2]
      BY <2>2, <3>1, Marks
    <3>3. \A c \in Clusters : o2[c] \in 1..NEntries + 1 => d.fat[c] # Free
      BY <2>3, <3>1, Marks
    <3>4. \A c \in Clusters : o2[c] # 0 /\ d.fat[c] \in Clusters => o2[d.fat[c]] = o2[c]
      <4>1. SUFFICES ASSUME NEW c \in Clusters, o2[c] # 0, d.fat[c] \in Clusters
                     PROVE  o2[d.fat[c]] = o2[c]
        OBVIOUS
      <4>2. own[c] # 0
        BY <2>1, <2>3, <4>1, Numbers
      <4>3. own[d.fat[c]] = own[c]
        BY <3>1, <4>1, <4>2
      <4> QED BY <2>3, <4>1, <4>3
    <3>5. \A x \in Named(d) : d.dir[x].first # 0 /\ x # s => o2[d.dir[x].first] = x
      <4>1. SUFFICES ASSUME NEW x \in Named(d), d.dir[x].first # 0, x # s
                     PROVE  o2[d.dir[x].first] = x
        OBVIOUS
      <4>2. d.dir[x].first \in Clusters
        BY <1>3, <4>1, MediaFields DEF Named
      <4> QED BY <2>3, <3>1, <4>1, <4>2
    <3>6. o2[k.old] = FreedMark
      BY <2>1, <2>3, <3>1
    <3> QED BY <1>3, <1>4, <1>7, <2>1, <3>2, <3>3, <3>4, <3>5, <3>6 DEF Owned
  <2>5. ASSUME Owned(own, d, j), Full(own, d, j)
        PROVE  Full(o2, d, k)
    <3>1. \A c \in Clusters : own[c] # FreedMark
      BY <1>3, <2>5 DEF Owned
    <3>2. \A c \in Clusters : d.fat[c] # Free => o2[c] # 0
      BY <2>3, <2>5, Marks DEF Full
    <3>3. \A c \in Clusters : o2[c] \in Slots => /\ o2[c] \in Named(d) /\ o2[c] # s /\ c \in Reached(d.fat, d.dir[o2[c]].first)
      <4>1. SUFFICES ASSUME NEW c \in Clusters, o2[c] \in Slots
                     PROVE  o2[c] \in Named(d) /\ o2[c] # s /\ c \in Reached(d.fat, d.dir[o2[c]].first)
        OBVIOUS
      <4>2. own[c] # s /\ o2[c] = own[c]
        BY <2>3, <4>1, Marks
      <4> QED BY <2>5, <4>1, <4>2 DEF Full
    <3>4. \A c \in Clusters : o2[c] = JobMark => c \in Reached(d.fat, k.start)
      <4>1. SUFFICES ASSUME NEW c \in Clusters, o2[c] = JobMark
                     PROVE  c \in Reached(d.fat, k.start)
        OBVIOUS
      <4>2. own[c] = JobMark
        BY <2>3, <4>1, Marks
      <4> QED BY <1>3, <2>5, <4>2 DEF Full
    <3>5. \A c \in Clusters : o2[c] = FreedMark => c \in Reached(d.fat, k.old)
      <4>1. SUFFICES ASSUME NEW c \in Clusters, o2[c] = FreedMark
                     PROVE  c \in Reached(d.fat, k.old)
        OBVIOUS
      <4>2. own[c] = s
        BY <2>3, <3>1, <4>1
      <4> QED BY <2>1, <2>5, <4>2 DEF Full
    <3> QED BY <1>3, <1>4, <1>7, <3>2, <3>3, <3>4, <3>5 DEF Full
  <2>6. ASSUME Told(own, d, j, last)
        PROVE  Told(o2, d, k, last)
    <3>1. ASSUME NEW x \in Named(d), ~InHand(k, x)
          PROVE  Holds(o2, d, x, last[d.dir[x].name])
      <4>1. x # s /\ x \in Slots /\ d.dir[x].name \in Names
        BY <1>3, <1>7, <3>1, MediaFields DEF InHand, Named
      <4>2. PICK text : text = last[d.dir[x].name]
        OBVIOUS
      <4>3. Holds(own, d, x, text) /\ Len(text) \in Nat
        BY <1>1, <1>4, <2>6, <3>1, <4>1, <4>2, LenProperties DEF Told
      <4>4. \A c \in Clusters : own[c] = x => o2[c] = x /\ d.fat[c] = d.fat[c] /\ d.data[c] = d.data[c]
        BY <2>3, <4>1
      <4>5. Holds(o2, d, x, text)
        BY <4>3, <4>4, HoldsStays
      <4> QED BY <4>2, <4>5
    <3>2. /\ \A x, t \in Named(d) : d.dir[x].name = d.dir[t].name => x = t
          /\ \A f \in Names : (\A x \in Slots : d.dir[x].name # f) => last[f] = <<>>
      BY <2>6 DEF Told
    <3> QED BY <1>3, <1>4, <1>7, <2>1, <3>1, <3>2 DEF Told
  <2>7. Sharing(o2)'
    BY <1>1, <1>2, <1>3, <2>4, <2>5, <2>6, SharingStep
  <2> QED BY <1>2, <1>3, <2>7
<1> QED
  BY <1>3, <1>6, <1>7

\* A new entry takes an unused one; the job goes on only if it was written.
LEMMA CreateFacts ==
  ASSUME SharedType, Create
  PROVE  /\ JobOk(job') /\ job.pc = "create" /\ ErrorsCounted /\ disk' \in Media /\ job.name \in Names /\ job.start = 0
         /\ disk'.fat = disk.fat /\ disk'.data = disk.data
         /\ \/ disk' = disk /\ job' = Idle
            \/ \E s \in Slots :
                 /\ disk.dir[s].name = NoName /\ \A x \in Slots : x # s => disk'.dir[x] = disk.dir[x]
                 /\ disk'.dir[s].name = job.name /\ disk'.dir[s].first = 0 /\ disk'.dir[s].size = 0
                 /\ \/ job' = Idle
                    \/ job'.pc = "clear" /\ job'.slot = s /\ job'.name = job.name /\ job'.start = 0
<1>1. /\ JobOk(job) /\ job.pc = "create" /\ (Works \/ Fails) /\ disk \in Media /\ job \in Jobs /\ job.name \in Names
      /\ job.start = 0 /\ job.put = <<>>
  BY DEF SharedType, Create, At, JobOk, After
<1>2. ErrorsCounted
  BY <1>1, Counts
<1>3. PICK s : s = CHOOSE x \in FreeSlots : \A y \in FreeSlots : x <= y
  OBVIOUS
<1>4. FreeSlots # {} => s \in Slots /\ disk.dir[s].name = NoName /\ s \in Nat
  <2>1. FreeSlots \subseteq Nat
    BY Numbers DEF FreeSlots
  <2>2. ASSUME FreeSlots # {}
        PROVE  s \in FreeSlots
    <3>1. \E x \in FreeSlots : \A y \in FreeSlots : x <= y
      BY <2>1, <2>2, LeastExists
    <3> QED BY <1>3, <3>1
  <2> QED BY <2>1, <2>2 DEF FreeSlots
<1>5. CASE disk' = disk /\ job' = Idle
  BY <1>1, <1>2, <1>5, IdleOk
<1>6. CASE FreeSlots # {} /\ disk' = NewEntry(s) /\ (job' = Idle \/ job' = [job EXCEPT !.pc = "clear", !.slot = s])
  <2>1. PICK d, j, x : d = disk /\ j = job /\ x = [name |-> job.name, first |-> 0, size |-> 0]
    OBVIOUS
  <2>2. PICK g : g = Renewed(d, s, x)
    OBVIOUS
  <2>3. /\ g \in Media /\ g.fat = d.fat /\ g.data = d.data /\ g.dir[s] = x /\ \A y \in Slots : y # s => g.dir[y] = d.dir[y]
    <3>1. x \in [name : Names \cup {NoName}, first : {0} \cup Clusters, size : Nat] /\ d \in Media /\ s \in Slots
      BY <1>1, <1>4, <1>6, <2>1
    <3> QED BY <2>2, <3>1, EntryUpdate
  <2>4. disk' = g
    <3>1. [Unused EXCEPT !.name = job.name] = x
      <4>1. PICK nm : nm = job.name
        OBVIOUS
      <4>2. [Unused EXCEPT !.name = nm] = [name |-> nm, first |-> 0, size |-> 0]
        BY DEF Unused
      <4> QED BY <2>1, <4>1, <4>2
    <3> QED BY <1>6, <2>1, <2>2, <3>1 DEF NewEntry, Renewed
  <2>5. PICK k : k = [j EXCEPT !.pc = "clear", !.slot = s]
    OBVIOUS
  <2>6. k \in Jobs /\ k.pc = "clear" /\ k.slot = s /\ k.name = j.name /\ k.start = j.start /\ k.put = j.put
    BY <1>1, <1>4, <1>6, <2>1, <2>5 DEF Jobs, Busy
  <2>7. JobOk(k)
    BY <1>1, <1>4, <1>6, <2>1, <2>6 DEF JobOk, After
  <2>8. job' = Idle \/ job' = k
    BY <1>6, <2>1, <2>5
  <2>9. x.name = job.name /\ x.first = 0 /\ x.size = 0
    BY <2>1
  <2> QED BY <1>1, <1>2, <1>4, <1>6, <2>1, <2>3, <2>4, <2>6, <2>7, <2>8, <2>9, IdleOk
<1>7. ASSUME disk' \in {disk} \cup {NewEntry(x) : x \in {y \in FreeSlots : y = s}}
      PROVE  disk' = disk \/ (FreeSlots # {} /\ disk' = NewEntry(s))
  BY <1>7
<1> QED
  BY <1>3, <1>5, <1>6, <1>7 DEF Create

LEMMA CreateShares ==
  ASSUME SharedType, Create, NEW own, Sharing(own)
  PROVE  JobOk(job') /\ ErrorsCounted /\ disk' \in Media /\ Sharing(own)'
<1>1. torn' = torn /\ last' = last /\ disk \in Media /\ last \in [Names -> Seq(Tags)] /\ JobOk(job)
  BY DEF SharedType, Create, At
<1>2. PICK d, e, j, k : d = disk /\ e = disk' /\ j = job /\ k = job'
  OBVIOUS
<1>3. /\ JobOk(k) /\ j.pc = "create" /\ ErrorsCounted /\ e \in Media /\ d \in Media /\ j.name \in Names /\ j.start = 0
      /\ e.fat = d.fat /\ e.data = d.data /\ j.name # NoName
      /\ \/ e = d /\ k = Idle
         \/ \E s \in Slots :
              /\ d.dir[s].name = NoName /\ \A x \in Slots : x # s => e.dir[x] = d.dir[x]
              /\ e.dir[s].name = j.name /\ e.dir[s].first = 0 /\ e.dir[s].size = 0
              /\ \/ k = Idle
                 \/ k.pc = "clear" /\ k.slot = s /\ k.name = j.name /\ k.start = 0
  BY <1>1, <1>2, CreateFacts, SharedAssumption
<1>4. \A x : ~InHand(j, x)
  BY <1>3 DEF InHand, After
<1>5. CASE e = d /\ k = Idle
  <2>1. k.pc = "idle" /\ k.start = 0 /\ k.pc \notin After /\ ~AtIts(k) /\ \A x : ~InHand(k, x)
    BY <1>5, IdleOk DEF After, AtIts, InHand
  <2>2. Owned(own, d, j) => Owned(own, e, k)
    BY <1>3, <1>5, <2>1 DEF Owned
  <2>3. Full(own, d, j) => Full(own, e, k)
    BY <1>3, <1>5, <2>1 DEF Full
  <2>4. Told(own, d, j, last) => Told(own, e, k, last)
    BY <1>3, <1>4, <1>5, <2>1 DEF Told
  <2>5. Sharing(own)'
    BY <1>1, <1>2, <1>3, <2>2, <2>3, <2>4, SharingStep
  <2> QED BY <1>2, <1>3, <2>5
<1>6. ASSUME NEW s \in Slots,
             d.dir[s].name = NoName, \A x \in Slots : x # s => e.dir[x] = d.dir[x],
             e.dir[s].name = j.name, e.dir[s].first = 0, e.dir[s].size = 0,
             k = Idle \/ (k.pc = "clear" /\ k.slot = s /\ k.name = j.name /\ k.start = 0)
      PROVE  Sharing(own)'
  <2>1. /\ k.pc \in {"idle", "clear"} /\ (k.pc = "clear" => k.slot = s /\ k.name = j.name) /\ k.start = 0 /\ k.pc \notin After
        /\ ~AtIts(k) /\ \A x : InHand(k, x) => x = s
    BY <1>6, IdleOk DEF After, AtIts, InHand
  <2>2. s \notin Named(d) /\ Named(e) = Named(d) \cup {s}
    BY <1>3, <1>6 DEF Named
  <2>3. Named(d) \subseteq Slots
    BY DEF Named
  <2>4. ASSUME Owned(own, d, j)
        PROVE  Owned(own, e, k)
    <3>1. \A x \in Named(e) : e.dir[x].first # 0 => own[e.dir[x].first] = x
      BY <1>3, <1>6, <2>2, <2>3, <2>4 DEF Owned
    <3> QED BY <1>3, <1>6, <2>1, <2>4, <3>1 DEF Owned
  <2>5. ASSUME Full(own, d, j)
        PROVE  Full(own, e, k)
    <3>1. \A c \in Clusters : own[c] \in Slots => own[c] \in Named(e) /\ own[c] # s /\ c \in Reached(e.fat, e.dir[own[c]].first)
      <4>1. SUFFICES ASSUME NEW c \in Clusters, own[c] \in Slots
                     PROVE  own[c] \in Named(e) /\ own[c] # s /\ c \in Reached(e.fat, e.dir[own[c]].first)
        OBVIOUS
      <4>2. own[c] \in Named(d) /\ c \in Reached(d.fat, d.dir[own[c]].first)
        BY <2>5, <4>1 DEF Full
      <4>3. own[c] # s /\ e.dir[own[c]] = d.dir[own[c]]
        BY <1>6, <2>2, <4>1, <4>2
      <4> QED BY <1>3, <2>2, <4>2, <4>3
    <3> QED BY <1>3, <2>1, <2>5, <3>1 DEF Full
  <2>6. ASSUME Told(own, d, j, last)
        PROVE  Told(own, e, k, last)
    <3>1. /\ \A x, t \in Named(d) : d.dir[x].name = d.dir[t].name => x = t
          /\ \A f \in Names : (\A x \in Slots : d.dir[x].name # f) => last[f] = <<>>
          /\ \A x \in Named(d) : Holds(own, d, x, last[d.dir[x].name])
          /\ \A x \in Slots : d.dir[x].name # j.name
      BY <1>3, <1>4, <2>6 DEF Told
    <3>2. last[j.name] = <<>>
      BY <1>3, <3>1
    <3>3. \A x, t \in Named(e) : e.dir[x].name = e.dir[t].name => x = t
      BY <1>6, <2>2, <2>3, <3>1
    <3>4. \A f \in Names : (\A x \in Slots : e.dir[x].name # f) => last[f] = <<>>
      <4>1. SUFFICES ASSUME NEW f \in Names, \A x \in Slots : e.dir[x].name # f
                     PROVE  last[f] = <<>>
        OBVIOUS
      <4>2. \A x \in Slots : d.dir[x].name # f
        BY <1>6, <4>1, SharedAssumption
      <4> QED BY <3>1, <4>2
    <3>5. ASSUME NEW x \in Named(e)
          PROVE  Holds(own, e, x, last[e.dir[x].name])
      <4>1. CASE x = s
        <5>1. Holds(own, e, s, <<>>)
          BY <1>6, HoldsNothing
        <5> QED BY <1>6, <3>2, <4>1, <5>1
      <4>2. CASE x # s
        <5>1. x \in Named(d) /\ x \in Slots /\ e.dir[x] = d.dir[x] /\ e.dir[x].name \in Names
          BY <1>3, <1>6, <2>2, <2>3, <4>2, <3>5, MediaFields DEF Named
        <5>2. PICK text : text = last[e.dir[x].name]
          OBVIOUS
        <5>3. Holds(own, d, x, text) /\ Len(text) \in Nat
          BY <1>1, <3>1, <5>1, <5>2, LenProperties
        <5>4. Holds(own, e, x, text)
          BY <1>3, <5>1, <5>3, HoldsStays
        <5> QED BY <5>2, <5>4
      <4> QED BY <4>1, <4>2
    <3> QED BY <1>6, <2>1, <3>2, <3>3, <3>4, <3>5 DEF Told
  <2>7. Sharing(own)'
    BY <1>1, <1>2, <1>3, <2>4, <2>5, <2>6, SharingStep
  <2> QED BY <2>7
<1> QED
  BY <1>2, <1>3, <1>5, <1>6

LEMMA SaveTermShares ==
  ASSUME SharedType, NEW name \in Names, NEW body \in 0..2, SaveTerm(name, body), NEW own, Sharing(own)
  PROVE  JobOk(job') /\ ErrorsCounted /\ disk' = disk /\ Sharing(own)'
<1>1. /\ torn' = torn /\ last' = last /\ disk' = disk /\ job = Idle /\ counts' = [counts EXCEPT !.saves = @ + 1]
      /\ counts \in [errors : Nat, failed : SUBSET (Busy \cup {"idle"}), crashes : Nat, saves : Nat]
  BY DEF SharedType, SaveTerm
<1>2. ErrorsCounted
  <2>1. PICK m : m = counts
    OBVIOUS
  <2>2. PICK m2 : m2 = [m EXCEPT !.saves = m.saves + 1]
    OBVIOUS
  <2>3. m2 = [errors |-> m.errors, failed |-> m.failed, crashes |-> m.crashes, saves |-> m.saves + 1]
    BY <1>1, <2>1, <2>2
  <2>4. counts' = m2
    BY <1>1, <2>1, <2>2
  <2> QED BY <1>1, <2>1, <2>3, <2>4 DEF ErrorsCounted
<1>3. PICK d, j, k, z : d = disk /\ j = job /\ k = job' /\ z = IF body > 0 THEN 1 ELSE 0
  OBVIOUS
<1>4. k = [Idle EXCEPT !.pc = "lookup", !.name = name, !.body = body, !.tail = z]
  BY <1>3 DEF SaveTerm
<1>5. k \in Jobs /\ k.pc = "lookup" /\ k.name = name /\ k.start = 0 /\ k.put = <<>>
  <2>1. Idle \in Jobs
    BY IdleOk DEF JobOk
  <2>2. z \in Nat /\ body \in Nat
    BY <1>3
  <2>3. PICK i : i = Idle
    OBVIOUS
  <2>4. k = [i EXCEPT !.pc = "lookup", !.name = name, !.body = body, !.tail = z]
    BY <1>4, <2>3
  <2> QED BY <2>1, <2>2, <2>3, <2>4, IdleOk DEF Jobs, Busy
<1>6. JobOk(k)
  BY <1>5 DEF JobOk, After
<1>7. /\ j.pc = "idle" /\ j.start = 0 /\ k.pc \notin After /\ j.pc \notin After /\ ~AtIts(k) /\ \A x : ~InHand(k, x) /\ ~InHand(j, x)
  BY <1>1, <1>3, <1>5, IdleOk DEF After, AtIts, InHand
<1>8. Owned(own, d, j) => Owned(own, d, k)
  BY <1>5, <1>7 DEF Owned
<1>9. Full(own, d, j) => Full(own, d, k)
  BY <1>5, <1>7 DEF Full
<1>10. Told(own, d, j, last) => Told(own, d, k, last)
  BY <1>5, <1>7 DEF Told
<1>11. Sharing(own)'
  BY <1>1, <1>2, <1>3, <1>8, <1>9, <1>10, SharingStep
<1> QED
  BY <1>1, <1>2, <1>3, <1>6, <1>11

LEMMA PowerFailsShares ==
  ASSUME SharedType, PowerFails, NEW own, Sharing(own)
  PROVE  /\ JobOk(job') /\ disk' = disk /\ last' \in [Names -> Seq(Tags)] /\ torn' \in BOOLEAN /\ counts'.crashes # 0
         /\ counts' \in [errors : Nat, failed : SUBSET (Busy \cup {"idle"}), crashes : Nat, saves : Nat]
         /\ \E own2 : Sharing(own2)'
<1>1. /\ disk' = disk /\ disk \in Media /\ last \in [Names -> Seq(Tags)] /\ JobOk(job) /\ job' = Idle /\ torn \in BOOLEAN
      /\ counts' = [counts EXCEPT !.crashes = @ + 1]
      /\ counts \in [errors : Nat, failed : SUBSET (Busy \cup {"idle"}), crashes : Nat, saves : Nat]
      /\ torn' = (torn \/ (job.pc \in {"free", "clear"} /\ disk.dir[job.slot].first # 0))
  BY DEF SharedType, PowerFails
<1>2. counts' \in [errors : Nat, failed : SUBSET (Busy \cup {"idle"}), crashes : Nat, saves : Nat] /\ counts'.failed = counts.failed /\ counts'.crashes # 0
  <2>1. PICK m : m = counts
    OBVIOUS
  <2>2. PICK m2 : m2 = [m EXCEPT !.crashes = m.crashes + 1]
    OBVIOUS
  <2>3. m2 = [errors |-> m.errors, failed |-> m.failed, crashes |-> m.crashes + 1, saves |-> m.saves]
    BY <1>1, <2>1, <2>2
  <2>4. counts' = m2
    BY <1>1, <2>1, <2>2
  <2>5. m.crashes \in Nat /\ m.crashes + 1 \in Nat /\ m.crashes + 1 # 0
    <3>1. m.crashes \in Nat
      BY <1>1, <2>1
    <3> QED BY <3>1
  <2> QED BY <1>1, <2>1, <2>3, <2>4, <2>5
<1>3. PICK d, j, k, l : d = disk /\ j = job /\ k = job' /\ l = last'
  OBVIOUS
<1>4. /\ l \in [Names -> Seq(Tags)]
      /\ j.pc \in After => j.name \in Names /\ l[j.name] = <<>> /\ \A f \in Names : f # j.name => l[f] = last[f]
      /\ j.pc \notin After => l = last
  <2>1. <<>> \in Seq(Tags)
    BY EmptySeq
  <2>2. CASE j.pc \in After
    <3>1. l = [last EXCEPT ![j.name] = <<>>] /\ j.name \in Names
      BY <1>1, <1>3, <2>2 DEF PowerFails, After, JobOk
    <3>2. PICK w : w = <<>>
      OBVIOUS
    <3>3. l = [last EXCEPT ![j.name] = w] /\ w \in Seq(Tags)
      BY <2>1, <3>1, <3>2
    <3> QED BY <1>1, <2>2, <3>1, <3>2, <3>3
  <2>3. CASE j.pc \notin After
    BY <1>1, <1>3, <2>3 DEF PowerFails, After
  <2> QED BY <2>2, <2>3
<1>5. /\ d \in Media /\ JobOk(j) /\ k.pc = "idle" /\ k.start = 0 /\ k.pc \notin After /\ ~AtIts(k) /\ \A x : ~InHand(k, x)
      /\ JobOk(k)
  BY <1>1, <1>3, IdleOk DEF After, AtIts, InHand
<1>6. PICK o2 : o2 = [c \in Clusters |-> IF own[c] \in {JobMark, FreedMark} THEN 0 ELSE own[c]]
  OBVIOUS
<1>7. /\ \A c \in Clusters : own[c] \in {JobMark, FreedMark} => o2[c] = 0
      /\ \A c \in Clusters : own[c] \notin {JobMark, FreedMark} => o2[c] = own[c]
  BY <1>6
<1>8. ASSUME Owned(own, d, j), j.pc \in {"free", "clear"} => d.dir[j.slot].first = 0
      PROVE  Owned(o2, d, k)
  <2>1. /\ own \in [Clusters -> 0..NEntries + 2]
        /\ \A c \in Clusters : own[c] \in 1..NEntries + 1 => d.fat[c] # Free
        /\ \A c \in Clusters : own[c] # 0 /\ d.fat[c] \in Clusters => own[d.fat[c]] = own[c]
        /\ \A s \in Named(d) : d.dir[s].first # 0 => own[d.dir[s].first] = s
    BY <1>8 DEF Owned
  <2>2. o2 \in [Clusters -> 0..NEntries + 2]
    BY <1>6, <2>1, Marks
  <2>3. \A c \in Clusters : o2[c] \in 1..NEntries + 1 => d.fat[c] # Free
    BY <1>7, <2>1, Marks, Numbers
  <2>4. \A c \in Clusters : o2[c] # 0 /\ d.fat[c] \in Clusters => o2[d.fat[c]] = o2[c]
    BY <1>7, <2>1
  <2>5. \A s \in Named(d) : d.dir[s].first # 0 => o2[d.dir[s].first] = s
    <3>1. SUFFICES ASSUME NEW s \in Named(d), d.dir[s].first # 0
                   PROVE  o2[d.dir[s].first] = s
      OBVIOUS
    <3>2. s \in Slots /\ d.dir[s].first \in Clusters
      BY <1>5, <3>1, MediaFields DEF Named
    <3> QED BY <1>7, <2>1, <3>1, <3>2, Marks
  <2>6. \A c \in Clusters : o2[c] # FreedMark
    BY <1>7, Marks
  <2> QED BY <1>5, <2>2, <2>3, <2>4, <2>5, <2>6 DEF Owned
<1>9. ASSUME Owned(own, d, j), Told(own, d, j, last), j.pc \in {"free", "clear"} => d.dir[j.slot].first = 0
      PROVE  Told(o2, d, k, l)
  <2>1. /\ \A s, t \in Named(d) : d.dir[s].name = d.dir[t].name => s = t
        /\ \A f \in Names : (\A s \in Slots : d.dir[s].name # f) => last[f] = <<>>
        /\ \A s \in Named(d) : ~InHand(j, s) => Holds(own, d, s, last[d.dir[s].name])
    BY <1>9 DEF Told
  <2>2. \A f \in Names : (\A s \in Slots : d.dir[s].name # f) => l[f] = <<>>
    BY <1>4, <2>1
  <2>3. ASSUME NEW s \in Named(d), InHand(j, s)
        PROVE  d.dir[s].size = 0 /\ l[d.dir[s].name] = <<>>
    <3>1. d.dir[s].name = j.name
      BY <1>9, <2>3 DEF InHand, Owned
    <3>2. CASE j.pc \in After
      BY <1>4, <1>9, <2>3, <3>1, <3>2 DEF InHand, Owned
    <3>3. CASE j.pc \in {"free", "clear"}
      <4>1. j.pc \notin After
        BY <3>3 DEF After
      <4> QED BY <1>4, <1>9, <2>3, <3>1, <3>3, <4>1 DEF InHand, Told
    <3> QED BY <2>3, <3>2, <3>3 DEF InHand
  <2>4. ASSUME NEW s \in Named(d)
        PROVE  Holds(o2, d, s, l[d.dir[s].name])
    <3>1. CASE InHand(j, s)
      BY <2>3, <2>4, <3>1, HoldsNothing
    <3>2. CASE ~InHand(j, s)
      <4>1. s \in Slots /\ d.dir[s].name \in Names
        BY <1>5, <2>4, MediaFields DEF Named
      <4>2. l[d.dir[s].name] = last[d.dir[s].name]
        <5>1. CASE j.pc \in After
          <6>1. j.slot \in Slots /\ d.dir[j.slot].name = j.name /\ j.name \in Names /\ j.name # NoName
            BY <1>5, <1>9, <5>1, SharedAssumption DEF Owned, JobOk, After
          <6>2. j.slot \in Named(d) /\ s # j.slot
            BY <3>2, <5>1, <6>1 DEF Named, InHand
          <6>3. d.dir[s].name # j.name
            BY <2>1, <2>4, <6>1, <6>2
          <6> QED BY <1>4, <4>1, <5>1, <6>3
        <5>2. CASE j.pc \notin After
          BY <1>4, <5>2
        <5> QED BY <5>1, <5>2
      <4>3. PICK text : text = last[d.dir[s].name]
        OBVIOUS
      <4>4. Holds(own, d, s, text) /\ Len(text) \in Nat
        BY <1>1, <2>1, <2>4, <3>2, <4>1, <4>3, LenProperties
      <4>5. \A c \in Clusters : own[c] = s => o2[c] = s /\ d.fat[c] = d.fat[c] /\ d.data[c] = d.data[c]
        BY <1>7, <4>1, Marks
      <4>6. Holds(o2, d, s, text)
        BY <4>4, <4>5, HoldsStays
      <4> QED BY <4>2, <4>3, <4>6
    <3> QED BY <3>1, <3>2
  <2> QED BY <1>5, <2>1, <2>2, <2>4 DEF Told
<1>10. Sharing(o2)'
  <2>1. SUFFICES ASSUME ~torn', counts'.failed \cap {"clear", "alloc"} = {}
                 PROVE  /\ Owned(o2, disk', job')
                        /\ counts'.failed \cap {"lookup", "clear", "alloc", "link", "close"} = {} => Told(o2, disk', job', last')
                        /\ counts'.crashes = 0 /\ counts'.failed \cap {"free", "clear", "alloc", "link", "close"} = {} => Full(o2, disk', job')
    BY DEF Sharing, Spared
  <2>2. ~torn /\ (j.pc \in {"free", "clear"} => d.dir[j.slot].first = 0)
    BY <1>1, <1>3, <2>1
  <2>3. Owned(own, d, j) /\ (counts'.failed \cap {"lookup", "clear", "alloc", "link", "close"} = {} => Told(own, d, j, last))
    BY <1>2, <1>3, <2>1, <2>2 DEF Sharing, Spared
  <2> QED BY <1>1, <1>2, <1>3, <1>8, <1>9, <2>2, <2>3
<1> QED
  BY <1>1, <1>2, <1>3, <1>4, <1>5, <1>10

-----------------------------------------------------------------------------
SharedInv == SharedType /\ \E own : Sharing(own)

LEMMA SharedStart == SharedInit => SharedInv
<1> SUFFICES ASSUME SharedInit PROVE SharedInv
  OBVIOUS
<1>1. /\ disk = [fat |-> [c \in Clusters |-> Free], dir |-> [s \in Slots |-> Unused], data |-> [c \in Clusters |-> Blank]]
      /\ job = Idle /\ last = [f \in Names |-> <<>>] /\ torn = FALSE
      /\ counts = [errors |-> 0, failed |-> {}, crashes |-> 0, saves |-> 0]
      /\ up = [on |-> FALSE, known |-> FALSE, mounted |-> FALSE]
  BY DEF SharedInit
<1>2. PICK d, j, l : d = disk /\ j = job /\ l = last
  OBVIOUS
<1>3. /\ d \in Media /\ \A c \in Clusters : d.fat[c] = Free
      /\ \A s \in Slots : d.dir[s].name = NoName /\ d.dir[s].first = 0 /\ d.dir[s].size = 0
  <2>1. PICK f, g, h : f = [c \in Clusters |-> Free] /\ g = [s \in Slots |-> Unused] /\ h = [c \in Clusters |-> Blank]
    OBVIOUS
  <2>2. f \in [Clusters -> Nat] /\ \A c \in Clusters : f[c] = Free
    BY <2>1, Numbers
  <2>3. /\ g \in [Slots -> [name : Names \cup {NoName}, first : {0} \cup Clusters, size : Nat]]
        /\ \A s \in Slots : g[s].name = NoName /\ g[s].first = 0 /\ g[s].size = 0
    BY <2>1 DEF Unused
  <2>4. h \in [Clusters -> Tags]
    BY <2>1 DEF Blank, Tags
  <2>5. d = [fat |-> f, dir |-> g, data |-> h]
    BY <1>1, <1>2, <2>1
  <2> QED BY <2>2, <2>3, <2>4, <2>5 DEF Media
<1>4. l \in [Names -> Seq(Tags)] /\ \A f \in Names : l[f] = <<>>
  <2>1. <<>> \in Seq(Tags)
    BY EmptySeq
  <2> QED BY <1>1, <1>2, <2>1
<1>5. SharedType
  BY <1>1, <1>2, <1>3, <1>4, IdleOk DEF SharedType
<1>6. PICK own : own = [c \in Clusters |-> 0]
  OBVIOUS
<1>7. own \in [Clusters -> 0..NEntries + 2] /\ \A c \in Clusters : own[c] = 0
  BY <1>6, Marks
<1>8. /\ Named(d) = {} /\ j.pc = "idle" /\ j.start = 0 /\ j.pc \notin After /\ ~AtIts(j)
  BY <1>1, <1>2, <1>3, IdleOk DEF Named, After, AtIts
<1>9. Owned(own, d, j)
  BY <1>7, <1>8, Marks DEF Owned
<1>10. Told(own, d, j, l)
  BY <1>4, <1>8 DEF Told
<1>11. Full(own, d, j)
  BY <1>3, <1>7, <1>8, Marks, Numbers DEF Full
<1>12. Sharing(own)
  BY <1>2, <1>9, <1>10, <1>11 DEF Sharing
<1> QED
  BY <1>5, <1>12 DEF SharedInv

\* Finding and mounting the volume touches nothing.
LEMMA IdleShares ==
  ASSUME SharedType, Probe \/ MountPending, NEW own, Sharing(own)
  PROVE  ErrorsCounted /\ Sharing(own)'
<1>1. disk' = disk /\ job' = job /\ last' = last /\ torn' = torn /\ (Works \/ Fails)
  BY DEF Probe, MountPending
<1>2. ErrorsCounted
  BY <1>1, Counts
<1>3. Sharing(own)'
  BY <1>1, <1>2, SharingStep
<1> QED
  BY <1>2, <1>3

\* up is a record of three flags.
LEMMA UpStep ==
  ASSUME SharedType, SharedNext
  PROVE  up' \in [on : BOOLEAN, known : BOOLEAN, mounted : BOOLEAN]
<1>1. up \in [on : BOOLEAN, known : BOOLEAN, mounted : BOOLEAN]
  BY DEF SharedType
<1>2. CASE up' = up
  BY <1>1, <1>2
<1>3. CASE Probe \/ PowerFails
  <2>1. \E a, b, c \in BOOLEAN : up' = [on |-> a, known |-> b, mounted |-> c]
    <3>1. CASE Probe
      BY <3>1, Zenon DEF Probe
    <3>2. CASE PowerFails
      BY <3>2, Zenon DEF PowerFails
    <3> QED BY <1>3, <3>1, <3>2
  <2> QED BY <2>1
<1>4. CASE MountPending
  BY <1>1, <1>4 DEF MountPending
<1> QED
  BY <1>2, <1>3, <1>4 DEF SharedNext, SaveTerm, Lookup, Create, FreeLink, Clear, Walk, Allocate, Link, Store, Close, At

LEMMA SharedStep ==
  ASSUME SharedInv, [SharedNext]_shared
  PROVE  SharedInv'
<1>1. SharedType /\ (counts.crashes = 0 => ~torn) /\ torn \in BOOLEAN /\ disk \in Media /\ last \in [Names -> Seq(Tags)] /\ JobOk(job)
  BY DEF SharedInv, SharedType
<1>2. PICK own : Sharing(own)
  BY DEF SharedInv
<1>3. CASE UNCHANGED shared
  <2>1. disk' = disk /\ up' = up /\ job' = job /\ last' = last /\ torn' = torn /\ counts' = counts
    BY <1>3 DEF shared
  <2>2. SharedType'
    BY <1>1, <2>1 DEF SharedType
  <2>3. Sharing(own)'
    BY <1>2, <2>1 DEF Sharing, Spared
  <2> QED BY <2>2, <2>3 DEF SharedInv
<1>4. CASE SharedNext
  <2> SUFFICES ASSUME TRUE PROVE SharedType' /\ \E o2 : Sharing(o2)'
    BY DEF SharedInv
  <2>1. up' \in [on : BOOLEAN, known : BOOLEAN, mounted : BOOLEAN]
    BY <1>1, <1>4, UpStep
  <2>2. ASSUME JobOk(job'), ErrorsCounted, disk' \in Media, last' \in [Names -> Seq(Tags)], torn' = torn
        PROVE  SharedType'
    BY <1>1, <2>1, <2>2 DEF SharedType, ErrorsCounted
  <2>3. CASE Probe \/ MountPending
    <3>1. disk' = disk /\ job' = job /\ last' = last /\ torn' = torn
      BY <2>3 DEF Probe, MountPending
    <3> QED BY <1>1, <1>2, <2>2, <2>3, <3>1, IdleShares
  <2>4. CASE PowerFails
    <3>1. /\ JobOk(job') /\ disk' = disk /\ last' \in [Names -> Seq(Tags)] /\ torn' \in BOOLEAN /\ counts'.crashes # 0
          /\ counts' \in [errors : Nat, failed : SUBSET (Busy \cup {"idle"}), crashes : Nat, saves : Nat]
          /\ \E own2 : Sharing(own2)'
      BY <1>1, <1>2, <2>4, PowerFailsShares
    <3>2. SharedType'
      BY <1>1, <2>1, <3>1 DEF SharedType
    <3> QED BY <3>1, <3>2
  <2>5. ASSUME NEW name \in Names, NEW body \in 0..2, SaveTerm(name, body)
        PROVE  SharedType' /\ \E o2 : Sharing(o2)'
    <3>1. last' = last /\ torn' = torn
      BY <2>5 DEF SaveTerm
    <3> QED BY <1>1, <1>2, <2>2, <2>5, <3>1, SaveTermShares
  <2>6. CASE Lookup
    <3>1. last' = last /\ torn' = torn
      BY <2>6 DEF Lookup, At
    <3> QED BY <1>1, <1>2, <2>2, <2>6, <3>1, LookupShares
  <2>7. CASE Create
    <3>1. last' = last /\ torn' = torn
      BY <2>7 DEF Create, At
    <3> QED BY <1>1, <1>2, <2>2, <2>7, <3>1, CreateShares
  <2>8. CASE FreeLink
    <3>1. last' = last /\ torn' = torn
      BY <2>8 DEF FreeLink, At
    <3> QED BY <1>1, <1>2, <2>2, <2>8, <3>1, FreeLinkShares
  <2>9. CASE Clear
    <3>1. last' = last /\ torn' = torn
      BY <2>9 DEF Clear, At
    <3> QED BY <1>1, <1>2, <2>2, <2>9, <3>1, ClearShares
  <2>10. CASE Walk
    <3>1. last' = last /\ torn' = torn /\ disk' = disk
      BY <2>10 DEF Walk, At
    <3> QED BY <1>1, <1>2, <2>2, <2>10, <3>1, WalkShares
  <2>11. CASE Allocate
    <3>1. last' = last /\ torn' = torn
      BY <2>11 DEF Allocate, At
    <3> QED BY <1>1, <1>2, <2>2, <2>11, <3>1, AllocateShares
  <2>12. CASE Link
    <3>1. last' = last /\ torn' = torn
      BY <2>12 DEF Link, At
    <3> QED BY <1>1, <1>2, <2>2, <2>12, <3>1, LinkShares
  <2>13. CASE Store
    <3>1. last' = last /\ torn' = torn
      BY <2>13 DEF Store, At
    <3> QED BY <1>1, <1>2, <2>2, <2>13, <3>1, StoreShares
  <2>14. CASE Close
    <3>1. torn' = torn
      BY <2>14 DEF Close, At
    <3> QED BY <1>1, <1>2, <2>2, <2>14, <3>1, CloseShares
  <2> QED BY <1>4, <2>3, <2>4, <2>5, <2>6, <2>7, <2>8, <2>9, <2>10, <2>11, <2>12, <2>13, <2>14 DEF SharedNext
<1> QED
  BY <1>3, <1>4

THEOREM SharedCorrect == SharedSpec => []SharedInv
<1>1. SharedInit => SharedInv
  BY SharedStart
<1>2. SharedInv /\ [SharedNext]_shared => SharedInv'
  BY SharedStep
<1> QED
  BY <1>1, <1>2, PTL DEF SharedSpec

\* No two files share a cluster, and none has a free one (freeing, clearing, allocating, linking and closing,
\* at any place where the power may go).
THEOREM FilesSeparate == SharedSpec => []Separate
<1>1. SharedInv => Separate
  <2>1. SUFFICES ASSUME SharedInv, ~torn, Spared({"clear", "alloc"}), job.pc \notin {"free", "clear"}
                 PROVE  /\ \A s, t \in Files : s # t => ChainSet(disk.dir[s].first) \cap ChainSet(disk.dir[t].first) = {}
                        /\ \A s \in Files : \A c \in ChainSet(disk.dir[s].first) : disk.fat[c] # Free
    BY DEF Separate
  <2>2. PICK own : Owned(own, disk, job)
    BY <2>1 DEF SharedInv, Sharing
  <2>3. ASSUME NEW s \in Files, NEW c \in ChainSet(disk.dir[s].first)
        PROVE  c \in Clusters /\ own[c] = s /\ disk.fat[c] # Free
    <3>1. s \in Named(disk) /\ s \in Slots /\ disk \in Media
      BY <2>1, <2>3 DEF Files, Named, SharedInv, SharedType
    <3>2. PICK x : x = disk.dir[s].first
      OBVIOUS
    <3>3. c \in Reached(disk.fat, x)
      BY <2>3, <3>2 DEF ChainSet
    <3>4. x \in Clusters
      BY <3>3, ReachedFacts
    <3>5. own[x] = s
      BY <2>1, <2>2, <3>1, <3>2, <3>4, Numbers DEF Owned
    <3>6. c \in Clusters /\ own[c] = s
      BY <2>2, <3>1, <3>3, <3>4, <3>5, ChainOwned, Numbers
    <3>7. own[c] \in 1..NEntries + 1
      BY <3>1, <3>6, Marks
    <3> QED BY <2>2, <3>6, <3>7 DEF Owned
  <2> QED BY <2>3
<1>2. SharedSpec => []SharedInv
  BY SharedCorrect
<1> QED
  BY <1>1, <1>2, PTL

\* Between two saves every file reads as its last save wrote it.
THEOREM SavesReadBack == SharedSpec => []LastSaveReadsBack
<1>1. SharedInv => LastSaveReadsBack
  <2>1. SUFFICES ASSUME SharedInv, job = Idle, ~torn, Spared({"lookup", "clear", "alloc", "link", "close"}), NEW name \in Names
                 PROVE  Reads(disk, EntryOf(name), last[name])
    BY DEF LastSaveReadsBack
  <2>2. PICK own : Told(own, disk, job, last)
    <3>1. Spared({"clear", "alloc"})
      BY <2>1 DEF Spared
    <3> QED BY <2>1, <3>1 DEF SharedInv, Sharing
  <2>3. /\ \A f \in Names : (\A s \in Slots : disk.dir[s].name # f) => last[f] = <<>>
        /\ \A s \in Named(disk) : Holds(own, disk, s, last[disk.dir[s].name])
    <3>1. \A s : ~InHand(job, s)
      BY <2>1, IdleOk DEF InHand, After
    <3> QED BY <2>2, <3>1 DEF Told
  <2>4. PICK hits : hits = {s \in Files : disk.dir[s].name = name}
    OBVIOUS
  <2>5. CASE hits = {}
    <3>1. \A s \in Slots : disk.dir[s].name # name
      BY <2>4, <2>5, SharedAssumption DEF Files
    <3>2. last[name] = <<>> /\ EntryOf(name) = Unused
      BY <2>3, <2>4, <2>5, <3>1 DEF EntryOf
    <3>3. PICK route : route = [k \in 1..0 |-> 2]
      OBVIOUS
    <3>4. route \in [1..0 -> Clusters] /\ Len(<<>>) = 0
      BY <3>3
    <3>5. \A k \in 1..0 : FALSE
      OBVIOUS
    <3>6. \A k \in 1..0 - 1 : FALSE
      OBVIOUS
    <3>7. Unused.size = 0
      BY DEF Unused
    <3>8. Reads(disk, Unused, <<>>)
      BY <3>4, <3>5, <3>6, <3>7 DEF Reads
    <3> QED BY <3>2, <3>8
  <2>6. CASE hits # {}
    <3>1. hits \subseteq Nat
      BY <2>4, Numbers DEF Files
    <3>2. PICK s : s = CHOOSE x \in hits : \A t \in hits : x <= t
      OBVIOUS
    <3>3. s \in hits
      <4>1. \E x \in hits : \A t \in hits : x <= t
        BY <2>6, <3>1, LeastExists
      <4> QED BY <3>2, <4>1
    <3>4. s \in Named(disk) /\ disk.dir[s].name = name
      BY <2>4, <3>3 DEF Files, Named
    <3>5. EntryOf(name) = disk.dir[s]
      BY <2>4, <2>6, <3>2 DEF EntryOf
    <3>6. Holds(own, disk, s, last[name])
      BY <2>3, <3>4
    <3>7. Reads(disk, disk.dir[s], last[name])
      BY <3>6 DEF Holds, Reads
    <3> QED BY <3>5, <3>7
  <2> QED BY <2>5, <2>6
<1>2. SharedSpec => []SharedInv
  BY SharedCorrect
<1> QED
  BY <1>1, <1>2, PTL

\* Without power failures every cluster in use is some file's.
THEOREM ClustersOwned == SharedSpec => []NothingLost
<1>1. SharedInv => NothingLost
  <2>1. SUFFICES ASSUME SharedInv, job = Idle, counts.crashes = 0, Spared({"free", "clear", "alloc", "link", "close"})
                 PROVE  {c \in Clusters : disk.fat[c] # Free} = UNION {ChainSet(disk.dir[s].first) : s \in Files}
    BY DEF NothingLost
  <2>2. Spared({"clear", "alloc"}) /\ ~torn /\ disk \in Media
    BY <2>1 DEF Spared, SharedInv, SharedType
  <2>3. PICK own : Owned(own, disk, job) /\ Full(own, disk, job)
    BY <2>1, <2>2 DEF SharedInv, Sharing
  <2>4. job.pc = "idle" /\ job.start = 0
    BY <2>1, IdleOk
  <2>5. ASSUME NEW c \in Clusters, disk.fat[c] # Free
        PROVE  \E s \in Files : c \in ChainSet(disk.dir[s].first)
    <3>1. own[c] # 0 /\ own[c] # FreedMark
      BY <2>3, <2>4, <2>5 DEF Owned, Full
    <3>2. own[c] # JobMark
      <4>1. own[c] = JobMark => c \in Reached(disk.fat, 0)
        BY <2>3, <2>4, <2>5 DEF Full
      <4> QED BY <4>1, Numbers, ReachedFacts
    <3>3. own[c] \in Slots
      <4>1. own[c] \in 0..NEntries + 2
        BY <2>3, <2>5 DEF Owned
      <4> QED BY <3>1, <3>2, <4>1, Marks
    <3>4. own[c] \in Named(disk) /\ c \in Reached(disk.fat, disk.dir[own[c]].first)
      BY <2>3, <2>5, <3>3 DEF Full
    <3> QED BY <3>4 DEF Named, Files, ChainSet
  <2>6. ASSUME NEW s \in Files, NEW c \in ChainSet(disk.dir[s].first)
        PROVE  c \in Clusters /\ disk.fat[c] # Free
    <3>1. s \in Named(disk) /\ s \in Slots
      BY <2>6 DEF Files, Named
    <3>2. PICK x : x = disk.dir[s].first
      OBVIOUS
    <3>3. c \in Reached(disk.fat, x)
      BY <2>6, <3>2 DEF ChainSet
    <3>4. x \in Clusters
      BY <3>3, ReachedFacts
    <3>5. own[x] = s
      BY <2>3, <2>4, <3>1, <3>2, <3>4, Numbers DEF Owned
    <3>6. c \in Clusters /\ own[c] = s
      BY <2>3, <3>1, <3>3, <3>4, <3>5, ChainOwned, Numbers
    <3>7. own[c] \in 1..NEntries + 1
      BY <3>1, <3>6, Marks
    <3> QED BY <2>3, <3>6, <3>7 DEF Owned
  <2> QED BY <2>5, <2>6
<1>2. SharedSpec => []SharedInv
  BY SharedCorrect
<1> QED
  BY <1>1, <1>2, PTL
=============================================================================
