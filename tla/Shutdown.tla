------------------------------ MODULE Shutdown ------------------------------
(***************************************************************************)
(* QKernel's shutdown controller with the desktop's shutdown dialog.  A    *)
(* request is an event: Ctrl+Q, the power buttons and the shell post it,   *)
(* and the controller's listener turns it into requestShutdown.  That asks *)
(* the registered subsystems one after the other, and a callback may       *)
(* register and unregister subsystems and post requests while the loop is  *)
(* walking the vector.  Everything runs on the stack of the main loop;     *)
(* what may happen between two events is what user code does there.        *)
(* Handles are numbers that are never given out twice, as in the code.     *)
(***************************************************************************)
EXTENDS Integers, Sequences, FiniteSets

CONSTANTS MaxHandles,   \* bound on registrations
          MaxRequests,  \* bound on requests
          Capacity      \* EventQueue::MaxEvents, as far as these events may use it

ASSUME BoundsAssumption == MaxHandles \in Nat /\ MaxRequests \in Nat /\ Capacity \in Nat

VARIABLES phase,        \* m_phase
          subsystems,   \* m_subsystems: the handles, in the vector's order
          nextHandle,   \* m_nextSubsystemHandle
          ui,           \* m_uiHandler is set
          dialog,       \* the dialog's m_window exists
          queue,        \* the shutdown events in the event queue
          pc,           \* where the main loop's stack is
          at,           \* i of notifySubsystems
          requests,     \* requests so far
          asked,        \* the handles asked in this round, in order
          removed,      \* unregistrations since this round began
          vetoed        \* somebody refused in this round

vars == <<phase, subsystems, nextHandle, ui, dialog, queue, pc, at, requests, asked, removed, vetoed>>
round == <<asked, vetoed>>

Init == /\ phase = "Idle"
        /\ subsystems = <<>> /\ nextHandle = 1
        /\ ui = FALSE /\ dialog = FALSE
        /\ queue = <<>> /\ pc = "loop" /\ at = 0
        /\ requests = 0 /\ asked = <<>> /\ removed = 0 /\ vetoed = FALSE

\* The elements of a sequence.
Elems(s) == {s[k] : k \in DOMAIN s}

\* User code runs: between events, or in a subsystem's callback.
InUser == pc \in {"loop", "callback"}

\* Phase events are posted, never dispatched here; a full queue drops them.
Posted(q, kind) == IF Len(q) < Capacity THEN Append(q, kind) ELSE q

-----------------------------------------------------------------------------
(* Registrations *)

RegisterUIHandler == /\ pc = "loop" /\ ~ui
                     /\ ui' = TRUE
                     /\ UNCHANGED <<phase, subsystems, nextHandle, dialog, queue, pc, at, requests, removed, round>>

RegisterSubsystem == /\ InUser /\ nextHandle <= MaxHandles
                     /\ subsystems' = Append(subsystems, nextHandle)
                     /\ nextHandle' = nextHandle + 1
                     /\ UNCHANGED <<phase, ui, dialog, queue, pc, at, requests, removed, round>>

\* The last entry moves into the slot of the one that goes.
Without_NoPop(s, h) == [k \in 1 .. Len(s) |-> IF s[k] = h THEN s[Len(s)] ELSE s[k]]
Without(s, h) == [k \in 1 .. Len(s) - 1 |-> IF s[k] = h THEN s[Len(s)] ELSE s[k]]

UnregisterSubsystem == /\ InUser
                       /\ \E h \in Elems(subsystems) : subsystems' = Without(subsystems, h)
                       /\ removed' = removed + 1
                       /\ UNCHANGED <<phase, nextHandle, ui, dialog, queue, pc, at, requests, round>>

-----------------------------------------------------------------------------
(* A round *)

\* requestShutdown, up to the loop of notifySubsystems: it does nothing while
\* another round is going on.
Begin(q) == \/ /\ phase # "Idle"
               /\ queue' = q
               /\ UNCHANGED <<phase, pc, at, removed, round>>
            \/ /\ phase = "Idle"
               /\ phase' = "NotifyingSubsystems"
               /\ queue' = Posted(q, "ShutdownPrepare")
               /\ pc' = "notify" /\ at' = 0
               /\ asked' = <<>> /\ removed' = 0 /\ vetoed' = FALSE

NewRequest == /\ requests < MaxRequests
              /\ requests' = requests + 1

\* Ctrl+Q, a power button, the shell's command or a callback asks for shutdown.
PostRequest == /\ InUser /\ NewRequest
               /\ queue' = Posted(queue, "ShutdownRequest")
               /\ UNCHANGED <<phase, subsystems, nextHandle, ui, dialog, pc, at, removed, round>>

\* The boot script calls the controller directly.
RequestShutdown == /\ pc = "loop" /\ NewRequest
                   /\ Begin(queue)
                   /\ UNCHANGED <<subsystems, nextHandle, ui, dialog>>

\* processEvents: only ShutdownRequest has a listener.
Dispatch == /\ pc = "loop" /\ queue # <<>>
            /\ \/ Head(queue) = "ShutdownRequest" /\ Begin(Tail(queue))
               \/ /\ Head(queue) # "ShutdownRequest"
                  /\ queue' = Tail(queue)
                  /\ UNCHANGED <<phase, pc, at, removed, round>>
            /\ UNCHANGED <<subsystems, nextHandle, ui, dialog, requests>>

MoreToAsk_OffByOne == at < Len(subsystems) - 1
MoreToAsk == at < Len(subsystems)

CallSubsystem == /\ pc = "notify" /\ MoreToAsk
                 /\ pc' = "callback"
                 /\ asked' = Append(asked, subsystems[at + 1])
                 /\ UNCHANGED <<phase, subsystems, nextHandle, ui, dialog, queue, at, requests, removed, vetoed>>

Approve == /\ pc = "callback"
           /\ pc' = "notify" /\ at' = at + 1
           /\ UNCHANGED <<phase, subsystems, nextHandle, ui, dialog, queue, requests, removed, round>>

\* notifySubsystems returns false and requestShutdown calls reset.
Veto_NoReset == /\ pc = "callback"
                /\ pc' = "loop" /\ vetoed' = TRUE
                /\ UNCHANGED <<phase, subsystems, nextHandle, ui, dialog, queue, at, requests, removed, asked>>
Veto == /\ pc = "callback"
        /\ pc' = "loop" /\ vetoed' = TRUE /\ phase' = "Idle"
        /\ UNCHANGED <<subsystems, nextHandle, ui, dialog, queue, at, requests, removed, asked>>

\* confirm(Proceed): power is off when the step ends.
PowerOff == /\ phase' = "PoweringOff"
            /\ queue' = Posted(queue, "ShutdownNow")
            /\ pc' = "halted"

\* Everybody was asked.  The desktop opens its dialog and accepts; without a
\* desktop the controller goes on by itself.
Decide == /\ pc = "notify" /\ ~MoreToAsk
          /\ \/ /\ ui /\ dialog' = TRUE
                /\ phase' = "AwaitingUserDecision" /\ pc' = "loop"
                /\ UNCHANGED queue
             \/ ~ui /\ PowerOff /\ UNCHANGED dialog
          /\ UNCHANGED <<subsystems, nextHandle, ui, at, requests, removed, round>>

\* The buttons of the dialog.  confirm() ignores a click when no round is going
\* on; with the dialog open one always is (Coherent).
OnConfirm == /\ pc = "loop" /\ dialog /\ phase # "Idle"
             /\ PowerOff
             /\ UNCHANGED <<subsystems, nextHandle, ui, dialog, at, requests, removed, round>>

OnCancel == /\ pc = "loop" /\ dialog
            /\ phase' = "Idle" /\ dialog' = FALSE
            /\ UNCHANGED <<subsystems, nextHandle, ui, queue, pc, at, requests, removed, round>>

User == RegisterUIHandler \/ RegisterSubsystem \/ UnregisterSubsystem \/ PostRequest \/ RequestShutdown
Kernel == Dispatch \/ CallSubsystem \/ Decide
Answer == Approve \/ Veto
Click == OnConfirm \/ OnCancel
Next == User \/ Kernel \/ Answer \/ Click

\* The main loop goes on while it is not in a callback, and every callback returns.
Spec == Init /\ [][Next]_vars /\ WF_vars(Kernel) /\ WF_vars(Answer)

-----------------------------------------------------------------------------
(* Properties *)

Handle == 1 .. MaxHandles

\* Types, and a queue within its limit, of all that the controller keeps.
TypeOK == /\ phase \in {"Idle", "NotifyingSubsystems", "AwaitingUserDecision", "PoweringOff"}
          /\ subsystems \in Seq(Handle) /\ nextHandle \in 1 .. MaxHandles + 1
          /\ ui \in BOOLEAN /\ dialog \in BOOLEAN
          /\ queue \in Seq({"ShutdownRequest", "ShutdownPrepare", "ShutdownNow"})
          /\ Len(queue) <= Capacity
          /\ pc \in {"loop", "notify", "callback", "halted"}
          /\ at \in Nat /\ requests \in 0 .. MaxRequests
          /\ asked \in Seq(Handle) /\ removed \in Nat /\ vetoed \in BOOLEAN

\* m_phase and the dialog agree with what is going on: the dialog is there
\* exactly while the user's decision is awaited, so that nobody can confirm a
\* round that was vetoed or cancelled and no round waits for a dialog that is
\* gone; and after a veto the controller is idle until somebody asks again.
Coherent == /\ dialog => phase \in {"AwaitingUserDecision", "PoweringOff"}
            /\ phase = "AwaitingUserDecision" => dialog /\ pc = "loop"
            /\ phase = "NotifyingSubsystems" <=> pc \in {"notify", "callback"}
            /\ phase = "PoweringOff" <=> pc = "halted"
            /\ vetoed => phase = "Idle"

\* No subsystem is asked twice in a round, whatever its callback or another's
\* does to the vector meanwhile: a second question could save or close twice.
AskedOnce == \A i, j \in DOMAIN asked : i # j => asked[i] # asked[j]

\* The subsystems of this moment that were not asked in this round.
Unasked == Elems(subsystems) \ Elems(asked)

\* The loop misses at most one subsystem for every one that unregistered during
\* the round, however the two are interleaved with registrations.
MissedAtMostRemoved == [][pc = "notify" /\ pc' \in {"loop", "halted"} => Cardinality(Unasked) <= removed]_vars

\* A request in the queue starts a round unless one is going on, and the
\* notification of a round comes to an end.
Answered == /\ ("ShutdownRequest" \in Elems(queue)) ~> (phase # "Idle")
            /\ (phase = "NotifyingSubsystems") ~> (phase # "NotifyingSubsystems")

=============================================================================
