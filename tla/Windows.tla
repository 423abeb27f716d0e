------------------------------ MODULE Windows ------------------------------
(***************************************************************************)
(* QWindowing's WindowManager as operations on one record, in the order in *)
(* which the code does things, and what QWControls' Container does with    *)
(* the mouse.  Windows are numbered by windowId; 0 is nullptr.  Geometry   *)
(* is abstracted: a position is the window and the control it hits.  A     *)
(* window that is in the list is visible, because setVisible(false) is     *)
(* called by destroyWindow alone.  m_hoveredWindow is left out: nothing    *)
(* follows it.                                                             *)
(***************************************************************************)
EXTENDS Integers, Sequences, SequencesExt

CONSTANTS MaxWindows   \* bound on windows ever created

ASSUME WindowsAssumption == MaxWindows \in Nat

NoWindow == 0
Ids == 1 .. MaxWindows

Manager == [list : Seq(Ids),                \* m_windows, the bottom one first
            focus : Ids \cup {NoWindow},    \* m_focusedWindow
            drag : Ids \cup {NoWindow},     \* m_dragWindow
            depth : Nat,                    \* m_dispatchDepth
            pending : SUBSET Ids,           \* m_pendingDestroy
            live : SUBSET Ids,              \* the Window objects that exist
            next : Nat]                     \* m_nextWindowId

NewManager == [list |-> <<>>, focus |-> NoWindow, drag |-> NoWindow,
               depth |-> 0, pending |-> {}, live |-> {}, next |-> 1]

-----------------------------------------------------------------------------
(* Windows come and go *)

CreateWindow(m) == [m EXCEPT !.list = Append(@, m.next), !.live = @ \cup {m.next}, !.next = @ + 1]

\* The first entry of w is taken out, and those behind it move up.
Without(list, w) ==
    LET at == {i \in DOMAIN list : list[i] = w}
    IN IF at = {} THEN list ELSE RemoveAt(list, CHOOSE i \in at : \A j \in at : i <= j)

\* The references the manager drops with a window; m_dragWindow is not among them.
Forget(m, w) == [m EXCEPT !.list = Without(@, w), !.focus = IF @ = w THEN NoWindow ELSE @]

\* A window that is destroyed while an event is being dispatched is deleted
\* when the dispatch is over.
DestroyWindow(m, w) ==
    IF m.depth > 0
    THEN IF w \in m.pending THEN m ELSE [Forget(m, w) EXCEPT !.pending = @ \cup {w}]
    ELSE [Forget(m, w) EXCEPT !.live = @ \ {w}]

ProcessPendingDestroy_Clears(m) == IF m.depth # 0 THEN m ELSE [m EXCEPT !.pending = {}]
ProcessPendingDestroy(m) ==
    IF m.depth # 0 THEN m ELSE [m EXCEPT !.live = @ \ m.pending, !.pending = {}]

WindowById(m, id) == IF id \in Range(m.list) THEN id ELSE NoWindow

SetFocus(m, w) == [m EXCEPT !.focus = w]

\* A window that is not in the list is not put there, but it gets the focus.
BringToFront(m, w) ==
    SetFocus([m EXCEPT !.list = IF w \in Range(@) THEN Append(Without(@, w), w) ELSE @], w)

-----------------------------------------------------------------------------
(* Dispatch: the part of routeMouseEvent and routeKeyEvent around onEvent *)

EnterDispatch(m) == [m EXCEPT !.depth = @ + 1]
LeaveDispatch(m) == ProcessPendingDestroy([m EXCEPT !.depth = @ - 1])

\* A drag takes moves and the left button's release for itself.
DragTakes(m, type, button) ==
    /\ m.drag # NoWindow
    /\ type = "move" \/ (type = "up" /\ button = "left")

DragEvent(m, type) == IF type = "up" THEN [m EXCEPT !.drag = NoWindow] ELSE m

\* What happens to the manager before the target's own handlers run.
Target(m, type, w) == IF type = "down" THEN BringToFront(m, w) ELSE m

\* Whether a window can be under the cursor: nothing is below a window that
\* covers the screen.
Reachable(m, w, fullscreen) ==
    /\ w \in Range(m.list)
    /\ \A i, j \in DOMAIN m.list : m.list[i] = w /\ m.list[j] = fullscreen => i >= j
=============================================================================
