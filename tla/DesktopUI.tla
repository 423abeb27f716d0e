----------------------------- MODULE DesktopUI -----------------------------
(***************************************************************************)
(* The desktop's windows and everything that opens and closes them: the    *)
(* terminal with its taskbar button, the setup, login and shutdown         *)
(* dialogs, the mouse and the keyboard that reach their buttons through    *)
(* WindowManager and Container, and the command processor that answers a   *)
(* terminal through the event queue.  Everything runs on the main loop's   *)
(* stack; a dispatched event is two steps, the handlers and the return.    *)
(***************************************************************************)
EXTENDS Windows, FiniteSets

CONSTANTS MaxQueued,     \* room for the messages modelled here in the event queue
          MaxRequests,   \* bound on commands, shutdown requests and lost mouse events
          Bypass         \* SecurityCenter::bypassEnabled

ASSUME DesktopAssumption ==
    /\ MaxWindows >= 2       \* the desktop's and the setup wizard's
    /\ MaxQueued \in Nat /\ MaxRequests \in Nat
    /\ Bypass \in BOOLEAN

Dialogs == {"setup", "login", "shutdown"}
Owners == Dialogs \cup {"terminal"}

\* The controls of each window that react to the mouse; "body" is the rest.  A
\* dialog's two buttons are one, "choose", that does what either may do.
Buttons == [desktop |-> {"openTerminal"}, terminal |-> {"close"}, setup |-> {"choose"},
            login |-> {"choose"}, shutdown |-> {"choose"}, none |-> {}]
Others == [desktop |-> {"slider"}, terminal |-> {"input"}, setup |-> {}, login |-> {},
           shutdown |-> {}, none |-> {}]
Body == "body"
Controls(kind) == Buttons[kind] \cup Others[kind] \cup {Body}

VARIABLES ui,         \* the windows and what the desktop knows of them, see UI
          running,    \* the window whose onEvent is on the stack
          left,       \* g_prevLeftBtn
          lost,       \* mouse events lost so far
          requests,   \* commands and requests so far
          strays      \* replies shown in another window than the one that asked

vars == <<ui, running, left, lost, requests, strays>>

Messages == [what : {"request", "line", "done", "destroyed", "prompt"}, id : Ids \cup {NoWindow}]

UI == [wm : Manager,
       kind : [Ids -> Owners \cup {"desktop", "none"}],
       pressed : SUBSET (Ids \X STRING),     \* Button::m_pressed, ScrollBar::m_dragging
       captured : [Ids -> STRING],           \* Container::m_capturedChild
       typing : SUBSET Ids,                  \* windows whose m_focusedChild is the text box
       win : [Owners -> Ids \cup {NoWindow}],\* m_window of Terminal and the dialogs
       taskbar : Seq(Ids),                   \* m_taskbarEntries
       enrolled : BOOLEAN,                   \* the owner marker exists
       queue : Seq(Messages)]                \* these messages in the event queue

Post(s, msg) == [s EXCEPT !.queue = IF Len(@) < MaxQueued THEN Append(@, msg) ELSE @]

-----------------------------------------------------------------------------
(* Terminal, dialogs and taskbar *)

NewWindow(s, k) == LET id == s.wm.next
                   IN [s EXCEPT !.wm = CreateWindow(@), !.kind = [@ EXCEPT ![id] = k], !.win[k] = id]

\* Of those who see the WindowDestroy event only the terminal compares it.
Destroy(s, w) == LET t == [s EXCEPT !.wm = DestroyWindow(@, w)]
                 IN IF s.kind[w] = "terminal" THEN Post(t, [what |-> "destroyed", id |-> w]) ELSE t

\* SetupWizard, LoginDialog and ShutdownDialog open and close in the same way.
OpenDialog(s, k) == LET t == IF s.win[k] = NoWindow THEN NewWindow(s, k) ELSE s
                    IN [t EXCEPT !.wm = BringToFront(@, t.win[k])]

CloseDialog_KeepsPointer(s, k) == IF s.win[k] = NoWindow THEN s ELSE Destroy(s, s.win[k])
CloseDialog(s, k) == IF s.win[k] = NoWindow THEN s
                     ELSE [Destroy(s, s.win[k]) EXCEPT !.win[k] = NoWindow]

AddTaskbarWindow(s, w) == [s EXCEPT !.taskbar = Append(@, w)]
RemoveTaskbarWindow(s, w) == [s EXCEPT !.taskbar = Without(@, w)]

WindowStillAlive(s) == s.win.terminal # NoWindow /\ WindowById(s.wm, s.win.terminal) # NoWindow

\* The WindowDestroy event reaches the terminal's listener.
OnWindowDestroyed(s, w) == IF w # s.win.terminal THEN s
                           ELSE [RemoveTaskbarWindow(s, w) EXCEPT !.win.terminal = NoWindow]

OpenTerminal(s) == LET t == NewWindow(OnWindowDestroyed(s, s.win.terminal), "terminal")
                       w == t.win.terminal
                   IN AddTaskbarWindow([t EXCEPT !.wm = BringToFront(@, w)], w)

CloseTerminal_KeepsEntry(s) == CloseDialog(s, "terminal")
CloseTerminal(s) == CloseDialog(RemoveTaskbarWindow(s, s.win.terminal), "terminal")

ToggleTerminal(s) == IF WindowStillAlive(s) THEN CloseTerminal(s) ELSE OpenTerminal(s)

\* The marker is written before the owner's data; either file may fail to open.
CreateOwner(s) == {s, [s EXCEPT !.enrolled = TRUE],
                   CloseDialog([s EXCEPT !.enrolled = TRUE], "setup")}

\* The buttons of dialog k: Cancel, the shutdown dialog's two and, with the
\* security centre bypassed, Unlock close it; Create Owner closes it if it can.
Chosen(s, k) == {CloseDialog(s, k)}
                \cup (IF k = "shutdown" \/ Bypass THEN {} ELSE {s})
                \cup (IF k = "setup" /\ Bypass THEN CreateOwner(s) ELSE {})

\* The slider's change handler opens the login dialog at one end of the range
\* and closes it at the other.  Its value is left out: whatever it is, a move or
\* two bring it to either end.
Slid(s) == {s, OpenDialog(s, "login"), CloseDialog(s, "login")}

\* The click handlers: the states the handler of control c may leave.
Clicked(s, w, c) ==
    CASE c = "openTerminal" -> {ToggleTerminal(s)}
      [] c = "close" -> {CloseTerminal(s)}
      [] c = "choose" -> Chosen(s, s.kind[w])

-----------------------------------------------------------------------------
(* What the container of window w does with the mouse at control c *)

\* The button and the text box take the left button, the label nothing.
MouseDown(s, w, c, button) ==
    IF button # "left" \/ c = Body THEN {s}
    ELSE LET t == [s EXCEPT !.captured[w] = c,
                              !.typing = IF c = "input" THEN @ \cup {w} ELSE @ \ {w}]
             pressed == [t EXCEPT !.pressed = @ \cup {<<w, c>>}]
         IN CASE c = "slider" -> {pressed} \cup Slid(t)
              [] c = "input" -> {t}
              [] c \in Buttons[s.kind[w]] -> {pressed}

Handled(c, button) == button = "left" /\ c # Body

\* One control's onMouseUp; near says that the release counts as a click.
Released(s, w, c, button, near) ==
    IF <<w, c>> \notin s.pressed \/ (button # "left" /\ c # "slider") THEN {s}
    ELSE LET t == [s EXCEPT !.pressed = @ \ {<<w, c>>}]
         IN IF near /\ c \in Buttons[s.kind[w]] THEN Clicked(t, w, c) ELSE {t}

\* The control under the cursor first, then the one that was captured.
MouseUp(s, w, c, button, slop) ==
    LET held == s.captured[w]
        under == Released(s, w, c, button, TRUE)
        all == IF held = c THEN under ELSE UNION {Released(t, w, held, button, slop) : t \in under}
    IN {[t EXCEPT !.captured[w] = Body] : t \in all}

\* Only a slider that is being dragged does something with a move.
MouseMove(s, w, c) ==
    IF <<w, "slider">> \in s.pressed /\ "slider" \in {c, s.captured[w]}
    THEN Slid(s) ELSE {s}

Handlers(s, w, c, type, button, slop) ==
    CASE type = "down" -> MouseDown(s, w, c, button)
      [] type = "up" -> MouseUp(s, w, c, button, slop)
      [] type = "move" -> MouseMove(s, w, c)

-----------------------------------------------------------------------------
(* The main loop *)

Desktop == 1

\* Desktop::initialize: the desktop's window, and the wizard on the first boot.
Initialized(enrolled) ==
    LET blank == [wm |-> CreateWindow(NewManager), kind |-> [w \in Ids |-> IF w = Desktop THEN "desktop" ELSE "none"],
                  pressed |-> {}, captured |-> [w \in Ids |-> Body], typing |-> {},
                  win |-> [k \in Owners |-> NoWindow], taskbar |-> <<>>,
                  enrolled |-> enrolled, queue |-> <<>>]
    IN IF enrolled THEN blank ELSE OpenDialog(blank, "setup")

Init == /\ ui \in {Initialized(e) : e \in BOOLEAN}
        /\ running = NoWindow /\ left = FALSE /\ lost = 0 /\ requests = 0 /\ strays = {}

\* At the top of the loop.
Idle == running = NoWindow

\* The bound on windows, for the states a handler may leave.
Bounded(S) == {s \in S : s.wm.next <= MaxWindows + 1}

\* The handlers of window w run, in a dispatch that defers deletions.
Dispatch(s, w, effect) == /\ running' = w
                          /\ ui' \in Bounded(effect)

\* The top strip of a movable window with a title is its title bar: what is
\* there of a window is bare or the terminal's close button, which reaches into
\* it.  Both can be hit below the strip as well.
InTitleBar(s, w, c) == s.kind[w] # "desktop" /\ c \in {Body, "close"}

\* A press in the title bar: the controls get it outside of any dispatch, and
\* if none takes it the window is dragged.
TitleBarDown(s, w, c) ==
    IF Handled(c, "left") THEN Dispatch(s, w, MouseDown(s, w, c, "left"))
    ELSE ui' = [s EXCEPT !.wm.drag = w] /\ running' = NoWindow

\* routeMouseEvent for an event that hits control c of window w.
RouteMouse(type, button) ==
    \/ /\ DragTakes(ui.wm, type, button)
       /\ ui' = [ui EXCEPT !.wm = DragEvent(@, type)]
       /\ running' = NoWindow
    \/ /\ ~DragTakes(ui.wm, type, button)
       /\ \E w \in Range(ui.wm.list) : \E c \in Controls(ui.kind[w]) : \E slop \in IF type = "up" THEN BOOLEAN ELSE {FALSE} :
             /\ Reachable(ui.wm, w, Desktop)
             /\ LET s == [ui EXCEPT !.wm = Target(@, type, w)]
                    in == [s EXCEPT !.wm = EnterDispatch(@)]
                IN \/ /\ type = "down" /\ button = "left" /\ InTitleBar(s, w, c)
                      /\ TitleBarDown(s, w, c)
                   \/ Dispatch(s, w, Handlers(in, w, c, type, button, slop))

\* A report of the mouse whose left button has changed.  The remembered state
\* changes whether or not the queue takes the event.
LeftButton == /\ Idle
              /\ left' = ~left
              /\ RouteMouse(IF left THEN "up" ELSE "down", "left")
              /\ UNCHANGED <<lost, requests, strays>>
LeftButtonLost == /\ Idle /\ requests + lost < MaxRequests
                  /\ left' = ~left /\ lost' = lost + 1
                  /\ UNCHANGED <<ui, running, requests, strays>>

MouseMoved == /\ Idle
              /\ RouteMouse("move", "none")
              /\ UNCHANGED <<left, lost, requests, strays>>

RightButton == /\ Idle
               /\ \E type \in {"down", "up"} : RouteMouse(type, "right")
               /\ UNCHANGED <<left, lost, requests, strays>>

\* Enter in the focused window: the terminal sends its line to the command
\* processor, nobody else listens to it.
SubmitKey == /\ Idle /\ requests + lost < MaxRequests
             /\ ui.wm.focus # NoWindow
             /\ LET w == ui.wm.focus
                    s == [ui EXCEPT !.wm = EnterDispatch(@)]
                IN Dispatch(s, w, IF w \in ui.typing THEN {Post(s, [what |-> "request", id |-> w])} ELSE {s})
             /\ requests' = requests + 1
             /\ UNCHANGED <<left, lost, strays>>

\* The state of a window's controls goes with the window.
Swept(s) == [s EXCEPT !.pressed = {p \in @ : p[1] \in s.wm.live},
                      !.captured = [w \in Ids |-> IF w \in s.wm.live THEN @[w] ELSE Body],
                      !.typing = @ \cap s.wm.live,
                      !.kind = [w \in Ids |-> IF w \in s.wm.live THEN @[w] ELSE "none"]]

\* onEvent returns.  The press in the title bar was not counted in the depth.
Return == /\ running # NoWindow
          /\ ui' = Swept([ui EXCEPT !.wm = IF @.depth > 0 THEN LeaveDispatch(@) ELSE @])
          /\ running' = NoWindow
          /\ UNCHANGED <<left, lost, requests, strays>>

\* Ctrl+Q, a power button or the shell asks for shutdown.
RequestShutdown == /\ Idle /\ requests + lost < MaxRequests
                   /\ requests' = requests + 1
                   /\ ui' = Post(ui, [what |-> "prompt", id |-> NoWindow])
                   /\ UNCHANGED <<running, left, lost, strays>>

\* CommandProcessor::onServiceMessage: some lines, then Done, to the sender.
Answer(s, id) == {Post(s, [what |-> "done", id |-> id]),
                  Post(Post(s, [what |-> "line", id |-> id]), [what |-> "done", id |-> id])}

\* A message for a window that is gone is dropped; the terminal's handler shows
\* a line in whatever window the terminal has now.
ShownIn_Unchecked(s, msg) == IF msg.what = "line" THEN s.win.terminal ELSE msg.id
ShownIn(s, msg) == IF msg.what = "line" /\ WindowById(s.wm, msg.id) # NoWindow THEN s.win.terminal ELSE msg.id

ProcessMessage ==
    /\ Idle /\ ui.queue # <<>>
    /\ LET msg == Head(ui.queue)
           s == [ui EXCEPT !.queue = Tail(@)]
       IN /\ ui' \in Bounded(CASE msg.what = "request" -> Answer(s, msg.id)
                              [] msg.what = "destroyed" -> {OnWindowDestroyed(s, msg.id)}
                              [] msg.what = "prompt" -> {OpenDialog(s, "shutdown")}
                              [] OTHER -> {s})
          /\ strays' = strays \cup ({<<msg.id, ShownIn(s, msg)>>} \ {<<w, w>> : w \in Ids \cup {NoWindow}})
    /\ UNCHANGED <<running, left, lost, requests>>

Next == \/ LeftButton \/ LeftButtonLost \/ MouseMoved \/ RightButton \/ SubmitKey \/ Return
        \/ RequestShutdown \/ ProcessMessage

Spec == Init /\ [][Next]_vars /\ WF_vars(Return)

-----------------------------------------------------------------------------
(* Properties *)

\* Every pointer to a window that the manager or the desktop may follow next is
\* to an existing, listed window, as long as no release of the mouse was lost.
PointersLive == LET m == ui.wm
                IN /\ {m.focus} \ {NoWindow} \subseteq Range(m.list)
                   /\ {ui.win[k] : k \in Owners} \ {NoWindow} \subseteq Range(m.list)
                   /\ Range(m.list) \cap m.pending = {}
                   /\ m.live = Range(m.list) \cup m.pending
                   /\ lost = 0 => m.drag \in Range(m.list) \cup {NoWindow}

\* The taskbar has a button for the terminal's window while it is open and
\* none otherwise, and a reply is only ever shown in the window that asked.
TaskbarExact == ui.taskbar = IF ui.win.terminal = NoWindow THEN <<>> ELSE <<ui.win.terminal>>
RepliesToAsker == strays = {}

\* A window taken off the list is eventually deleted.
DestroyedIsFreed == \A w \in Ids : w \in ui.wm.pending ~> w \notin ui.wm.live
=============================================================================
