------------------------------ MODULE Controls ------------------------------
(***************************************************************************)
(* QWControls: the tree of controls in a window.  Containers route the     *)
(* mouse by what is under it and by who captured it, and keys by focus;    *)
(* every control caches where it is in the window; text boxes, scroll bars *)
(* and combo boxes keep their own state.  There is one coordinate, and a   *)
(* window is one of four: a terminal with a text box, a form with a combo  *)
(* box, the desktop with the buttons of its task bar, and with a slider in *)
(* that panel; most of them have a button of their own as well.            *)
(***************************************************************************)
EXTENDS Integers, Sequences, SequencesExt, FiniteSets, FiniteSetsExt

CONSTANTS Chars,             \* what may be typed
          MaxLength,         \* m_maxLength of a text box
          InitialCapacity,   \* of its buffer
          MaxFailures,       \* bound on refused allocations
          MaxItems,          \* bound on the items of the combo box
          SliderMax, PageSize, MinThumb,
          Screens,           \* where the task bar may be put
          Entries            \* buttons of the task bar

ASSUME ControlsAssumption ==
    /\ {MaxLength, MaxFailures, MaxItems} \subseteq Nat
    /\ InitialCapacity \in Nat \ {0}
    /\ {SliderMax, PageSize, MinThumb} \subseteq Nat \ {0}
    \* The logo is one line high, the task bar lies below it.
    /\ Screens \subseteq Nat \ {0} /\ Screens # {}
    \* The buttons of the task bar and the characters are none of the names below.
    /\ Entries \cap {"none", "logo", "drop", "field", "text", "root", "combo", "popup", "taskbar", "slider", "options"} = {}
    /\ Chars \cap {"none", "back", "enter"} = {}

None == "none"
Buttons == {"logo", "drop"} \cup Entries
Boxes == {"field", "text"}
Panels == {"root", "combo", "popup", "taskbar"}
All == Panels \cup Buttons \cup Boxes \cup {"slider", "options"}

Height == [c \in All |->
    CASE c = "root" -> 10 [] c \in {"field", "text"} -> 2 [] c = "combo" -> 3
      [] c \in {"popup", "options"} -> MaxItems [] c = "taskbar" -> 6
      [] c = "slider" -> 6 [] OTHER -> 1]
Arrow == 1

VARIABLES ui,      \* everything the controls keep, see Form
          held,    \* the left button is down
          typed,   \* what was typed into the field, less what was taken back
          astray,  \* a release was lost, or the right button released while the left was held
          failures

controls == <<ui, held, typed, astray, failures>>

EmptyBox == [buffer |-> [i \in 0 .. InitialCapacity - 1 |-> IF i = 0 THEN None ELSE "?"],
             length |-> 0, cursor |-> 0]
NoRoute == [p \in Panels |-> None]

Form(children, parent, offset) ==
    [children |-> children, parent |-> parent, offset |-> offset,
     dirty |-> {}, at |-> offset,           \* m_absBoundsDirty, m_cachedAbsoluteBounds
     focus |-> NoRoute, hover |-> NoRoute, capture |-> NoRoute,
     focused |-> {},                        \* m_focused
     lit |-> {}, pressed |-> {},            \* Button::m_hovered, m_pressed
     box |-> [b \in Boxes |-> EmptyBox],
     slider |-> [value |-> 0, dragging |-> FALSE, grab |-> 0, pressed |-> FALSE, toMax |-> FALSE],
     items |-> <<>>, selected |-> 0,        \* of the combo box; positions from 1
     list |-> <<>>, marked |-> {},          \* of its list
     open |-> FALSE,
     root |-> "normal"]                     \* m_state of the root panel

-----------------------------------------------------------------------------
(* Where a control is *)

\* A control is in the root panel, or in a panel that is.
Parent(s, c) == IF c = None THEN None ELSE s.parent[c]
Shift(s, c) == IF c = None THEN 0 ELSE s.offset[c]
Absolute(s, c) == Shift(s, c) + Shift(s, Parent(s, c)) + Shift(s, Parent(s, Parent(s, c)))

At(s, c) == IF c \in s.dirty THEN Absolute(s, c) ELSE s.at[c]
Inside(s, c, y) == LET a == At(s, c) IN y \in a .. a + Height[c] - 1

\* absoluteBounds computes what is dirty and keeps it.
Touch(s, cs) == [s EXCEPT !.dirty = @ \ cs,
                          !.at = [c \in All |-> IF c \in cs \cap s.dirty THEN Absolute(s, c) ELSE @[c]]]

\* Panels pass the mark on, unless they have it already.  What a marked control
\* has cached does not matter any more.
Kids(s, c) == IF c \in Panels THEN ToSet(s.children[c]) ELSE {}
Below(s, c) ==
    LET near == Kids(s, c) \ s.dirty
    IN  IF c \in s.dirty THEN {} ELSE {c} \cup near \cup (UNION {Kids(s, d) : d \in near} \ s.dirty)
Mark(s, cs) == [s EXCEPT !.dirty = @ \cup cs, !.at = [c \in All |-> IF c \in cs THEN 0 ELSE @[c]]]
MarkDirty_OnlySelf(s, c) == Mark(s, {c})
MarkDirty(s, c) == Mark(s, Below(s, c))

SetBounds(s, c, to) == MarkDirty([s EXCEPT !.offset[c] = to], c)

\* invalidate paints the whole window: every control below the root, and the
\* drop-down panel while it is open.
Shown(s) == UNION {{p} \cup ToSet(s.children[p]) :
                       p \in {"root"} \cup (ToSet(s.children["root"]) \cap Panels)
                                      \cup (IF s.open THEN {"popup"} ELSE {})}
Paint(s) == Touch(s, Shown(s))
Invalidate(s, c) == Paint(Touch(s, {c}))

-----------------------------------------------------------------------------
(* Containers: children *)

AddChild(s, p, c) ==
    LET t == MarkDirty([s EXCEPT !.parent[c] = p], c)
    IN  [t EXCEPT !.children[p] = Append(@, c)]

Without(route, p, c) == [route EXCEPT ![p] = IF @ = c THEN None ELSE @]
RemoveChild(s, p, c) ==
    MarkDirty([s EXCEPT !.focus = Without(@, p, c), !.hover = Without(@, p, c),
                        !.capture = Without(@, p, c), !.parent[c] = None,
                        !.children[p] = RemoveAt(@, CHOOSE i \in DOMAIN @ : @[i] = c)], c)

\* The topmost child under the point; all children above it were looked at too.
Hits(s, p, y) == {i \in DOMAIN s.children[p] : Inside(s, s.children[p][i], y)}
ChildAtPoint(s, p, y) == IF Hits(s, p, y) = {} THEN None ELSE s.children[p][Max(Hits(s, p, y))]
Probed(s, p, y) == Touch(s, {s.children[p][i] : i \in {j \in DOMAIN s.children[p] :
                                                          \A k \in Hits(s, p, y) : j >= k}})

-----------------------------------------------------------------------------
(* Text boxes.  A buffer ends with the terminator, None. *)

Grown_Forgets(b, capacity) == [i \in 0 .. capacity - 1 |-> "?"]
Grown(b, capacity) == [i \in 0 .. capacity - 1 |-> IF i \in DOMAIN b THEN b[i] ELSE "?"]
ShownText(box) ==
    LET n == Min({i \in DOMAIN box.buffer : box.buffer[i] = None} \cup {Cardinality(DOMAIN box.buffer)})
    IN  [i \in 1 .. n |-> box.buffer[i - 1]]

Full(box) == box.length + 2 > Cardinality(DOMAIN box.buffer)

\* One more character at the cursor; ok says that the heap has room.
InsertChar(box, ch, ok) ==
    IF box.length >= MaxLength \/ (Full(box) /\ ~ok) THEN box
    ELSE LET b == IF Full(box) THEN Grown(box.buffer, 2 * Cardinality(DOMAIN box.buffer)) ELSE box.buffer
             moved == [i \in DOMAIN b |-> IF i \in box.cursor + 1 .. box.length THEN b[i - 1] ELSE b[i]]
         IN  [buffer |-> [moved EXCEPT ![box.cursor] = ch, ![box.length + 1] = None],
              length |-> box.length + 1, cursor |-> box.cursor + 1]

DeleteChar(box) ==
    IF box.cursor = 0 THEN box
    ELSE [buffer |-> [i \in DOMAIN box.buffer |-> IF i \in box.cursor - 1 .. box.length - 1
                                                  THEN box.buffer[i + 1] ELSE box.buffer[i]],
          length |-> box.length - 1, cursor |-> box.cursor - 1]

\* A text that is too long is cut, or refused when the buffer cannot grow.
Cut(text) == IF Len(text) > MaxLength THEN MaxLength ELSE Len(text)
TooSmall(box, text) == Cut(text) + 1 > Cardinality(DOMAIN box.buffer)
WithText(box, text) ==
    LET n == Cut(text)
        b == IF TooSmall(box, text) THEN Grown(<<>>, n + 1) ELSE box.buffer
    IN  [buffer |-> [i \in DOMAIN b |-> IF i < n THEN text[i + 1] ELSE IF i = n THEN None ELSE b[i]],
         length |-> n, cursor |-> n]
SetText(s, b, text, ok) ==
    IF TooSmall(s.box[b], text) /\ ~ok THEN s
    ELSE Invalidate([s EXCEPT !.box[b] = WithText(@, text)], b)

\* The selection is left out: nothing in the system ever selects text.
KeyInBox(s, b, ch, ok) ==
    CASE ch \in Chars /\ b # "text" -> Invalidate([s EXCEPT !.box[b] = InsertChar(@, ch, ok)], b)
      [] ch = "back" /\ b # "text" -> Invalidate([s EXCEPT !.box[b] = DeleteChar(@)], b)
      [] ch = "enter" /\ b = "field" -> SetText(s, b, <<>>, ok)   \* the terminal's handler
      [] OTHER -> s

-----------------------------------------------------------------------------
(* Focus *)

\* setFocused of a text box repaints it; a panel's own flag is all it changes.
SetFocused(s, c, on) ==
    IF (c \in s.focused) = on THEN s
    ELSE LET t == [s EXCEPT !.focused = IF on THEN @ \cup {c} ELSE @ \ {c}]
         IN  IF c \in Boxes THEN Invalidate(t, c) ELSE t

Blurred(s, p) == IF s.focus[p] = None THEN s ELSE SetFocused(s, s.focus[p], FALSE)
SetFocusedChild_NoBlur(s, p, c) ==
    IF s.focus[p] = c THEN s ELSE SetFocused([s EXCEPT !.focus[p] = c], c, TRUE)
SetFocusedChild(s, p, c) ==
    IF s.focus[p] = c THEN s ELSE SetFocused([Blurred(s, p) EXCEPT !.focus[p] = c], c, TRUE)

\* A panel hands a key on to its child with the focus.
Heir(s, c) == IF c \in Panels /\ s.focus[c] # None THEN s.focus[c] ELSE c
KeyTarget(s) == Heir(s, Heir(s, "root"))

-----------------------------------------------------------------------------
(* The slider, a ScrollBar *)

TrackAt(s) == At(s, "slider") + Arrow
TrackSize == Height["slider"] - 2 * Arrow
ThumbSize == Max({(PageSize * TrackSize) \div (SliderMax + PageSize), MinThumb})
Scrollable == TrackSize - ThumbSize
ThumbAt(s) == TrackAt(s) + (IF Scrollable > 0 THEN (s.slider.value * Scrollable) \div SliderMax ELSE 0)

\* The change handler of the desktop's slider opens a dialog: another window.
SetValue(s, v) ==
    LET w == IF v < 0 THEN 0 ELSE IF v > SliderMax THEN SliderMax ELSE v
    IN  IF s.slider.value = w THEN s ELSE Invalidate([s EXCEPT !.slider.value = w], "slider")

HitArea(s, y) ==
    LET a == At(s, "slider")
    IN  CASE y = a -> "up" [] y = a + Height["slider"] - 1 -> "down"
          [] y \in ThumbAt(s) .. ThumbAt(s) + ThumbSize - 1 -> "thumb"
          [] y < ThumbAt(s) -> "before" [] OTHER -> "after"

SmallStep == 1
LargeStep == 2
Step == [up |-> -SmallStep, down |-> SmallStep, before |-> -LargeStep, after |-> LargeStep, thumb |-> 0]

SliderDown(s, y) ==
    IF s.slider.toMax
    THEN SetValue([s EXCEPT !.slider.dragging = FALSE, !.slider.pressed = FALSE],
                  IF s.slider.value >= SliderMax THEN 0 ELSE SliderMax)
    ELSE LET area == HitArea(s, y)
             t == [s EXCEPT !.slider.pressed = TRUE]
         IN  Invalidate(IF area = "thumb"
                        THEN [t EXCEPT !.slider.dragging = TRUE, !.slider.grab = y - ThumbAt(s)]
                        ELSE SetValue(t, s.slider.value + Step[area]), "slider")

\* A quotient below zero is cut to the minimum however it is rounded.
SliderMove(s, y) ==
    LET t == Touch(s, {"slider"})
    IN  IF ~s.slider.dragging \/ Scrollable <= 0 THEN t
        ELSE SetValue(t, ((y - TrackAt(t) - t.slider.grab) * SliderMax) \div Scrollable)

SliderUp(s) ==
    IF s.slider.dragging \/ s.slider.pressed
    THEN Invalidate([s EXCEPT !.slider.dragging = FALSE, !.slider.pressed = FALSE], "slider") ELSE s

-----------------------------------------------------------------------------
(* The combo box: a panel of a text box and a button; its list hangs in a  *)
(* panel of its own below it, where no mouse event of the window gets to.  *)

Marked(s, i) == [s EXCEPT !.marked = IF i \in DOMAIN s.list THEN {i} ELSE {}]
SetSelectedIndex(s, i, ok) ==
    IF s.selected = i THEN s
    ELSE Invalidate(Marked(SetText([s EXCEPT !.selected = i], "text",
                                   IF i > 0 THEN s.items[i] ELSE <<>>, ok), i), "combo")

DropDown(s) ==
    LET t == Touch(s, {"combo"})
        u == SetBounds([t EXCEPT !.open = TRUE], "popup", t.at["combo"] + Height["combo"])
    IN  Invalidate(SetBounds(u, "options", 0), "combo")
CloseDropDown(s) == IF s.open THEN Invalidate([s EXCEPT !.open = FALSE], "combo") ELSE s
ToggleDropDown(s) == IF s.open THEN CloseDropDown(s) ELSE DropDown(s)

AddItem(s, text) == [s EXCEPT !.items = Append(@, text), !.list = Append(@, text)]

\* The list's marks are of its items and move with them; the text box and, unless
\* it is too large, the index stay.
RemoveItem(s, i) ==
    LET n == Len(s.items) - 1
    IN  [s EXCEPT !.items = RemoveAt(@, i), !.list = RemoveAt(@, i),
                  !.marked = {IF j > i THEN j - 1 ELSE j : j \in @ \ {i}},
                  !.selected = IF @ > n THEN n ELSE @]

\* The combo box and its list lose their items, index and mark; the text is set.
ClearItems(s, ok) ==
    SetText([s EXCEPT !.items = <<>>, !.selected = 0, !.list = <<>>, !.marked = {}], "text", <<>>, ok)

-----------------------------------------------------------------------------
(* The mouse.  What a handler does with the state and whether it took the  *)
(* event, for a press; the result of the others is nobody's business.      *)

Took(s) == [ui |-> s, handled |-> TRUE]
Left(s) == [ui |-> s, handled |-> FALSE]

LightUp(s, c, y) ==
    IF Inside(s, c, y) = (c \in s.lit) THEN Touch(s, {c})
    ELSE Invalidate([s EXCEPT !.lit = IF c \in @ THEN @ \ {c} ELSE @ \cup {c}], c)

\* To a control that is no panel, or to nobody.
LeafMove(s, c, y) ==
    CASE c \in Buttons -> LightUp(s, c, y)
      [] c \in Boxes -> Touch(s, {c})
      [] c = "slider" -> SliderMove(s, y)
      [] OTHER -> s

\* The child that was left, the one that is entered, the one that was captured.
Entered(s, p, child) == [s EXCEPT !.hover[p] = child]
Captor(s, p, child) == IF s.capture[p] = child THEN None ELSE s.capture[p]
PanelMove(s, p, y) ==
    LET child == ChildAtPoint(s, p, y)
        t == Probed(s, p, y)
        u == IF s.hover[p] = child THEN t ELSE Entered(LeafMove(t, s.hover[p], y), p, child)
    IN  LeafMove(LeafMove(u, child, y), Captor(s, p, child), y)

\* The same in the root panel, whose children may be panels.
ChildMove(s, c, y) == IF c \in Panels THEN PanelMove(s, c, y) ELSE LeafMove(s, c, y)
MouseMove(s, y) ==
    LET child == ChildAtPoint(s, "root", y)
        t == Probed(s, "root", y)
        u == IF s.hover["root"] = child THEN t ELSE Entered(ChildMove(t, s.hover["root"], y), "root", child)
    IN  ChildMove(ChildMove(u, child, y), Captor(s, "root", child), y)

LeafDown(s, c, y, button) ==
    IF button # "left" THEN Left(s)
    ELSE CASE c \in Buttons -> Took(Invalidate([s EXCEPT !.pressed = @ \cup {c}], c))
           [] c \in Boxes -> Took(Invalidate(SetFocused(s, c, TRUE), c))
           [] c = "slider" -> Took(SliderDown(s, y))
           [] OTHER -> Left(s)

\* What a panel does when its child took the press.
Caught(done, p, child) ==
    IF ~done.handled THEN done ELSE Took(SetFocusedChild([done.ui EXCEPT !.capture[p] = child], p, child))
PanelDown(s, p, y, button) ==
    LET child == ChildAtPoint(s, p, y)
        t == Probed(s, p, y)
    IN  IF child = None THEN Left(t) ELSE Caught(LeafDown(t, child, y, button), p, child)

\* The button of a combo box drops the list and knows nothing of it.
ComboDown(s, y, button) ==
    IF button # "left" THEN Left(s)
    ELSE IF Inside(s, "drop", y) THEN Took(ToggleDropDown(Touch(s, {"drop"})))
    ELSE PanelDown(CloseDropDown(Touch(s, {"drop"} \cup IF s.open THEN {"options"} ELSE {})), "combo", y, button)

ChildDown(s, c, y, button) ==
    IF c = "combo" THEN ComboDown(s, y, button)
    ELSE IF c \in Panels THEN PanelDown(s, c, y, button) ELSE LeafDown(s, c, y, button)
MouseDown(s, y, button) ==
    LET child == ChildAtPoint(s, "root", y)
        t == Probed(s, "root", y)
    IN  IF child = None THEN Left(t) ELSE Caught(ChildDown(t, child, y, button), "root", child)

LeafUp(s, c, button) ==
    CASE c = "slider" -> SliderUp(s)
      [] c \in Buttons /\ button = "left" /\ c \in s.pressed ->
             Invalidate([s EXCEPT !.pressed = @ \ {c}], c)
      [] OTHER -> Touch(s, IF c \in Buttons /\ button = "left" THEN {c} ELSE {})

\* The child under the mouse, and the one that was captured; nobody is any more.
Freed(s, p) == [s EXCEPT !.capture[p] = None]
PanelUp(s, p, y, button) ==
    LET child == ChildAtPoint(s, p, y)
    IN  Freed(LeafUp(LeafUp(Probed(s, p, y), child, button), Captor(s, p, child), button), p)
ChildUp(s, c, y, button) == IF c \in Panels THEN PanelUp(s, c, y, button) ELSE LeafUp(s, c, button)
MouseUp_OnlyUnder(s, y, button) ==
    Freed(ChildUp(Probed(s, "root", y), ChildAtPoint(s, "root", y), y, button), "root")
MouseUp(s, y, button) ==
    LET child == ChildAtPoint(s, "root", y)
    IN  Freed(ChildUp(ChildUp(Probed(s, "root", y), child, y, button), Captor(s, "root", child), y, button), "root")

-----------------------------------------------------------------------------
(* What the program does with its windows *)

\* A new button is painted over before it is put where it belongs.
AddTaskbarWindow(s, c) ==
    LET n == Len(s.children["taskbar"])
        t == [s EXCEPT !.offset[c] = n, !.dirty = @ \cup {c}]
    IN  AddChild(Invalidate(t, c), "taskbar", c)

\* The buttons behind the one that goes move up, each by setBounds.
RemoveTaskbarWindow(s, c) ==
    LET t == RemoveChild(s, "taskbar", c)
        gone == [t EXCEPT !.lit = @ \ {c}, !.pressed = @ \ {c}, !.focused = @ \ {c},
                           !.offset[c] = 0]
        behind == {e \in Entries \ {c} : s.parent[e] = "taskbar" /\ s.offset[e] > s.offset[c]}
    IN  Mark([gone EXCEPT !.offset = [d \in All |-> IF d \in behind THEN @[d] - 1 ELSE @[d]]], behind \ s.dirty)

\* Window::setBounds resizes the root and paints, updateLayout moves the panels.
Resize(s, to) == SetBounds(Paint(MarkDirty(s, "root")), "taskbar", to)

-----------------------------------------------------------------------------
Windows == {"terminal", "form", "desktop", "slider"}
Children(window) == [p \in Panels |->
    CASE p = "root" -> [terminal |-> <<"logo", "field">>, form |-> <<"combo">>,
                        desktop |-> <<"logo", "taskbar">>, slider |-> <<"logo", "taskbar">>][window]
      [] p = "combo" /\ window = "form" -> <<"text", "drop">>
      [] p = "popup" /\ window = "form" -> <<"options">>
      [] p = "taskbar" /\ window = "slider" -> <<"slider">>
      [] OTHER -> <<>>]
Parents(window) == [c \in All |->
    IF \E p \in Panels : c \in ToSet(Children(window)[p])
    THEN CHOOSE p \in Panels : c \in ToSet(Children(window)[p]) ELSE None]
Offsets == [c \in All |->
    CASE c \in {"field", "combo"} -> 2 [] c = "drop" -> 2 [] c = "taskbar" -> Min(Screens)
      [] c = "popup" -> Height["combo"] [] OTHER -> 0]

\* A window that was painted once.
Window(w) == [Form(Children(w), Parents(w), Offsets) EXCEPT !.dirty = All]

ControlsInit ==
    /\ \E w \in Windows, b \in BOOLEAN :
           ui = Paint([Window(w) EXCEPT !.slider.toMax = b /\ w = "slider"])
    /\ held = FALSE /\ typed = <<>> /\ astray = FALSE /\ failures = 0

Has(c) == ui.parent[c] # None

\* The window as far as there is anything, and a point beyond it.
Points == 0 .. Max({Absolute(ui, c) + Height[c] : c \in {d \in All \ Panels : Has(d)}})

\* The root repaints at its first move and at every press and release.
Noticed(s, state) == Paint([s EXCEPT !.root = state])

Move == \E y \in Points :
    /\ ui' = MouseMove(IF ui.root = "normal" THEN Noticed(ui, "hovered") ELSE Touch(ui, {"root"}), y)
    /\ UNCHANGED <<held, typed, astray, failures>>

Press == \E y \in Points :
    /\ ~held /\ held' = TRUE
    /\ ui' = MouseDown(Noticed(ui, "pressed"), y, "left").ui
    /\ UNCHANGED <<typed, astray, failures>>

LiftOff == \E y \in Points :
    /\ held /\ held' = FALSE
    /\ ui' = MouseUp(Noticed(ui, "hovered"), y, "left")
    /\ UNCHANGED <<typed, astray, failures>>

\* The event queue was full, or the mouse was over another window, which gets the
\* event in place of this one.
LiftOffLost == held /\ held' = FALSE /\ astray' = TRUE /\ UNCHANGED <<ui, typed, failures>>

\* The right button goes down and up; nothing takes its press.
RightClick == \E y \in Points :
    /\ ui' = MouseUp(Noticed(MouseDown(Noticed(ui, "pressed"), y, "right").ui, "hovered"), y, "right")
    /\ astray' = (astray \/ held)
    /\ UNCHANGED <<held, typed, failures>>

\* The heap may refuse.
Allocation(ok) == IF ok THEN UNCHANGED failures ELSE failures < MaxFailures /\ failures' = failures + 1

Key == \E ch \in Chars \cup {"back", "enter"}, ok \in BOOLEAN :
    /\ KeyTarget(ui) \in Boxes
    /\ ok \/ (ch \in Chars /\ Full(ui.box["field"]))
    /\ ui' = KeyInBox(ui, KeyTarget(ui), ch, ok)
    /\ Allocation(ok)
    /\ typed' = IF KeyTarget(ui) # "field" THEN typed
                ELSE CASE ch = "enter" -> <<>>
                       [] ch = "back" -> IF typed = <<>> THEN <<>> ELSE Front(typed)
                       [] OTHER -> IF Len(typed) < MaxLength /\ ok THEN Append(typed, ch) ELSE typed
    /\ UNCHANGED <<held, astray>>

Taskbar ==
    /\ Has("taskbar")
    /\ \/ ~Has("slider") /\ \E e \in Entries : ~Has(e) /\ ui' = AddTaskbarWindow(ui, e)
       \/ \E e \in Entries : Has(e) /\ ui' = RemoveTaskbarWindow(ui, e)
       \/ \E e \in Entries : Has(e) /\ ui' = Invalidate(ui, e)   \* its role changes
       \/ \E to \in Screens : ui' = Resize(ui, to)
    /\ UNCHANGED <<held, typed, astray, failures>>

\* Items differ in their length: the first is one character long.
NewText(c) == [i \in 1 .. Len(ui.items) + 1 |-> c]
Combo == \E ok \in BOOLEAN :
    /\ Has("combo")
    /\ \/ /\ Len(ui.items) < MaxItems /\ \E c \in Chars : ui' = AddItem(ui, NewText(c))
       \/ /\ \E i \in 0 .. Len(ui.items) : ui' = SetSelectedIndex(ui, i, ok)
       \/ ui' = ClearItems(ui, ok)
       \/ \E i \in DOMAIN ui.items : ui' = RemoveItem(ui, i)
    /\ Allocation(ok)
    /\ UNCHANGED <<held, typed, astray>>

Symmetry == Permutations(Entries)

ControlsNext == Move \/ Press \/ LiftOff \/ LiftOffLost \/ RightClick \/ Key \/ Taskbar \/ Combo

ControlsSpec == ControlsInit /\ [][ControlsNext]_controls

-----------------------------------------------------------------------------
(* Properties *)

\* What a control has cached is where it is.  The mark that says otherwise is not
\* passed on by a panel that has it already, so a child that is computed while
\* its panel is marked could be left behind by the next move.
BoundsFresh == \A c \in All \ ui.dirty : ui.at[c] = Absolute(ui, c)

\* The flags of the controls and the pointers of their panels agree: the box
\* with the caret in a panel is the one that gets its keys, and a button that
\* is drawn hovered is the one its panel will tell when the mouse leaves.
RoutesAgree ==
    \A c \in All : ui.parent[c] # None =>
        /\ c \in ui.focused <=> ui.focus[ui.parent[c]] = c
        /\ c \in ui.lit => ui.hover[ui.parent[c]] = c

\* Whatever is pressed or dragged hears of the release wherever in the window
\* that happens, and nothing is without the button; unless a release was lost
\* (the queue was full, or the window manager gave it to another window that was
\* under the mouse), or the right button was let go in between, which makes the
\* panels forget who captured.
Grabbed == ui.pressed \cup (IF ui.slider.pressed \/ ui.slider.dragging THEN {"slider"} ELSE {})
HeldIsCaptured ==
    astray \/ \A c \in Grabbed :
        LET p == ui.parent[c]
        IN  held /\ ui.capture[p] = c /\ (p = "root" \/ ui.capture["root"] = p)

\* The text box shows what was typed, through every growth of its buffer,
\* refused allocations included, and the cursor is at its end.
TextIsTyped ==
    LET box == ui.box["field"]
    IN  ShownText(box) = typed /\ box.length = Len(typed) /\ box.cursor = Len(typed)

=============================================================================
