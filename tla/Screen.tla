------------------------------- MODULE Screen -------------------------------
(***************************************************************************)
(* From a window's change to what one sees: the rectangles that            *)
(* WindowManager, Window and StyleSystem invalidate, Compositor::compose   *)
(* in the main loop, the present backends, and the command FIFO of the     *)
(* VMware SVGA device, which reads the frame buffer when it gets to an     *)
(* UPDATE.  The screen has one dimension; a rectangle is [x, n]; what a    *)
(* cell of a window looks like is one bit.  Addresses of the FIFO count    *)
(* words from MIN.                                                         *)
(***************************************************************************)
EXTENDS Windows

CONSTANTS Width,          \* cells of the screen
          MaxRects,       \* kMaxDirtyRects
          FifoWords,      \* MAX - MIN
          UpdateWords,    \* length of an UPDATE
          CursorWords,    \* length of DEFINE_CURSOR with the arrow
          MaxOps          \* bound on what windows do

Cells == 0 .. Width - 1
Rects == [x : -1 .. Width - 1, n : 1 .. Width]
Whole == [x |-> 0, n |-> Width]
Boxes == {[x |-> 1, n |-> 2], [x |-> -1, n |-> 2]}   \* where windows open
Parts == {[x |-> -1, n |-> 1], [x |-> 1, n |-> Width]}       \* what controls invalidate
Covered(r) == Cells \cap (r.x .. r.x + r.n - 1)

VARIABLES win,     \* the windows and what was invalidated, see Scene
          vram,    \* the front buffer
          host,    \* what the device shows
          fifo,    \* the device's command memory, see Fifo
          todo,    \* rectangles that present still has to hand to the device
          card,    \* the device: SVGA or none, with a hardware cursor or not
          mouse,   \* m_mousePos
          lost,    \* an UPDATE was dropped, or the FIFO filled up to the brim
          ops

vars == <<win, vram, host, fifo, todo, card, mouse, lost, ops>>

Scene == [wm : Manager, box : [Ids -> Rects], look : [Ids -> SUBSET Cells],
          surface : [Ids -> SUBSET Cells],   \* m_surfacePixels
          dirty : Seq(Rects), needsRender : BOOLEAN]

-----------------------------------------------------------------------------
(* Windows and what they invalidate *)

\* A mutant of Invalidate: the rectangle is noted, the flag forgotten.
Invalidate_Unflagged(s, r) == [s EXCEPT !.dirty = Append(@, r)]
Invalidate(s, r) == [s EXCEPT !.dirty = Append(@, r), !.needsRender = TRUE]

\* All of the window is painted, whatever was invalidated.
Paint(s, w) == [s EXCEPT !.surface[w] = s.look[w]]

\* The window's own rectangle, clipped on the left by moving it, on the right
\* by cutting it, and moved to the screen.
InvalidateRect(s, w, r) ==
    LET b == s.box[w]
        x == IF r.x < 0 THEN 0 ELSE IF r.x > b.n THEN b.n ELSE r.x
        n == IF x + r.n > b.n THEN b.n - x ELSE r.n
    IN Paint(IF n = 0 THEN s ELSE Invalidate(s, [x |-> b.x + x, n |-> n]), w)

InvalidateWindow(s, w) == InvalidateRect(s, w, [x |-> 0, n |-> s.box[w].n])

Create(s, b) ==
    LET w == s.wm.next
    IN InvalidateWindow([s EXCEPT !.wm = CreateWindow(@), !.box[w] = b], w)

Destroy(s, w) == Invalidate([s EXCEPT !.wm = DestroyWindow(@, w)], s.box[w])

Raise(s, w) == Invalidate([s EXCEPT !.wm = BringToFront(@, w)], s.box[w])

\* A drag keeps the window on the screen.
DragTarget(s, w, x) ==
    LET room == IF Width > s.box[w].n THEN Width - s.box[w].n ELSE 0
    IN [s.box[w] EXCEPT !.x = IF x < 0 THEN 0 ELSE IF x > room THEN room ELSE x]

SetBounds(s, w, to) == InvalidateWindow([s EXCEPT !.box[w] = to], w)

\* A mutant of DragTo: where the window was is not invalidated.
DragTo_NewOnly(s, w, to) ==
    IF to = s.box[w] THEN s ELSE Invalidate(SetBounds(s, w, to), to)
DragTo(s, w, to) ==
    IF to = s.box[w] THEN s
    ELSE Invalidate(SetBounds(Invalidate(s, s.box[w]), w, to), to)

\* A control in the cells r of its window looks different and invalidates them.
Change(s, w, r) ==
    LET flipped == {c \in 0 .. s.box[w].n - 1 : (c \in r.x .. r.x + r.n - 1) # (c \in s.look[w])}
    IN InvalidateRect([s EXCEPT !.look[w] = flipped], w, r)

\* setStyleSnapshot invalidates the window, onStyleChanged once more.
Restyled(s, w) ==
    LET t == [s EXCEPT !.look[w] = (0 .. s.box[w].n - 1) \ @]
    IN InvalidateWindow(InvalidateWindow(t, w), w)
Restyle(s) == FoldLeft(Restyled, s, s.wm.list)

-----------------------------------------------------------------------------
(* compose and present *)

Background == <<NoWindow, FALSE>>
AtBoot == <<-1, FALSE>>              \* what the boot loader left on the screen
Garbage == <<-1, TRUE>>              \* what the device does with a word that is no command
Cursor == <<NoWindow, TRUE>>

\* The topmost window of the list over a cell, drawn last.
Drawn(s, pixels, c) ==
    LET over == {i \in DOMAIN s.wm.list : c \in Covered(s.box[s.wm.list[i]])}
        w == s.wm.list[CHOOSE i \in over : \A j \in over : j <= i]
    IN IF over = {} THEN Background ELSE <<w, c - s.box[w].x \in pixels[w]>>

Composed == [c \in Cells |-> IF ~card.hwCursor /\ c = mouse THEN Cursor ELSE Drawn(win, win.surface, c)]
Swap == vram' = Composed

Rendered == win' = [win EXCEPT !.dirty = <<>>, !.needsRender = FALSE]

\* The frame is drawn and swapped as a whole; without the device that is all.
Compose ==
    /\ IF card.hwCursor /\ win.dirty = <<>>
       THEN Rendered /\ UNCHANGED <<vram, host, todo>>
       ELSE /\ Swap
            /\ IF card.svga
               THEN /\ todo' = IF Len(win.dirty) \in 1 .. MaxRects THEN win.dirty ELSE <<Whole>>
                    /\ UNCHANGED <<win, host>>
               ELSE host' = vram' /\ todo' = <<>> /\ Rendered
    /\ UNCHANGED <<fifo, card, mouse, lost>>

Render == win.needsRender /\ todo = <<>> /\ Compose /\ UNCHANGED ops

-----------------------------------------------------------------------------
(* The FIFO *)

Zero == [what |-> "zero"]
Argument == [what |-> "argument"]
Update(r) == [what |-> "update", at |-> r]
DefineCursor == [what |-> "cursor"]
Fifo == [mem : [0 .. FifoWords - 1 -> {Zero, Argument, DefineCursor} \cup {Update(r) : r \in Rects}],
         next : 0 .. FifoWords - 1, stop : 0 .. FifoWords - 1]

HasSpace(f, next, n) ==
    IF next >= f.stop THEN FifoWords - next >= n \/ (f.stop > 0 /\ f.stop >= n)
    ELSE f.stop - next >= n

\* A command that does not fit behind NEXT goes to the start; what is left of
\* the end keeps its words.
Place(f, n) == IF f.next + n > FifoWords THEN 0 ELSE f.next
Fits(f, n) == HasSpace(f, f.next, n) /\ HasSpace(f, Place(f, n), n)

Pushed(f, command, n) ==
    LET at == Place(f, n)
    IN [f EXCEPT !.mem = [i \in DOMAIN f.mem |->
                    IF i \in at .. at + n - 1 THEN IF i = at THEN command ELSE Argument ELSE @[i]],
                 !.next = IF at + n >= FifoWords THEN 0 ELSE at + n]

\* initialize2D leaves a valid STOP alone; the arrow is defined at once.
FifoAtBoot(stop, hwCursor) ==
    LET f == [mem |-> [i \in 0 .. FifoWords - 1 |-> Zero], next |-> 0, stop |-> stop]
    IN IF hwCursor /\ Fits(f, CursorWords) THEN Pushed(f, DefineCursor, CursorWords) ELSE f

\* updateRect for the first rectangle, if any of it is on the screen.
OnScreen(r) == LET x == IF r.x < 0 THEN 0 ELSE r.x
                   end == IF r.x + r.n > Width THEN Width ELSE r.x + r.n
               IN [x |-> x, n |-> end - x]
Present ==
    /\ todo # <<>>
    /\ LET r == Head(todo)
           after == Pushed(fifo, Update(OnScreen(r)), UpdateWords)
       IN IF r.n = 0 \/ r.x + r.n <= 0 \/ r.x >= Width THEN UNCHANGED <<fifo, lost>>
          ELSE IF ~Fits(fifo, UpdateWords) THEN lost' = TRUE /\ UNCHANGED fifo
          ELSE fifo' = after /\ lost' = (lost \/ after.next = after.stop)
    /\ todo' = Tail(todo)
    /\ IF Len(todo) = 1 THEN Rendered ELSE UNCHANGED win
    /\ UNCHANGED <<vram, host, card, mouse, ops>>

\* The device takes the command at STOP: nothing for a zero word, and no one
\* knows what for a word that is the middle of something.
Device ==
    /\ fifo.stop # fifo.next
    /\ LET word == fifo.mem[fifo.stop]
           n == CASE word.what = "update" -> UpdateWords
                  [] word.what = "cursor" -> CursorWords
                  [] OTHER -> 1
       IN /\ fifo' = [fifo EXCEPT !.stop = (@ + n) % FifoWords]
          /\ host' = CASE word.what = "update" ->
                            [c \in Cells |-> IF c \in Covered(word.at) THEN vram[c] ELSE host[c]]
                       [] word.what = "argument" -> [c \in Cells |-> Garbage]
                       [] OTHER -> host
    /\ UNCHANGED <<win, vram, todo, card, mouse, lost, ops>>

-----------------------------------------------------------------------------
(* What the handlers on the main loop's stack do; presenting is not one of them. *)

\* A hardware cursor follows by itself and draws nothing.
MouseMove == ~card.hwCursor /\ mouse' \in Cells /\ UNCHANGED win

Handlers ==
    /\ todo = <<>> /\ ops < MaxOps /\ ops' = ops + 1
    /\ \/ /\ win.wm.next \in Ids /\ \E b \in Boxes : win' = Create(win, b)
          /\ UNCHANGED mouse
       \/ \E w \in Range(win.wm.list) :
             /\ \/ w # 1 /\ win' = Destroy(win, w)
                \/ win' = Raise(win, w)
                \/ w # 1 /\ \E x \in -1 .. Width : win' = DragTo(win, w, DragTarget(win, w, x))
                \/ \E r \in Parts : win' = Change(win, w, r)
             /\ UNCHANGED mouse
       \/ win' = Restyle(win) /\ UNCHANGED mouse
       \/ MouseMove
    /\ UNCHANGED <<vram, host, fifo, todo, card, lost>>

\* The dialogs and the terminal render at once when they open.
RenderNow == todo = <<>> /\ ops < MaxOps /\ ops' = ops + 1 /\ Compose

NewScene == [wm |-> NewManager, box |-> [w \in Ids |-> Whole], look |-> [w \in Ids |-> {}], surface |-> [w \in Ids |-> {}],
             dirty |-> <<>>, needsRender |-> TRUE]

\* A device whose cursor register latches has a hardware cursor.
Cards == {c \in [svga : BOOLEAN, hwCursor : BOOLEAN] : c.hwCursor => c.svga}

\* The desktop's window exists; its first frame has not been rendered.
Init ==
    /\ win = Create(NewScene, Whole)
    /\ card \in Cards
    /\ \E stop \in {0, FifoWords - 1} :
          fifo = FifoAtBoot(IF card.svga THEN stop ELSE 0, card.hwCursor)
    /\ vram = [c \in Cells |-> AtBoot] /\ host = vram
    /\ todo = <<>> /\ mouse = 0 /\ lost = FALSE /\ ops = 0

Next == Handlers \/ RenderNow \/ Render \/ Present \/ Device

Spec == Init /\ [][Next]_vars /\ WF_vars(Render) /\ WF_vars(Present) /\ WF_vars(Device)

-----------------------------------------------------------------------------
(* Properties *)

\* Nothing is on its way to the screen any more.
Settled == win.dirty = <<>> /\ ~win.needsRender /\ todo = <<>> /\ fifo.next = fifo.stop

\* A cell shows the topmost window over it as it looks now, or a trace of the
\* cursor where that is drawn into the frame.
Shown(c) == host[c] = Drawn(win, win.look, c) \/ (~card.hwCursor /\ host[c] = Cursor)

\* Whatever was created, moved, raised, changed and destroyed in whichever order,
\* and however far the device lags behind: once nothing is on its way the screen
\* shows the windows as they are - unless the device did not keep up at all, so
\* that commands were dropped.
ScreenExact == Settled /\ ~lost => \A c \in Cells : Shown(c)

\* What was invalidated gets to the screen.
CaughtUp == <>[]Settled
=============================================================================
