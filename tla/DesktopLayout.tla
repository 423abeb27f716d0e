--------------------------- MODULE DesktopLayout ---------------------------
(***************************************************************************)
(* How QDesktop lays the desktop out: the expressions of desktop.json and  *)
(* what they come to, the controls that are made of it, which of them the  *)
(* desktop keeps a pointer to, the panels it has without the file, and     *)
(* what is deleted in which order.  A text is a sequence of characters, of *)
(* which "right-" and "bottom-" stand for the two prefixes.                *)
(* A document lists its controls in the order they are met, every one      *)
(* after its parent (0 is the screen).                                     *)
(***************************************************************************)
EXTENDS Integers, Sequences, FiniteSets

TopBarHeight == 32
SidebarWidth == 64
TaskbarHeight == 40
SidebarItems == <<"Home", "Apps", "Settings", "Files", "Terminal", "Power">>
PercentDigits == 16           \* the buffer for the number before the percent sign
MaxFile == 3                  \* stands for the largest size of a file that is read

Digit == [c \in {"0", "1", "5"} |-> CASE c = "0" -> 0 [] c = "1" -> 1 [] c = "5" -> 5]
Rect(x, y, w, h) == [x |-> x, y |-> y, w |-> w, h |-> h]
Larger(a, b) == IF a > b THEN a ELSE b
Absent == [t |-> "absent"]
Number(n) == [t |-> "number", n |-> n]
Text(s) == [t |-> "text", s |-> s]

-----------------------------------------------------------------------------
\* Values: a set of at most one number, empty when the text is refused.
ParseInt(s) ==
  LET minus == s # <<>> /\ s[1] = "-"
      d == IF minus THEN Tail(s) ELSE s
      value[i \in 0..Len(d)] == IF i = 0 THEN 0 ELSE value[i - 1] * 10 + Digit[d[i]]
  IN IF d = <<>> \/ \E i \in DOMAIN d : d[i] \notin DOMAIN Digit THEN {}
     ELSE {IF minus THEN -value[Len(d)] ELSE value[Len(d)]}
\* The division of C.
Quotient(n, d) == IF n < 0 THEN -((-n) \div d) ELSE n \div d
EvalPercent(s, i, whole) ==
  LET tail == SubSeq(s, i + 2, Len(s))
      Base == {Quotient(whole * p, 100) : p \in ParseInt(SubSeq(s, 1, i - 1))}
  IN CASE i - 1 >= PercentDigits -> {}
       [] i - 1 < PercentDigits /\ i = Len(s) -> Base
       [] i - 1 < PercentDigits /\ i < Len(s) ->
            CASE s[i + 1] = "+" -> {b + n : b \in Base, n \in ParseInt(tail)}
              [] s[i + 1] = "-" -> {b - n : b \in Base, n \in ParseInt(tail)}
              [] OTHER -> {}
EvalLayoutValue(v, w, h, of) ==
  LET whole == IF of \in {"x", "width"} THEN w ELSE h
      percents == {i \in DOMAIN v.s : v.s[i] = "%"}
      first == CHOOSE i \in percents : \A j \in percents : i <= j
  IN CASE v.t = "number" -> {v.n}
       [] v.t # "number" /\ (v.t # "text" \/ v.s = <<>>) -> {}
       [] OTHER ->
            CASE of = "x" /\ v.s[1] = "right-" -> {w - n : n \in ParseInt(Tail(v.s))}
              [] of = "y" /\ v.s[1] = "bottom-" -> {h - n : n \in ParseInt(Tail(v.s))}
              [] OTHER -> IF percents # {} THEN EvalPercent(v.s, first, whole) ELSE ParseInt(v.s)
DefaultSize(type, w, h) ==
  CASE type = "label" -> <<200, 16>> [] type = "button" -> <<120, 32>> [] OTHER -> <<w, h>>
\* c.x, c.y, c.width and c.height may be absent.
ParseBounds(c, w, h) ==
  LET size == DefaultSize(c.type, w, h)
      Of(of, v, default) == IF v = Absent \/ EvalLayoutValue(v, w, h, of) = {} THEN default
                            ELSE CHOOSE n \in EvalLayoutValue(v, w, h, of) : TRUE
  IN Rect(Of("x", c.x, 0), Of("y", c.y, 0),
          Larger(Of("width", c.width, size[1]), 0), Larger(Of("height", c.height, size[2]), 0))

\* A colour is "#RRGGBB", of which the model has the digits 0, 5, a and F.
HexDigit == [c \in {"0", "5", "a", "F"} |-> CASE c = "0" -> 0 [] c = "5" -> 5 [] c = "a" -> 10 [] c = "F" -> 15]
ParseHexColor(s) ==
  IF Len(s) # 7 \/ s[1] # "#" \/ \E i \in 2..7 : s[i] \notin DOMAIN HexDigit THEN {}
  ELSE {[i \in 1..3 |-> HexDigit[s[2 * i]] * 16 + HexDigit[s[2 * i + 1]]]}

\* The role a file gives a button, or else its name does.
Roles == {"Default", "Accent", "Destructive", "Sidebar", "SidebarSelected", "Taskbar", "TaskbarActive"}
RoleForJsonButton(c) ==
  CASE c.role \in Roles -> c.role
    [] c.role \notin Roles /\ c.id = "shutDownButton" -> "Destructive"
    [] c.role \notin Roles /\ c.id = "startButton" -> "Accent"
    [] c.role \notin Roles /\ c.id \in {"btnTerminal", "btnFiles"} -> "Sidebar"
    [] OTHER -> "Default"
ClickHandler(c) == CASE c.id = "btnTerminal" -> "toggleTerminal" [] c.id = "shutDownButton" -> "postShutdown" [] OTHER -> "none"

-----------------------------------------------------------------------------
\* buildControl, for every control of a document of a w by h screen.
Types == {"panel", "label", "button", "image", "slider"}
NoRect == Rect(0, 0, -1, -1)
Bounds(doc, w, h) ==
  LET at[n \in 0..Len(doc)] ==
        IF n = 0 THEN Rect(0, 0, w, h)
        ELSE LET up == doc[n].parent
             IN IF \/ doc[n].type \notin Types
                   \/ up # 0 /\ (at[up] = NoRect \/ doc[up].type # "panel")
                THEN NoRect ELSE ParseBounds(doc[n], at[up].w, at[up].h)
  IN at
Built(doc, w, h) == LET at == Bounds(doc, w, h) IN {n \in DOMAIN doc : at[n] # NoRect}
RootControls(doc, w, h) == {n \in Built(doc, w, h) : doc[n].parent = 0}
First(ns) == IF ns = {} THEN 0 ELSE CHOOSE n \in ns : \A m \in ns : n <= m
\* The desktop's pointers: asPanel gives null for what is no panel, and the search goes on.
PanelNames == {"headerBar", "sidebar", "taskbar"}
OtherNames == {"headerTitle", "clockLabel", "startButton", "shutDownButton"}
Pointers(doc, w, h) ==
  [id \in PanelNames \cup OtherNames |->
     First({n \in Built(doc, w, h) : doc[n].id = id /\ (id \in PanelNames => doc[n].type = "panel")})]
\* Window buttons begin right of both buttons, wherever those are.
TaskbarWindowBase(doc, w, h) ==
  LET p == Pointers(doc, w, h)
      Ends == {Bounds(doc, w, h)[n].x + Bounds(doc, w, h)[n].w + 8 : n \in {p["startButton"], p["shutDownButton"]} \ {0}} \cup {4}
  IN IF p["taskbar"] = 0 THEN 4 ELSE CHOOSE e \in Ends : \A f \in Ends : f <= e
\* tryInitializeFromJson: a file that gives no control at the top is cleared away again.
UsesJson(file, w, h) ==
  /\ file.exists /\ file.size \in 1..MaxFile /\ file.read > 0
  /\ file.parses /\ file.desktop /\ file.controls
  /\ RootControls(file.doc, w, h) # {}

-----------------------------------------------------------------------------
\* Without the file
TopBar(w, h) == Rect(0, 0, w, TopBarHeight)
Sidebar(w, h) == Rect(0, TopBarHeight, SidebarWidth, h - TopBarHeight - TaskbarHeight)
Taskbar(w, h) == Rect(SidebarWidth, h - TaskbarHeight, w - SidebarWidth, TaskbarHeight)
WorkArea(w, h) == Rect(SidebarWidth, TopBarHeight, w - SidebarWidth, h - TopBarHeight - TaskbarHeight)
Logo == Rect(8, 6, 20, 20)
Title == Rect(40, 8, 200, 16)
Clock(w) == Rect(w - 80, 8, 60, 16)
SidebarButton(i, h) ==
  LET high == 48  margin == 4
  IN Rect(margin, IF SidebarItems[i] = "Power" THEN Sidebar(0, h).h - high - margin ELSE margin + (i - 1) * (high + margin),
          SidebarWidth - 2 * margin, high)
CreatePanels(w, h) ==
  [topBar |-> TopBar(w, h), sidebar |-> Sidebar(w, h), taskbar |-> Taskbar(w, h), logo |-> Logo, title |-> Title,
   clock |-> Clock(w), buttons |-> [i \in DOMAIN SidebarItems |-> SidebarButton(i, h)]]
\* resize moves the panels and the clock, and no button.
UpdateLayout(s, w, h) ==
  [s EXCEPT !.topBar = TopBar(w, h), !.sidebar = Sidebar(w, h), !.taskbar = Taskbar(w, h), !.clock = Clock(w)]
SidebarRole(item, selected) ==
  CASE item = selected -> "SidebarSelected"
    [] item # selected /\ item = "Power" -> "Destructive"
    [] OTHER -> "Sidebar"
SetTime(hours, minutes) ==
  <<(hours % 24) \div 10, (hours % 24) % 10, (minutes % 60) \div 10, (minutes % 60) % 10>>

-----------------------------------------------------------------------------
\* What is touched and deleted, one after the other: clearChildren touches the root's own
\* children, a panel's destructor forgets its list without looking at it, and removeChild
\* is not called at all.
Touch(n) == <<"touch", n>>
Delete(n) == <<"delete", n>>
Backwards(ns) == [i \in 1..Cardinality(ns) |-> CHOOSE n \in ns : Cardinality({m \in ns : m > n}) = i - 1]
Each(Op(_), seq) == [i \in DOMAIN seq |-> Op(seq[i])]
ClearJsonDesktopState(doc, w, h) ==
  Each(Touch, Backwards(RootControls(doc, w, h))) \o Each(Delete, Backwards(Built(doc, w, h)))
Hardcoded == <<"topBar", "sidebar", "taskbar", "clock", "title", "logo">>
DeleteHardcoded(windows) ==
  Each(Delete, windows) \o Each(Delete, SidebarItems) \o <<Delete("clock"), Delete("title"), Delete("logo")>>
    \o Each(Touch, <<"topBar", "sidebar", "taskbar">>) \o <<Delete("taskbar"), Delete("sidebar"), Delete("topBar")>>

\* Images are read once for each path: the cache holds the first 127 characters of each,
\* so that a longer path is never found again.
FindImageAsset(cache, path) == {i \in DOMAIN cache : cache[i] = path /\ ~path.long}
LoadImageAsset(cache, path, files) ==
  CASE FindImageAsset(cache, path) # {} -> [cache |-> cache, image |-> First(FindImageAsset(cache, path))]
    [] FindImageAsset(cache, path) = {} /\ files[path].size \in 1..MaxFile /\ files[path].read = files[path].size
         /\ files[path].png -> [cache |-> Append(cache, path), image |-> Len(cache) + 1]
    [] OTHER -> [cache |-> cache, image |-> 0]
\* An image that cannot be loaded leaves the gradient, without the colours the file may give.
NoBackground == [mode |-> "Gradient", image |-> 0, scale |-> "Stretch", top |-> {}, bottom |-> {}]
ScaleModes == {"Fit", "Center", "Tile", "Fill", "Original"}
ParseBackground(v, cache, files) ==
  LET asset == LoadImageAsset(cache, v.path, files)
  IN CASE v.t # "object" -> NoBackground
       [] v.t = "object" /\ v.type = "image" ->
            IF asset.image = 0 THEN NoBackground
            ELSE [NoBackground EXCEPT !.mode = "Image", !.image = asset.image,
                                      !.scale = IF v.mode \in ScaleModes THEN v.mode ELSE "Stretch"]
       [] OTHER -> [NoBackground EXCEPT !.top = ParseHexColor(v.top), !.bottom = ParseHexColor(v.bottom)]
\* paintBackground's two colours, and the image over them.
Background(b, style) ==
  LET Either(own, default) == IF own = {} THEN default ELSE CHOOSE c \in own : TRUE
  IN [top |-> Either(b.top, style.top), bottom |-> Either(b.bottom, style.bottom), image |-> b.image]
\* The desktop after initialize: its controls in order, the images they loaded, the background.
Initialized(file, w, h, files) ==
  LET paths == file.paths
      after[i \in 0..Len(paths)] == IF i = 0 THEN <<>> ELSE LoadImageAsset(after[i - 1], paths[i], files).cache
  IN IF UsesJson(file, w, h)
     THEN [json |-> TRUE, controls |-> Built(file.doc, w, h), background |-> ParseBackground(file.background, after[Len(paths)], files)]
     ELSE [json |-> FALSE, controls |-> {}, background |-> NoBackground]

-----------------------------------------------------------------------------
IsInt(s) == \E k \in {0, 1} : /\ Len(s) > k /\ (k = 1 => s[1] = "-")
                              /\ \A i \in k + 1..Len(s) : s[i] \in DOMAIN Digit
\* A text is taken exactly where it is of one of the four forms; "right-n" with a width of
\* n ends at the parent's edge; two shares that make up the whole never overlap, and leave
\* at most one pixel.
ExpressionsAgree(texts, sizes) ==
  /\ \A s \in texts, of \in {"x", "y", "width", "height"} :
       EvalLayoutValue(Text(s), 100, 50, of) # {} <=>
         \/ IsInt(s)
         \/ s # <<>> /\ <<of, s[1]>> \in {<<"x", "right-">>, <<"y", "bottom-">>} /\ IsInt(Tail(s))
         \/ \E i \in DOMAIN s : /\ s[i] = "%" /\ IsInt(SubSeq(s, 1, i - 1))
                                /\ i < Len(s) => s[i + 1] \in {"+", "-"} /\ IsInt(SubSeq(s, i + 2, Len(s)))
  /\ \A w, h \in sizes :
       /\ \A n \in {<<"5">>, <<"1", "0">>} :
            \A r \in {ParseBounds([type |-> "image", x |-> Text(<<"right-">> \o n), y |-> Text(<<"bottom-">> \o n),
                                   width |-> Text(n), height |-> Text(n)], w, h)} :
              r.x + r.w = w /\ r.y + r.h = h
       /\ \A p \in {<<<<"1", "5">>, <<"5", "5">>, <<"1", "5">>, <<"1", "5">>>>, <<<<"5", "0">>, <<"5", "0">>>>} :
            LET share[i \in 0..Len(p)] ==
                  IF i = 0 THEN 0
                  ELSE share[i - 1] + (CHOOSE n \in EvalLayoutValue(Text(Append(p[i], "%")), w, h, "width") : TRUE)
            IN share[Len(p)] \in w - Len(p)..w

\* What is built is what has only panels above it, and is inside the screen's tree; each of
\* the desktop's pointers is to the first control that may have it, and a panel's pointer
\* is never to anything else; the window buttons are right of both buttons.
TreesAgree(docs, w, h) ==
  \A doc \in docs :
    LET above[n \in DOMAIN doc] == IF doc[n].parent = 0 THEN {} ELSE {doc[n].parent} \cup above[doc[n].parent]
    IN \A made \in {Built(doc, w, h)} : \A p \in {Pointers(doc, w, h)} :
         /\ made = {n \in DOMAIN doc : doc[n].type \in Types /\ \A m \in above[n] : doc[m].type = "panel"}
         /\ \A id \in DOMAIN p :
              /\ p[id] # 0 => p[id] \in made /\ doc[p[id]].id = id
              /\ p[id] # 0 /\ id \in PanelNames => doc[p[id]].type = "panel"
              /\ \A n \in made : doc[n].id = id /\ (p[id] = 0 \/ n < p[id]) => id \in PanelNames /\ doc[n].type # "panel"
         /\ \A id \in {"startButton", "shutDownButton"} :
              p[id] # 0 /\ p["taskbar"] # 0 => TaskbarWindowBase(doc, w, h) >= Bounds(doc, w, h)[p[id]].x + Bounds(doc, w, h)[p[id]].w + 8

\* Every control is deleted once, and none is touched after it: the window's list still
\* holds controls that are about to be deleted until clearChildren has run.
Sound(trace, objects) ==
  /\ \A n \in objects : Cardinality({i \in DOMAIN trace : trace[i] = Delete(n)}) = 1
  /\ \A i \in DOMAIN trace : trace[i][2] \in objects /\ \A j \in 1..i - 1 : trace[j] # Delete(trace[i][2])
DeletedOnce(docs, w, h) ==
  /\ \A doc \in docs : Sound(ClearJsonDesktopState(doc, w, h), Built(doc, w, h))
  /\ \A windows \in {<<>>, <<"w1", "w2">>} :
       Sound(DeleteHardcoded(windows), {windows[i] : i \in DOMAIN windows} \cup {SidebarItems[i] : i \in DOMAIN SidebarItems}
                                         \cup {Hardcoded[i] : i \in DOMAIN Hardcoded})

\* The panels and the work area never overlap and leave out only the corner under the
\* sidebar; the sidebar's buttons fit while the screen has 384 lines; a resize leaves all
\* but the power button where a new desktop of that size would have them.
Overlap(a, b) == a.x < b.x + b.w /\ b.x < a.x + a.w /\ a.y < b.y + b.h /\ b.y < a.y + a.h
PanelsAgree(sizes) ==
  \A old, new \in sizes :
    LET w == new[1]  h == new[2]
        parts == <<TopBar(w, h), Sidebar(w, h), Taskbar(w, h), WorkArea(w, h)>>
        s == UpdateLayout(CreatePanels(old[1], old[2]), w, h)
        Area(r) == r.w * r.h
        n == Len(SidebarItems)
    IN /\ \A i, j \in 1..4 : i # j => ~Overlap(parts[i], parts[j])
       /\ Area(parts[1]) + Area(parts[2]) + Area(parts[3]) + Area(parts[4]) + SidebarWidth * TaskbarHeight = w * h
       /\ (h >= 384) = \A i, j \in 1..n : i # j => ~Overlap(SidebarButton(i, h), SidebarButton(j, h))
       /\ [s EXCEPT !.buttons[n] = SidebarButton(n, h)] = CreatePanels(w, h)
       /\ old[2] # h => s.buttons[n] # SidebarButton(n, h)

\* An image of a path that fits is decoded once however many controls show it, and no
\* control gets the image of another path.
ImagesShared(orders, files) ==
  \A paths \in orders :
    LET after[i \in 0..Len(paths)] == IF i = 0 THEN [cache |-> <<>>, image |-> 0]
                                      ELSE LoadImageAsset(after[i - 1].cache, paths[i], files)
        cache == after[Len(paths)].cache
    IN /\ \A i, j \in DOMAIN cache : i # j => cache[i] # cache[j] \/ cache[i].long
       /\ \A i \in DOMAIN paths : after[i].image # 0 => cache[after[i].image] = paths[i]

\* A desktop never begins half from its file: it has controls of the file exactly if the
\* file can be used, and then has one at the top; its background shows an image only if
\* that decodes, and colours from the file only where both file and colour are valid.
StartsWhole(docs, backgrounds, files, style, w, h) ==
  \A doc \in docs, v \in backgrounds, good \in BOOLEAN :
    \A d \in {Initialized([exists |-> TRUE, size |-> MaxFile, read |-> 1, parses |-> good, desktop |-> TRUE, controls |-> TRUE,
                            doc |-> doc, paths |-> <<>>, background |-> v], w, h, files)} :
      \A b \in {Background(d.background, style)} :
        /\ d.json <=> d.controls # {}
        /\ d.json => \E n \in d.controls : doc[n].parent = 0
        /\ b.image # 0 => d.json /\ files[v.path].png /\ b.top = style.top /\ b.bottom = style.bottom
        /\ b.top # style.top => d.json /\ v.type # "image" /\ Len(v.top) = 7
=============================================================================
