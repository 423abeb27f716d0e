----------------------------- MODULE MCGraphics -----------------------------
(***************************************************************************)
(* Instances for TLC of the computations behind a picture: the painter,    *)
(* the style of a window, its images, the JSON it is described in, and the *)
(* desktop's layout and themes.  TLC evaluates the assumptions before the  *)
(* run that extends this module.                                           *)
(***************************************************************************)
EXTENDS Integers, Sequences, FiniteSets

P == INSTANCE Painter WITH Width <- 4, Height <- 3, GlyphW <- 2, GlyphH <- 2
Y == INSTANCE Style WITH Width <- 6, Height <- 7, GlyphW <- 2, GlyphH <- 2
J == INSTANCE Json
N == INSTANCE Png
D == INSTANCE DesktopLayout
T == INSTANCE Theme

-----------------------------------------------------------------------------
\* Rectangles that lie in, across, beside and beyond a surface of 4 by 3 pixels.
Rects == {P!Rect(x, y, w, h) : x \in {-1, 0, 2}, y \in {-1, 1}, w \in {0, 1, 2, 4}, h \in 0..3}
Views == {[clip |-> c, has |-> TRUE, at |-> d] : c \in {P!Rect(1, 0, 2, 2), P!Rect(-1, 1, 3, 5)}, d \in {<<0, 0>>, <<1, -1>>}}
           \cup {[clip |-> P!Surface, has |-> FALSE, at |-> <<0, 0>>]}
Texts == {<<>>, <<"a", "nl", "a">>, <<"a", "a", "a", "a">>}

\* QC::Rect's operations are those on sets of points.
ASSUME RectsAreSets == P!RectsAgree(Rects)
\* Lines, rectangles, frames and gradients write what can be seen of them, and no more.
ASSUME ShapesAreClipped == P!ShapesAgree(Rects, Views)
\* Raised, sunken and etched frames have their light and their dark sides right.
ASSUME BordersHaveSides == P!BordersAgree(Rects, Views)
\* Bresenham's line reaches its end and stays within half a pixel.
ASSUME LinesAreStraight == P!LinesAgree((0..3) \X (0..3))
\* Gradients and blending stay between their two colours.
ASSUME ColoursAreBetween == P!ColoursAgree({0, 1, 100, 254, 255})
\* Text is inside its rectangle, and complete where it fits.
ASSUME TextIsPlaced == P!TextAgrees(Texts, {r \in Rects : r.x = 0}, Views)
\* An image shows its own pixels, where its mode says.
ASSUME ImagesAreScaled == P!ImagesAgree(Rects, Views, {1, 2, 3})

\* A PNG is decoded to what was encoded, whatever its filters and chunks.
ASSUME PicturesAreDecoded == N!ImagesDecode({<<1, 1>>, <<2, 3>>, <<3, 2>>}, <<250, 3, 128, 0, 9>>)

-----------------------------------------------------------------------------
\* A window of 6 by 7 pixels with a control of each kind.
C(a, c) == Y!Colour(a, c)
Metrics == [lift |-> 1, depth |-> 1, ring |-> 1, width |-> 1, softness |-> 10, shadow |-> <<0, 1>>,
            scale |-> 1, hoverText |-> 0, pressText |-> 1]
Role(glass) ==
  [fill |-> [s \in {"Normal", "Hovered", "Pressed", "Disabled"} |-> C(255, 90)],
   overlay |-> [s \in {"Hovered", "Pressed"} |-> C(90, 255)],
   outline |-> [s \in {"Normal", "Hovered", "Pressed"} |-> C(140, 30)],
   border |-> C(255, 10), borderDisabled |-> C(255, 11), text |-> C(255, 1), textDisabled |-> C(180, 1),
   focus |-> C(200, 77), glow |-> C(90, 60), casts |-> glass, glass |-> glass, width |-> 1]
ButtonOf(enabled, down) ==
  [kind |-> "button", visible |-> TRUE, at |-> Y!Rect(1, 2, 4, 4), text |-> <<"a">>, enabled |-> enabled,
   pressed |-> down, hovered |-> TRUE, focused |-> TRUE, role |-> Role(TRUE)]
PanelOf(style, framed, own) ==
  [kind |-> "panel", visible |-> TRUE, at |-> Y!Rect(0, 1, 5, 5), style |-> style, framed |-> framed, own |-> own,
   fill |-> C(255, 120), line |-> C(255, 44), width |-> 1]
Label == [kind |-> "label", visible |-> TRUE, at |-> Y!Rect(1, 1, 3, 2), transparent |-> TRUE, fill |-> C(0, 0),
          line |-> C(255, 5), across |-> "centre", down |-> "top", text |-> <<"a", "a">>]
Image == [kind |-> "image", visible |-> TRUE, at |-> Y!Rect(3, 2, 3, 3), size |-> 2, mode |-> "Tile", fill |-> C(120, 7)]
Scroll == [kind |-> "scroll", visible |-> TRUE, at |-> Y!Rect(4, 0, 1, 6), thumb |-> 1, size |-> 2,
           fill |-> C(255, 3), line |-> C(255, 4)]
Painted == {[desktop |-> d, top |-> C(255, 20), bottom |-> C(255, IF d THEN 50 ELSE 20), border |-> C(255, 9),
             children |-> <<PanelOf(style, framed, own), ButtonOf(framed, own), Label, Image, Scroll>>] :
             d, framed, own \in BOOLEAN, style \in {"Flat", "Raised", "Etched"}}
Blank(c) == [p \in Y!Points(Y!Surface) |-> c]

\* What a window looks like depends on nothing that was drawn there before.
ASSUME WindowsAreOpaque == Y!PaintForgets(Painted, {Blank(C(0, 0)), Blank(C(77, 100))}, Metrics)
\* A button leaves its neighbours' pixels alone.
ASSUME ButtonsAreContained ==
  Y!ButtonKeepsTo({Y!Rect(x, y, w, h) : x, y \in {1, 3}, w, h \in {0, 1, 3}}, {Role(TRUE), Role(FALSE)},
                  Blank(C(255, 20)), Metrics)

-----------------------------------------------------------------------------
\* Short texts over the punctuation, numbers, strings, and two documents with every edit
\* of one character.
Over(chars, n) == UNION {[1..k -> chars] : k \in 0..n}
Strings == {<<"q">> \o s \o <<"q">> : s \in Over({"q", "\\", "u", "x"}, 4)}
Documents == {<<"{", "q", "x", "q", ":", "[", "0", ",", " ", "t", "e", "]", ",", "q", "q", ":", "{", "}", "}">>,
              <<" ", "[", "q", "\\", "u", "0", "0", "7", "e", "q", ",", "-", "7", ".", "0", ",", "n", "e", "]">>}
Edits == {<<>>} \cup {<<c>> : c \in {"{", "}", "]", ":", ",", "q", " ", "0", "x", "\\"}}
Edited == UNION {{SubSeq(s, 1, i - 1) \o e \o SubSeq(s, i + 1, Len(s)) : i \in 1..Len(s), e \in Edits} : s \in Documents}

\* The parser takes the grammar's texts, refuses all others, and loses no block of memory.
ASSUME TextsAreParsed == J!ParserAgrees(Over({"{", "}", "[", "]", ":", ",", "q", " ", "0"}, 3))
ASSUME NumbersAreParsed == J!ParserAgrees(Over({"-", "0", "7", ".", "e", "+"}, 4))
ASSUME StringsAreParsed == J!ParserAgrees(Strings)
ASSUME DocumentsAreParsed == J!ParserAgrees(Documents \cup Edited)

-----------------------------------------------------------------------------
\* Every text of at most four characters, and one with sixteen digits before its percent.
Letters == {"1", "5", "-", "+", "%", "right-", "bottom-"}
Expressions == UNION {[1..n -> Letters] : n \in 0..4}

\* Controls of the desktop's file, and every tree of three controls with these names.
Node(id, type, parent, x, y, width, height) ==
  [id |-> id, type |-> type, parent |-> parent, x |-> x, y |-> y, width |-> width, height |-> height, role |-> "none"]
All == D!Text(<<"1", "0", "0", "%">>)
DesktopFile ==
  <<Node("headerBar", "panel", 0, D!Number(0), D!Number(0), All, D!Number(56)),
    Node("headerTitle", "label", 1, D!Number(20), D!Number(16), D!Absent, D!Absent),
    Node("clockLabel", "label", 1, D!Text(<<"right-", "1", "0", "0">>), D!Number(18), D!Absent, D!Absent),
    Node("sidebar", "panel", 0, D!Number(0), D!Number(56), D!Number(200), D!Text(<<"1", "0", "0", "%", "-", "5">>)),
    Node("btnTerminal", "button", 4, D!Number(20), D!Number(140), D!Number(160), D!Number(32)),
    Node("taskbar", "panel", 0, D!Number(0), D!Text(<<"bottom-", "5", "0">>), All, D!Number(50)),
    Node("startButton", "button", 6, D!Number(10), D!Number(9), D!Number(100), D!Number(30)),
    Node("shutDownButton", "button", 6, D!Number(120), D!Number(9), D!Number(100), D!Number(30))>>
Trees == {<<Node(i, s, 0, D!Absent, D!Absent, D!Absent, D!Absent),
            Node(j, t, p, D!Absent, D!Absent, D!Absent, D!Absent),
            Node(k, u, q, D!Absent, D!Absent, D!Number(9), D!Absent)>> :
            i, j, k \in {"headerBar", "taskbar", "startButton"}, s, t, u \in {"panel", "button", "clock"}, p \in 0..1, q \in 0..2}
Layouts == Trees \cup {DesktopFile, <<>>}

\* Screens on both sides of the height the sidebar's buttons need.
Screens == {<<640, 383>>, <<640, 384>>, <<800, 600>>, <<1024, 768>>}

\* Four files: a picture, one that is none, one that is missing, and one with a long name.
Path(name) == [name |-> name, long |-> name = "long"]
Paths == {Path(n) : n \in {"logo", "text", "missing", "long"}}
Files == [p \in Paths |-> [size |-> IF p.name = "missing" THEN 0 ELSE 2, read |-> IF p.name = "missing" THEN 0 ELSE 2, png |-> p.name # "text"]]
Backgrounds == {[t |-> t, type |-> k, path |-> p, mode |-> m, top |-> c, bottom |-> <<"#">>] :
                  t \in {"object", "string"}, k \in {"image", "gradient"}, p \in Paths, m \in {"Fit", "fancy"},
                  c \in {<<>>, <<"#", "0", "5", "a", "F", "0", "0">>, <<"#", "0", "5", "a", "F", "0", "x">>}}

\* A theme from a file, from the next place, built in, or none; overrides of up to two slots.
Theme(from, loads) == [loads |-> loads, keys |-> [f \in {"textPrimary", "accentPrimary", "borderRadius"} |-> T!Value(from, f)]]
Slots == {<<"palette", "accent">>, <<"palette", "panel">>, <<"palette", "text">>, <<"metrics", "cornerRadius">>, <<"metrics", "buttonCornerRadius">>, <<"border", "radius">>, <<"border", "color">>,
          <<"Sidebar", "text">>, <<"Accent", "fillNormal">>, <<"Destructive", "shine">>, <<"glow", "color">>, <<"transparency", "panelOpacity">>}
Themes ==
  {[t |-> t, file |-> Theme("file", i = 1), path |-> Theme("path", j = 1), definition |-> Theme("definition", i = 2), inline |-> Theme("inline", j = 2),
    given |-> [s \in given |-> T!Value("given", s[2])], buttons |-> k \/ \E s \in given : s[1] \in T!OverridableButtons] :
     t \in {"text", "object"}, i, j \in 0..2, k \in BOOLEAN, given \in {g \in SUBSET Slots : Cardinality(g) <= 2}}

\* An expression means what its form says, and is refused otherwise.
ASSUME ExpressionsEvaluate == D!ExpressionsAgree(Expressions, {0, 1, 99, 640, 1023})
\* The tree of controls is the file's, and the desktop's pointers point into it.
ASSUME TreesAreBuilt == D!TreesAgree(Layouts, 640, 480)
\* Every control is deleted once, after it was last touched.
ASSUME ControlsAreFreed == D!DeletedOnce(Layouts, 640, 480)
\* The built-in panels fit together, and follow the screen's size.
ASSUME PanelsFit == D!PanelsAgree(Screens)
\* Images are shared by their paths.
ASSUME ImagesAreShared == D!ImagesShared([1..4 -> Paths], Files)
\* The desktop starts from its file, or without it.
ASSUME StartIsWhole == D!StartsWhole({DesktopFile, <<>>, <<Node("x", "clock", 0, D!Absent, D!Absent, D!Absent, D!Absent)>>},
                                     Backgrounds, Files, [top |-> <<9, 9, 9>>, bottom |-> <<8, 8, 8>>], 640, 480)
\* Every value a file gives is where it says, over its theme, over the built-in style.
ASSUME StylesAgree == \A v \in Themes : T!StyleAgrees(v)
\* The size of the text grows with the font's, within its bounds; a colour is read as it is written.
ASSUME TextScales == \A m, n \in 1..300 : m <= n => T!TextScale(T!FontSize(m)) <= T!TextScale(T!FontSize(n)) /\ T!TextScale(T!FontSize(n)) \in 5..40
ASSUME ColorsParse ==
  \A s \in UNION {[1..n -> {"5", "F", "x"}] : n \in 6..8} :
    T!ParseColorString(<<"#">> \o s) # {} <=> Len(s) \in {6, 8} /\ \A i \in DOMAIN s : s[i] # "x"
=============================================================================
