------------------------------ MODULE Painter ------------------------------
(***************************************************************************)
(* What the software painter writes: QG::PainterSurface, the rectangles of *)
(* QCGeometry.h, the scaling of images, and the layers a button is made    *)
(* of.  A primitive is the function from the pixels it writes to their     *)
(* colours; a view v is the painter's clip rectangle and its origin.       *)
(* The second half states each shape without clipping, and that what is    *)
(* written is the part of it that can be seen.                             *)
(***************************************************************************)
EXTENDS Integers, Sequences, FiniteSets, TLC

CONSTANTS Width, Height,      \* of the surface; its pitch is Width
          GlyphW, GlyphH      \* the advance of a character, one more than its ink

Far == 1000                   \* stands for 2^31: an offset beyond every surface
Full == 255
One == 65536                  \* 2^32 in the code

Larger(a, b) == IF a > b THEN a ELSE b
Smaller(a, b) == IF a < b THEN a ELSE b
Abs(a) == Larger(a, -a)
Nothing == [p \in {} |-> 0]
Coloured(ps, c) == [p \in ps |-> c]
\* The writes of a sequence of primitives, the last one winning.
Over(paints) == LET top[i \in 0..Len(paints)] == IF i = 0 THEN Nothing ELSE paints[i] @@ top[i - 1]
                IN top[Len(paints)]

-----------------------------------------------------------------------------
\* Rectangles
Rect(x, y, w, h) == [x |-> x, y |-> y, w |-> w, h |-> h]
Right(r) == r.x + r.w
Bottom(r) == r.y + r.h
IsEmpty(r) == r.w = 0 \/ r.h = 0
Contains(r, p) == /\ p[1] >= r.x /\ p[1] < Right(r)
                  /\ p[2] >= r.y /\ p[2] < Bottom(r)
ContainsRect(r, o) == /\ o.x >= r.x /\ Right(o) <= Right(r)
                      /\ o.y >= r.y /\ Bottom(o) <= Bottom(r)
Intersects(r, o) == ~ \/ o.x >= Right(r) \/ Right(o) <= r.x
                      \/ o.y >= Bottom(r) \/ Bottom(o) <= r.y
Box(x1, y1, x2, y2) == Rect(x1, y1, x2 - x1, y2 - y1)
Intersection(r, o) ==
  LET nx == Larger(r.x, o.x)  nr == Smaller(Right(r), Right(o))
      ny == Larger(r.y, o.y)  nb == Smaller(Bottom(r), Bottom(o))
  IN IF nr <= nx \/ nb <= ny THEN Rect(0, 0, 0, 0) ELSE Box(nx, ny, nr, nb)
United(r, o) ==
  IF IsEmpty(r) THEN o ELSE IF IsEmpty(o) THEN r
  ELSE Box(Smaller(r.x, o.x), Smaller(r.y, o.y), Larger(Right(r), Right(o)), Larger(Bottom(r), Bottom(o)))
Offset(r, d) == Rect(r.x + d[1], r.y + d[2], r.w, r.h)
Inset(r, n) == Rect(r.x + n, r.y + n, Larger(r.w - 2 * n, 0), Larger(r.h - 2 * n, 0))
Points(r) == (r.x..Right(r) - 1) \X (r.y..Bottom(r) - 1)

-----------------------------------------------------------------------------
\* One pixel, and spans
Surface == Rect(0, 0, Width, Height)
InClip(v, p) == ~v.has \/ Contains(v.clip, p)
SetPixel(v, q) == {p \in {<<q[1] + v.at[1], q[2] + v.at[2]>>} : Contains(Surface, p) /\ InClip(v, p)}
Clamped(s, lo, hi) == <<Larger(s[1], lo), Smaller(s[2], hi)>>
AcrossClip(v, s) == IF v.has THEN Clamped(s, v.clip.x, Right(v.clip)) ELSE s
DownClip(v, s) == IF v.has THEN Clamped(s, v.clip.y, Bottom(v.clip)) ELSE s
HLine(v, x, y, n) ==
  LET a == x + v.at[1]  row == y + v.at[2]
      s == AcrossClip(v, Clamped(<<a, a + n>>, 0, Width))
  IN IF \/ n = 0 \/ row \notin 0..Height - 1
        \/ v.has /\ row \notin v.clip.y..Bottom(v.clip) - 1
     THEN {} ELSE (s[1]..s[2] - 1) \X {row}
VLine(v, x, y, n) ==
  LET a == y + v.at[2]  col == x + v.at[1]
      s == DownClip(v, Clamped(<<a, a + n>>, 0, Height))
  IN IF \/ n = 0 \/ col \notin 0..Width - 1
        \/ v.has /\ col \notin v.clip.x..Right(v.clip) - 1
     THEN {} ELSE {col} \X (s[1]..s[2] - 1)
\* The corners left of a rectangle, or <<>>.
Kept(v, r) ==
  LET o == Offset(r, v.at)
      xs == AcrossClip(v, Clamped(<<o.x, Right(o)>>, 0, Width))
      ys == DownClip(v, Clamped(<<o.y, Bottom(o)>>, 0, Height))
  IN IF xs[1] >= xs[2] \/ ys[1] >= ys[2] THEN <<>> ELSE <<Box(xs[1], ys[1], xs[2], ys[2])>>

\* Bresenham's line; f[n] is the state after n rounds.
LinePoints(a, b) ==
  LET dx == Abs(b[1] - a[1])  sx == IF b[1] > a[1] THEN 1 ELSE -1
      dy == Abs(b[2] - a[2])  sy == IF b[2] > a[2] THEN 1 ELSE -1
      f[n \in 0..Larger(dx, dy)] ==
        IF n = 0 THEN <<a[1], a[2], dx - dy>>
        ELSE LET e == f[n - 1][3]  across == 2 * e > -dy  down == 2 * e < dx
             IN <<f[n - 1][1] + (IF across THEN sx ELSE 0), f[n - 1][2] + (IF down THEN sy ELSE 0),
                  e - (IF across THEN dy ELSE 0) + (IF down THEN dx ELSE 0)>>
  IN [n \in DOMAIN f |-> <<f[n][1], f[n][2]>>]
DrawLine(v, a, b) == LET l == LinePoints(a, b) IN UNION {SetPixel(v, l[n]) : n \in DOMAIN l}

-----------------------------------------------------------------------------
\* Colours: a is the alpha, c stands for each of the other channels.
Colour(a, c) == [a |-> a, c |-> c]
\* The division of C, towards zero.
Quotient(n, d) == IF n < 0 THEN -((-n) \div d) ELSE n \div d
GradientChannel(from, to, step, segments) ==
  LET scaled == (to - from) * step
      half == IF scaled < 0 THEN -(segments \div 2) ELSE segments \div 2
  IN IF segments = 0 THEN from
     ELSE Larger(0, Smaller(Full, from + Quotient(scaled + half, segments)))
Blend(s, d) ==
  CASE s.a = Full -> s
    [] s.a = 0 -> d
    [] OTHER -> Colour((s.a + (d.a * (Full - s.a)) \div Full) % 256,
                       ((s.c * s.a + d.c * (Full - s.a)) \div Full) % 256)

FillGradientV(v, r, from, to) ==
  LET k == IF IsEmpty(r) THEN <<>> ELSE Kept(v, r)
  IN IF k = <<>> THEN Nothing
     ELSE [p \in Points(k[1]) |-> GradientChannel(from, to, p[2] - k[1].y, k[1].h - 1)]
FillGradientH(v, r, from, to) ==
  LET k == IF IsEmpty(r) THEN <<>> ELSE Kept(v, r)
  IN IF k = <<>> THEN Nothing
     ELSE [p \in Points(k[1]) |-> GradientChannel(from, to, p[1] - k[1].x, k[1].w - 1)]
\* A gradient brush is handed the kept corners, to which the gradient adds the origin again.
FillRect(v, r, brush) ==
  LET k == Kept(v, r)
  IN CASE k = <<>> -> Nothing
       [] k # <<>> /\ brush.style = "solid" -> Coloured(Points(k[1]), brush.from)
       [] k # <<>> /\ brush.style = "V" -> FillGradientV(v, k[1], brush.from, brush.to)
       [] k # <<>> /\ brush.style = "H" -> FillGradientH(v, k[1], brush.from, brush.to)
       [] OTHER -> Nothing
Clear(c) == Coloured(Points(Surface), c)

Rings(r, n) == {i \in 0..n - 1 : ~IsEmpty(Inset(r, i))}
DrawRect(v, r, n) ==
  UNION {LET o == Inset(r, i) m == Larger(o.h - 2, 0)
         IN HLine(v, o.x, o.y, o.w) \cup HLine(v, o.x, Bottom(o) - 1, o.w)
              \cup VLine(v, o.x, o.y + 1, m) \cup VLine(v, Right(o) - 1, o.y + 1, m) : i \in Rings(r, n)}
\* The four strokes of one ring: top, left, bottom and right.
Strokes(v, o, near, far) ==
  LET m == IF o.h > 1 THEN o.h - 1 ELSE 0
  IN Over(<<Coloured(HLine(v, o.x, o.y, o.w), near), Coloured(VLine(v, o.x, o.y + 1, m), near),
            Coloured(HLine(v, o.x, Bottom(o) - 1, o.w), far), Coloured(VLine(v, Right(o) - 1, o.y, m), far)>>)
RaisedBorder(v, r, light, dark, n) ==
  Over([i \in 1..Cardinality(Rings(r, n)) |-> Strokes(v, Inset(r, i - 1), light, dark)])
SunkenBorder(v, r, light, dark, n) ==
  Over([i \in 1..Cardinality(Rings(r, n)) |-> Strokes(v, Inset(r, i - 1), dark, light)])
EtchedBorder(v, r, light, dark) ==
  Over(<<SunkenBorder(v, r, light, dark, 1), RaisedBorder(v, Inset(r, 1), light, dark, 1)>>)

\* An image of n by m pixels, whose pixel <<i, j>> is img[i, j].
Blit(v, x, y, img, n, m) ==
  LET at == {q \in (0..n - 1) \X (0..m - 1) :
               LET p == <<x + v.at[1] + q[1], y + v.at[2] + q[2]>> IN Contains(Surface, p) /\ InClip(v, p)}
  IN [p \in {<<x + v.at[1] + q[1], y + v.at[2] + q[2]>> : q \in at}
        |-> img[p[1] - x - v.at[1], p[2] - y - v.at[2]]]
BlitAlpha(v, x, y, img, n, m, under) ==
  LET b == Blit(v, x, y, img, n, m) IN [p \in DOMAIN b |-> Blend(b[p], under[p])]

-----------------------------------------------------------------------------
\* Text.  A character is "a", whose ink is in two corners of its cell, or a dot.
Ink(ch) == CASE ch = "a" -> {<<0, 0>>, <<GlyphW - 2, GlyphH - 2>>}
             [] ch = "." -> {<<0, GlyphH - 2>>}
             [] OTHER -> {}
Newlines(text) == {i \in 1..Len(text) : text[i] = "nl"}
LineOf(text, i) == Cardinality({j \in Newlines(text) : j < i})
ColumnOf(text, i) == Cardinality({j \in 1..i - 1 : LineOf(text, j) = LineOf(text, i) /\ j \notin Newlines(text)})
MeasureText(text, scale) ==
  LET lengths == {ColumnOf(text, i) + 1 : i \in 1..Len(text) \ Newlines(text)} \cup {0}
  IN [w |-> (CHOOSE n \in lengths : \A m \in lengths : m <= n) * GlyphW * scale,
      h |-> (Cardinality(Newlines(text)) + 1) * GlyphH * scale]
StampGlyphPixel(v, q, scale) ==
  UNION {SetPixel(v, <<q[1] + i, q[2] + j>>) : i \in 0..scale - 1, j \in 0..scale - 1}
DrawText(v, x, y, text, scale) ==
  UNION {UNION {StampGlyphPixel(v, <<x + (ColumnOf(text, i) * GlyphW + q[1]) * scale,
                                     y + (LineOf(text, i) * GlyphH + q[2]) * scale>>, scale)
                  : q \in Ink(text[i])} : i \in 1..Len(text)}
\* Half of what is left beside the text, in unsigned numbers.
HalfLeft(room, size) == IF size > room THEN Far ELSE (room - size) \div 2
FirstLine(text) == Cardinality({i \in 1..Len(text) : LineOf(text, i) = 0 /\ text[i] # "nl"})
DrawTextIn(v, r, text, scale, format) ==
  LET size == MeasureText(text, scale)
      x == r.x + CASE format.across = "centre" -> HalfLeft(r.w, size.w)
                   [] format.across = "right" -> r.w - size.w
                   [] OTHER -> 0
      y == r.y + CASE format.down = "centre" -> HalfLeft(r.h, size.h)
                   [] format.down = "bottom" -> r.h - size.h
                   [] OTHER -> 0
      in == [v EXCEPT !.clip = Offset(r, v.at), !.has = TRUE]
      room == r.w \div (GlyphW * scale)
      cut == SubSeq(text, 1, Larger(room - 3, 0)) \o <<".", ".", ".">>
  IN IF IsEmpty(r) THEN {}
     ELSE DrawText(in, x, y, IF format.ellipsis /\ room > 0 /\ FirstLine(text) > room THEN cut ELSE text, scale)

-----------------------------------------------------------------------------
\* Images: where one goes in its destination, and which of its pixels where.
\* A scale is a fraction of One, and rounded down: an image that does not divide its
\* destination is drawn one pixel short.
ComputeTargetRect(dest, w, h, mode) ==
  LET sx == (dest.w * One) \div w
      sy == (dest.h * One) \div h
      s == Larger(1, IF mode = "Fit" THEN Smaller(sx, sy) ELSE Larger(sx, sy))
      tw == Larger(1, (w * s) \div One)
      th == Larger(1, (h * s) \div One)
      Centred(a, b) == Rect(dest.x + (IF dest.w > a THEN (dest.w - a) \div 2 ELSE 0),
                            dest.y + (IF dest.h > b THEN (dest.h - b) \div 2 ELSE 0), a, b)
  IN CASE mode \in {"Stretch", "Tile"} -> dest
       [] mode = "Original" -> Rect(dest.x, dest.y, Smaller(w, dest.w), Smaller(h, dest.h))
       [] mode = "Center" -> Centred(w, h)
       [] mode = "Fill" -> dest
       [] mode = "Fit" -> Centred(Smaller(tw, dest.w), Smaller(th, dest.h))
\* The pixel of the image each point of the target shows.
Nearest(t, w, h) == [p \in Points(t) |-> <<((p[1] - t.x) * w) \div t.w, ((p[2] - t.y) * h) \div t.h>>]
\* The writes of blitImage, as the pixels of the image they take.
BlitImage(v, dest, w, h, mode) ==
  LET Seen(f) == [p \in {q \in DOMAIN f : SetPixel(v, q) # {}} |-> f[p]]
      tile == [p \in (0..((dest.w + w - 1) \div w) * w - 1) \X (0..((dest.h + h - 1) \div h) * h - 1)
                 |-> <<p[1] % w, p[2] % h>>]
  IN CASE IsEmpty(dest) -> Nothing
       [] ~IsEmpty(dest) /\ mode = "Tile" ->
            Seen([p \in {<<q[1] + dest.x, q[2] + dest.y>> : q \in DOMAIN tile} |-> tile[p[1] - dest.x, p[2] - dest.y]])
       [] OTHER -> Seen(Nearest(ComputeTargetRect(dest, w, h, mode), w, h))
-----------------------------------------------------------------------------
\* What each primitive should have written.
Visible(v) == {p \in Points(Surface) : InClip(v, p)}
Seen(v, shape) == {p \in Visible(v) : <<p[1] - v.at[1], p[2] - v.at[2]>> \in shape}

\* The operations on rectangles are those on their sets of points.
RectsAgree(rects) ==
  \A r, o \in rects :
    /\ Points(Intersection(r, o)) = Points(r) \cap Points(o)
    /\ ~IsEmpty(r) /\ ~IsEmpty(o) =>
         /\ Intersects(r, o) <=> Points(r) \cap Points(o) # {}
         /\ ContainsRect(r, o) <=> Points(o) \subseteq Points(r)
         /\ \A u \in {United(r, o)} :
              /\ ContainsRect(u, r) /\ ContainsRect(u, o)
              /\ u.x \in {r.x, o.x} /\ Right(u) \in {Right(r), Right(o)}
              /\ u.y \in {r.y, o.y} /\ Bottom(u) \in {Bottom(r), Bottom(o)}

\* Lines, filled rectangles and frames are written exactly where they can be seen: a
\* one-off in a clamp either loses an edge or writes past the surface.
ShapesAgree(rects, views) ==
  \A r \in rects, v \in views :
    /\ HLine(v, r.x, r.y, r.w) = Seen(v, Points([r EXCEPT !.h = 1]))
    /\ VLine(v, r.x, r.y, r.h) = Seen(v, Points([r EXCEPT !.w = 1]))
    /\ \A n \in 1..2 : DrawRect(v, r, n) = Seen(v, Points(r) \ Points(Inset(r, n)))
    /\ DOMAIN FillGradientV(v, r, 0, Full) = Seen(v, Points(r))
    /\ DOMAIN FillGradientH(v, r, 0, Full) = Seen(v, Points(r))
    /\ \A s \in {"solid", "V", "H"} :
         s = "solid" \/ v.at = <<0, 0>> =>
           DOMAIN FillRect(v, r, [style |-> s, from |-> 0, to |-> Full]) = Seen(v, Points(r))

\* In a raised frame the right and bottom edges are dark, corners included; a sunken one
\* is its opposite; an etched one is a sunken ring around a raised one.
BordersAgree(rects, views) ==
  \A r \in rects, v \in views :
    LET Ring(i) == Points(Inset(r, i)) \ Points(Inset(r, i + 1))
        Dark(i, p) == p[1] = Right(Inset(r, i)) - 1 \/ p[2] = Bottom(Inset(r, i)) - 1
        Back(p) == <<p[1] - v.at[1], p[2] - v.at[2]>>
        Frame(n, opposite) ==
          [p \in Seen(v, UNION {Ring(i) : i \in 0..n - 1}) |->
             LET i == CHOOSE j \in 0..n - 1 : Back(p) \in Ring(j)
             IN IF Dark(i, Back(p)) = (i \in opposite) THEN "light" ELSE "dark"]
    IN /\ RaisedBorder(v, r, "light", "dark", 2) = Frame(2, {})
       /\ SunkenBorder(v, r, "light", "dark", 2) = Frame(2, {0, 1})
       /\ EtchedBorder(v, r, "light", "dark") = Frame(2, {0})

\* A line reaches its end, one pixel at a time and never further than half a pixel away.
LinesAgree(points) ==
  \A a, b \in points :
    \A l \in {LinePoints(a, b)} :
      LET n == Larger(Abs(b[1] - a[1]), Abs(b[2] - a[2]))
      IN /\ l[0] = a /\ l[n] = b
         /\ \A i \in 0..n :
              2 * Abs((b[1] - a[1]) * (l[i][2] - a[2]) - (b[2] - a[2]) * (l[i][1] - a[1])) <= n
         /\ \A i \in 1..n : l[i] # l[i - 1] /\ Abs(l[i][1] - l[i-1][1]) <= 1 /\ Abs(l[i][2] - l[i-1][2]) <= 1

\* A gradient starts and ends with its colours, is monotone, and each step is the nearest
\* whole value; blending stays between the two colours and never less opaque than either.
ColoursAgree(values) ==
  /\ \A from, to \in values, n \in 1..4 :
       /\ GradientChannel(from, to, 0, n) = from /\ GradientChannel(from, to, n, n) = to
       /\ \A i \in 0..n : 2 * Abs((GradientChannel(from, to, i, n) - from) * n - (to - from) * i) <= n
       /\ \A i \in 1..n : (GradientChannel(from, to, i, n) - GradientChannel(from, to, i - 1, n)) * (to - from) >= 0
  /\ \A sa, sc, da, dc \in values :
       \A b \in {Blend(Colour(sa, sc), Colour(da, dc))} :
         /\ b.c >= Smaller(sc, dc) /\ b.c <= Larger(sc, dc)
         /\ b.a >= Smaller(sa, da) /\ b.a <= Full
         /\ da = Full => b.a = Full

\* Text keeps to its rectangle, and is complete and inside it when it fits, wherever it
\* is aligned; with an ellipsis the characters before the dots are those of the text.
TextAgrees(texts, rects, views) ==
  \A t \in texts, r \in rects, v \in views, scale \in 1..2 :
    LET size == MeasureText(t, scale)
        fits == size.w <= r.w /\ size.h <= r.h
        Plain(x, y) == DrawText([v EXCEPT !.has = FALSE], x, y, t, scale)
        Formats == [across : {"left", "centre", "right"}, down : {"top", "centre", "bottom"}, ellipsis : BOOLEAN]
    IN \A f \in Formats :
         \A ink \in {DrawTextIn(v, r, t, scale, f)} :
           /\ ink \subseteq Seen([v EXCEPT !.has = FALSE], Points(r))
           /\ fits /\ f.across = "left" /\ f.down = "top" => ink = Plain(r.x, r.y)
           /\ fits /\ f.across = "right" /\ f.down = "bottom" => ink = Plain(Right(r) - size.w, Bottom(r) - size.h)
           /\ fits /\ f.across = "centre" /\ f.down = "centre" =>
                ink = Plain(r.x + (r.w - size.w) \div 2, r.y + (r.h - size.h) \div 2)

\* An image takes its pixels from inside itself, keeps to its destination unless it is
\* centred, and fills it when stretched, filled or tiled; a fitted one keeps its shape to
\* within a pixel.
ImagesAgree(rects, views, sizes) ==
  \A r \in rects, v \in views, w, h \in sizes :
    ~IsEmpty(r) =>
      /\ \A mode \in {"Stretch", "Tile", "Original", "Center", "Fill", "Fit"} :
           \A b \in {BlitImage(v, r, w, h, mode)} :
             /\ \A p \in DOMAIN b : b[p][1] \in 0..w - 1 /\ b[p][2] \in 0..h - 1
             /\ mode \notin {"Center", "Tile"} => DOMAIN b \subseteq Points(r)
             /\ mode \in {"Stretch", "Fill", "Tile"} =>
                  \A p \in Points(r) : SetPixel(v, p) # {} => p \in DOMAIN b
      /\ \A t \in {ComputeTargetRect(r, w, h, "Fit")} :
           /\ ContainsRect(r, t) /\ ~IsEmpty(t)
           /\ t.w >= r.w - 1 \/ t.h >= r.h - 1
           /\ Abs(t.w * h - t.h * w) <= 2 * Larger(w, h)
=============================================================================
