------------------------------- MODULE Style -------------------------------
(***************************************************************************)
(* How a window is painted: QW::SurfaceBackend and QW::StyleRenderer over  *)
(* the primitives of Painter, the controls that paint themselves with      *)
(* them, and Window::paint, which paints all of it again for every change. *)
(* An operator takes the surface as it was (a colour for every pixel) and  *)
(* gives the surface as it is afterwards.                                  *)
(***************************************************************************)
EXTENDS Painter

None == Colour(0, 0)
Write(under, paint) == [p \in DOMAIN under |-> IF p \in DOMAIN paint THEN paint[p] ELSE under[p]]
Solid(c) == [style |-> "solid", from |-> c, to |-> c]
Fill(v, under, r, c) == Write(under, FillRect(v, r, Solid(c)))
Ink2(v, under, ps, c) == Write(under, Coloured(ps, c))

\* QC::Color, with factors in percent
Lighter(c, n) == Colour(c.a, c.c + ((Full - c.c) * n) \div 100)
Darker(c, n) == Colour(c.a, (c.c * n) \div 100)
WithAlpha(c, a) == Colour(a, c.c)

-----------------------------------------------------------------------------
\* SurfaceBackend
BackendRect(v, under, r, fill, stroke, n) ==
  LET filled == IF fill.a > 0 /\ ~IsEmpty(r) THEN Fill(v, under, r, fill) ELSE under
  IN IF stroke.a > 0 /\ n > 0 THEN Ink2(v, filled, DrawRect(v, r, n), stroke) ELSE filled
\* The colours of a gradient are written with their alpha, never blended.
BackendGradient(v, under, r, from, to) ==
  LET alpha == FillGradientV(v, r, from.a, to.a)  channel == FillGradientV(v, r, from.c, to.c)
  IN Write(under, [p \in DOMAIN alpha |-> Colour(alpha[p], channel[p])])
FillRectAlpha(under, r, c) ==
  [p \in DOMAIN under |-> IF Contains(r, p) /\ c.a > 0 THEN Blend(c, under[p]) ELSE under[p]]
BackendShadow(under, r, offset, c) == FillRectAlpha(under, Offset(r, offset), c)

-----------------------------------------------------------------------------
\* StyleRenderer.  m holds the metrics, b the colours of a button's role.
InsetRect(r, n) == Rect(r.x + n, r.y + n, Larger(r.w - 2 * n, 0), Larger(r.h - 2 * n, 0))
ExpandRect(r, n) == Rect(r.x - n, r.y - n, r.w + 2 * n, r.h + 2 * n)
Moved(r, state, m) ==
  Offset(r, CASE state = "Hovered" -> <<0, -m.lift>> [] state = "Pressed" -> <<0, m.depth>> [] OTHER -> <<0, 0>>)
FocusRing(v, under, r, b, m) ==
  IF b.focus.a > 0 /\ m.ring > 0 THEN BackendRect(v, under, ExpandRect(r, m.ring), None, b.focus, m.ring) ELSE under
\* The offset of the shadow is added twice: here, and by drawShadow.
ButtonShadow(under, r, state, b, m) ==
  IF state # "Disabled" /\ b.casts /\ b.glow.a > 0 /\ m.softness > 0
  THEN BackendShadow(under, Offset(r, m.shadow), m.shadow, b.glow) ELSE under
Overlay(state, b) == IF state \in {"Hovered", "Pressed"} THEN b.overlay[state] ELSE None
Outline(state, b) ==
  CASE state = "Disabled" -> None
    [] state \in {"Hovered", "Pressed"} -> IF b.outline[state].a > 0 THEN b.outline[state] ELSE b.outline["Normal"]
    [] OTHER -> b.outline["Normal"]
Gloss(v, under, r, state, b, width) ==
  LET inner == InsetRect(r, IF width > 0 THEN width ELSE 1)
      half == inner.h \div 2
      top == IF half < 2 THEN inner.h ELSE half
      fill == b.fill[state]
      down == state = "Pressed"
      boost == IF b.glass THEN (IF down THEN 25 ELSE 40) ELSE (IF down THEN 8 ELSE 18)
      alpha == IF b.glass THEN (IF down THEN 140 ELSE 190) ELSE (IF down THEN 70 ELSE 110)
      shade == IF b.glass THEN 150 ELSE 110
      glossed == BackendGradient(v, under, [inner EXCEPT !.h = top],
                                 WithAlpha(Lighter(fill, boost), alpha), WithAlpha(Lighter(fill, 2), 0))
  IN IF state = "Disabled" \/ inner.w = 0 \/ inner.h <= 1 THEN under
     ELSE IF inner.h = top THEN glossed
     ELSE BackendGradient(v, glossed, Rect(inner.x, inner.y + top, inner.w, inner.h - top), WithAlpha(fill, 0),
                          WithAlpha(Darker(fill, IF b.glass THEN 35 ELSE 18),
                                    IF down THEN (shade * 4) \div 5 ELSE shade))
ButtonText(v, under, r, text, state, b, m) ==
  LET size == MeasureText(text, m.scale)
      sink == CASE state = "Hovered" -> -m.hoverText [] state = "Pressed" -> m.pressText [] OTHER -> 0
  IN Ink2(v, under, DrawText(v, r.x + Quotient(r.w - size.w, 2), r.y + Quotient(r.h - size.h, 2) + sink, text, m.scale),
          IF state = "Disabled" THEN b.textDisabled ELSE b.text)
\* Focus ring, shadow, the shape with its border, overlay, outline, gloss and text.
DrawButton(v, under, bounds, text, state, focused, b, m) ==
  LET r == Moved(bounds, state, m)
      width == IF b.width > 0 THEN b.width ELSE m.width
      ringed == IF focused THEN FocusRing(v, under, r, b, m) ELSE under
      shadowed == ButtonShadow(ringed, r, state, b, m)
      shaped == BackendRect(v, shadowed, r, b.fill[state], IF state = "Disabled" THEN b.borderDisabled ELSE b.border, width)
      overlaid == BackendRect(v, shaped, r, Overlay(state, b), None, 0)
      outlined == BackendRect(v, overlaid, r, None, Outline(state, b), 1)
  IN ButtonText(v, Gloss(v, outlined, r, state, b, width), r, text, state, b, m)

PanelBorder(v, under, r, style, c, n) ==
  CASE style = "None" \/ n = 0 -> under
    [] style = "Flat" /\ n > 0 -> BackendRect(v, under, r, None, c, n)
    [] style = "Raised" /\ n > 0 -> Write(under, RaisedBorder(v, r, Lighter(c, 35), Darker(c, 40), n))
    [] style = "Sunken" /\ n > 0 -> Write(under, SunkenBorder(v, r, Lighter(c, 35), Darker(c, 40), n))
    [] style = "Etched" /\ n > 0 -> Write(under, EtchedBorder(v, r, Lighter(c, 35), Darker(c, 40)))
DrawPanel(v, under, r, fill, style, c, width, m) ==
  PanelBorder(v, BackendRect(v, under, r, fill, None, 0), r, style, c, IF width > 0 THEN width ELSE m.width)
DrawWindowChrome(v, under, w, m) ==
  LET r == Surface
      backed == IF w.top # w.bottom THEN BackendGradient(v, under, r, w.top, w.bottom)
                ELSE BackendRect(v, under, r, w.top, None, 0)
  IN IF w.desktop THEN backed ELSE BackendRect(v, backed, r, None, w.border, m.width)

-----------------------------------------------------------------------------
\* The controls
PanelFill(c) == IF c.own THEN c.fill
                ELSE IF c.style \in {"Sunken", "Etched"} THEN Darker(c.fill, 10) ELSE c.fill
PaintPanel(v, under, c, m) ==
  IF c.framed THEN DrawPanel(v, under, c.at, PanelFill(c), c.style, c.line, IF c.width = 0 THEN 1 ELSE c.width, m)
  ELSE Fill(v, under, c.at, IF c.own THEN c.fill ELSE None)
PaintButton(v, under, c, m) ==
  LET state == CASE ~c.enabled -> "Disabled" [] c.enabled /\ c.pressed -> "Pressed"
                 [] c.enabled /\ ~c.pressed /\ c.hovered -> "Hovered" [] OTHER -> "Normal"
  IN DrawButton(v, under, c.at, c.text, state, c.focused, c.role, m)
\* A centred label begins in the middle of its rectangle.
PaintLabel(v, under, c, m) ==
  LET backed == IF c.transparent THEN under ELSE Fill(v, under, c.at, c.fill)
      x == c.at.x + CASE c.across = "centre" -> c.at.w \div 2 [] c.across = "right" -> c.at.w [] OTHER -> 0
      y == c.at.y + CASE c.down = "centre" -> c.at.h \div 2 [] c.down = "bottom" -> c.at.h [] OTHER -> 0
  IN Ink2(v, backed, DrawText(v, x, y, c.text, m.scale), c.line)
PaintScrollBar(v, under, c) ==
  LET arrow(y) == Rect(c.at.x, y, c.at.w, c.at.w)
      up == arrow(c.at.y)  down == arrow(Bottom(c.at) - c.at.w)
      track == Rect(c.at.x, c.at.y + c.at.w, c.at.w, c.at.h - 2 * c.at.w)
      thumb == Rect(track.x, track.y + c.thumb, track.w, c.size)
      Framed(s, r, fill) == Ink2(v, Fill(v, s, r, fill), DrawRect(v, r, 1), c.line)
      tracked == Fill(v, Fill(v, under, c.at, c.fill), track, c.line)
  IN Ink2(v, Framed(Framed(Framed(tracked, up, c.fill), down, c.fill), thumb, c.line), DrawRect(v, c.at, 1), c.line)
PaintImage(v, under, c) ==
  LET b == BlitImage(v, c.at, c.size, c.size, c.mode)
  IN Write(under, [p \in DOMAIN b |-> Blend(c.fill, under[p])])
Paint(v, under, c, m) ==
  CASE ~c.visible -> under
    [] c.visible /\ c.kind = "panel" -> PaintPanel(v, under, c, m)
    [] c.visible /\ c.kind = "button" -> PaintButton(v, under, c, m)
    [] c.visible /\ c.kind = "label" -> PaintLabel(v, under, c, m)
    [] c.visible /\ c.kind = "scroll" -> PaintScrollBar(v, under, c)
    [] c.visible /\ c.kind = "image" -> PaintImage(v, under, c)
PaintChildren(v, under, children, m) ==
  LET after[i \in 0..Len(children)] == IF i = 0 THEN under ELSE Paint(v, after[i - 1], children[i], m)
  IN after[Len(children)]
\* Window::paint
WindowPaint(under, w, m) ==
  LET v == [clip |-> Surface, has |-> FALSE, at |-> <<0, 0>>]
  IN PaintChildren(v, DrawWindowChrome(v, under, w, m), w.children, m)

-----------------------------------------------------------------------------
\* Nothing of an earlier frame shines through, translucent layers, shadows and images
\* included: what a window looks like is a function of its controls, so that painting all
\* of it is enough after any change.
PaintForgets(windows, surfaces, m) ==
  \A w \in windows : \A s, t \in surfaces : WindowPaint(s, w, m) = WindowPaint(t, w, m)

\* A button leaves its rectangle by no more than its ring, its lift and its shadow, so that
\* neighbours further away keep their pixels whatever its state.
ButtonKeepsTo(bounds, roles, under, m) ==
  LET v == [clip |-> Surface, has |-> FALSE, at |-> <<0, 0>>]
  IN \A r \in bounds, b \in roles, state \in {"Normal", "Hovered", "Pressed", "Disabled"}, focused \in BOOLEAN :
       \A s \in {DrawButton(v, under, r, <<>>, state, focused, b, m)} :
         \A p \in DOMAIN under :
           s[p] # under[p] =>
             \/ Contains(ExpandRect(Moved(r, state, m), IF focused THEN m.ring ELSE 0), p)
             \/ b.casts /\ Contains(Offset(Moved(r, state, m), <<2 * m.shadow[1], 2 * m.shadow[2]>>), p)
=============================================================================
