------------------------------- MODULE Theme -------------------------------
(***************************************************************************)
(* The desktop's style: the theme of desktop.json and its overrides        *)
(* (QDDesktop, QDTheme), the colours of the desktop, and the style every   *)
(* control is painted with.  Which value ends up where is modelled, not    *)
(* the arithmetic on it: a value is <<where it comes from, field>> with    *)
(* the changes made to it and, apart from them, its opacity.               *)
(***************************************************************************)
EXTENDS Integers, Sequences, FiniteSets, TLC
LOCAL L == INSTANCE DesktopLayout

Value(from, field) == [rgb |-> <<from, field>>, a |-> <<from, field>>]
Changed(v, how) == [v EXCEPT !.rgb = Append(@, how)]
WithAlpha(v, w) == [v EXCEPT !.a = w.a]
Faint(v, how) == [v EXCEPT !.a = <<"constant", how>>]
Constant(field) == Value("constant", field)
Zero == Constant("zero")
Nothing == [f \in {} |-> 0]

\* "#RRGGBB" or "#AARRGGBB", as <<a, r, g, b>>.
ParseColorString(s) ==
  LET Pair(i) == L!HexDigit[s[i]] * 16 + L!HexDigit[s[i + 1]]
  IN CASE Len(s) \notin {7, 9} \/ s[1] # "#" \/ \E i \in 2..Len(s) : s[i] \notin DOMAIN L!HexDigit -> {}
       [] Len(s) = 7 -> {<<255, Pair(2), Pair(4), Pair(6)>>}
       [] OTHER -> {<<Pair(2), Pair(4), Pair(6), Pair(8)>>}

-----------------------------------------------------------------------------
\* What a theme file may set; the rest is the built-in Vista Glass.
ThemeFields ==
  {"windowBackground", "buttonNormal", "buttonHover", "buttonPressed", "textPrimary", "textSecondary", "border",
   "accentPrimary", "accentSecondary", "borderRadius", "borderWidth", "borderColor", "shadowX", "shadowY", "shadowBlur",
   "shadowColor", "glowRadius", "glowIntensity", "glowColor", "windowOpacity", "panelOpacity", "family", "size"}
VistaDefaults == [f \in ThemeFields |-> Value("vista", f)]
LoadFromJson(keys) == keys @@ VistaDefaults
\* The places a theme is looked for, in order; each may be missing or fail to load.
Sources(v) ==
  CASE v.t = "text" -> <<v.file>>
    [] v.t = "object" -> <<v.file, v.path, v.definition, v.inline>>
    [] OTHER -> <<>>
LoadThemeDefinition(v) ==
  LET loads == {i \in DOMAIN Sources(v) : Sources(v)[i].loads}
  IN IF loads = {} THEN {} ELSE {LoadFromJson(Sources(v)[CHOOSE i \in loads : \A j \in loads : i <= j].keys)}

-----------------------------------------------------------------------------
\* Overrides map slots, pairs of a group and a field, to values.
Slots(group, f) == [s \in {<<group, x>> : x \in DOMAIN f} |-> f[s[2]]]
ApplyLoadedTheme(t) ==
  Slots("palette", [accent |-> t["accentPrimary"], accentLight |-> t["accentSecondary"],
                    accentDark |-> Changed(t["accentPrimary"], "darker"), panel |-> t["windowBackground"],
                    panelBorder |-> t["border"], text |-> t["textPrimary"], textSecondary |-> t["textSecondary"]])
    @@ Slots("metrics", [cornerRadius |-> t["borderRadius"], buttonCornerRadius |-> t["borderRadius"], borderWidth |-> t["borderWidth"]])
    @@ Slots("effects", [borderColor |-> t["borderColor"]])
    @@ Slots("shadow", [offsetX |-> t["shadowX"], offsetY |-> t["shadowY"], blur |-> t["shadowBlur"], color |-> t["shadowColor"]])
    @@ Slots("glow", [radius |-> t["glowRadius"], intensity |-> t["glowIntensity"], color |-> t["glowColor"]])
    @@ Slots("transparency", [windowOpacity |-> t["windowOpacity"], panelOpacity |-> t["panelOpacity"]])
    @@ Slots("Default", [fillNormal |-> t["buttonNormal"], fillHover |-> t["buttonHover"], fillPressed |-> t["buttonPressed"],
                         text |-> t["textPrimary"], border |-> t["border"], glass |-> Constant("false")])
    @@ Slots("Sidebar", [fillNormal |-> t["buttonNormal"], fillHover |-> t["buttonHover"], fillPressed |-> t["buttonPressed"],
                         text |-> t["textSecondary"], border |-> t["border"], glass |-> Constant("false")])
    @@ Slots("Accent", [fillNormal |-> t["accentPrimary"], fillHover |-> t["accentSecondary"],
                        fillPressed |-> Changed(t["accentPrimary"], "darker"), text |-> t["textPrimary"],
                        border |-> Changed(t["accentPrimary"], "darker"), glass |-> Constant("true")])
    @@ Slots("font", [family |-> t["family"], size |-> t["size"]])

\* A section for buttons forgets what was set for these roles before it is read; the
\* section for borders is read after the metrics, and its radius is for both.
OverridableButtons == {"Sidebar", "Accent", "Destructive"}
Border(given) ==
  LET To(field, slots) == IF <<"border", field>> \in DOMAIN given THEN [s \in slots |-> given[<<"border", field>>]] ELSE Nothing
  IN To("color", {<<"effects", "borderColor">>}) @@ To("width", {<<"metrics", "borderWidth">>})
       @@ To("radius", {<<"metrics", "cornerRadius">>, <<"metrics", "buttonCornerRadius">>})
ParseThemeOverrides(v) ==
  LET theme == UNION {{ApplyLoadedTheme(t)} : t \in LoadThemeDefinition(v)}
      loaded == IF theme = {} THEN Nothing ELSE CHOOSE o \in theme : TRUE
      kept == {s \in DOMAIN loaded : v.buttons => s[1] \notin OverridableButtons}
      own == {s \in DOMAIN v.given : s[1] # "border"}
  IN IF v.t = "object" THEN Border(v.given) @@ [s \in own |-> v.given[s]] @@ [s \in kept |-> loaded[s]] ELSE loaded
\* A size of the overrides is a byte and not zero; the scale is in tenths of the base size,
\* at least a half and at most four times.
FontSize(n) == IF n < 1 THEN 1 ELSE IF n > 255 THEN 255 ELSE n
TextScale(size) ==
  CASE size = 0 -> 10 [] size \in 1..5 -> 5 [] size > 48 -> 40 [] OTHER -> (size * 10) \div 12

-----------------------------------------------------------------------------
\* What slot s of the overrides o contributes, if it is set.
On(o, group, field, Then(_)) == IF <<group, field>> \in DOMAIN o THEN Then(o[<<group, field>>]) ELSE Nothing
ColorFields ==
  {"bgTop", "bgBottom", "topBarBg", "topBarText", "topBarDivider", "sidebarBg", "sidebarText", "sidebarHover", "sidebarSelected",
   "taskbarBg", "taskbarText", "taskbarActiveWindow", "taskbarHover", "windowBg", "windowBorder", "windowTitleBg",
   "windowTitleText", "windowShadow"}
CurrentColors == [f \in ColorFields |-> Value("ui", f)]
Accent == Value("accent", "color")
ApplyAccent(c) == [sidebarSelected |-> Accent, taskbarActiveWindow |-> Faint(Accent, "half"), windowBorder |-> Accent] @@ c
ApplyThemeToDesktopColors(o, c) ==
  LET d == (IF <<"shadow", "color">> \in DOMAIN o THEN [windowShadow |-> o[<<"shadow", "color">>]]
            ELSE On(o, "shadow", "blur", LAMBDA v : IF v = Zero THEN [windowShadow |-> Faint(c.windowShadow, "none")] ELSE Nothing))
             @@ On(o, "palette", "accentDark", LAMBDA v : [windowTitleBg |-> v])
             @@ On(o, "palette", "accentLight", LAMBDA v :
                     [sidebarHover |-> WithAlpha(v, c.sidebarHover), taskbarHover |-> WithAlpha(v, c.taskbarHover)])
             @@ On(o, "palette", "accent", LAMBDA v :
                     [sidebarSelected |-> v, windowBorder |-> v, taskbarActiveWindow |-> WithAlpha(v, c.taskbarActiveWindow)])
             @@ On(o, "palette", "textSecondary", LAMBDA v : [sidebarText |-> v])
             @@ On(o, "palette", "text", LAMBDA v : [topBarText |-> v, taskbarText |-> v, windowTitleText |-> v])
             @@ On(o, "effects", "borderColor", LAMBDA v : [topBarDivider |-> v, windowBorder |-> v])
             @@ On(o, "palette", "panelBorder", LAMBDA v : [topBarDivider |-> v, windowBorder |-> v])
             @@ On(o, "palette", "panel", LAMBDA v :
                     [topBarBg |-> WithAlpha(v, c.topBarBg), sidebarBg |-> Changed(WithAlpha(v, c.sidebarBg), "darker"),
                      taskbarBg |-> Changed(WithAlpha(v, c.taskbarBg), "darker"), windowBg |-> Changed(v, "lighter"),
                      bgTop |-> Changed(v, "lighter"), bgBottom |-> Changed(v, "darker")])
             @@ c
  IN On(o, "transparency", "panelOpacity", LAMBDA v : [f \in {"topBarBg", "sidebarBg", "taskbarBg"} |-> WithAlpha(d[f], v)])
       @@ On(o, "transparency", "windowOpacity", LAMBDA v : [f \in {"windowBg", "windowTitleBg"} |-> WithAlpha(d[f], v)]) @@ d

-----------------------------------------------------------------------------
\* The style made of the desktop's colours: flat buttons of their own colours, and raised
\* ones of a single colour.  Disabled buttons have the same colours in every theme.
Flat(fill, hover, pressed, text, c) ==
  [fillNormal |-> fill, fillHover |-> hover, fillPressed |-> pressed, text |-> text, border |-> c.topBarDivider,
   glow |-> Constant("transparent"), glass |-> Constant("false"), castsShadow |-> Constant("false"),
   overlayHover |-> Constant("white"), overlayPressed |-> Changed(hover, "overlay"), outline |-> Faint(c.topBarDivider, "outline"),
   focusOutline |-> Faint(Accent, "focus"), fillDisabled |-> Constant("face")]
Raised(base, text, glow, focus) ==
  [fillNormal |-> base, fillHover |-> Changed(base, "lighter"), fillPressed |-> Changed(base, "darker"), text |-> text,
   border |-> Changed(base, "darker"), glow |-> Faint(glow, "glow"), glass |-> Constant("true"), castsShadow |-> Constant("true"),
   overlayHover |-> Constant("white"), overlayPressed |-> Changed(base, "overlay"), outline |-> Changed(base, "darker"),
   focusOutline |-> focus, fillDisabled |-> Constant("face")]
White == Constant("white")
Red == Constant("red")
Buttons(c) ==
  [Default |-> Flat(c.windowBg, Changed(c.windowBg, "lighter"), Changed(c.windowBg, "darker"), c.sidebarText, c),
   Accent |-> Raised(Accent, White, Accent, c.windowBorder),
   Sidebar |-> Flat(c.sidebarBg, c.sidebarHover, Changed(c.sidebarHover, "darker"), c.sidebarText, c),
   SidebarSelected |-> Raised(c.sidebarSelected, White, Accent, Faint(c.sidebarSelected, "focus")),
   Taskbar |-> Flat(c.taskbarBg, c.taskbarHover, Changed(c.taskbarHover, "darker"), c.taskbarText, c),
   TaskbarActive |-> Raised(c.taskbarActiveWindow, c.taskbarText, c.taskbarActiveWindow, c.windowBorder),
   Destructive |-> Raised(Red, White, Red, Faint(Red, "focus"))]
Metrics == [f \in {"windowCornerRadius", "buttonCornerRadius", "borderWidth", "shadowSize", "shadowSoftness", "shadowX", "shadowY",
                   "focusRingWidth", "textScale"} |-> Constant(f)]
MakeVista(c) ==
  [palette |-> [windowBackground |-> c.windowBg, windowBorderActive |-> c.windowBorder, windowBorderInactive |-> Changed(c.windowBorder, "darker"),
                panelBackground |-> c.sidebarBg, buttonFace |-> c.sidebarBg, buttonHover |-> c.sidebarHover,
                buttonPressed |-> Changed(c.sidebarBg, "darker"), buttonBorder |-> c.topBarDivider, controlText |-> c.sidebarText,
                accent |-> Accent, desktopTop |-> c.bgTop, desktopBottom |-> c.bgBottom],
   metrics |-> Metrics, button |-> Buttons(c),
   corner |-> [r \in L!Roles |-> Metrics["buttonCornerRadius"]], width |-> [r \in L!Roles |-> Metrics["borderWidth"]]]

\* The overrides, over the style: a palette's values only where the role has no value of
\* its own, and radius and width for all roles alike.
ThemedPalette(o, p) ==
  LET Borders(v) == [buttonBorder |-> v, windowBorderActive |-> v, windowBorderInactive |-> Changed(v, "darker")]
  IN On(o, "palette", "accent", LAMBDA v : [accent |-> v]) @@ On(o, "palette", "text", LAMBDA v : [controlText |-> v])
       @@ On(o, "effects", "borderColor", Borders) @@ On(o, "palette", "panelBorder", Borders)
       @@ On(o, "palette", "panel", LAMBDA v : [panelBackground |-> v, buttonFace |-> v, buttonHover |-> Changed(v, "lighter"),
                                                buttonPressed |-> Changed(v, "darker")]) @@ p
ThemedMetrics(o, m) ==
  On(o, "metrics", "buttonCornerRadius", LAMBDA v : [buttonCornerRadius |-> v])
    @@ On(o, "metrics", "cornerRadius", LAMBDA v : [windowCornerRadius |-> v, buttonCornerRadius |-> v])
    @@ On(o, "metrics", "borderWidth", LAMBDA v : [borderWidth |-> v]) @@ On(o, "font", "size", LAMBDA v : [textScale |-> v])
    @@ On(o, "shadow", "blur", LAMBDA v : [shadowSize |-> v, shadowSoftness |-> v]) @@ On(o, "shadow", "offsetX", LAMBDA v : [shadowX |-> v])
    @@ On(o, "shadow", "offsetY", LAMBDA v : [shadowY |-> v]) @@ On(o, "glow", "radius", LAMBDA v : [focusRingWidth |-> v]) @@ m
Glowing == {"Accent", "SidebarSelected", "Destructive", "TaskbarActive"}
WithGlow(o, role, b) ==
  LET color == IF <<"glow", "color">> \in DOMAIN o THEN o[<<"glow", "color">>] ELSE b.glow
  IN IF role \notin Glowing THEN b
     ELSE [glow |-> IF <<"glow", "intensity">> \in DOMAIN o THEN WithAlpha(color, o[<<"glow", "intensity">>]) ELSE color]
            @@ On(o, "glow", "radius", LAMBDA v : [castsShadow |-> v]) @@ b
FromPalette(o, role) ==
  CASE role \in {"Default", "Taskbar"} -> On(o, "palette", "text", LAMBDA v : [text |-> v])
    [] role = "Sidebar" -> On(o, "palette", "textSecondary", LAMBDA v : [text |-> v])
    [] role = "Accent" -> On(o, "palette", "accent", LAMBDA v : [fillNormal |-> v])
                            @@ On(o, "palette", "accentLight", LAMBDA v : [fillHover |-> v])
                            @@ On(o, "palette", "accentDark", LAMBDA v : [fillPressed |-> v])
    [] OTHER -> Nothing
Own(o, role) == LET own == {s \in DOMAIN o : s[1] = role} IN [f \in {s[2] : s \in own} |-> o[<<role, f>>]]
Shine(o, role, b) ==
  On(o, role, "shine", LAMBDA v : [glow |-> WithAlpha(b.fillNormal, v), overlayHover |-> WithAlpha(White, v), overlayPressed |-> WithAlpha(b.fillPressed, v)])
ThemedButton(o, role, b) ==
  LET own == [f \in DOMAIN Own(o, role) \ {"shine"} |-> Own(o, role)[f]] @@ FromPalette(o, role) @@ WithGlow(o, role, b)
  IN Shine(o, role, own) @@ own
ApplyThemeOverrides(o, s) ==
  LET m == ThemedMetrics(o, s.metrics)
      Rounded == \E f \in {"cornerRadius", "buttonCornerRadius"} : <<"metrics", f>> \in DOMAIN o
  IN [palette |-> ThemedPalette(o, s.palette), metrics |-> m, button |-> [r \in L!Roles |-> ThemedButton(o, r, s.button[r])],
      corner |-> IF Rounded THEN [r \in L!Roles |-> m["buttonCornerRadius"]] ELSE s.corner,
      width |-> On(o, "metrics", "borderWidth", LAMBDA v : [r \in L!Roles |-> v]) @@ s.width]
\* applyColors, and the style it publishes.
ApplyColors(o) == ApplyThemeToDesktopColors(o, ApplyAccent(CurrentColors))
PublishStyle(o) == ApplyThemeOverrides(o, MakeVista(ApplyColors(o)))

-----------------------------------------------------------------------------
\* Whatever a file says, each value of it is where the file says it is, in spite of all
\* that comes before and after: a button's own values, the radius and the width of every
\* role, the accent.  What the file does not say is the theme's, or else the built-in
\* style's; a theme is the first source that loads, whole, and nothing of another is seen.
Origins(f) == {f[x].rgb[1] : x \in DOMAIN f}
StyleOrigins(s) == Origins(s.palette) \cup Origins(s.metrics) \cup UNION {Origins(s.button[r]) : r \in DOMAIN s.button}
GivenValue(v, group, field, Of(_)) == v.t = "object" /\ <<group, field>> \in DOMAIN v.given => Of(v.given[<<group, field>>])
StyleAgrees(v) ==
  \A o \in {ParseThemeOverrides(v)} : \A s \in {PublishStyle(o)} : \A c \in {ApplyColors(o)} :
    /\ o = Nothing => s = MakeVista(ApplyAccent(CurrentColors)) /\ c = ApplyAccent(CurrentColors)
    /\ \A r \in OverridableButtons, f \in {"fillNormal", "text", "border", "glass"} :
         GivenValue(v, r, f, LAMBDA x : s.button[r][f] = x)
    /\ \A r \in {"Default"} \cup OverridableButtons : GivenValue(v, r, "shine", LAMBDA x : s.button[r].glow.a = x.a)
    /\ GivenValue(v, "metrics", "cornerRadius", LAMBDA x : <<"border", "radius">> \in DOMAIN v.given \/ s.metrics["windowCornerRadius"] = x)
    /\ GivenValue(v, "border", "radius", LAMBDA x : \A r \in L!Roles : s.corner[r] = x)
    /\ GivenValue(v, "border", "color", LAMBDA x : s.palette["windowBorderActive"] = x)
    /\ GivenValue(v, "palette", "accent", LAMBDA x :
         /\ s.palette["accent"] = x /\ c["windowBorder"] = x /\ s.button["SidebarSelected"].fillNormal = x
         /\ s.button["Accent"].fillNormal = x <=>
              <<"Accent", "fillNormal">> \notin DOMAIN v.given /\ (v.buttons \/ LoadThemeDefinition(v) = {}))
    /\ GivenValue(v, "transparency", "panelOpacity", LAMBDA x : c["topBarBg"].a = x.a /\ c["windowBg"].a # x.a)
    /\ Cardinality({s.corner[r] : r \in L!Roles}) = 1 /\ Cardinality({s.width[r] : r \in L!Roles}) = 1
    /\ StyleOrigins(s) \subseteq {"given", "ui", "accent", "constant"} \cup UNION {Origins(t) : t \in LoadThemeDefinition(v)}
    /\ \A t \in LoadThemeDefinition(v) :
         /\ Cardinality(Origins(t) \ {"vista"}) <= 1
         /\ \A i \in DOMAIN Sources(v) : Sources(v)[i].loads /\ (\A j \in 1..i - 1 : ~Sources(v)[j].loads)
                                         => t["textPrimary"] = Sources(v)[i].keys["textPrimary"]
         /\ <<"palette", "text">> \notin DOMAIN v.given \/ v.t = "text" => s.button["Default"].text = t["textPrimary"]
         /\ v.t = "object" /\ v.buttons => s.button["Destructive"].fillNormal \in {Red} \cup {v.given[x] : x \in DOMAIN v.given}
=============================================================================
