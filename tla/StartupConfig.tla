--------------------------- MODULE StartupConfig ---------------------------
(***************************************************************************)
(* /startup.cfg: what its lines set, and the saving of the transcript at   *)
(* boot that they may ask for.  A character that separates is a symbol     *)
(* (" ", "\n", "\r", "=", "#", ";", "/"), and so is a whole key or value;  *)
(* upper and lower case are one symbol.  "1" stands for every way to say   *)
(* yes, "0" for every way to say no.                                       *)
(***************************************************************************)
EXTENDS Naturals, Sequences, FiniteSets

CONSTANT MaxLine     \* symbols of a line that are kept, sizeof(lineBuffer) - 1

Modes == {"DESKTOP", "TERMINAL", "SAFE", "RECOVERY", "INSTALLER", "NETWORK"}
Defaults == [mode |-> "DESKTOP", sc |-> "BYPASS", ide |-> FALSE, save |-> <<>>, off |-> FALSE, done |-> FALSE]

Lowest(S) == CHOOSE x \in S : \A y \in S : x <= y
Highest(S) == CHOOSE x \in S : \A y \in S : x >= y
TrimWhitespace(s) ==
  LET ink == {i \in DOMAIN s : s[i] # " "} IN IF ink = {} THEN <<>> ELSE SubSeq(s, Lowest(ink), Highest(ink))
CommentAt(s, i) == s[i] \in {"#", ";"} \/ (s[i] = "/" /\ i < Len(s) /\ s[i + 1] = "/")
StripInlineComment(s) ==
  LET from == {i \in DOMAIN s : CommentAt(s, i)}
  IN TrimWhitespace(IF from = {} THEN s ELSE SubSeq(s, 1, Lowest(from) - 1))

ParseMode(v) == IF Len(v) = 1 /\ v[1] \in Modes THEN v[1] ELSE "DESKTOP"
ParseBool(v, default) == IF v = <<"1">> THEN TRUE ELSE IF v = <<"0">> THEN FALSE ELSE default
ParseScMode(v) == IF v = <<"ENFORCE">> THEN "ENFORCE" ELSE "BYPASS"

Set(c, key, v) ==
  CASE key = <<"MODE">> -> [c EXCEPT !.mode = ParseMode(v)]
    [] key = <<"SC_MODE">> -> [c EXCEPT !.sc = ParseScMode(v)]
    [] key = <<"SC_BYPASS">> -> [c EXCEPT !.sc = IF ParseBool(v, TRUE) THEN "BYPASS" ELSE "ENFORCE"]
    [] key = <<"IDE_SHARED">> -> [c EXCEPT !.ide = ParseBool(v, FALSE)]
    [] key = <<"SAVETERM">> -> [c EXCEPT !.save = v, !.done = FALSE]
    [] key = <<"POWEROFF_AFTER_SAVETERM">> -> [c EXCEPT !.off = ParseBool(v, FALSE)]
    [] OTHER -> c

\* The first '=' separates the key from the value and, in a line that has none at
\* all, the first blank does.
Delimiters(s) ==
  LET equals == {i \in DOMAIN s : s[i] = "="} IN IF equals # {} THEN equals ELSE {i \in DOMAIN s : s[i] = " "}
CommentLine(s) == s[1] = "#" \/ (s[1] = "/" /\ Len(s) > 1 /\ s[2] = "/")
Assigned(c, s, at) ==
  LET key == TrimWhitespace(SubSeq(s, 1, at - 1))
      value == StripInlineComment(TrimWhitespace(SubSeq(s, at + 1, Len(s))))
  IN IF key = <<>> \/ value = <<>> THEN c ELSE Set(c, key, value)
HandleLine(c, line) ==
  LET s == TrimWhitespace(line)
  IN IF s = <<>> \/ CommentLine(s) \/ Delimiters(s) = {} THEN c ELSE Assigned(c, s, Lowest(Delimiters(s)))

\* A carriage return counts nowhere, not even inside a word; what a line has beyond
\* MaxLine is dropped up to its end.
ReadChar(r, ch) ==
  CASE ch = "\r" -> r
    [] ch = "\n" -> [line |-> <<>>, c |-> HandleLine(r.c, r.line)]
    [] OTHER -> IF Len(r.line) < MaxLine THEN [r EXCEPT !.line = Append(@, ch)] ELSE r
ReadAll(c, text) ==
  LET r[i \in 0..Len(text)] == IF i = 0 THEN [line |-> <<>>, c |-> c] ELSE ReadChar(r[i - 1], text[i])
  IN HandleLine(r[Len(text)].c, r[Len(text)].line)
\* Without the file only the mode is reset.
LoadFromVfs(c, found, text) == IF found THEN ReadAll(c, text) ELSE [c EXCEPT !.mode = "DESKTOP"]

\* The command that is run, if any, and whether the power is to go off after it.
BootSaveTermOnce(c, mounted) ==
  IF c.done \/ c.save \in {<<>>, <<"0">>} THEN [c |-> c, run |-> <<>>, off |-> FALSE]
  ELSE [c |-> [c EXCEPT !.done = TRUE],
        run |-> IF ~mounted THEN <<>> ELSE <<"saveterm">> \o (IF c.save = <<"1">> THEN <<>> ELSE c.save),
        off |-> mounted /\ c.off]

-----------------------------------------------------------------------------
\* A setting as a person would write it: key, value, separator and comment.
Separators == {<<"=">>, <<" ", "=", " ">>, <<" ">>}
Comments == {<<>>, <<" ", "#", "MODE">>, <<"/", "/", " ", "SAFE">>, <<" ", ";">>}
Written(s) == <<" ", s.key>> \o s.by \o <<s.value>> \o s.comment
\* Lines that are to set nothing.
Idle == {<<>>, <<" ">>, <<"#", "MODE", "=", "SAFE">>, <<" ", "/", "/", "MODE", " ", "SAFE">>, <<"MODE">>, <<"=", "SAFE">>,
         <<"MODE", "=">>, <<"MODE", "=", "#", "SAFE">>, <<";", "MODE", "=", "SAFE">>, <<"MODE", "MODE", "=", "SAFE">>}
Joined(lines, eol) ==
  LET f[i \in 0..Len(lines)] == IF i = 0 THEN <<>> ELSE f[i - 1] \o (IF i = 1 THEN <<>> ELSE eol) \o lines[i] IN f[Len(lines)]

\* The last setting of each key is in force, idle lines and the way of writing
\* notwithstanding; what is not set keeps its value.
ValueOf(settings, keys, default) ==
  LET at == {i \in DOMAIN settings : settings[i].key \in keys}
  IN IF at = {} THEN default ELSE <<settings[Highest(at)].key, settings[Highest(at)].value>>
Meaning(settings, c) ==
  LET Last(keys) == ValueOf(settings, keys, <<"none", "none">>)
      Is(keys, yes, default) == IF Last(keys)[1] = "none" THEN default ELSE Last(keys) \in yes
      mode == Last({"MODE"})  save == Last({"SAVETERM"})
  IN [mode |-> IF mode[1] = "none" THEN c.mode ELSE IF mode[2] \in Modes THEN mode[2] ELSE "DESKTOP",
      sc |-> IF Is({"SC_MODE", "SC_BYPASS"}, {<<"SC_MODE", "ENFORCE">>, <<"SC_BYPASS", "0">>}, c.sc = "ENFORCE")
             THEN "ENFORCE" ELSE "BYPASS",
      ide |-> Is({"IDE_SHARED"}, {<<"IDE_SHARED", "1">>}, c.ide),
      save |-> IF save[1] = "none" THEN c.save ELSE <<save[2]>>,
      off |-> Is({"POWEROFF_AFTER_SAVETERM"}, {<<"POWEROFF_AFTER_SAVETERM", "1">>}, c.off),
      done |-> c.done /\ save[1] = "none"]

ConfigAgrees(keys, values) ==
  LET Plain == {[key |-> k, value |-> v, by |-> <<"=">>, comment |-> <<>>] : k \in keys, v \in values}
      Any == {[key |-> k, value |-> v, by |-> b, comment |-> r] : k \in keys, v \in values, b \in Separators, r \in Comments}
  IN /\ \A s \in Any, idle \in Idle, eol \in {<<"\n">>, <<"\r", "\n">>}, before \in BOOLEAN :
          LET text == IF before THEN <<idle, Written(s)>> ELSE <<Written(s), idle>>
          IN ReadAll(Defaults, Joined(text, eol)) = Meaning(<<s>>, Defaults)
     /\ \A a, b, d \in Plain :
          ReadAll(Defaults, Joined(<<Written(a), Written(b), Written(d)>>, <<"\n">>)) = Meaning(<<a, b, d>>, Defaults)

\* A line that is too long does not spill into another, whatever its end says, and
\* what does not fit into the buffer is not read.
LongLinesEnd(keys, values) ==
  \A k \in keys, v \in values, junk \in 1..MaxLine, first \in {"#", " "} :
    LET long == [i \in 1..junk |-> IF i = 1 THEN first ELSE " "] \o <<k, "=", v>>
        set == IF first = "#" \/ junk + 3 > MaxLine THEN <<>> ELSE <<[key |-> k, value |-> v]>>
    IN ReadAll(Defaults, Joined(<<long, <<"IDE_SHARED", "=", "1">>>>, <<"\n">>))
         = Meaning(Append(set, [key |-> "IDE_SHARED", value |-> "1"]), Defaults)

\* A comment with '=' after a setting that has none takes the setting with it.
CommentTakesSetting ==
  ReadAll(Defaults, <<"MODE", " ", "SAFE", " ", "#", "x", "=", "x">>) = Defaults

\* At most one command is run for a setting of SAVETERM, and none without the share.
SavedOnce(values) ==
  \A v \in values, off \in {"0", "1"}, mounted \in [1..2 -> BOOLEAN] :
    LET c == ReadAll(Defaults, <<"SAVETERM", "=", v, "\n", "POWEROFF_AFTER_SAVETERM", "=", off>>)
        first == BootSaveTermOnce(c, mounted[1])
        second == BootSaveTermOnce(first.c, mounted[2])
    IN /\ second.run = <<>> /\ ~second.off
       /\ first.run # <<>> <=> mounted[1] /\ v # "0"
       /\ first.off => off = "1" /\ first.run # <<>>
       /\ BootSaveTermOnce(ReadAll(first.c, <<"SAVETERM", "=", v>>), TRUE).run # <<>> <=> v # "0"
=============================================================================
