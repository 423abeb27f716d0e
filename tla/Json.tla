-------------------------------- MODULE Json --------------------------------
(***************************************************************************)
(* QC::JSON, which reads the desktop's files.  A text is a sequence of     *)
(* characters, of which the model keeps those the parser tells apart: "q"  *)
(* is the double quote and "\\" the backslash, "x" any other character,    *)
(* and the words true, false and null have two letters each.               *)
(* A parsing operator gives whether it succeeded, the position after it,   *)
(* the value it left in its output parameter and the blocks it allocated   *)
(* without freeing them; find, destroy and copyFrom are below.  The second *)
(* half compares it with the grammar.                                      *)
(***************************************************************************)
EXTENDS Integers, Sequences, FiniteSets

Digits == {"0", "7"}
Space == {" "}
Literals == [t |-> <<"t", "e">>, f |-> <<"f", "e">>, n |-> <<"n", "e">>]
EscapeDigits == 4
Hex == [c \in {"0", "7", "e", "f"} |-> CASE c = "0" -> 0 [] c = "7" -> 7 [] c = "e" -> 14 [] c = "f" -> 15]

Null == [t |-> "null"]
Result(ok, p, v, n) == [ok |-> ok, p |-> p, v |-> v, n |-> n]
Fail(p, v, n) == Result(FALSE, p, v, n)

Eof(s, p) == p > Len(s)
Is(s, p, c) == ~Eof(s, p) /\ s[p] = c
In(s, p, cs) == ~Eof(s, p) /\ s[p] \in cs
\* The first position at or after p that holds none of cs.
After(s, p, cs) == CHOOSE q \in p..Len(s) + 1 : ~In(s, q, cs) /\ \A i \in p..q - 1 : s[i] \in cs
SkipWhitespace(s, p) == IF Eof(s, p) THEN p ELSE After(s, p, Space)

-----------------------------------------------------------------------------
\* A string's characters: how far they go, and what they become (<<>> and p = 0 on failure).
AppendUnicodeEscape(s, p) ==
  LET hex == SubSeq(s, p, p + EscapeDigits - 1)
      code[i \in 0..EscapeDigits] == IF i = 0 THEN 0 ELSE (code[i - 1] * 16 + Hex[hex[i]]) % 65536
  IN IF p + EscapeDigits - 1 > Len(s) \/ \E i \in 1..Len(hex) : hex[i] \notin DOMAIN Hex
     THEN [ok |-> FALSE, c |-> "?"]
     ELSE [ok |-> TRUE, c |-> IF code[EscapeDigits] <= 127 THEN "ascii" ELSE "?"]
RECURSIVE StringFrom(_, _, _)
StringFrom(s, p, got) ==
  CASE Eof(s, p) -> [ok |-> FALSE, p |-> p, str |-> got]
    [] Is(s, p, "q") -> [ok |-> TRUE, p |-> p + 1, str |-> got]
    [] Is(s, p, "\\") ->
         IF Eof(s, p + 1) THEN [ok |-> FALSE, p |-> p + 1, str |-> got]
         ELSE IF s[p + 1] # "u" THEN StringFrom(s, p + 2, Append(got, s[p + 1]))
         ELSE LET u == AppendUnicodeEscape(s, p + 2)
              IN IF u.ok THEN StringFrom(s, p + 2 + EscapeDigits, Append(got, u.c))
                 ELSE [ok |-> FALSE, p |-> p, str |-> got]
    [] OTHER -> StringFrom(s, p + 1, Append(got, s[p]))
ParseStringRaw(s, p) == IF Is(s, p, "q") THEN StringFrom(s, p + 1, <<>>) ELSE [ok |-> FALSE, p |-> p, str |-> <<>>]
ParseString(s, p) ==
  LET r == ParseStringRaw(s, p)
  IN IF r.ok THEN Result(TRUE, r.p, [t |-> "string", s |-> r.str], 1) ELSE Fail(r.p, Null, 0)

\* The digits from p to q - 1 as a number.
Decimal(s, p, q) == LET d[i \in p - 1..q - 1] == IF i = p - 1 THEN 0 ELSE d[i - 1] * 10 + Hex[s[i]] IN d[q - 1]
\* A number is m * 10^x.  A position of 0 is a failure; each part starts where the last ended.
WholePart(s, p) == IF Is(s, p, "0") THEN p + 1 ELSE IF In(s, p, Digits) THEN After(s, p, Digits) ELSE 0
FractionPart(s, p) == CASE p = 0 -> 0
                        [] p > 0 /\ ~Is(s, p, ".") -> p
                        [] OTHER -> IF In(s, p + 1, Digits) THEN After(s, p + 1, Digits) ELSE 0
ExponentDigits(s, p) == IF In(s, p + 1, {"+", "-"}) THEN p + 2 ELSE p + 1
ExponentPart(s, p) == CASE p = 0 -> 0
                        [] p > 0 /\ ~Is(s, p, "e") -> p
                        [] OTHER -> LET d == ExponentDigits(s, p) IN IF In(s, d, Digits) THEN After(s, d, Digits) ELSE 0
ParseNumber(s, p) ==
  LET minus == Is(s, p, "-")
      a == IF minus THEN p + 1 ELSE p
      b == WholePart(s, a)
      c == FractionPart(s, b)
      e == ExponentPart(s, c)
      places == IF c > b THEN c - b - 1 ELSE 0
      m == Decimal(s, a, b) * 10 ^ places + (IF places > 0 THEN Decimal(s, b + 1, c) ELSE 0)
      x == IF e = c THEN 0
           ELSE Decimal(s, ExponentDigits(s, c), e) * (IF Is(s, c + 1, "-") THEN -1 ELSE 1)
  IN IF e = 0 THEN Fail(p, Null, 0)
     ELSE Result(TRUE, e, [t |-> "number", m |-> IF minus THEN -m ELSE m, x |-> x - places], 0)

ParseLiteral(s, p, c) ==
  LET word == Literals[c]
  IN IF p + Len(word) - 1 <= Len(s) /\ SubSeq(s, p, p + Len(word) - 1) = word
     THEN Result(TRUE, p + Len(word), IF c = "n" THEN Null ELSE [t |-> "bool", b |-> c = "t"], 0)
     ELSE Fail(p, Null, 0)

RECURSIVE ParseValue(_, _), Members(_, _, _, _), Elements(_, _, _, _), Destroy(_)
\* Entries so far, and the blocks they took: the key and the value of each, and what it owns.
Members(s, p, got, n) ==
  LET k == ParseStringRaw(s, p)
      colon == SkipWhitespace(s, k.p)
      r == ParseValue(s, colon + 1)
      q == SkipWhitespace(s, r.p)
      all == Append(got, [key |-> k.str, value |-> r.v])
      Obj(es) == [t |-> "object", e |-> es]
  IN CASE ~k.ok -> Fail(p, Obj(got), n)
       [] k.ok /\ ~Is(s, colon, ":") -> Fail(colon, Obj(got), n + 1 - 1)
       [] k.ok /\ Is(s, colon, ":") /\ ~r.ok -> Fail(r.p, Obj(got), n + 2 + r.n - 1 - (1 + Destroy(r.v)))
       [] OTHER -> CASE Is(s, q, "}") -> Result(TRUE, q + 1, Obj(all), n + 2 + r.n)
                     [] Is(s, q, ",") -> Members(s, SkipWhitespace(s, q + 1), all, n + 2 + r.n)
                     [] OTHER -> Fail(q, Obj(all), n + 2 + r.n)
ParseObject(s, p) ==
  LET q == SkipWhitespace(s, p + 1)
  IN IF Is(s, q, "}") THEN Result(TRUE, q + 1, [t |-> "object", e |-> <<>>], 1) ELSE Members(s, q, <<>>, 1)
Elements(s, p, got, n) ==
  LET r == ParseValue(s, p)
      q == SkipWhitespace(s, r.p)
      Arr(es) == [t |-> "array", e |-> es]
  IN CASE ~r.ok -> Fail(r.p, Arr(got), n + 1 + r.n - (1 + Destroy(r.v)))
       [] r.ok /\ Is(s, q, "]") -> Result(TRUE, q + 1, Arr(Append(got, r.v)), n + 1 + r.n)
       [] r.ok /\ Is(s, q, ",") -> Elements(s, SkipWhitespace(s, q + 1), Append(got, r.v), n + 1 + r.n)
       [] OTHER -> Fail(q, Arr(Append(got, r.v)), n + 1 + r.n)
ParseArray(s, p) ==
  LET q == SkipWhitespace(s, p + 1)
  IN IF Is(s, q, "]") THEN Result(TRUE, q + 1, [t |-> "array", e |-> <<>>], 1) ELSE Elements(s, q, <<>>, 1)
ParseValue(s, at) ==
  LET p == SkipWhitespace(s, at)
  IN CASE Eof(s, p) -> Fail(p, Null, 0)
       [] Is(s, p, "{") -> ParseObject(s, p)
       [] Is(s, p, "[") -> ParseArray(s, p)
       [] Is(s, p, "q") -> ParseString(s, p)
       [] In(s, p, DOMAIN Literals) -> ParseLiteral(s, p, s[p])
       [] In(s, p, Digits \cup {"-"}) -> ParseNumber(s, p)
       [] OTHER -> Fail(p, Null, 0)
Parse(s) ==
  LET r == ParseValue(s, 1)
      q == SkipWhitespace(s, r.p)
  IN IF r.ok /\ ~Eof(s, q) THEN Fail(q, r.v, r.n) ELSE [r EXCEPT !.p = q]

-----------------------------------------------------------------------------
\* The blocks destroy frees, and those a copy takes.
SumOf(f) == LET sum[i \in 0..Len(f)] == IF i = 0 THEN 0 ELSE sum[i - 1] + f[i] IN sum[Len(f)]
Destroy(v) ==
  CASE v.t = "string" -> 1
    [] v.t = "object" -> 1 + SumOf([i \in DOMAIN v.e |-> 2 + Destroy(v.e[i].value)])
    [] v.t = "array" -> 1 + SumOf([i \in DOMAIN v.e |-> 1 + Destroy(v.e[i])])
    [] OTHER -> 0
RECURSIVE CopyFrom(_)
CopyFrom(v) ==
  CASE v.t = "object" ->
         LET c == [i \in DOMAIN v.e |-> CopyFrom(v.e[i].value)]
         IN [v |-> [v EXCEPT !.e = [i \in DOMAIN v.e |-> [key |-> v.e[i].key, value |-> c[i].v]]],
             n |-> 1 + SumOf([i \in DOMAIN c |-> 2 + c[i].n])]
    [] v.t = "array" ->
         LET c == [i \in DOMAIN v.e |-> CopyFrom(v.e[i])]
         IN [v |-> [v EXCEPT !.e = [i \in DOMAIN c |-> c[i].v]], n |-> 1 + SumOf([i \in DOMAIN c |-> 1 + c[i].n])]
    [] v.t = "string" -> [v |-> v, n |-> 1]
    [] OTHER -> [v |-> v, n |-> 0]
\* The value of the first entry with this key, as a set of at most one.
Find(v, key) ==
  IF v.t # "object" THEN {}
  ELSE {v.e[i].value : i \in {j \in DOMAIN v.e : v.e[j].key = key /\ \A k \in 1..j - 1 : v.e[k].key # key}}

-----------------------------------------------------------------------------
\* The grammar, over whole texts.
Strip(s) == LET a == SkipWhitespace(s, 1)
                z == CHOOSE i \in a - 1..Len(s) : (i = a - 1 \/ s[i] \notin Space) /\ \A j \in i + 1..Len(s) : s[j] \in Space
            IN SubSeq(s, a, z)
AllDigits(s) == s # <<>> /\ \A i \in DOMAIN s : s[i] \in Digits
IsNumber(s) ==
  \E a \in {1, 2} : \E b, c \in a..Len(s) + 1 :
    LET whole == SubSeq(s, a, b - 1)  frac == SubSeq(s, b, c - 1)  exp == SubSeq(s, c, Len(s))
    IN /\ b <= c /\ (a = 2 => s[1] = "-")
       /\ AllDigits(whole) /\ (whole[1] = "0" => Len(whole) = 1)
       /\ frac # <<>> => frac[1] = "." /\ AllDigits(Tail(frac))
       /\ exp # <<>> => /\ exp[1] = "e"
                        /\ \E d \in {2, 3} : /\ d = 3 => Len(exp) > 2 /\ exp[2] \in {"+", "-"}
                                        /\ AllDigits(SubSeq(exp, d, Len(exp)))
Escaped(s, i) == \E k \in 1..i - 1 : (i - k) % 2 = 1 /\ (\A j \in k..i - 1 : s[j] = "\\") /\ (k = 1 \/ s[k - 1] # "\\")
IsString(s) ==
  /\ Len(s) >= 2 /\ s[1] = "q" /\ s[Len(s)] = "q" /\ ~Escaped(s, Len(s))
  /\ \A i \in 2..Len(s) - 1 : s[i] = "q" => Escaped(s, i)
  /\ \A i \in 2..Len(s) - 1 : s[i] = "u" /\ Escaped(s, i) =>
       i + EscapeDigits < Len(s) /\ \A j \in i + 1..i + EscapeDigits : s[j] \in DOMAIN Hex
RECURSIVE IsValue(_), IsList(_, _)
\* A list of elements or members without its brackets, none of them missing.
IsList(s, keyed) ==
  \E z \in 1..Len(s) + 1 :
    LET item == SubSeq(s, 1, z - 1)
    IN /\ IF keyed THEN \E c \in 1..z - 1 : /\ s[c] = ":" /\ IsString(Strip(SubSeq(item, 1, c - 1)))
                                            /\ IsValue(SubSeq(item, c + 1, Len(item)))
                   ELSE IsValue(item)
       /\ z <= Len(s) => s[z] = "," /\ IsList(SubSeq(s, z + 1, Len(s)), keyed)
IsValue(text) ==
  LET s == Strip(text)
      inside == SubSeq(s, 2, Len(s) - 1)
      Bare == Strip(inside) = <<>>
  IN \/ \E c \in DOMAIN Literals : s = Literals[c]
     \/ IsNumber(s) \/ IsString(s)
     \/ Len(s) >= 2 /\ s[1] = "[" /\ s[Len(s)] = "]" /\ (Bare \/ IsList(inside, FALSE))
     \/ Len(s) >= 2 /\ s[1] = "{" /\ s[Len(s)] = "}" /\ (Bare \/ IsList(inside, TRUE))

\* The parser accepts the texts of the grammar and no others, wherever an error is; every
\* block it allocated is owned by the value it leaves, on its failure paths too; a copy
\* owns as many, and looks the same.
ParserAgrees(texts) ==
  \A s \in texts :
    \A r \in {Parse(s)} :
      /\ r.ok <=> IsValue(s)
      /\ r.n = Destroy(r.v)
      /\ \A c \in {CopyFrom(r.v)} : c.v = r.v /\ c.n = Destroy(c.v)
=============================================================================
