------------------------------ MODULE FatNames ------------------------------
(***************************************************************************)
(* Names on the shared volume (QFSFAT16.cpp): the short name that a file   *)
(* gets, how it is shown and compared, long names put together from the    *)
(* fragments that other systems leave before an entry, and the walk along  *)
(* a path.  SharedVolume has the order of the disk accesses and what an    *)
(* error does to them; here every sector can be read.                      *)
(*                                                                         *)
(* A name is a sequence of symbols, a directory a sequence of clusters of  *)
(* entries, and a volume a function from directories to their clusters.    *)
(***************************************************************************)
EXTENDS Naturals, SequencesExt

CONSTANTS BaseSize,  \* symbols of a short name before the dot, 8
          ExtSize,   \* and behind it, 3
          LongSize,  \* symbols of a long name that are kept, 255
          Code,      \* symbol -> byte
          LowerOf,   \* capital -> small letter
          Root       \* the root directory

Cut(s, n) == SubSeq(s, 1, IF Len(s) < n THEN Len(s) ELSE n)
Lower(ch) == IF ch \in DOMAIN LowerOf THEN LowerOf[ch] ELSE ch
IsLower(ch) == \E c \in DOMAIN LowerOf : LowerOf[c] = ch
Upper(ch) == IF IsLower(ch) THEN CHOOSE c \in DOMAIN LowerOf : LowerOf[c] = ch ELSE ch
EqualsIgnoreCase(a, b) == Len(a) = Len(b) /\ \A i \in DOMAIN a : Lower(a[i]) = Lower(b[i])

-----------------------------------------------------------------------------
(* Short names: BaseSize + ExtSize symbols, filled up with blanks.         *)

\* The part before a symbol, or all of it.
Until(s, ch) ==
  LET at == {i \in DOMAIN s : s[i] = ch} IN IF at = {} THEN s ELSE SubSeq(s, 1, (CHOOSE i \in at : \A j \in at : i <= j) - 1)
\* What is copied of a name, before its first dot and behind it.
BaseOf(name) == Cut(Until(name, "."), BaseSize)
ExtOf(name) == Cut(SubSeq(name, Len(Until(name, ".")) + 2, Len(name)), ExtSize)
Padded(s, n) == [i \in 1..n |-> IF i <= Len(s) THEN Upper(s[i]) ELSE " "]
FormatName(name) == Padded(BaseOf(name), BaseSize) \o Padded(ExtOf(name), ExtSize)

\* The two flags by which a part is shown in small letters.
OnlyLower(s) == (\E i \in DOMAIN s : IsLower(s[i])) /\ \A i \in DOMAIN s : s[i] \notin DOMAIN LowerOf
NtCaseFlags(name) == [base |-> OnlyLower(BaseOf(name)), ext |-> OnlyLower(ExtOf(name))]

Shown(part, small) == LET s == Until(part, " ") IN [i \in DOMAIN s |-> IF small THEN Lower(s[i]) ELSE s[i]]
ParseName(e) ==
  LET ext == SubSeq(e.name, BaseSize + 1, BaseSize + ExtSize)
  IN Shown(SubSeq(e.name, 1, BaseSize), e.flags.base)
     \o (IF ext[1] = " " THEN <<>> ELSE <<".">> \o Shown(ext, e.flags.ext))

\* The entry that open makes for a file.
NewEntry(name) == [kind |-> "file", name |-> FormatName(name), flags |-> NtCaseFlags(name), first |-> 0, size |-> 0]

-----------------------------------------------------------------------------
(* Long names: a fragment has a piece of the name, the last piece first,   *)
(* and the checksum of the short name that follows.                        *)

SfnChecksum(name) == FoldLeft(LAMBDA sum, ch : ((sum % 2) * 128 + sum \div 2 + Code[ch]) % 256, 0, name)

NoLongName == [name |-> <<>>, sum |-> 0, valid |-> FALSE]
LfnPrepend(fragment, pending) == Cut(fragment \o pending, LongSize)
\* "nul" ends a piece, "fill" is skipped, what is not ASCII is a question mark.
LfnConsume(text, pending) ==
  LET ink == SelectSeq(Until(text, "nul"), LAMBDA ch : ch # "fill")
  IN IF ink = <<>> THEN pending ELSE LfnPrepend([i \in DOMAIN ink |-> IF ink[i] = "wide" THEN "?" ELSE ink[i]], pending)

LongStep(p, e) ==
  LET q == IF e.start THEN [name |-> <<>>, sum |-> e.sum, valid |-> TRUE] ELSE p
  IN IF q.valid /\ q.sum = e.sum THEN [q EXCEPT !.name = LfnConsume(e.text, @)] ELSE NoLongName

\* What is pending behind an entry; a fragment of an unknown type changes nothing.
Pending(p, e) ==
  CASE e.kind = "long" -> LongStep(p, e)
    [] e.kind = "unknown" -> p
    [] OTHER -> NoLongName
IsNamed(e) == e.kind \in {"file", "dir"}
LongName(p, e) == IF p.valid /\ SfnChecksum(e.name) = p.sum THEN p.name ELSE <<>>

\* Entries up to the first that was never used.
Live(entries) ==
  LET ends == {i \in DOMAIN entries : entries[i].kind = "end"}
  IN IF ends = {} THEN entries ELSE SubSeq(entries, 1, (CHOOSE i \in ends : \A j \in ends : i <= j) - 1)

-----------------------------------------------------------------------------
(* A directory is listed up to its first unused entry.                     *)

ListStep(r, e) ==
  LET long == LongName(r.pending, e)
  IN [pending |-> Pending(r.pending, e),
      out |-> IF IsNamed(e)
              THEN Append(r.out, [name |-> IF long # <<>> THEN long ELSE ParseName(e), kind |-> e.kind, size |-> e.size])
              ELSE r.out]
Listed(entries) == FoldLeft(ListStep, [pending |-> NoLongName, out |-> <<>>], Live(entries)).out
ReadRoot(v) == Listed(FlattenSeq(v[Root]))
ReadDir(v, dir) == Listed(FlattenSeq(v[dir]))

-----------------------------------------------------------------------------
(* Looking up.  In the root the first unused entry is the end; elsewhere   *)
(* it is the end of its cluster only.                                      *)

NoEntry == [kind |-> "none"]
MatchEntry(e, pending, element) ==
  LET long == LongName(pending, e)
  IN (long # <<>> /\ EqualsIgnoreCase(element, long)) \/ EqualsIgnoreCase(element, ParseName(e))
Search(entries, element) ==
  FoldLeft(LAMBDA r, e : [pending |-> Pending(r.pending, e),
                          hit |-> IF r.hit = NoEntry /\ IsNamed(e) /\ MatchEntry(e, r.pending, element) THEN e ELSE r.hit],
           [pending |-> NoLongName, hit |-> NoEntry], entries).hit
SearchRoot(v, element) == Search(Live(FlattenSeq(v[Root])), element)
SearchDir(v, dir, element) == Search(FlattenSeq([i \in DOMAIN v[dir] |-> Live(v[dir][i])]), element)

\* The entry at a path, a sequence of names; the root itself has none.
FindEntry(v, path) ==
  LET f[i \in 0..Len(path)] ==
        IF i = 0 THEN [kind |-> "root"]
        ELSE LET element == Cut(path[i], LongSize)
             IN CASE f[i - 1].kind = "root" -> SearchRoot(v, element)
                  [] f[i - 1].kind = "dir" /\ f[i - 1].first \in DOMAIN v -> SearchDir(v, f[i - 1].first, element)
                  [] OTHER -> NoEntry
  IN IF path = <<>> THEN NoEntry ELSE f[Len(path)]
OpenDir(v, path) ==
  IF path = <<>> THEN Root
  ELSE LET e == FindEntry(v, path) IN IF e.kind = "dir" /\ e.first \in DOMAIN v THEN e.first ELSE NoEntry
\* open looks in the root only, and makes the file if it is asked to.
Open(v, path, create) ==
  LET e == IF Len(path) = 1 THEN SearchRoot(v, Cut(path[1], LongSize)) ELSE NoEntry
  IN CASE e.kind = "none" /\ create /\ Len(path) = 1 -> NewEntry(path[1])
       [] e.kind = "dir" -> NoEntry
       [] OTHER -> e
\* stat has the short name, whatever the directory is listed with.
Stat(v, path) ==
  LET e == FindEntry(v, path) IN IF e = NoEntry THEN NoEntry ELSE [name |-> ParseName(e), kind |-> e.kind, size |-> e.size]

-----------------------------------------------------------------------------
(* What they are compared with.                                            *)

Spellings(alphabet, n) == UNION {[1..k -> alphabet] : k \in 1..n}
InRoot(entries) == Root :> <<entries>>
\* A name that is its own short name but for the case.
Fits(name) ==
  LET base == Until(name, ".")  ext == SubSeq(name, Len(base) + 2, Len(name))
  IN /\ \A i \in DOMAIN name : name[i] # " "
     /\ Len(base) <= BaseSize /\ Len(ext) <= ExtSize
     /\ ext = <<>> => base = name
OneCase(s) == OnlyLower(s) \/ \A i \in DOMAIN s : ~IsLower(s[i])

\* A file that was made is found again, in whatever case it is written, exactly if its
\* name fits; and it is listed as it was written if each part has letters of one case.
\* A file whose name does not fit is made anew by every save.
MadeIsFound(alphabet, n) ==
  \A name \in Spellings(alphabet, n) :
    LET v == InRoot(<<NewEntry(name)>>)
        big == [i \in DOMAIN name |-> Upper(name[i])]
    IN /\ (FindEntry(v, <<name>>) # NoEntry) <=> Fits(name)
       /\ FindEntry(v, <<big>>) = FindEntry(v, <<name>>)
       /\ Fits(name) => EqualsIgnoreCase(ReadRoot(v)[1].name, name)
       /\ Fits(name) /\ OneCase(BaseOf(name)) /\ OneCase(ExtOf(name)) => ReadRoot(v)[1].name = name

\* The fragments that another system writes for a name, piece symbols in each.
Fragments(name, short, piece) ==
  LET n == (Len(name) + piece - 1) \div piece
      Unit(i) == IF i <= Len(name) THEN name[i] ELSE IF i = Len(name) + 1 THEN "nul" ELSE "fill"
  IN [k \in 1..n |-> [kind |-> "long", start |-> k = 1, sum |-> SfnChecksum(short),
                      text |-> [j \in 1..piece |-> Unit((n - k) * piece + j)]]]

\* A file with a long name is listed under it and found under it and under its short
\* one, in the root and below it, wherever a cluster ends; nothing that stands before it -
\* deleted entries, a label, fragments of files that are gone - is taken for a part of it.
\* Below the root it cannot be opened all the same.
LongIsFound(names, short, before, piece) ==
  \A name \in names, junk \in before :
    LET file == [kind |-> "file", name |-> short, flags |-> [base |-> FALSE, ext |-> FALSE], first |-> 0, size |-> 1]
        all == junk \o Fragments(name, short, piece) \o <<file>>
    IN \A k \in 0..Len(all) :
         LET parts == <<SubSeq(all, 1, k), SubSeq(all, k + 1, Len(all))>>
             top == [file EXCEPT !.kind = "dir", !.name = FormatName(<<"D">>), !.first = "sub"]
             v == "sub" :> parts @@ InRoot(<<top>>)
             kept == Cut(name, LongSize)
         IN /\ Last(ReadDir(v, "sub")).name = kept
            /\ Last(ReadRoot(InRoot(all))).name = kept
            /\ \A asked \in {kept, ParseName(file)} :
                 FindEntry(v, <<<<"D">>, asked>>) = file /\ FindEntry(InRoot(all), <<asked>>) = file
            /\ Stat(v, <<<<"D">>, kept>>).name = ParseName(file)
            /\ Open(InRoot(all), <<kept>>, FALSE) = file /\ Open(v, <<<<"D">>, kept>>, FALSE) = NoEntry

\* What a directory lists can be looked up: under the name it is shown with there is an
\* entry of that name, and none is found under a name that is neither shown nor short.
ListedIsFound(kinds, n) ==
  \A entries \in UNION {[1..k -> kinds] : k \in 0..n} :
    LET v == InRoot(entries)
        shown == {ReadRoot(v)[i].name : i \in DOMAIN ReadRoot(v)}
        short == {ParseName(entries[i]) : i \in {j \in DOMAIN entries : IsNamed(entries[j])}}
    IN /\ \A name \in shown : FindEntry(v, <<name>>) # NoEntry
       /\ \A name \in short :
            (FindEntry(v, <<name>>) # NoEntry) <=> (\E i \in DOMAIN Live(entries) : IsNamed(entries[i]) /\ ParseName(entries[i]) = name)
                                                   \/ \E other \in shown : EqualsIgnoreCase(other, name)
=============================================================================
