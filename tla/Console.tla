------------------------------ MODULE Console ------------------------------
(***************************************************************************)
(* The boot console, the desktop's terminal and the commands they share:   *)
(* line editing, splitting a line into words, finding the command, paths   *)
(* and the working directory, addresses and ports, the transcript.  Text   *)
(* is a sequence of symbols; "shared" is one.  Each part is a function of  *)
(* its input, followed by what it is compared with.                        *)
(***************************************************************************)
EXTENDS Naturals, SequencesExt

CONSTANTS LineSize,      \* symbols of an input line, kBufferSize - 1
          MaxArgs,       \* words of a line, kMaxArgs
          NameSize,      \* symbols of a command's name, sizeof(cmd) - 1
          MaxCommands,   \* entries of the command table
          PathSize,      \* symbols of a path, sizeof(path) - 1
          CwdSize,       \* symbols of a working directory, sizeof(g_cwd) - 1
          MaxSegments,   \* names in a path
          Word,          \* 2^32
          InSize,        \* bytes that cat reads at a time
          OutSize,       \* and prints at a time, with the terminator
          TranscriptSize, \* symbols of a transcript, kTranscriptSize - 1
          LowerOf        \* capital -> small letter

Cut(s, n) == SubSeq(s, 1, IF Len(s) < n THEN Len(s) ELSE n)
Lowest(S) == CHOOSE x \in S : \A y \in S : x <= y
\* A function of the symbols so far.
Run(Step(_, _), start, s) == LET f[i \in 0..Len(s)] == IF i = 0 THEN start ELSE Step(f[i - 1], s[i]) IN f[Len(s)]
Texts(alphabet, n) == UNION {[1..k -> alphabet] : k \in 0..n}
Lower(ch) == IF ch \in DOMAIN LowerOf THEN LowerOf[ch] ELSE ch
EqualsIgnoreCase(a, b) == Len(a) = Len(b) /\ \A i \in DOMAIN a : Lower(a[i]) = Lower(b[i])
\* The only blank of a line that is typed; tabs are others.
Blank(ch) == ch = " "
SkipSpaces(s) == LET ink == {i \in DOMAIN s : ~Blank(s[i])} IN IF ink = {} THEN <<>> ELSE SubSeq(s, Lowest(ink), Len(s))
FirstWord(s) == SubSeq(s, 1, Lowest({i \in 0..Len(s) : i = Len(s) \/ Blank(s[i + 1])}))
AfterWord(s) == SkipSpaces(SubSeq(s, Len(FirstWord(s)) + 1, Len(s)))

-----------------------------------------------------------------------------
(* Paths. *)

Starts(s) == {i \in DOMAIN s : s[i] # "/" /\ (i = 1 \/ s[i - 1] = "/")}
SegmentAt(s, i) == SubSeq(s, i, Lowest({j \in i..Len(s) : j = Len(s) \/ s[j + 1] = "/"}))
Segments(s) == LET at == SetToSortSeq(Starts(s), <) IN [k \in DOMAIN at |-> SegmentAt(s, at[k])]
Taken(kept, segment) ==
  CASE segment = <<".">> -> kept
    [] segment = <<".", ".">> -> IF kept = <<>> THEN kept ELSE Front(kept)
    [] OTHER -> IF Len(kept) < MaxSegments THEN Append(kept, segment) ELSE kept
PathText(names) == IF names = <<>> THEN <<"/">> ELSE FlattenSeq([i \in DOMAIN names |-> <<"/">> \o names[i]])
\* <<>> stands for a path that is refused.
NormalizeAbsolutePath(s) ==
  LET text == PathText(Run(Taken, <<>>, Segments(s))) IN IF Len(text) > PathSize THEN <<>> ELSE text
\* A relative path that is too long is refused; an absolute one is cut.
ResolvePath(cwd, arg) ==
  LET Relative == (IF cwd = <<"/">> THEN cwd ELSE Append(cwd, "/")) \o (IF arg = <<>> THEN <<".">> ELSE arg)
  IN IF arg # <<>> /\ arg[1] = "/" THEN NormalizeAbsolutePath(Cut(arg, PathSize))
     ELSE IF Len(Relative) > PathSize THEN <<>> ELSE NormalizeAbsolutePath(Relative)
\* Commands of the console get the words behind them, those of the registry the text.
\* Without a word cd goes to the root; with an empty one, in quotation marks, it stays.
\* Directories are the paths that openDir finds.
EnterDirectory(cwd, path, directories) == IF path \in directories THEN Cut(path, CwdSize) ELSE cwd
HandleCd(cwd, args, directories) ==
  EnterDirectory(cwd, ResolvePath(cwd, IF args = <<>> THEN <<"/">> ELSE args[1]), directories)
CmdCd(cwd, text, directories) ==
  LET arg == SkipSpaces(text) IN EnterDirectory(cwd, ResolvePath(cwd, IF arg = <<>> THEN <<"/">> ELSE arg), directories)
\* What ls prints of a directory, one line for each entry; listing has those of every one.
ListDirectory(path, listing) == IF path \in DOMAIN listing THEN listing[path] ELSE <<"cannot open">>
HandleLs(cwd, args, listing) == ListDirectory(ResolvePath(cwd, IF args = <<>> THEN <<".">> ELSE args[1]), listing)
CmdLs(cwd, text, listing) ==
  LET arg == SkipSpaces(text) IN ListDirectory(ResolvePath(cwd, IF arg = <<>> THEN <<".">> ELSE arg), listing)

\* The same walk, a symbol at a time: names down, ".." up.
Walked(r, ch) ==
  IF ch # "/" THEN [r EXCEPT !.name = Append(@, ch)]
  ELSE [at |-> CASE r.name \in {<<>>, <<".">>} -> r.at
                 [] r.name = <<".", ".">> -> SubSeq(r.at, 1, Len(r.at) - 1)
                 [] OTHER -> Append(r.at, r.name),
        name |-> <<>>]
Walk(from, arg) == Run(Walked, [at |-> IF arg # <<>> /\ arg[1] = "/" THEN <<>> ELSE from, name |-> <<>>], Append(arg, "/")).at
\* Where nothing is too long, a path leads where walking leads, and cd stays in
\* directories that are there; a relative path that is too long is refused.
PathsAgree(alphabet, n) ==
  \A arg \in Texts(alphabet, n), from \in {<<>>, <<<<"a">>>>, <<<<"a">>, <<"a", "a">>>>} :
    LET to == Walk(from, arg)
        path == ResolvePath(PathText(from), arg)
        room == (arg # <<>> /\ arg[1] = "/") \/ Len(PathText(from)) + 1 + Len(arg) <= PathSize
    IN /\ room => path = PathText(to)
       /\ path \in {<<>>, PathText(to)}
       /\ HandleCd(PathText(from), <<arg>>, {<<"/">>, <<"/", "a">>}) \in {<<"/">>, <<"/", "a">>, PathText(from)}
\* ls in the directory that cd went to is ls of that directory, in the console and
\* in the registry, and without a word cd goes to the root.
ListsWhereItIs(alphabet, n) ==
  \A arg \in Texts(alphabet, n), from \in {<<>>, <<<<"a">>>>, <<<<"a">>, <<"a">>>>} :
    LET listing == [p \in {<<"/">>, <<"/", "a">>, <<"/", "a", "/", "a">>} |-> p]
        cwd == PathText(from)
        to == HandleCd(cwd, <<arg>>, DOMAIN listing)
    IN /\ HandleLs(cwd, <<arg>>, listing) \in {HandleLs(to, <<>>, listing), <<"cannot open">>}
       /\ arg # <<>> => /\ CmdCd(cwd, <<" ">> \o arg, DOMAIN listing) = to
                        /\ CmdLs(cwd, arg, listing) = HandleLs(cwd, <<arg>>, listing)
       /\ HandleCd(cwd, <<>>, DOMAIN listing) = <<"/">> /\ HandleLs(cwd, <<>>, listing) = cwd
       /\ (HandleCd(cwd, <<<<>>>>, DOMAIN listing) = cwd) /\ (CmdCd(cwd, <<>>, DOMAIN listing) = <<"/">>)
\* A directory with a name longer than the buffer of the working directory becomes
\* another one, that need not be there.
CwdIsCut ==
  LET deep == PathText(<<[i \in 1..CwdSize |-> "a"]>>) IN HandleCd(<<"/">>, <<deep>>, {<<"/">>, deep}) = Cut(deep, CwdSize)

-----------------------------------------------------------------------------
(* Lines, words and commands. *)

\* The console: what is in its buffer, what was printed for it, what was run, and
\* whether it takes input: on the desktop it does not.
Initialize == [line |-> <<>>, echo |-> <<>>, run |-> <<>>, enabled |-> TRUE]
SetInputEnabled(c, enabled) == [c EXCEPT !.enabled = enabled]
ClearBuffer(c) == [c EXCEPT !.line = <<>>, !.echo = <<>>]
AppendChar(c, ch) == IF Len(c.line) < LineSize THEN [c EXCEPT !.line = Append(@, ch), !.echo = Append(@, ch)] ELSE c
Backspace(c) == IF c.line = <<>> THEN c ELSE [c EXCEPT !.line = Front(@), !.echo = @ \o <<"left", " ", "left">>]
\* A key event has "none" for a character that cannot be printed.
HandleKeyEvent(c, e) ==
  IF ~c.enabled \/ ~e.pressed THEN c
  ELSE CASE e.key = "Backspace" -> Backspace(c)
         [] e.key = "Enter" -> [ClearBuffer(c) EXCEPT !.run = Append(@, c.line)]
         [] e.key = "Letter" /\ e.character # "none" -> AppendChar(c, e.character)
         [] OTHER -> c
\* A line that the boot runs.
ExecuteLine(c, line) == IF c.enabled THEN [ClearBuffer(c) EXCEPT !.run = Append(@, Cut(line, LineSize))] ELSE c

\* Words are separated by blanks; a quotation mark at the start of a word makes
\* everything up to the next one a word.
NewWords == [words |-> <<>>, in |-> "gap"]
Spelled(w, ch) == [w EXCEPT !.words[Len(w.words)] = Append(@, ch)]
Opened(w, word, in) ==
  IF Len(w.words) < MaxArgs THEN [words |-> Append(w.words, word), in |-> in] ELSE [w EXCEPT !.in = "full"]
TokenStep(w, ch) ==
  CASE w.in = "full" -> w
    [] w.in = "gap" -> IF Blank(ch) THEN w ELSE IF ch = "quote" THEN Opened(w, <<>>, "quote") ELSE Opened(w, <<ch>>, "word")
    [] w.in = "quote" -> IF ch = "quote" THEN [w EXCEPT !.in = "gap"] ELSE Spelled(w, ch)
    [] w.in = "word" -> IF Blank(ch) THEN [w EXCEPT !.in = "gap"] ELSE Spelled(w, ch)
Tokenize(line) == Run(TokenStep, NewWords, line).words

\* The registry's way: one word, cut at NameSize, and everything behind it.
Named(line) ==
  LET s == SkipSpaces(line)
      n == Lowest({i \in 0..Len(s) : i = NameSize \/ i = Len(s) \/ Blank(s[i + 1])})
  IN [name |-> SubSeq(s, 1, n), args |-> SkipSpaces(SubSeq(s, n + 1, Len(s)))]

\* Names are compared in any case.
FindCommand(table, name) == \E i \in DOMAIN table : EqualsIgnoreCase(table[i], name)
AddCommand(table, name) ==
  IF name = <<>> \/ FindCommand(table, name) \/ Len(table) >= MaxCommands THEN table ELSE Append(table, name)
\* The registry has no limit.
RegisterCommandEx(table, name) == IF FindCommand(table, name) THEN table ELSE Append(table, name)

\* Who answers a line: the console's own command, then the registry's.
ExecuteCommand(line, own, registry) ==
  LET words == Tokenize(line)  r == Named(line)
  IN IF words = <<>> THEN [by |-> "nobody", name |-> <<>>, args |-> <<>>]
     ELSE IF FindCommand(own, words[1]) THEN [by |-> "console", name |-> words[1], args |-> Tail(words)]
     ELSE IF FindCommand(registry, r.name) THEN [by |-> "registry", name |-> r.name, args |-> r.args]
     ELSE [by |-> "unknown", name |-> <<>>, args |-> <<>>]
\* What help lists: all commands, or those of the name it is asked for.
HandleHelp(args, own, registry) ==
  IF args = <<>> \/ args[1] = <<>> THEN own \o SelectSeq(registry, LAMBDA name : ~FindCommand(own, name))
  ELSE Cut(SelectSeq(own \o registry, LAMBDA name : EqualsIgnoreCase(name, args[1])), 1)
CmdHelp(text, registry) ==
  LET query == Cut(FirstWord(SkipSpaces(text)), NameSize)
  IN IF query = <<>> THEN registry ELSE SelectSeq(registry, LAMBDA name : EqualsIgnoreCase(name, query))

\* What is on the screen after the prompt.
Printed(r, ch) ==
  IF ch = "left" THEN [r EXCEPT !.at = @ - 1]
  ELSE [at |-> r.at + 1, cells |-> IF r.at < Len(r.cells) THEN [r.cells EXCEPT ![r.at + 1] = ch] ELSE Append(r.cells, ch)]
Screen(echo) == Run(Printed, [at |-> 0, cells |-> <<>>], echo)
\* The line that is run is the one on the screen, whatever was typed, taken back or
\* refused by the full buffer.
Key(key, character, pressed) == [key |-> key, character |-> character, pressed |-> pressed]
KeyEvents == {Key("Letter", "a", TRUE), Key("Letter", "a", FALSE), Key("Letter", " ", TRUE), Key("Letter", "none", TRUE),
              Key("Backspace", "none", TRUE), Key("Enter", "none", TRUE), Key("Enter", "none", FALSE)}
LinesAgree(n) ==
  \A keys \in Texts(KeyEvents, n) :
    LET c == Run(HandleKeyEvent, Initialize, keys)
        screen == Screen(c.echo)
    IN /\ SubSeq(screen.cells, 1, screen.at) = c.line
       /\ \A i \in screen.at + 1..Len(screen.cells) : screen.cells[i] = " "
       /\ HandleKeyEvent(c, Key("Enter", "none", TRUE)) = ExecuteLine(c, c.line)
       /\ Len(c.run) = Len(SelectSeq(keys, LAMBDA e : e.key = "Enter" /\ e.pressed))
       /\ Run(HandleKeyEvent, SetInputEnabled(c, FALSE), keys) = SetInputEnabled(c, FALSE)

\* Words that are written with a blank between them, in quotation marks where they
\* have one themselves or are empty, are the words that are read, up to MaxArgs; a
\* word in quotation marks needs no blank behind it.
Quoted(word) == IF word = <<>> \/ \E i \in DOMAIN word : Blank(word[i]) THEN <<"quote">> \o word \o <<"quote">> ELSE word
WordsAgree(alphabet, length, n) ==
  \A words \in UNION {[1..k -> Texts(alphabet, length)] : k \in 1..n}, close, tight \in BOOLEAN :
    LET Gap(i) == IF (i = Len(words) /\ close) \/ (tight /\ Quoted(words[i]) # words[i]) THEN <<>> ELSE <<" ">>
        text == FlattenSeq([i \in DOMAIN words |-> Quoted(words[i]) \o Gap(i)])
    IN Tokenize(text) = Cut(words, MaxArgs)

\* The table keeps the first MaxCommands different names in their order; a line goes to
\* the console's command of its first word, or else to the registry's, and no word that
\* is merely cut to a name counts as one, as long as names are shorter than the buffer.
TablesAgree(alphabet, n) ==
  \A names \in UNION {[1..k -> Texts(alphabet, 1)] : k \in 0..n} :
    LET First(empty) == {i \in DOMAIN names : (names[i] # <<>> \/ empty) /\ \A j \in 1..i - 1 : ~EqualsIgnoreCase(names[j], names[i])}
        Kept(at) == [k \in 1..Cardinality(at) |-> names[SetToSortSeq(at, <)[k]]]
    IN /\ Run(AddCommand, <<>>, names) = Cut(Kept(First(FALSE)), MaxCommands)
       /\ Run(RegisterCommandEx, <<>>, names) = Kept(First(TRUE))
LinesFind(own, registry, alphabet, n) ==
  \A line \in Texts(alphabet, n) :
    LET r == ExecuteCommand(line, own, registry)
        words == Tokenize(line)
        all == HandleHelp(<<>>, own, registry)
        Is(table) == FindCommand(table, words[1])
    IN /\ (r.by = "nobody") <=> (words = <<>>)
       /\ r.by = "console" => Is(own) /\ r.args = Tail(words)
       /\ r.by = "registry" => ~Is(own) /\ Is(registry) /\ Cut(Tokenize(r.args), MaxArgs - 1) = Tail(words)
       /\ r.by = "unknown" => ~Is(own) /\ ~Is(registry)
       /\ r.by \in {"console", "registry"} => FindCommand(all, r.name) /\ Len(HandleHelp(<<r.name>>, own, registry)) = 1
       /\ r.by = "unknown" => ~FindCommand(all, words[1]) /\ HandleHelp(<<words[1]>>, own, registry) = <<>>
       /\ r.by = "registry" => Len(CmdHelp(<<" ">> \o r.name, registry)) = 1
\* help lists every command that can be run, and none of them twice.
HelpIsWhole(own, registry) ==
  LET all == HandleHelp(<<>>, own, registry)
  IN /\ \A i \in DOMAIN registry : FindCommand(all, registry[i])
     /\ \A i, j \in DOMAIN all : EqualsIgnoreCase(all[i], all[j]) => i = j

-----------------------------------------------------------------------------
(* Addresses and ports. *)

DigitOf == [ch \in {"0", "1", "2", "3", "4", "5", "6", "7", "8", "9"} |->
             CHOOSE d \in 0..9 : ch = <<"0", "1", "2", "3", "4", "5", "6", "7", "8", "9">>[d + 1]]
IsDigit(ch) == ch \in DOMAIN DigitOf
DigitsAt(s, i) == SubSeq(s, i, Lowest({j \in i - 1..Len(s) : j = Len(s) \/ ~IsDigit(s[j + 1])}))
Number(digits) == Run(LAMBDA v, ch : (v * 10 + DigitOf[ch]) % Word, 0, digits)
\* Text without any digit is the number 0.
ParseU32(s) == LET t == SkipSpaces(s) IN [ok |-> t # <<>>, value |-> Number(DigitsAt(t, 1))]
Octet(digits) == Run(LAMBDA v, ch : IF v > 255 THEN v ELSE v * 10 + DigitOf[ch], 0, digits)
\* The four parts, from position at on; what follows the fourth is not looked at.
AddressFrom(s) ==
  LET f[i \in 0..4] ==
        IF i = 0 THEN [ok |-> TRUE, at |-> 1, octets |-> <<>>]
        ELSE LET r == f[i - 1]  digits == DigitsAt(s, r.at)  next == r.at + Len(digits)
             IN IF ~r.ok \/ digits = <<>> \/ Octet(digits) > 255 \/ (i < 4 /\ (next > Len(s) \/ s[next] # "."))
                THEN [r EXCEPT !.ok = FALSE]
                ELSE [ok |-> TRUE, at |-> next + 1, octets |-> Append(r.octets, Octet(digits))]
  IN f[4]
ParseIPv4(s) == AddressFrom(SkipSpaces(s))
Decimal(v) == (IF v > 99 THEN <<ToString(v \div 100)>> ELSE <<>>) \o (IF v > 9 THEN <<ToString((v \div 10) % 10)>> ELSE <<>>)
              \o <<ToString(v % 10)>>
IPv4ToString(o) == Decimal(o[1]) \o <<".">> \o Decimal(o[2]) \o <<".">> \o Decimal(o[3]) \o <<".">> \o Decimal(o[4])

\* udp <address> <port> <text>
NotSent == [sent |-> FALSE, to |-> <<>>, port |-> 0, text |-> <<>>]
CmdUdp(args, maxPort) ==
  LET s == SkipSpaces(args)  to == ParseIPv4(s)
      port == ParseU32(AfterWord(s))
  IN IF to.ok /\ port.ok /\ port.value \in 1..maxPort
     THEN [sent |-> TRUE, to |-> to.octets, port |-> port.value, text |-> AfterWord(AfterWord(s))] ELSE NotSent
\* ip set <address> [mask] [gateway]; a mask or gateway that is wrong leaves all as it was.
CmdIpSet(config, args) ==
  LET s == SkipSpaces(args)  mask == AfterWord(s)  gateway == AfterWord(mask)
      Given(text, default) == IF text = <<>> THEN default ELSE ParseIPv4(text).octets
  IN IF ~ParseIPv4(s).ok \/ (mask # <<>> /\ ~ParseIPv4(mask).ok) \/ (gateway # <<>> /\ ~ParseIPv4(gateway).ok) THEN config
     ELSE [address |-> ParseIPv4(s).octets, mask |-> Given(mask, <<255, 255, 255, 0>>), gateway |-> Given(gateway, <<0, 0, 0, 0>>)]

CmdIp(config, args) ==
  LET s == SkipSpaces(args) IN IF EqualsIgnoreCase(FirstWord(s), <<"set">>) THEN CmdIpSet(config, AfterWord(s)) ELSE config
\* ping <address>
CmdPing(args) == LET to == ParseIPv4(args) IN IF to.ok THEN [sent |-> TRUE, to |-> to.octets] ELSE [sent |-> FALSE, to |-> <<>>]

\* Addresses that are printed are read again, and parts above 255 are refused.
AddressesAgree(parts) ==
  \A a, b, c, d \in parts, end \in {<<>>, <<" ">>, <<"x">>} :
    LET r == ParseIPv4(<<" ">> \o IPv4ToString(<<a, b, c, d>>) \o end)
    IN IF a < 256 /\ b < 256 /\ c < 256 /\ d < 256 THEN r.ok /\ r.octets = <<a, b, c, d>> ELSE ~r.ok
\* ping reads the first address behind it.
PingsAddress == CmdPing(<<" ", "1", ".", "2", ".", "3", ".", "4", " ", "5">>).to = <<1, 2, 3, 4>> /\ ~CmdPing(<<" ">>).sent
\* Only addresses that are whole are read: every beginning of one is refused.
Beginnings == \A n \in 0..6 : ~ParseIPv4(SubSeq(IPv4ToString(<<1, 2, 3, 4>>), 1, n)).ok
\* A datagram goes to the port that is written, if there is one of that number.
PortsAgree(maxPort) ==
  \A n \in 0..Word + 20, text \in {<<>>, <<"a">>, <<"a", " ", "a">>} :
    LET r == CmdUdp(IPv4ToString(<<1, 2, 3, 4>>) \o <<" ">> \o Decimal(n) \o (IF text = <<>> THEN text ELSE <<" ">> \o text), maxPort)
    IN IF n % Word \in 1..maxPort THEN r = [sent |-> TRUE, to |-> <<1, 2, 3, 4>>, port |-> n % Word, text |-> text] ELSE r = NotSent
\* The three addresses are replaced together or not at all.
SettingsAgree ==
  \A mask, gateway \in {<<>>, <<0, 0, 0, 1>>, <<9, 256, 0, 0>>}, set \in {"set", "SET"} :
    LET Word1(o) == IF o = <<>> THEN <<>> ELSE <<" ">> \o IPv4ToString(o)
        old == [address |-> <<1, 1, 1, 1>>, mask |-> <<2, 2, 2, 2>>, gateway |-> <<3, 3, 3, 3>>]
        bad == <<9, 256, 0, 0>> \in {mask, gateway}
        new == CmdIp(old, <<set, " ", " ">> \o IPv4ToString(<<7, 7, 7, 7>>) \o Word1(mask) \o Word1(gateway))
    IN IF bad THEN new = old
       ELSE /\ new.address = <<7, 7, 7, 7>>
            \* a gateway cannot be given without a mask: it is taken for one
            /\ new.mask = IF mask # <<>> THEN mask ELSE IF gateway # <<>> THEN gateway ELSE <<255, 255, 255, 0>>
            /\ new.gateway = IF mask # <<>> /\ gateway # <<>> THEN gateway ELSE <<0, 0, 0, 0>>

-----------------------------------------------------------------------------
(* Output: cat, the transcript, and where saveterm puts it. *)

\* The console's cat reads InSize bytes at a time and prints what it has made of them
\* at the latest when it reads again.
Flushed(r) == [out |-> <<>>, prints |-> IF r.out = <<>> THEN r.prints ELSE Append(r.prints, r.out)]
Put(r, what) == LET full == Len(r.out) + Len(what) >= OutSize IN [(IF full THEN Flushed(r) ELSE r) EXCEPT !.out = @ \o what]
CatConsole(text) ==
  LET f[i \in 0..Len(text)] ==
        IF i = 0 THEN [out |-> <<>>, prints |-> <<>>]
        ELSE LET r == Put(f[i - 1], IF text[i] = "\n" THEN <<"\r", "\n">> ELSE <<text[i]>>)
             IN IF i % InSize = 0 \/ i = Len(text) THEN Flushed(r) ELSE r
  IN f[Len(text)].prints
\* The registry's writes lines.
LineStep(r, ch) ==
  CASE ch = "\r" -> r
    [] ch = "\n" -> [line |-> <<>>, lines |-> Append(r.lines, r.line)]
    [] OTHER -> IF Len(r.line) + 1 >= OutSize THEN [line |-> <<ch>>, lines |-> Append(r.lines, r.line)]
                ELSE [r EXCEPT !.line = Append(@, ch)]
CatRegistry(text) ==
  LET r == Run(LineStep, [line |-> <<>>, lines |-> <<>>], text) IN IF r.line = <<>> THEN r.lines ELSE Append(r.lines, r.line)

\* files has the text of every path that can be opened; what cannot be prints nothing of it.
TextOf(path, files) == IF path \in DOMAIN files THEN files[path] ELSE <<>>
HandleCat(cwd, args, files) ==
  IF args = <<>> \/ args[1] = <<>> THEN <<>> ELSE CatConsole(TextOf(ResolvePath(cwd, args[1]), files))
CmdCat(cwd, text, files) ==
  LET file == Cut(FirstWord(SkipSpaces(text)), PathSize)
  IN IF file = <<>> THEN <<>> ELSE CatRegistry(TextOf(ResolvePath(cwd, file), files))

\* The console's transcript stops when it is full.
AppendTranscript(t, message) ==
  IF message = <<>> THEN t
  ELSE [text |-> Cut(t.text \o message, TranscriptSize),
        truncated |-> t.truncated \/ Len(t.text) + Len(message) > TranscriptSize]
\* The terminal's starts again.
AppendLine(text, line) ==
  (IF Len(text) + Len(line) + 2 > TranscriptSize THEN <<>> ELSE text) \o Append(line, "\n")

\* saveterm: the path it writes to and what it writes.  The console resolves a path and
\* the terminal takes it as it is; <<>> is one that is refused.
Shared == <<"/", "shared">>
DefaultFile == Shared \o <<"/", "citadel">>
HasSlash(arg) == \E i \in DOMAIN arg : arg[i] = "/"
SaveTermPath(arg, path) ==
  IF arg = <<>> THEN DefaultFile
  ELSE IF ~HasSlash(arg) THEN Cut(Shared \o <<"/">> \o arg, PathSize)
  ELSE IF IsPrefix(Shared, path) THEN path ELSE <<>>
NotSaved == [path |-> <<>>, text |-> <<>>]
HandleSaveTerm(cwd, args, mounted, t) ==
  LET arg == IF args = <<>> THEN <<>> ELSE args[1]
      path == SaveTermPath(arg, ResolvePath(cwd, arg))
  IN IF ~mounted \/ path = <<>> THEN NotSaved
     ELSE [path |-> path, text |-> (IF t.truncated THEN <<"[transcript truncated]">> ELSE <<>>) \o t.text]
\* The terminal opens what it is given even if nothing is mounted: open has to refuse it.
TerminalSaveTerm(arg, shown) ==
  LET path == SaveTermPath(arg, Cut(arg, PathSize))
  IN IF path = <<>> THEN NotSaved ELSE [path |-> path, text |-> IF shown = <<>> THEN <<>> ELSE shown \o <<"\r", "\n">>]

\* Both ways of cat print all of a file, at any border of their buffers.
CatsAgree(n) ==
  \A text \in Texts({"a", "\n", "\r"}, n) :
    LET prints == CatConsole(text)
        lines == CatRegistry(text)
        Kept(t, drop) == SelectSeq(t, LAMBDA ch : ch \notin drop)
    IN /\ FlattenSeq(prints) = FlattenSeq([i \in DOMAIN text |-> IF text[i] = "\n" THEN <<"\r", "\n">> ELSE <<text[i]>>])
       /\ \A i \in DOMAIN prints : Len(prints[i]) \in 1..OutSize - 1
       /\ FlattenSeq(lines) = Kept(text, {"\r", "\n"})
       /\ \A i \in DOMAIN lines : Len(lines[i]) < OutSize
       /\ Len(lines) >= Len(Kept(text, {"a", "\r"}))
       /\ LET files == <<"/", "a">> :> text
          IN /\ HandleCat(<<"/">>, <<<<"a">>>>, files) = prints /\ CmdCat(<<"/">>, <<" ", "a", " ">>, files) = lines
             /\ HandleCat(<<"/", "a">>, <<<<"a">>>>, files) = <<>>
\* The transcript is the beginning of all that was printed and says whether it is all;
\* the terminal's is the last of its lines, whole.
TranscriptsAgree(n) ==
  \A messages \in UNION {[1..k -> Texts({"a"}, 4) \cup {<<"b">>}] : k \in 1..n} :
    LET t == Run(AppendTranscript, [text |-> <<>>, truncated |-> FALSE], messages)
        shown == Run(AppendLine, <<>>, messages)
        Lines(from) == FlattenSeq([i \in 1..Len(messages) - from |-> Append(messages[from + i], "\n")])
    IN /\ t.text = Cut(FlattenSeq(messages), TranscriptSize)
       /\ t.truncated <=> Len(FlattenSeq(messages)) > TranscriptSize
       /\ \E from \in 0..Len(messages) - 1 : shown = Lines(from)
       /\ Len(shown) < TranscriptSize
       /\ HandleSaveTerm(<<"/">>, <<>>, TRUE, t).text = (IF t.text = FlattenSeq(messages) THEN <<>> ELSE <<"[transcript truncated]">>) \o t.text
       /\ TerminalSaveTerm(<<>>, shown).path = HandleSaveTerm(<<"/">>, <<>>, TRUE, t).path
\* The console never saves beside the share but for a directory whose name only
\* begins like it, and with "..", where the terminal takes it literally.
SavesUnderShared(n) ==
  \A arg \in Texts({"/", ".", "shared", "a"}, n), from \in {<<>>, <<<<"shared">>>>} :
    LET NoText == [text |-> <<>>, truncated |-> FALSE]
        path == HandleSaveTerm(PathText(from), <<arg>>, TRUE, NoText).path
        slash == HasSlash(arg)
    IN /\ path # <<>> => IsPrefix(Shared, path)
       /\ HandleSaveTerm(PathText(from), <<arg>>, FALSE, NoText) = NotSaved
       /\ ~slash => TerminalSaveTerm(arg, <<>>).path = path
       /\ slash /\ path # <<>> => path = PathText(Walk(from, arg))
       /\ slash => ((path # <<>>) <=> (LET to == Walk(from, arg) IN to # <<>> /\ Head(to)[1] = "shared"))
=============================================================================
