----------------------------- MODULE PageTables -----------------------------
(***************************************************************************)
(* Page tables and the pages behind them: VMM's map and isMapped on the    *)
(* tables that the boot loader left, windows for device registers          *)
(* (Translator::mapMMIO), the walk over the ACPI tables and the TPM's      *)
(* buffers, which have their pages mapped where they lie, and the pool of  *)
(* early pages from which tables and drivers' buffers come and to which    *)
(* nothing returns.  Frame f of the direct map is virtual page f; windows  *)
(* begin behind it.                                                        *)
(***************************************************************************)
EXTENDS Integers, Sequences, FiniteSets

CONSTANTS Levels,     \* levels of tables (4)
          Fan,        \* entries of a table (512)
          Pools,      \* pages that the pool may have (256)
          Devices,    \* <<first frame, frames>> of their registers or memory
          PageSize,   \* units of a page, in which ACPI counts
          Firmwares,  \* what ACPI may find: see EnumerateTables
          Buffers     \* <<from, units>> of the TPM's buffers

ASSUME PageTablesAssumption ==
  /\ Levels \in Nat \ {0, 1} /\ Fan \in Nat \ {0} /\ Pools \subseteq Nat /\ PageSize \in Nat \ {0}

VARIABLES boot,       \* what the boot loader left: kind and words of each group of Fan frames
          mem,        \* the entries of a frame, were it taken for a table
          used,       \* g_earlyDmaOffset, in pages
          base,       \* m_mmioBase: where the next window begins
          windows,    \* the windows that mapMMIO answered, and those that it refused
          refused,
          pages,      \* what earlyAllocatePage gave to drivers
          starved,    \* a driver was given 0 and took it for a page
          tpm,        \* the unit at which the TPM's registers begin, 0 without one it can
                      \* talk to, Unknown before ACPI's tables were looked at
          strays      \* frames that were accessed where they are not mapped

tables == <<boot, mem, used, base, windows, refused, pages, starved, tpm, strays>>

Slots == 0..Fan - 1
Data == Fan * Fan                          \* frames of the direct map
MmioBase == Fan ^ (Levels - 1)                \* the first virtual page behind it
Past == Fan ^ Levels
MaxPool == CHOOSE n \in Pools : \A k \in Pools : k <= n
Table(level) == Data + MaxPool + level     \* the loader's tables
Leaf(group) == Data + MaxPool + Levels + group
Top == Table(Levels - 1)
NoFrame == -1
Unknown == -1

Absent == [present |-> FALSE, large |-> FALSE, to |-> 0]
To(frame) == [present |-> TRUE, large |-> FALSE, to |-> frame]
Empty == [i \in Slots |-> Absent]
\* The words of a frame that holds something else, with the lowest bit set or not.
Text(odd) == [i \in Slots |-> [To(1) EXCEPT !.present = odd]]

-----------------------------------------------------------------------------
(* The tables. *)

Index(v, level) == (v \div Fan ^ level) % Fan
\* The table of each level that the program meets on its way to v; it takes what any
\* entry points to for a table.
Met(m, v) ==
  LET f[level \in 0..Levels - 1] ==
        IF level = Levels - 1 THEN Top
        ELSE IF f[level + 1] = NoFrame \/ ~m[f[level + 1]][Index(v, level + 1)].present THEN NoFrame
             ELSE m[f[level + 1]][Index(v, level + 1)].to
  IN f
Translate(m, v) ==
  LET t == Met(m, v)[0] IN IF t = NoFrame \/ ~m[t][Index(v, 0)].present THEN 0 ELSE m[t][Index(v, 0)].to
IsMapped(m, v) == Translate(m, v) # 0
\* Where the processor gets: it knows large pages.
Reached(m, v) ==
  LET above == Met(m, v)[1]
      e == IF above = NoFrame THEN Absent ELSE m[above][Index(v, 1)]
  IN IF ~e.present THEN NoFrame
     ELSE IF e.large THEN e.to + Index(v, 0)
          ELSE IF m[e.to][Index(v, 0)].present THEN m[e.to][Index(v, 0)].to ELSE NoFrame

\* The pool and the tables together, while something is mapped.
Room(r) == r.used < r.pool
EarlyAllocatePage(r) == IF Room(r) THEN Data + r.used ELSE 0
GetOrCreateTable(r, table, i) ==
  LET e == r.mem[table][i]  page == EarlyAllocatePage(r)
  IN IF e.present THEN [r EXCEPT !.at = e.to]
     ELSE IF page = 0 THEN [r EXCEPT !.at = NoFrame]
          ELSE [r EXCEPT !.at = page, !.used = @ + 1, !.mem[page] = Empty, !.mem[table][i] = To(page)]
Down(r, v) ==
  LET f[level \in 0..Levels - 1] ==
        IF level = Levels - 1 THEN [r EXCEPT !.at = Top]
        ELSE IF f[level + 1].at = NoFrame THEN f[level + 1]
             ELSE GetOrCreateTable(f[level + 1], f[level + 1].at, Index(v, level + 1))
  IN f[0]
Set(r, v, entry) == [r EXCEPT !.mem[r.at][Index(v, 0)] = entry]
Map(r, v, frame) ==
  LET d == Down(r, v) IN IF d.at = NoFrame THEN [d EXCEPT !.ok = FALSE] ELSE Set(d, v, To(frame))
Unmap(r, v) ==
  LET t == Met(r.mem, v)[0] IN IF t = NoFrame THEN r ELSE Set([r EXCEPT !.at = t], v, Absent)
\* (Mutant: what a range has mapped stays when one of its pages fails.)
MapRange_Kept(r, v, frame, n) ==
  LET f[i \in 0..n] ==
        IF i = 0 THEN r ELSE IF f[i - 1].ok THEN Map(f[i - 1], v + i - 1, frame + i - 1) ELSE f[i - 1]
  IN f[n]
\* All n pages or, but for the tables that were made, none.
MapRange(r, v, frame, n) ==
  LET f[i \in 0..n] ==
        IF i = 0 THEN r
        ELSE LET s == f[i - 1]  next == Map(s, v + i - 1, frame + i - 1)
                 back[j \in 0..i - 1] == IF j = 0 THEN next ELSE Unmap(back[j - 1], v + j - 1)
             IN IF ~s.ok THEN s ELSE IF next.ok THEN next ELSE back[i - 1]
  IN f[n]
Now(pool) == [mem |-> mem, used |-> used, pool |-> pool, at |-> NoFrame, ok |-> TRUE, strays |-> strays]

-----------------------------------------------------------------------------
(* What is mapped where it lies. *)

PagesOf(from, n) == {u \div PageSize : u \in from..from + n - 1}
EnsureHhdmMapped(r, from, n) ==
  LET first == from \div PageSize
      f[i \in 0..n] ==
        IF i = 0 THEN r
        ELSE LET s == f[i - 1]  p == first + i - 1
             IN IF s.ok /\ p \in PagesOf(from, n) /\ ~IsMapped(s.mem, p) THEN Map(s, p, p) ELSE s
  IN IF ~r.ok THEN r ELSE IF from = 0 \/ n = 0 THEN [r EXCEPT !.ok = FALSE] ELSE f[n]
Access(r, from, n) ==
  IF ~r.ok THEN r ELSE [r EXCEPT !.strays = @ \cup {p \in PagesOf(from, n) : Reached(r.mem, p) # p}]
\* ACPI's structures, in units: the root pointer, a table's header, the part of the TPM's
\* table that is always there and the part that may follow.
Rsdp == 2
SdtHeader == 2
Tpm2Base == 3
Tpm2Log == 1
\* The TPM's registers, and what of their area is dumped.
Registers == 2
Dump == 3
\* What EnumerateTables does one after the other: units that it has mapped, and those that
\* it reads.  A step that fails is the last one, but where any other table of the list is
\* looked at.  fw: where the root pointer and the table of tables are, what that lists, which
\* of them is the TPM's and how long that is, where the TPM's registers are, and whether it
\* is talked to through them.
HasTpm(fw) == fw.tpm # 0 /\ fw.length >= Tpm2Base
Mapped(from, units, read) == [from |-> from, units |-> units, at |-> from, read |-> read, must |-> TRUE]
\* Of the area of the registers the page is mapped in which it begins, and no other one.
MappedArea(control, read) ==
  [Mapped((control \div PageSize) * PageSize, PageSize, read) EXCEPT !.at = control]
Looks(fw) ==
  <<Mapped(fw.rsdp, Rsdp, Rsdp), Mapped(fw.sdt, SdtHeader, SdtHeader),
    Mapped(fw.sdt, SdtHeader + Len(fw.entries), SdtHeader + Len(fw.entries))>>
  \o [i \in DOMAIN fw.entries |-> [Mapped(fw.entries[i], SdtHeader, SdtHeader) EXCEPT !.must = FALSE]]
  \o IF ~HasTpm(fw) THEN <<>>
     ELSE <<Mapped(fw.tpm, fw.length, IF fw.length >= Tpm2Base + Tpm2Log THEN Tpm2Base + Tpm2Log ELSE Tpm2Base),
            MappedArea(fw.control, IF fw.crb THEN Dump ELSE 0)>>
Look(r, step) ==
  [Access(EnsureHhdmMapped(r, step.from, step.units), step.at, step.read) EXCEPT !.ok = @ \/ (r.ok /\ ~step.must)]
EnumerateTables(r, steps) ==
  LET f[i \in 0..Len(steps)] == IF i = 0 THEN r ELSE Look(f[i - 1], steps[i]) IN f[Len(steps)]

-----------------------------------------------------------------------------
(* The boot loader's tables: a group of frames is mapped page by page, as one large  *)
(* page, or not at all; the frame with which a large page begins holds words.        *)
TablesInit ==
  /\ boot \in [kind : [Slots -> {"pages", "large", "none"}], odd : [Slots -> BOOLEAN], pool : Pools]
  /\ \A g \in Slots : boot.odd[g] => boot.kind[g] = "large"
  /\ mem = [f \in 0..Leaf(Fan) - 1 |->
              CASE f < Data -> Text(f % Fan = 0 /\ boot.odd[f \div Fan])
                [] f = Table(1) -> [g \in Slots |-> CASE boot.kind[g] = "pages" -> To(Leaf(g))
                                                      [] boot.kind[g] = "large" -> [To(Fan * g) EXCEPT !.large = TRUE]
                                                      [] OTHER -> Absent]
                [] f \in {Table(level) : level \in 2..Levels - 1} -> [Empty EXCEPT ![0] = To(f - 1)]
                [] f >= Leaf(0) -> [i \in Slots |-> To(Fan * (f - Leaf(0)) + i)]
                [] OTHER -> Empty]
  /\ used = 0 /\ base = MmioBase /\ windows = {} /\ refused = {} /\ pages = {} /\ starved = FALSE
  /\ tpm = Unknown /\ strays = {}

\* The boot looks through ACPI's tables before it starts a driver.
Enumerate(fw) ==
  /\ tpm = Unknown
  /\ LET r == EnumerateTables(Now(boot.pool), Looks(fw))
     IN /\ mem' = r.mem /\ used' = r.used /\ strays' = r.strays
        /\ tpm' = IF r.ok /\ HasTpm(fw) /\ fw.crb THEN fw.control ELSE 0
  /\ UNCHANGED <<boot, base, windows, refused, pages, starved>>

\* A command to the TPM, whose registers say where its buffers are.
CrbSubmit(command, response) ==
  /\ tpm \notin {Unknown, 0}
  /\ LET r == EnumerateTables(Access(Now(boot.pool), tpm, Registers),
                              <<Mapped(command[1], command[2], 0),
                                Mapped(response[1], response[2], response[2]),
                                Mapped(command[1], command[2], command[2])>>)
     IN mem' = r.mem /\ used' = r.used /\ strays' = r.strays
  /\ UNCHANGED <<boot, base, windows, refused, pages, starved, tpm>>

\* A driver maps its device's registers or memory, n pages from frame on.
MapMMIO(frame, n) ==
  /\ tpm # Unknown
  /\ base + n <= Past
  /\ LET r == MapRange(Now(boot.pool), base, frame, n)
         window == [at |-> base, frame |-> frame, n |-> n]
     IN /\ mem' = r.mem /\ used' = r.used
        /\ IF r.ok THEN windows' = windows \cup {window} /\ UNCHANGED refused
                   ELSE refused' = refused \cup {window} /\ UNCHANGED windows
  /\ base' = base + n
  /\ UNCHANGED <<boot, pages, starved, tpm, strays>>

\* A driver takes a page for a ring or a buffer and clears it, also where none was left.
AllocateDMAPage ==
  /\ tpm # Unknown
  /\ LET r == Now(boot.pool)  page == EarlyAllocatePage(r)
     IN IF Room(r) THEN /\ used' = used + 1 /\ pages' = pages \cup {page} /\ mem' = [mem EXCEPT ![page] = Empty]
                        /\ UNCHANGED starved
        ELSE starved' = TRUE /\ mem' = [mem EXCEPT ![page] = Empty] /\ UNCHANGED <<used, pages>>
  /\ UNCHANGED <<boot, base, windows, refused, tpm, strays>>

TablesNext ==
  \/ \E fw \in Firmwares : Enumerate(fw)
  \/ \E command, response \in Buffers : CrbSubmit(command, response)
  \/ \E device \in Devices : MapMMIO(device[1], device[2])
  \/ AllocateDMAPage

TablesSpec == TablesInit /\ [][TablesNext]_tables

-----------------------------------------------------------------------------
\* The tables of the program and of the loader, but for what a large page is taken for.
Tables == {Met(mem, v)[level] : v \in 0..Past - 1, level \in 0..Levels - 1} \ {NoFrame}

\* VMM::map, Translator::mapMMIO: a window reaches its device's frames, whatever is mapped later,
\* and no other window does at the same place; of one that was refused nothing is left.
WindowsReach ==
  /\ \A w \in windows : \A i \in 0..w.n - 1 : Reached(mem, w.at + i) = w.frame + i
  /\ \A w \in refused : \A i \in 0..w.n - 1 : Reached(mem, w.at + i) = NoFrame
\* EnsureHhdmMapped and its callers: nothing is read or written where it is not mapped, but
\* for the end of the TPM's registers when these begin near the end of a page: the next
\* page is accessed and nobody has mapped it (AcpiTables.cpp:283, TpmSecureStore.cpp:1319).
RunsOver == IF tpm \in {Unknown, 0} THEN {} ELSE PagesOf(tpm, Dump) \ {tpm \div PageSize}
NoStrays == strays \subseteq RunsOver
\* A page of the pool is a table or belongs to one driver; what was in memory stays as it was.
\* Two things break this: a page that is mapped inside a large one whose words are even, which
\* map takes for an empty table, and an exhausted pool, whose 0 is taken for a page.
Spoilt(frame) == (frame = 0 /\ starved) \/ (frame % Fan = 0 /\ boot.kind[frame \div Fan] = "large" /\ ~boot.odd[frame \div Fan])
FramesApart ==
  /\ \A f \in 0..Data - 1 : mem[f] # Text(f % Fan = 0 /\ boot.odd[f \div Fan]) => Spoilt(f)
  /\ \A p \in pages : p \notin Tables /\ mem[p] = Empty
\* A long series of windows, look-ups and buffers on any tables of the loader leaves every
\* page where it was promised to be.
MappingsHold == WindowsReach /\ NoStrays /\ FramesApart
=============================================================================
