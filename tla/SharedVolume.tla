----------------------------- MODULE SharedVolume -----------------------------
(***************************************************************************)
(* The shared volume: a FAT16 disk behind the IDE port, found once at boot *)
(* (QKDrvIDE.cpp), mounted by the volume manager (QFSVolumeManager.cpp)    *)
(* and written by saveterm (QDTerminal.cpp, QKConsole.cpp) through         *)
(* QFSFAT16.cpp.                                                           *)
(*                                                                         *)
(* The disk outlives the system, and each of its reads and writes may      *)
(* fail.  One thread saves, so a save is one job; but it is taken apart    *)
(* into its disk accesses, because the power may go between any two of     *)
(* them and because the code goes on after most errors.                    *)
(***************************************************************************)
EXTENDS Naturals, Sequences, FiniteSets

CONSTANTS NClusters,      \* data clusters, numbered from 2
          NEntries,       \* entries of the root directory
          Names,          \* file names
          MaxErrors,      \* disk accesses that fail
          MaxCrashes,     \* power failures
          MaxSaves        \* saveterm commands

NoName == ""

ASSUME SharedAssumption ==
    /\ NClusters \in Nat \ {0} /\ NEntries \in Nat \ {0}
    /\ NoName \notin Names /\ MaxErrors \in Nat /\ MaxCrashes \in Nat /\ MaxSaves \in Nat

VARIABLES disk,           \* the medium: fat, dir, data
          up,             \* the running system: is the volume known, is it mounted
          job,            \* the save in progress
          last,           \* ghost: name -> what its last save put on the disk
          torn,           \* ghost: the power went between freeing a chain and clearing its entry
          counts          \* errors (and where), crashes, saves so far
shared == <<disk, up, job, last, torn, counts>>

Clusters == 2..(NClusters + 1)
Slots == 1..NEntries
Free == 0
EOC == NClusters + 2
NoSlot == NEntries + 1
Blank == <<0, 0>>

Unused == [name |-> NoName, first |-> 0, size |-> 0]
Idle == [pc |-> "idle", name |-> NoName, slot |-> NoSlot, old |-> 0, start |-> 0, put |-> <<>>,
         at |-> 0, left |-> 0, body |-> 0, tail |-> 0]

SharedInit ==
    /\ disk = [fat  |-> [c \in Clusters |-> Free],
               dir  |-> [s \in Slots |-> Unused],
               data |-> [c \in Clusters |-> Blank]]
    /\ up = [on |-> FALSE, known |-> FALSE, mounted |-> FALSE]
    /\ job = Idle
    /\ last = [f \in Names |-> <<>>]
    /\ torn = FALSE
    /\ counts = [errors |-> 0, failed |-> {}, crashes |-> 0, saves |-> 0]

(* A step whose disk access succeeds, and one in which an access fails. *)
Works == UNCHANGED counts
Fails == counts.errors < MaxErrors /\ counts' = [counts EXCEPT !.errors = @ + 1, !.failed = @ \cup {job.pc}]

(***************************************************************************)
(* Boot, mount, power failure.                                             *)
(***************************************************************************)

(* probeAndRegisterSharedVolume looks once; registerVolume tries to mount. *)
Probe ==
    /\ ~up.on
    /\ \/ Works /\ up' = [on |-> TRUE, known |-> TRUE, mounted |-> TRUE]
       \/ Fails /\ up' = [on |-> TRUE, known |-> TRUE, mounted |-> FALSE]
       \/ Fails /\ up' = [on |-> TRUE, known |-> FALSE, mounted |-> FALSE]
    /\ UNCHANGED <<disk, job, last, torn>>

Pending == up.on /\ up.known /\ ~up.mounted

(* Manager::poll, in the main loop: what is not mounted is tried again. *)
MountPending ==
    /\ Pending
    /\ \/ Works /\ up' = [up EXCEPT !.mounted = TRUE]
       \/ Fails /\ UNCHANGED up
    /\ UNCHANGED <<disk, job, last, torn>>

PowerFails ==
    /\ up.on /\ counts.crashes < MaxCrashes
    /\ counts' = [counts EXCEPT !.crashes = @ + 1]
    /\ up' = [on |-> FALSE, known |-> FALSE, mounted |-> FALSE]
    /\ job' = Idle
    /\ torn' = (torn \/ (job.pc \in {"free", "clear"} /\ disk.dir[job.slot].first # 0))
    /\ last' = IF job.pc \in {"alloc", "link", "walk", "store", "close"}
               THEN [last EXCEPT ![job.name] = <<>>] ELSE last
    /\ UNCHANGED disk

(***************************************************************************)
(* saveterm: open, a write of the transcript, a write of what follows it   *)
(* (the line end; the console has a header before it instead), close.      *)
(***************************************************************************)
SaveTerm(name, body) ==
    /\ up.mounted /\ job = Idle /\ counts.saves < MaxSaves
    /\ counts' = [counts EXCEPT !.saves = @ + 1]
    /\ job' = [Idle EXCEPT !.pc = "lookup", !.name = name, !.body = body,
                             !.tail = IF body > 0 THEN 1 ELSE 0]
    /\ UNCHANGED <<disk, up, last, torn>>

At(pc) == job.pc = pc /\ UNCHANGED <<up, torn>>
Go(pc) == job' = [job EXCEPT !.pc = pc]

(* The entry of the name among the first k; a failed read ends the search, *)
(* and the name counts as not there.                                       *)
Matches(k) == {s \in 1..k : disk.dir[s].name = job.name}
LookedUp(k) ==
    job' = IF Matches(k) = {} THEN [job EXCEPT !.pc = "create"]
           ELSE LET s == CHOOSE x \in Matches(k) : \A y \in Matches(k) : x <= y
                IN  [job EXCEPT !.slot = s, !.old = disk.dir[s].first,
                                !.pc = IF disk.dir[s].first = 0 THEN "clear" ELSE "free"]
Lookup ==
    /\ At("lookup")
    /\ \/ Works /\ LookedUp(NEntries)
       \/ Fails /\ \E k \in 0..(NEntries - 1) : LookedUp(k)
    /\ UNCHANGED <<disk, last>>

(* findFreeRootDirectoryEntry and the new entry: here an error ends the    *)
(* job; the entry may have been written all the same.                      *)
FreeSlots == {s \in Slots : disk.dir[s].name = NoName}
NewEntry(s) == [disk EXCEPT !.dir[s] = [Unused EXCEPT !.name = job.name]]
Create ==
    LET s == CHOOSE x \in FreeSlots : \A y \in FreeSlots : x <= y
    IN  /\ At("create")
        /\ \/ /\ FreeSlots # {} /\ Works
              /\ disk' = NewEntry(s)
              /\ job' = [job EXCEPT !.pc = "clear", !.slot = s]
           \/ /\ FreeSlots = {} /\ Works
              /\ job' = Idle /\ UNCHANGED disk
           \/ /\ Fails /\ job' = Idle
              /\ disk' \in {disk} \cup {NewEntry(x) : x \in {y \in FreeSlots : y = s}}
        /\ UNCHANGED last

(***************************************************************************)
(* freeClusterChain, a link at a time: a link that cannot be read is taken *)
(* for the end, a link that cannot be written stays.                       *)
(***************************************************************************)
Freed(next) == job' = IF next \in Clusters THEN [job EXCEPT !.old = next]
                      ELSE [job EXCEPT !.pc = "clear"]
Unlink(c) == [disk EXCEPT !.fat[c] = Free]
FreeLink_Shorter ==
    /\ At("free") /\ Works
    /\ disk' = Unlink(job.old)
    /\ Go("clear")
    /\ UNCHANGED last
FreeLink ==
    /\ At("free")
    /\ \/ Works /\ disk' = Unlink(job.old) /\ Freed(disk.fat[job.old])
       \/ Fails /\ disk' = Unlink(job.old) /\ Freed(0)
       \/ Fails /\ UNCHANGED disk /\ Freed(disk.fat[job.old])
    /\ UNCHANGED last

(* What is written next: the cluster after those written so far, reached   *)
(* through the chain; nothing left, the file is closed.                    *)
Onward(j) ==
    job' = CASE j.body + j.tail = 0 -> [j EXCEPT !.pc = "close"]
             [] j.body + j.tail > 0 /\ j.start = 0 -> [j EXCEPT !.pc = "alloc"]
             [] OTHER -> [j EXCEPT !.pc = "walk", !.at = j.start, !.left = Len(j.put)]

(* A write that stops early gives way to the next one. *)
Break == Onward(IF job.body > 0 THEN [job EXCEPT !.body = 0] ELSE [job EXCEPT !.tail = 0])

(* The entry is cleared before anything is allocated; errors are ignored. *)
Cleared == [disk EXCEPT !.dir[job.slot] = [Unused EXCEPT !.name = job.name]]
Clear_Late ==
    /\ At("clear") /\ Works
    /\ Onward(job)
    /\ UNCHANGED <<disk, last>>
Clear ==
    /\ At("clear")
    /\ \/ Works /\ disk' = Cleared
       \/ Fails /\ disk' \in {disk, Cleared}
    /\ Onward(job)
    /\ UNCHANGED last

(***************************************************************************)
(* write: getOrAllocateClusterAt walks from the first cluster; where the   *)
(* chain ends it allocates and links.                                      *)
(***************************************************************************)
Walk ==
    /\ At("walk")
    /\ \/ /\ job.left = 0 /\ Works
          /\ Go("store")
       \/ /\ job.left > 0 /\ Works
          /\ IF disk.fat[job.at] \in Clusters
             THEN job' = [job EXCEPT !.at = disk.fat[job.at], !.left = @ - 1]
             ELSE IF disk.fat[job.at] = EOC THEN Go("alloc") ELSE Break
       \/ job.left > 0 /\ Fails /\ Break
    /\ UNCHANGED <<disk, last>>

(* allocateCluster: a link that cannot be read counts as free. *)
FreeClusters == {c \in Clusters : disk.fat[c] = Free}
FirstFree == CHOOSE c \in FreeClusters : \A d \in FreeClusters : c <= d
Marked(c) == [disk EXCEPT !.fat[c] = EOC, !.data[c] = Blank]
Got(c) == job' = IF job.start = 0 THEN [job EXCEPT !.pc = "store", !.start = c, !.at = c]
                 ELSE [job EXCEPT !.pc = "link", !.old = c]
Allocate ==
    /\ At("alloc")
    /\ \/ FreeClusters = {} /\ Works /\ Break /\ UNCHANGED disk
       \/ FreeClusters # {} /\ Works /\ Got(FirstFree) /\ disk' = Marked(FirstFree)
       \/ /\ FreeClusters # {} /\ Fails /\ Got(FirstFree)      \* the mark or the zeroing fails
          /\ disk' \in {[disk EXCEPT !.data[FirstFree] = Blank], [disk EXCEPT !.fat[FirstFree] = EOC]}
       \/ /\ Fails                                             \* the scan fails at a used cluster
          /\ \E c \in {d \in Clusters : \A f \in FreeClusters : d < f} : Got(c) /\ disk' = Marked(c)
    /\ UNCHANGED last

Link ==
    /\ At("link")
    /\ \/ Works /\ disk' = [disk EXCEPT !.fat[job.at] = job.old]
       \/ Fails /\ UNCHANGED disk
    /\ job' = [job EXCEPT !.pc = "walk", !.at = job.old, !.left = @ - 1]
    /\ UNCHANGED last

Tag == <<counts.saves, Len(job.put) + 1>>
Put == [disk EXCEPT !.data[job.at] = Tag]
Store ==
    /\ At("store")
    /\ \/ /\ Works /\ disk' = Put
          /\ Onward([job EXCEPT !.put = Append(@, Tag),
                                !.body = IF @ > 0 THEN @ - 1 ELSE 0,
                                !.tail = IF job.body > 0 THEN @ ELSE 0])
       \/ /\ Fails /\ disk' \in {disk, Put}
          /\ Break
    /\ UNCHANGED last

(* close: size and first cluster go into the entry; errors are ignored. *)
Entered_NoFirst == [disk EXCEPT !.dir[job.slot].size = Len(job.put)]
Entered == [disk EXCEPT !.dir[job.slot].size = Len(job.put), !.dir[job.slot].first = job.start]
Close ==
    /\ At("close")
    /\ \/ Works /\ disk' = Entered
       \/ Fails /\ disk' \in {disk, Entered}
    /\ job' = Idle
    /\ last' = [last EXCEPT ![job.name] = job.put]

SharedNext ==
    \/ Probe \/ MountPending \/ PowerFails
    \/ \E name \in Names, body \in 0..2 : SaveTerm(name, body)
    \/ Lookup \/ Create \/ FreeLink \/ Clear \/ Walk \/ Allocate \/ Link \/ Store \/ Close

SharedSpec == SharedInit /\ [][SharedNext]_shared

(***************************************************************************)
(* What a reader of the disk sees.                                         *)
(***************************************************************************)
\* The clusters that are reached from first, link by link.
Reached(fat, first) ==
    {c \in Clusters : \A S \in SUBSET Clusters :
        /\ first \in Clusters => first \in S
        /\ \A d \in S : fat[d] \in Clusters => fat[d] \in S
        => c \in S}
ChainSet(first) == Reached(disk.fat, first)

Files == {s \in Slots : disk.dir[s].name # NoName}
EntryOf(name) ==
    LET hits == {s \in Files : disk.dir[s].name = name}
    IN  IF hits = {} THEN Unused ELSE disk.dir[CHOOSE s \in hits : \A t \in hits : s <= t]
\* The file of the entry e reads as text: it is as long, and its clusters hold it in order.
Reads(d, e, text) ==
    /\ e.size = Len(text)
    /\ \E route \in [1..Len(text) -> Clusters] :
         /\ text # <<>> => route[1] = e.first
         /\ \A k \in 1..Len(text) - 1 : d.fat[route[k]] = route[k + 1]
         /\ \A k \in 1..Len(text) : d.data[route[k]] = text[k]

Spared(steps) == counts.failed \cap steps = {}

(***************************************************************************)
(* No two files share a cluster, and no file owns a free one, whether the  *)
(* disk is full, the power fails or a disk access does - unless the power  *)
(* goes between the first freed link and the cleared entry, or the failed  *)
(* access is that of clearing an entry or of allocating.                   *)
(***************************************************************************)
Separate ==
    ~torn /\ Spared({"clear", "alloc"}) /\ job.pc \notin {"free", "clear"} =>
        /\ \A s, t \in Files : s # t => ChainSet(disk.dir[s].first) \cap ChainSet(disk.dir[t].first) = {}
        /\ \A s \in Files : \A c \in ChainSet(disk.dir[s].first) : disk.fat[c] # Free

(***************************************************************************)
(* Between two saves every file holds what its last save wrote; a save the *)
(* power cut short leaves the old content or nothing, and no other file is *)
(* touched.  A failed read or write of data or of a link to be freed does  *)
(* not change that.                                                        *)
(***************************************************************************)
LastSaveReadsBack ==
    job = Idle /\ ~torn /\ Spared({"lookup", "clear", "alloc", "link", "close"}) =>
        \A name \in Names : Reads(disk, EntryOf(name), last[name])

(***************************************************************************)
(* Without power failures every cluster in use belongs to a file, also     *)
(* after saves that did not fit or that an error cut short: only errors in *)
(* the table or the entry lose clusters.                                   *)
(***************************************************************************)
NothingLost ==
    job = Idle /\ counts.crashes = 0 /\ Spared({"free", "clear", "alloc", "link", "close"}) =>
        {c \in Clusters : disk.fat[c] # Free} = UNION {ChainSet(disk.dir[s].first) : s \in Files}
=============================================================================
