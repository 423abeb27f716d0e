------------------------------- MODULE Fat32 -------------------------------
(***************************************************************************)
(* FAT32 (QFSFAT32.cpp) as operators on a volume: a table of links, and    *)
(* for every cluster the directory entries and the data it holds.  The     *)
(* device is the boot ramdisk (a MemoryBlockDevice), whose reads and       *)
(* writes do not fail, so that a call is one step and the state between    *)
(* its sector writes is never seen.                                        *)
(*                                                                         *)
(* A path is the sequence of its names.  A name outside 8.3 is stored cut  *)
(* by formatName, and the search compares the name asked for with the      *)
(* stored one: such an entry is written but never found again.             *)
(***************************************************************************)
EXTENDS Naturals, Sequences, FiniteSets, SequencesExt

CONSTANTS NClusters,      \* data clusters, numbered from 2
          PerCluster,     \* directory entries in a cluster
          LongNames       \* the names that do not fit 8.3

ASSUME FatAssumption ==
    /\ NClusters \in Nat \ {0}
    /\ PerCluster \in Nat \ {0, 1}

Clusters == 2..(NClusters + 1)
Free == 0
EOC == NClusters + 2
Root == 2
NoIndex == NClusters * PerCluster

Stored(name) == IF name \in LongNames THEN "cut" ELSE name

Empty == [kind |-> "free", name |-> "", first |-> 0, size |-> 0]
Entry(kind, name, first) ==
    [kind |-> kind, name |-> Stored(name), first |-> first, size |-> 0]
Zero == <<"zero", 0, 0>>
Slots == 0..(PerCluster - 1)
NoEntries == [i \in Slots |-> Empty]

(* The volume of a fresh image: an empty root directory. *)
Blank == [fat  |-> [c \in Clusters |-> IF c = Root THEN EOC ELSE Free],
          dir  |-> [c \in Clusters |-> NoEntries],
          data |-> [c \in Clusters |-> Zero]]

(* The clusters of a chain, in order. *)
RECURSIVE Chain(_, _)
Chain(v, c) == IF c \in Clusters THEN <<c>> \o Chain(v, v.fat[c]) ELSE <<>>
ChainSet(v, c) == Range(Chain(v, c))

(* traverseToCluster: the cluster k links after c. *)
Nth(chain, k) == IF k < Len(chain) THEN chain[k + 1] ELSE EOC
Traverse(v, c, k) == Nth(Chain(v, c), k)

(* The entries of a directory by their index. *)
Entries(v, chain) ==
    [x \in 0..(Len(chain) * PerCluster - 1) |-> v.dir[chain[x \div PerCluster + 1]][x % PerCluster]]
Listing(v, d) == Entries(v, Chain(v, d))
EntryAt(v, d, x) == v.dir[Traverse(v, d, x \div PerCluster)][x % PerCluster]

(* The scan of one directory: the rest of a cluster after an unused entry  *)
(* is not looked at.                                                       *)
Smallest(S) == IF S = {} THEN NoIndex ELSE Min(S)
FirstMatch(list, name) ==
    Smallest({x \in DOMAIN list :
                 /\ list[x].kind \in {"file", "dir"} /\ list[x].name = name
                 /\ \A y \in (x - (x % PerCluster))..x : list[y].kind # "free"})

(* findEntry: the directory the path's last name is looked up in (zero     *)
(* when a name before it is missing or is a file), the index of its entry, *)
(* and the entry.                                                          *)
Found(v, d, x) == [d |-> d, x |-> x, e |-> IF x = NoIndex THEN Empty ELSE EntryAt(v, d, x)]
FindIn(v, d, name) == Found(v, d, IF d = 0 THEN NoIndex ELSE FirstMatch(Listing(v, d), name))
Enter(e) == IF e.kind = "dir" THEN e.first ELSE 0
DirCluster(v, path) == FoldLeft(LAMBDA d, name : Enter(FindIn(v, d, name).e), Root, path)
FindEntry(v, path) == FindIn(v, DirCluster(v, Front(path)), Last(path))

Exists(v, path) == FindEntry(v, path).x # NoIndex
IsDirectory(v, path) == FindEntry(v, path).e.kind = "dir"

(* allocateCluster: the first free cluster, marked and zeroed. *)
Take(v, c) ==
    IF c = NoIndex THEN [v |-> v, c |-> 0]
    ELSE [v |-> [v EXCEPT !.fat[c] = EOC, !.dir[c] = NoEntries, !.data[c] = Zero], c |-> c]
AllocateCluster(v) == Take(v, Smallest({c \in Clusters : v.fat[c] = Free}))

FreeClusterChain_First(v, c) == IF c \in Clusters THEN [v EXCEPT !.fat[c] = Free] ELSE v
FreeClusterChain(v, c) ==
    LET chain == ChainSet(v, c)
    IN  [v EXCEPT !.fat = [k \in Clusters |-> IF k \in chain THEN Free ELSE @[k]]]

(* findFreeDirectoryEntry: a directory without an unused entry is given    *)
(* one more cluster, and the index returned is that of the first entry of  *)
(* the cluster before it.                                                  *)
Unused(list) == Smallest({x \in DOMAIN list : list[x].kind \in {"free", "deleted"}})
Grow(chain, a) ==
    IF a.c = 0 THEN [v |-> a.v, x |-> NoIndex, grown |-> FALSE]
    ELSE [v |-> [a.v EXCEPT !.fat[Last(chain)] = a.c],
          x |-> (Len(chain) - 1) * PerCluster, grown |-> TRUE]
FreeEntryAt(v, d, x) ==
    IF x # NoIndex THEN [v |-> v, x |-> x, grown |-> FALSE]
    ELSE Grow(Chain(v, d), AllocateCluster(v))
FindFreeEntry(v, d) == FreeEntryAt(v, d, Unused(Listing(v, d)))

UpdateDirectoryEntry(v, d, x, e) ==
    [v EXCEPT !.dir[Traverse(v, d, x \div PerCluster)][x % PerCluster] = e]

(* createDir: "grown" says that a directory had to grow for it. *)
Refused(v, grown) == [v |-> v, ok |-> FALSE, size |-> 0, d |-> 0, x |-> 0, grown |-> grown]
Dots(c, parent) ==
    [i \in Slots |-> IF i < 2 THEN Entry("dot", "dot", IF i = 0 THEN c ELSE parent) ELSE Empty]
LinkDir(a, p, name, f) ==
    IF a.c = 0 THEN Refused(a.v, f.grown)
    ELSE [v |-> UpdateDirectoryEntry([a.v EXCEPT !.dir[a.c] = Dots(a.c, p)], p, f.x,
                                     Entry("dir", name, a.c)),
          ok |-> TRUE, grown |-> f.grown]
MakeDir(p, name, f) ==
    IF f.x = NoIndex THEN Refused(f.v, FALSE) ELSE LinkDir(AllocateCluster(f.v), p, name, f)
CreateDirAt(v, found, name) ==
    IF found.x # NoIndex \/ found.d = 0 THEN Refused(v, FALSE)
    ELSE MakeDir(found.d, name, FindFreeEntry(v, found.d))
CreateDir(v, path) == CreateDirAt(v, FindEntry(v, path), Last(path))

(* open with Write, Create and Truncate: the entry is made when the search *)
(* does not find one; the chain of a file that is there is given back, but *)
(* its entry is left as it is until the file is closed.                    *)
MakeFile(d, name, f) ==
    IF f.x = NoIndex THEN Refused(f.v, FALSE)
    ELSE [v |-> UpdateDirectoryEntry(f.v, d, f.x, Entry("file", name, 0)),
          ok |-> TRUE, d |-> d, x |-> f.x, grown |-> f.grown]
OpenAt(v, found, name) ==
    CASE found.e.kind = "dir" -> Refused(v, FALSE)
      [] found.e.kind = "file" -> [v |-> FreeClusterChain(v, found.e.first), ok |-> TRUE,
                                   d |-> found.d, x |-> found.x, grown |-> FALSE]
      [] found.x = NoIndex /\ found.d = 0 -> Refused(v, FALSE)
      [] OTHER -> MakeFile(found.d, name, FindFreeEntry(v, found.d))
OpenForSave(v, path) == OpenAt(v, FindEntry(v, path), Last(path))

(* write of k clusters at the start of a truncated file: it stops at the   *)
(* first cluster that cannot be had.                                       *)
Extend(w, a, tag) ==
    IF a.c = 0 THEN w
    ELSE [v |-> [a.v EXCEPT !.data[a.c] = tag,
                            !.fat = IF w.last = 0 THEN @ ELSE [@ EXCEPT ![w.last] = a.c]],
          first |-> IF w.first = 0 THEN a.c ELSE w.first, last |-> a.c, size |-> w.size + 1]
Write(v, k, tag) ==
    FoldLeft(LAMBDA w, i : Extend(w, AllocateCluster(w.v), tag),
             [v |-> v, first |-> 0, last |-> 0, size |-> 0], [i \in 1..k |-> i])

(* close: size and first cluster are written to the entry. *)
Sized(e, w) == [e EXCEPT !.first = w.first, !.size = w.size]
Close_Grows(d, x, w) ==
    LET e == EntryAt(w.v, d, x)
    IN  UpdateDirectoryEntry(w.v, d, x, [e EXCEPT !.first = w.first,
                                                  !.size = IF @ > w.size THEN @ ELSE w.size])
Close(d, x, w) == UpdateDirectoryEntry(w.v, d, x, Sized(EntryAt(w.v, d, x), w))

(* What every writer of the system does: open, write, close. *)
Closed(o, w) == [v |-> Close(o.d, o.x, w), ok |-> TRUE, size |-> w.size, grown |-> o.grown]
WriteAll(o, k, tag) == IF o.ok THEN Closed(o, Write(o.v, k, tag)) ELSE o
Save(v, path, k, tag) == WriteAll(OpenForSave(v, path), k, tag)

(* remove: the entry first, then the chain; directories only when empty. *)
IsEmptyDir(list) == \A x \in DOMAIN list : list[x].kind \in {"free", "deleted", "dot"}
RemoveFound(v, f) ==
    IF f.x = NoIndex \/ (f.e.kind = "dir" /\ ~IsEmptyDir(Listing(v, f.e.first))) THEN v
    ELSE FreeClusterChain(UpdateDirectoryEntry(v, f.d, f.x, [f.e EXCEPT !.kind = "deleted"]),
                          f.e.first)
RemoveEntry(v, path) == RemoveFound(v, FindEntry(v, path))

(* open for reading and read to the end: the data of the clusters of a     *)
(* file, in order.                                                         *)
Data(v, e, chain) == [i \in 1..e.size |-> IF i <= Len(chain) THEN v.data[chain[i]] ELSE Zero]
DataOf(v, e) == Data(v, e, Chain(v, e.first))
Contents(v, path) == DataOf(v, FindEntry(v, path).e)

(***************************************************************************)
(* What a consistent volume is: every cluster in use belongs to one entry  *)
(* or to the root directory, and a file has as many clusters as it is      *)
(* long.                                                                   *)
(***************************************************************************)
InUse(v) == {c \in Clusters : v.fat[c] # Free}
LiveEntries(v) ==
    {p \in InUse(v) \X Slots : v.dir[p[1]][p[2]].kind \in {"file", "dir"}}
FirstOf(v, p) == v.dir[p[1]][p[2]].first

Unshared(v) ==
    LET live == LiveEntries(v)
        of == [p \in live |-> ChainSet(v, FirstOf(v, p))]
    IN  \A p \in live : Root \notin of[p] /\ \A q \in live \ {p} : of[p] \cap of[q] = {}
FullySized(v) ==
    \A p \in LiveEntries(v) :
        v.dir[p[1]][p[2]].kind = "file"
            => Len(Chain(v, FirstOf(v, p))) = v.dir[p[1]][p[2]].size
Unleaked(v) ==
    InUse(v) = ChainSet(v, Root) \cup UNION {ChainSet(v, FirstOf(v, p)) : p \in LiveEntries(v)}
=============================================================================
