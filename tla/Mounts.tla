------------------------------- MODULE Mounts -------------------------------
(***************************************************************************)
(* How volumes come up: the boot loader's ramdisk and module images        *)
(* (RamdiskMount.cpp, QKStorageProbe.cpp) and the disk of the legacy IDE   *)
(* ports (QKDrvIDE.cpp) become records of the volume manager               *)
(* (QFSVolumeManager.cpp), which mounts them into the file system tree     *)
(* (QFSVFS.cpp), at once or in a later turn of the main loop.              *)
(*                                                                         *)
(* Everything runs in the main thread; the loops are taken apart into      *)
(* their rounds, since each of them reads a medium, which may fail.  A     *)
(* boot sector is a record of the fields that are looked at, a path a      *)
(* sequence of characters that fits its buffers.                           *)
(***************************************************************************)
EXTENDS Integers, Sequences, FiniteSets

CONSTANTS Machines,      \* modules of the boot loader and disks at the ports, in order
          LowerOf,       \* the lower case of each character
          Standard,      \* the names that begin with "QFS_"
          SectorSize,    \* 512
          Fat12Max, Fat16Max,   \* clusters of a FAT12 and of a FAT16 volume
          Word,          \* 2^32
          Ids,           \* where the heap may put a file system object
          Paths,         \* paths that are looked up
          MaxFaults      \* rounds in which a medium or the heap fails

\* A boot sector, as far as it is read.
Sectors ==
  [bytes : Nat, perCluster : Nat, reserved : Nat, fats : Nat, rootEntries : Nat, total16 : Nat, total32 : Nat,
   size16 : Nat, size32 : Nat, signed : BOOLEAN, parts : Seq([fat : BOOLEAN, first : Nat, count : Nat])]

ASSUME MountsAssumption ==
  /\ SectorSize \in Nat \ {0} /\ Fat12Max \in Nat /\ Fat16Max \in Nat /\ Word \in Nat \ {0} /\ MaxFaults \in Nat
  /\ 0 \notin Ids
  /\ {"QFS_RAMDISK0", "QFS_SHARED"} \subseteq Standard
  /\ Paths \subseteq Seq(DOMAIN LowerOf)
  /\ \A m \in Machines :
       /\ Len(m.modules) \in Nat /\ DOMAIN m.modules = 1..Len(m.modules)
       /\ \A k \in DOMAIN m.modules : /\ m.modules[k].boot \in Sectors /\ m.modules[k].path \in Seq(DOMAIN LowerOf)
                                      /\ m.modules[k].fits => m.modules[k].path # <<>>
       /\ Len(m.disks) \in Nat /\ DOMAIN m.disks = 1..Len(m.disks)
       /\ \A k \in DOMAIN m.disks : \A s \in DOMAIN m.disks[k].heads : m.disks[k].heads[s] \in Sectors

VARIABLES machine,    \* what this machine has of Machines
          stage,      \* how far the boot is; "poll" in the main loop
          cursor,     \* the round of the loop that it is in
          enabled,    \* g_sharedProbeEnabled, from /startup.cfg
          records,    \* m_volumes
          mounts,     \* m_mounts
          live,       \* the file system objects
          dirs,       \* directories made for mount points: <<device, path>>
          faults      \* rounds in which something failed

volumes == <<machine, stage, cursor, enabled, records, mounts, live, dirs, faults>>

RootPath == <<"/">>
SharedPath == <<"/", "s">>

-----------------------------------------------------------------------------
(* Boot sectors. *)

NoSector == [bytes |-> 0, perCluster |-> 0, reserved |-> 0, fats |-> 0, rootEntries |-> 0, total16 |-> 0, total32 |-> 0,
             size16 |-> 0, size32 |-> 0, signed |-> FALSE, parts |-> <<>>]
Choose(short, long) == IF short # 0 THEN short ELSE long
RootDirSectors(b) == (b.rootEntries * 32 + b.bytes - 1) \div b.bytes
FirstDataSector(b) == (b.reserved + b.fats * Choose(b.size16, b.size32) + RootDirSectors(b)) % Word
TotalClusters(b) == (Choose(b.total16, b.total32) - FirstDataSector(b)) \div b.perCluster
ClassifyByClusters(n) ==
  CASE n = 0 -> "unknown"
    [] n \in 1..Fat12Max -> "FAT12"
    [] n > Fat12Max /\ n <= Fat16Max -> "FAT16"
    [] OTHER -> "FAT32"
ProbeFATBootSector(b) ==
  IF /\ b.bytes = SectorSize /\ b.perCluster \in {2 ^ k : k \in 0..7} /\ b.reserved # 0 /\ b.fats # 0
     /\ Choose(b.size16, b.size32) # 0
     /\ Choose(b.total16, b.total32) > FirstDataSector(b)
  THEN ClassifyByClusters(TotalClusters(b)) ELSE "unknown"
Fats == {"FAT16", "FAT32"}
CreateFileSystem(kind, b) == IF kind = "auto" THEN ProbeFATBootSector(b) ELSE kind
\* FAT16::mount and FAT32::mount: what they accept, and where they then take the data to begin.
Mountable(fat, b) ==
  /\ fat \in Fats /\ b.bytes = SectorSize
  /\ fat = "FAT16" => b.perCluster # 0 /\ b.reserved # 0 /\ b.fats # 0 /\ b.size16 # 0 /\ b.rootEntries # 0
DataStart(fat, b) ==
  IF fat = "FAT16" THEN (b.reserved + b.fats * b.size16 + RootDirSectors(b)) % Word
  ELSE (b.reserved + b.fats * b.size32) % Word

-----------------------------------------------------------------------------
(* Media. *)

Device(on, k, from, n) == [on |-> on, k |-> k, from |-> from, n |-> n]
ModuleDevice(m, k) == Device("module", k, 0, m.modules[k].size)
\* A sector of a disk; one that lies beyond it cannot be read.
SectorOf(disk, k) == IF k < disk.sectors /\ k \in DOMAIN disk.heads THEN disk.heads[k] ELSE NoSector
Boot(m, device) ==
  IF device.n = 0 THEN NoSector
  ELSE IF device.on = "module" THEN m.modules[device.k].boot
       ELSE SectorOf(m.disks[device.k], device.from)

LooksLikeFat(b) == ProbeFATBootSector(b) \in Fats
\* The partitions of which bad cannot be read, and the first that holds a volume.
Usable(disk, bad) ==
  LET parts == SectorOf(disk, 0).parts
  IN {i \in DOMAIN parts \ bad : parts[i].fat /\ parts[i].first # 0 /\ parts[i].count # 0
                                 /\ LooksLikeFat(SectorOf(disk, parts[i].first))}
FirstOf(S) == CHOOSE i \in S : \A j \in S : i <= j
NoWindow == [from |-> 0, n |-> 0]
FindFatPartition(disk, bad) ==
  LET head == SectorOf(disk, 0)
      part == head.parts[FirstOf(Usable(disk, bad))]
  IN IF disk.sectors = 0 \/ 0 \in bad THEN NoWindow
     ELSE IF LooksLikeFat(head) THEN [from |-> 0, n |-> disk.sectors]
          ELSE IF ~head.signed \/ Usable(disk, bad) = {} THEN NoWindow
               ELSE [from |-> part.first, n |-> part.count]

-----------------------------------------------------------------------------
(* The tree: which mount point serves a path, and what of the path is left for it. *)

IsMountPrefix_NoBoundary(path, mount) ==
  Len(mount) <= Len(path) /\ \A k \in DOMAIN mount : LowerOf[path[k]] = LowerOf[mount[k]]
IsMountPrefix(path, mount) ==
  /\ Len(mount) # 0 /\ Len(mount) <= Len(path) /\ \A k \in DOMAIN mount : LowerOf[path[k]] = LowerOf[mount[k]]
  /\ mount[Len(mount)] = "/" \/ Len(path) = Len(mount) \/ path[Len(mount) + 1] = "/"
Relative(path, mount) ==
  LET rest == SubSeq(path, Len(mount) + 1, Len(path))
  IN IF rest = <<>> THEN RootPath ELSE IF rest[1] # "/" THEN RootPath \o rest ELSE rest
\* The longest mount point above path, the first one of several.
Above(path) == {j \in DOMAIN mounts : IsMountPrefix(path, mounts[j].path)}
Best(path) == CHOOSE j \in Above(path) : \A k \in Above(path) :
                Len(mounts[k].path) < Len(mounts[j].path) \/ (Len(mounts[k].path) = Len(mounts[j].path) /\ j <= k)
NotFound == [fs |-> 0, rest |-> <<>>]
ResolvePath(path) ==
  IF Above(path) = {} THEN NotFound
  ELSE [fs |-> mounts[Best(path)].fs, rest |-> Relative(path, mounts[Best(path)].path)]

\* ensureMountPathExists makes what is missing of the directories on the way to a mount
\* point, wherever each is served, up to the first that cannot be made: FAT16 makes none,
\* and the root of a volume, which has no entry, is not found and cannot be made either.
Partials(path) == {SubSeq(path, 1, k) : k \in {k \in DOMAIN path : path[k] # "/" /\ (k = Len(path) \/ path[k + 1] = "/")}}
Place(path) == <<live[ResolvePath(path).fs].device, ResolvePath(path).rest>>
Passes(path) ==
  /\ Above(path) # {} /\ ResolvePath(path).rest # RootPath
  /\ Place(path) \in dirs \/ live[ResolvePath(path).fs].fat = "FAT32"
EnsureMountPathExists(path, upto) ==
  dirs \cup {Place(p) : p \in {p \in Partials(path) : Len(p) <= upto /\ \A q \in Partials(path) : Len(q) <= Len(p) => Passes(q)}}

-----------------------------------------------------------------------------
(* The volume manager. *)

Dead == [device |-> Device("none", 0, 0, 0), fat |-> "none", data |-> 0]
NewId == CHOOSE f \in Ids : live[f] = Dead
Record(name, path, kind, device) ==
  [name |-> name, path |-> path, kind |-> kind, device |-> device, fs |-> 0, mounted |-> FALSE]

\* A round in which a medium or the heap fails counts; "unread" leaves no file system, in
\* "cut" it is the making of a directory that fails.
Outcomes == {"fine", "unread", "cut"}
Counted(failed) == (failed => faults < MaxFaults) /\ faults' = faults + (IF failed THEN 1 ELSE 0)

\* mountRecord, on the i-th of recs, which is not mounted.
MountRecord(recs, i, outcome) ==
  LET r == recs[i]  b == Boot(machine, r.device)  fat == CreateFileSystem(r.kind, b)
  IN IF outcome = "unread" \/ ~Mountable(fat, b)
     THEN records' = recs /\ UNCHANGED <<mounts, live, dirs>>
     ELSE /\ \E f \in Ids : live[f] = Dead
          /\ live' = [live EXCEPT ![NewId] = [device |-> r.device, fat |-> fat, data |-> DataStart(fat, b)]]
          /\ \E upto \in IF outcome = "cut" THEN 0..Len(r.path) - 1 ELSE {Len(r.path)} :
                dirs' = EnsureMountPathExists(r.path, upto)
          /\ mounts' = Append(mounts, [path |-> r.path, fs |-> NewId])
          /\ records' = [recs EXCEPT ![i].fs = NewId, ![i].mounted = TRUE]

\* registerBlockDevice and registerVolume.
Taken(name, path) == \E i \in DOMAIN records : records[i].name = name \/ records[i].path = path
Valid(name, path) == name \in Standard /\ path[1] = "/"
Register(name, path, kind, device, outcome) ==
  IF ~Valid(name, path) \/ Taken(name, path) THEN UNCHANGED <<records, mounts, live, dirs>>
  ELSE MountRecord(Append(records, Record(name, path, kind, device)), Len(records) + 1, outcome)
IndexOf(name) == CHOOSE i \in DOMAIN records : records[i].name = name
IsMounted(name) == \E i \in DOMAIN records : records[i].name = name /\ records[i].mounted

Shifted(seq, i) == [j \in 1..Len(seq) - 1 |-> IF j < i THEN seq[j] ELSE seq[j + 1]]
Unmounted(path) ==
  LET hits == {j \in DOMAIN mounts : mounts[j].path = path} IN IF hits = {} THEN mounts ELSE Shifted(mounts, FirstOf(hits))

-----------------------------------------------------------------------------
(* The boot. *)

MountsInit ==
  /\ machine \in Machines /\ stage = "ramdisk" /\ cursor = 1 /\ enabled = FALSE
  /\ records = <<>> /\ mounts = <<>> /\ live = [f \in Ids |-> Dead] /\ dirs = {} /\ faults = 0

\* The module that says so is the ramdisk; where none does, the first one is.
Tagged(m) == {k \in DOMAIN m.modules : m.modules[k].tag = "ramdisk"}
RamdiskModule(m) == IF Tagged(m) # {} THEN FirstOf(Tagged(m)) ELSE IF Len(m.modules) # 0 THEN 1 ELSE 0
HasRamdisk(m) == RamdiskModule(m) # 0 /\ m.modules[RamdiskModule(m)].size # 0

RegisterRamdisk(outcome) ==
  /\ stage = "ramdisk" /\ Counted(outcome # "fine" /\ HasRamdisk(machine))
  /\ IF HasRamdisk(machine)
     THEN /\ Register("QFS_RAMDISK0", RootPath, "FAT32", ModuleDevice(machine, RamdiskModule(machine)), outcome)
          /\ stage' = "retry"
     ELSE stage' = "ports" /\ UNCHANGED <<records, mounts, live, dirs>>
  /\ UNCHANGED <<machine, cursor, enabled>>

\* A ramdisk that is not mounted yet is tried once more.  Once it is, /startup.cfg says
\* whether the ports are looked at; without it they are not.
MountRamdisk(outcome, setting) ==
  /\ stage = "retry" /\ Counted(outcome # "fine" /\ ~IsMounted("QFS_RAMDISK0"))
  /\ IF IsMounted("QFS_RAMDISK0") THEN UNCHANGED <<records, mounts, live, dirs>>
     ELSE MountRecord(records, IndexOf("QFS_RAMDISK0"), outcome)
  /\ enabled' = (setting /\ IsMounted("QFS_RAMDISK0")')
  /\ stage' = "ports" /\ UNCHANGED <<machine, cursor>>

\* A round of probeAndRegisterSharedVolume: the disk at the port, of which bad is not read.
ProbePort(bad, outcome) ==
  /\ stage = "ports" /\ enabled /\ cursor <= Len(machine.disks)
  /\ bad \subseteq {0} \cup DOMAIN SectorOf(machine.disks[cursor], 0).parts
  /\ \E window \in {FindFatPartition(machine.disks[cursor], bad)} :
       /\ Counted(bad # {} \/ (outcome # "fine" /\ window.n # 0))
       /\ IF window.n = 0 THEN cursor' = cursor + 1 /\ UNCHANGED <<stage, records, mounts, live, dirs>>
          ELSE /\ Register("QFS_SHARED", SharedPath, "auto", Device("port", cursor, window.from, window.n), outcome)
               /\ stage' = "pending" /\ cursor' = 1
  /\ UNCHANGED <<machine, enabled>>
PortsProbed ==
  /\ stage = "ports" /\ (~enabled \/ cursor > Len(machine.disks))
  /\ stage' = "pending" /\ cursor' = 1 /\ UNCHANGED <<machine, enabled, records, mounts, live, dirs, faults>>

\* A round of mountPending, at the end of the drivers' initialization and in each turn of
\* the main loop.
InSweep == stage \in {"pending", "poll"} /\ cursor <= Len(records)
MountPendingRound_Return(outcome) ==
  /\ InSweep /\ ~records[cursor].mounted /\ Counted(outcome # "fine")
  /\ MountRecord(records, cursor, outcome)
  /\ cursor' = IF records'[cursor].mounted THEN cursor + 1 ELSE Len(records) + 1
  /\ UNCHANGED <<machine, stage, enabled>>
MountPendingRound(outcome) ==
  /\ InSweep /\ ~records[cursor].mounted /\ Counted(outcome # "fine")
  /\ MountRecord(records, cursor, outcome)
  /\ cursor' = cursor + 1 /\ UNCHANGED <<machine, stage, enabled>>
PassMounted ==
  /\ InSweep /\ records[cursor].mounted
  /\ cursor' = cursor + 1 /\ UNCHANGED <<machine, stage, enabled, records, mounts, live, dirs, faults>>
Swept ==
  /\ stage \in {"pending", "poll"} /\ cursor > Len(records)
  /\ stage' = (IF stage = "pending" THEN "modules" ELSE "poll") /\ cursor' = 1
  /\ UNCHANGED <<machine, enabled, records, mounts, live, dirs, faults>>

\* A round of probeLimineModules.
Kind(token) == CASE token \in {"", "fat32"} -> "FAT32" [] token = "fat16" -> "FAT16" [] token = "auto" -> "auto" [] OTHER -> "none"
ParseDescriptor(m) ==
  m.tag = "volume" /\ m.fits /\ Kind(m.token) # "none"
ProbeModule(outcome) ==
  LET m == machine.modules[cursor]
  IN /\ stage = "modules" /\ cursor <= Len(machine.modules)
     /\ IF m.size # 0 /\ ParseDescriptor(m)
        THEN /\ Counted(outcome # "fine" /\ Valid(m.name, m.path) /\ ~Taken(m.name, m.path))
             /\ Register(m.name, m.path, Kind(m.token), ModuleDevice(machine, cursor), outcome)
        ELSE UNCHANGED <<records, mounts, live, dirs, faults>>
     /\ cursor' = cursor + 1 /\ UNCHANGED <<machine, stage, enabled>>
ModulesProbed ==
  /\ stage = "modules" /\ cursor > Len(machine.modules)
  /\ stage' = "poll" /\ cursor' = 1 /\ UNCHANGED <<machine, enabled, records, mounts, live, dirs, faults>>

\* The manager's interface for taking a volume away, between two turns of the main loop.
UnregisterVolume(name) ==
  /\ stage = "poll" /\ cursor = 1 /\ \E i \in DOMAIN records : records[i].name = name
  /\ LET i == IndexOf(name)  r == records[i]
     IN /\ records' = Shifted(records, i)
        /\ IF r.mounted THEN mounts' = Unmounted(r.path) /\ live' = [live EXCEPT ![r.fs] = Dead]
           ELSE UNCHANGED <<mounts, live>>
  /\ UNCHANGED <<machine, stage, cursor, enabled, dirs, faults>>

Boots ==
  \/ \E outcome \in Outcomes : RegisterRamdisk(outcome)
  \/ \E outcome \in Outcomes, setting \in BOOLEAN : MountRamdisk(outcome, setting)
  \/ \E outcome \in Outcomes : \E bad \in SUBSET (0..4) : ProbePort(bad, outcome)
  \/ PortsProbed
  \/ \E outcome \in Outcomes : ProbeModule(outcome)
  \/ ModulesProbed
Sweeps == (\E outcome \in Outcomes : MountPendingRound(outcome)) \/ PassMounted \/ Swept
MountsNext == Boots \/ Sweeps \/ \E name \in Standard : UnregisterVolume(name)

MountsSpec == MountsInit /\ [][MountsNext]_volumes /\ WF_volumes(Boots \/ Sweeps)

-----------------------------------------------------------------------------
(* What holds whenever the main thread has done a round. *)

Mounted == {i \in DOMAIN records : records[i].mounted}
\* registerVolume, mountRecord, unregisterVolume, VFS::mount and unmount: the mount points
\* are those of the mounted volumes, one each, on file systems that live, each on its own
\* device; and no other file system lives.
OneEach ==
  /\ \A i \in Mounted : \E j \in DOMAIN mounts : mounts[j] = [path |-> records[i].path, fs |-> records[i].fs]
  /\ \A j \in DOMAIN mounts : \E i \in Mounted : mounts[j] = [path |-> records[i].path, fs |-> records[i].fs]
  /\ \A j, k \in DOMAIN mounts : j # k => mounts[j].path # mounts[k].path /\ mounts[j].fs # mounts[k].fs
  /\ \A f \in Ids : live[f] # Dead <=> \E i \in Mounted : records[i].fs = f
  /\ \A i \in Mounted : live[records[i].fs].device = records[i].device
\* No medium is in use by two volumes, unless an image that is itself a volume was taken
\* for the ramdisk.
Apart ==
  Tagged(machine) # {} => \A i, j \in DOMAIN records : i # j =>
                   <<records[i].device.on, records[i].device.k>> # <<records[j].device.on, records[j].device.k>>
\* The probe and the two file systems read the boot sector on their own; where it is as the
\* format has it, they agree on what it is and on where its data begin.
Regular(fat, b) == IF fat = "FAT32" THEN b.size16 = 0 /\ b.rootEntries = 0 ELSE b.size16 # 0
LayoutAgrees ==
  \A i \in Mounted :
    LET r == records[i]  v == live[r.fs]  b == Boot(machine, r.device)
    IN /\ v.fat \in Fats /\ (r.kind = "auto" => v.fat = ProbeFATBootSector(b))
       /\ Regular(v.fat, b) => v.data = FirstDataSector(b)
\* Mount paths that differ by more than their case, and that do not end with a slash.
SameText(p, q) == Len(p) = Len(q) /\ \A k \in DOMAIN p : LowerOf[p[k]] = LowerOf[q[k]]
MountPaths(m) == {RootPath, SharedPath} \cup {m.modules[k].path : k \in DOMAIN m.modules}
Plain(m) == \A p \in MountPaths(m) : /\ \A q \in MountPaths(m) : SameText(p, q) => p = q
                                     /\ p = RootPath \/ p[Len(p)] # "/"
\* p names something that lies in the directory dir itself.
Stem(dir) == IF dir = RootPath THEN 0 ELSE Len(dir)
InDir(p, dir) ==
  /\ Len(p) > Stem(dir) + 1 /\ SameText(SubSeq(p, 1, Stem(dir)), SubSeq(dir, 1, Stem(dir)))
  /\ \A k \in Stem(dir) + 1..Len(p) : p[k] = "/" <=> k = Stem(dir) + 1
\* VFS::resolvePath: what lies in the directory of a mounted volume is served by that volume,
\* under its own name, whatever else is mounted and whatever names it begins like.
TreeLeads ==
  Plain(machine) => \A i \in Mounted, p \in Paths :
    InDir(p, records[i].path) /\ (\A j \in Mounted : ~SameText(records[j].path, p)) =>
      ResolvePath(p) = [fs |-> records[i].fs, rest |-> SubSeq(p, Stem(records[i].path) + 1, Len(p))]
\* ensureMountPathExists: a volume that is mounted in the root directory, after the root, is
\* seen there, if nothing failed.
Listed ==
  Plain(machine) /\ faults = 0 => \A j, k \in DOMAIN mounts :
    j < k /\ mounts[j].path = RootPath /\ live[mounts[j].fs].fat = "FAT32" /\ InDir(mounts[k].path, RootPath) =>
      <<live[mounts[j].fs].device, mounts[k].path>> \in dirs
\* However the boot went, what the volume manager, the file system tree and the media say of
\* the volumes is the same.
MountsAgree == OneEach /\ Apart /\ LayoutAgrees /\ TreeLeads /\ Listed

\* Manager::poll: a volume that can be mounted is mounted in the end, also behind others that
\* never can, unless it is taken away first.
Waits(name) ==
  \E i \in DOMAIN records :
    LET r == records[i]  b == Boot(machine, r.device)
    IN r.name = name /\ ~r.mounted /\ Mountable(CreateFileSystem(r.kind, b), b)
MountedInTheEnd == \A name \in Standard : [](Waits(name) => <>~Waits(name))
=============================================================================
