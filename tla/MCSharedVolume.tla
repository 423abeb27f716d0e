--------------------------- MODULE MCSharedVolume ---------------------------
(***************************************************************************)
(* The shared volume for TLC, and how it and the other volumes come up:    *)
(* each is checked with the other one standing still; /startup.cfg, which  *)
(* decides whether the volume is looked for; and the console and the       *)
(* terminal, whose saveterm writes to it.  TLC evaluates the assumptions   *)
(* before the model.                                                       *)
(***************************************************************************)
EXTENDS SharedVolume, Mounts, TLC

VARIABLE side

S == INSTANCE StartupConfig WITH MaxLine <- 12
Settings == {"MODE", "SC_MODE", "SC_BYPASS", "IDE_SHARED", "SAVETERM", "POWEROFF_AFTER_SAVETERM"}

\* The last setting of a key is in force, however it is written.
ASSUME SettingsAreRead == S!ConfigAgrees(Settings, {"SAFE", "ENFORCE", "1", "0", "x"})
\* A line beyond the buffer is cut, and only that line.
ASSUME LongLinesAreCut == S!LongLinesEnd(Settings, {"SAFE", "ENFORCE", "1", "0"}) /\ S!CommentTakesSetting
\* A transcript is saved once for each time the file asks for it, if the share is there.
ASSUME TranscriptIsSavedOnce == S!SavedOnce({"0", "1", "x"})

\* Buffers short enough to be full.
C == INSTANCE Console WITH LineSize <- 3, MaxArgs <- 2, NameSize <- 3, MaxCommands <- 2, PathSize <- 8, CwdSize <- 5,
                           MaxSegments <- 6, Word <- 100, InSize <- 3, OutSize <- 4, TranscriptSize <- 7,
                           LowerOf <- "A" :> "a" @@ "B" :> "b" @@ "SET" :> "set"
\* A path leads where walking leads; a long working directory is cut; ls shows where cd went.
ASSUME PathsLead == C!PathsAgree({"/", ".", "a"}, 6) /\ C!CwdIsCut /\ C!ListsWhereItIs({"/", ".", "a"}, 4)
\* The line on the screen is the line that is run, word by word.
ASSUME LinesAreRun == C!LinesAgree(5) /\ C!WordsAgree({"a", " "}, 2, 3)
\* Every line finds the command that its first word names.
Own == <<<<"a">>, <<"b", "B">>>>
Shared == <<<<"b">>, <<"A">>, <<"a", "b">>>>
ASSUME CommandsAreFound == /\ C!TablesAgree({"a", "A", "b"}, 4)
                           /\ C!LinesFind(Own, Shared, {"a", "A", "b", " "}, 5)
                           /\ C!HelpIsWhole(Own, Shared)
\* Addresses and ports are those that are written.
ASSUME NumbersAreRead == /\ C!AddressesAgree({0, 9, 10, 99, 255, 256, 260}) /\ C!Beginnings /\ C!PingsAddress
                         /\ C!PortsAgree(60) /\ C!SettingsAgree
\* What is printed and saved is what the file or the screen had.
ASSUME OutputIsWhole == C!CatsAgree(7) /\ C!TranscriptsAgree(4) /\ C!SavesUnderShared(5)

\* Names of two symbols and an extension of one; long names of five are cut.
F == INSTANCE FatNames WITH BaseSize <- 2, ExtSize <- 1, LongSize <- 5, Root <- "root", LowerOf <- "A" :> "a" @@ "B" :> "b",
       Code <- "A" :> 65 @@ "B" :> 66 @@ "D" :> 68 @@ " " :> 32 @@ "." :> 46
Lone(start, sum, text) == [kind |-> "long", start |-> start, sum |-> sum, text |-> text]
Of(kind, name) == [kind |-> kind, name |-> name, flags |-> [base |-> TRUE, ext |-> FALSE], first |-> 0, size |-> 2]
Mark(kind) == [kind |-> kind]
Gone == {<<>>, <<Mark("deleted")>>, <<Mark("label")>>, <<Of("file", <<"D", "D", " ">>)>>,
         <<Lone(TRUE, F!SfnChecksum(<<"A", "B", " ">>), <<"b", "b">>)>>, <<Lone(FALSE, 7, <<"b", "b">>)>>,
         <<Lone(TRUE, 7, <<"b", "b">>), Mark("unknown")>>, <<Lone(TRUE, 7, <<"b", "nul">>), Mark("deleted"), Lone(FALSE, 7, <<"a", "a">>)>>}
\* A file is found under its name if that fits, and other systems' long names are read.
ASSUME NamesAreFound ==
  /\ F!MadeIsFound({"A", "a", "b", ".", " "}, 5)
  /\ F!LongIsFound(F!Spellings({"a", "B", "."}, 4) \cup {<<"a", "b", "a", "b", "B", "B">>}, <<"A", "B", " ">>, Gone, 2)
  /\ F!ListedIsFound({Mark("deleted"), Mark("end"), Of("file", <<"A", "B", " ">>), Of("dir", <<"B", " ", "A">>),
                      Lone(TRUE, F!SfnChecksum(<<"A", "B", " ">>), <<"b", "b">>), Lone(FALSE, F!SfnChecksum(<<"A", "B", " ">>), <<"a", "wide">>)}, 4)

-----------------------------------------------------------------------------
\* Boot sectors: the number of reserved sectors, FATs and entries of the root directory, and
\* the sizes of the volume and of a FAT in their short and long fields.
Bpb(reserved, fats, root, total16, total32, size16, size32) ==
  [NoSector EXCEPT !.bytes = SectorSize, !.perCluster = 1, !.reserved = reserved, !.fats = fats, !.rootEntries = root,
     !.total16 = total16, !.total32 = total32, !.size16 = size16, !.size32 = size32, !.signed = TRUE]
Sector32 == Bpb(1, 1, 0, 0, 9, 0, 1)
Sector16 == Bpb(1, 1, 4, 8, 0, 1, 0)
Sector12 == Bpb(1, 1, 2, 5, 0, 1, 0)
Sector16Long == Bpb(1, 1, 4, 8, 0, 0, 1)    \* the size of a FAT where FAT16 does not look
Sector32Short == Bpb(1, 2, 0, 0, 12, 2, 1)  \* and where FAT32 does not
SectorWrapped == Bpb(1, 1, 0, 0, 9, 0, Word - 1)
Parted(parts) == [NoSector EXCEPT !.signed = TRUE, !.parts = parts]
Part(fat, first, count) == [fat |-> fat, first |-> first, count |-> count]

Ramdisk(boot) == [tag |-> "ramdisk", fits |-> FALSE, name |-> "", path |-> RootPath, token |-> "", size |-> 9, boot |-> boot]
Volume(name, path, token, boot) ==
  [tag |-> "volume", fits |-> TRUE, name |-> name, path |-> path, token |-> token, size |-> 9, boot |-> boot]
M == <<"/", "m">>
MCModules ==
  {<<>>, <<Ramdisk(Sector32), Volume("QFS_MOD", M, "auto", Sector16)>>,
   <<Volume("QFS_MOD", <<"/", "S">>, "", Sector32Short), Ramdisk(Sector32)>>,
   <<Ramdisk(Sector32), Volume("QFS_MOD", SharedPath \o M, "auto", Sector32)>>,
   <<Volume("QFS_MOD", M, "auto", SectorWrapped)>>,
   <<Ramdisk(NoSector), Volume("QFS_MOD", M \o M, "fat32", Sector32)>>,
   <<Ramdisk(Sector32), Volume("QFS_MOD", M, "auto", Sector16Long), Volume("MOD", M, "auto", Sector32),
     Volume("QFS_SHARED", M, "auto", Sector16), [Volume("QFS_EXTRA", M \o M, "", Sector32) EXCEPT !.size = 0],
     Volume("QFS_EXTRA", <<"/", "m", "x">>, "fat16", Sector16)>>}
NoDisk == [sectors |-> 0, heads |-> <<>>]
Disk(size, heads) == [sectors |-> size, heads |-> heads]
Sole(head) == [i \in {0} |-> head]
MCDisks ==
  {<<NoDisk, NoDisk>>,
   <<NoDisk, Disk(8, Sole(Sector16))>>,
   <<Disk(8, Sole(Sector12)),
     Disk(20, [i \in {0, 2, 9} |-> CASE i = 0 -> Parted(<<Part(FALSE, 2, 8), Part(TRUE, 30, 8), Part(TRUE, 2, 8), Part(TRUE, 9, 9)>>)
                                     [] i = 2 -> Sector16 [] OTHER -> Sector32])>>}
MCMachines == [modules : MCModules, disks : MCDisks]
MCLowerOf == [c \in {"/", "m", "s", "x", "M", "S", "X"} |-> CASE c = "M" -> "m" [] c = "S" -> "s" [] c = "X" -> "x" [] OTHER -> c]
MCPaths == {<<"/", "x">>, <<"/", "s">>, <<"/", "S", "/", "x">>, <<"/", "s", "x">>, <<"/", "s", "/", "m">>, <<"/", "s", "/", "m", "/", "x">>,
            <<"/", "M", "/", "x">>, <<"/", "m", "x", "/", "s">>}

\* The side that stands still begins in one of its initial states.
MCInit == /\ side \in {"disk", "tree"} /\ SharedInit /\ MountsInit
          /\ side = "disk" => machine = [modules |-> <<>>, disks |-> <<NoDisk, NoDisk>>]
MCNext == /\ UNCHANGED side
          /\ \/ side = "disk" /\ SharedNext /\ UNCHANGED volumes
             \/ side = "tree" /\ MountsNext /\ UNCHANGED shared
MCSpec == MCInit /\ [][MCNext]_<<side, shared, volumes>> /\ WF_volumes(Boots \/ Sweeps)
=============================================================================
