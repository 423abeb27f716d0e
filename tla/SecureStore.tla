----------------------------- MODULE SecureStore -----------------------------
(***************************************************************************)
(* What the system writes to its root volume: the boot's demo file and     *)
(* secure-store self-tests (RamdiskMount.cpp, TpmSecureStore.cpp,          *)
(* QKSecureStore.cpp), then, from the desktop, the owner files of the      *)
(* setup wizard, the mount point of the shared volume, and the transcripts *)
(* that a path such as /sharedx sends to the root instead of the share.    *)
(*                                                                         *)
(* The root volume is a copy of a boot module in memory: a reset loads it  *)
(* again, so one behaviour is one boot.  Everything runs on one thread; an *)
(* action is one call, and in the secure store one TPM command, because    *)
(* each command may be refused or its answer lost.                         *)
(***************************************************************************)
EXTENDS Fat32

CONSTANTS UserNames,      \* names of misdirected transcripts
          HelloSizes,     \* how much of the volume the image fills
          Fills,          \* directory entries of the image's other files
          MaxFaults,      \* TPM commands that fail
          MaxSaves        \* calls from the desktop

VARIABLES vol,            \* the root volume
          tpm,            \* what the TPM holds: sessions, objects, the PCR
          ready,          \* g_TpmSecureStore.bReady
          pc,             \* where the boot is; "run" once the desktop is up
          call,           \* the secure-store call in progress
          keys,           \* wrap keys drawn so far
          verdict,        \* of the two self-tests
          saved,          \* ghost: path -> what the last save of it left
          hits            \* ghost: failed commands, grown directories, a full volume, saves
vars == <<vol, tpm, ready, pc, call, keys, verdict, saved, hits>>

Store == <<"system", "sc">>
PlainKey == Append(Store, "WRAPKEY.BIN")
TpmKey == Append(Store, "WRAPKEY.TPM")
Demo == <<"QFSDEMO.TXT">>
Hello == <<"HELLO.TXT">>
Flag == <<"PCRTEST.FLG">>
Marker == <<"system", "owner.enrolled">>
Info == <<"system", "owner.info">>
Tracked == {Demo, Hello, Marker, Info} \cup {<<n>> : n \in UserNames}

NoCall == [op |-> "none", path |-> <<>>, blob |-> <<>>, key |-> 0, policy |-> <<>>, wrapped |-> <<>>]

(***************************************************************************)
(* The image: a volume label, other files, HELLO.TXT, perhaps the flag of  *)
(* the second self-test, perhaps a plain key of an earlier system.         *)
(***************************************************************************)
Labelled(fill) ==
    LET root == IF fill + 1 < PerCluster THEN Blank
                ELSE [Blank EXCEPT !.fat[Root] = Root + 1, !.fat[Root + 1] = EOC]
    IN  [root EXCEPT !.dir[Root] = [i \in Slots |-> IF i <= fill THEN Entry("other", "other", 0) ELSE Empty]]

Image(size, fill, flag, legacy) ==
    LET hello == Save(Labelled(fill), Hello, size, <<"text", 0, 0>>).v
        flagged == IF flag THEN Save(hello, Flag, 0, Zero).v ELSE hello
        system == CreateDir(CreateDir(flagged, <<"system">>).v, Store).v
    IN  IF legacy THEN Save(system, PlainKey, 1, <<"plain", 0, 0>>).v ELSE flagged

Init ==
    /\ \E size \in HelloSizes, fill \in Fills, flag \in BOOLEAN, legacy \in BOOLEAN :
          /\ vol = Image(size, fill, flag, legacy)
          /\ saved = [p \in Tracked |-> IF p = Hello THEN [i \in 1..size |-> <<"text", 0, 0>>]
                                        ELSE <<>>]
    /\ tpm = [sessions |-> 0, objects |-> 0, pcr |-> 0, policy |-> <<>>]
    /\ ready = FALSE /\ pc = "off" /\ call = NoCall /\ keys = 0
    /\ verdict = [first |-> "", second |-> ""]
    /\ hits = [faults |-> 0, grown |-> FALSE, full |-> FALSE, saves |-> 0]

(* A save, and what the ghosts keep of it. *)
Noted(r, k) == [hits EXCEPT !.grown = @ \/ r.grown, !.full = @ \/ ~r.ok \/ r.size < k,
                            !.saves = IF pc = "run" THEN @ + 1 ELSE @]
Saves(r, path, k, tag) ==
    /\ vol' = r.v
    /\ saved' = IF r.ok THEN [saved EXCEPT ![path] = [i \in 1..r.size |-> tag]] ELSE saved
    /\ hits' = Noted(r, k)

(***************************************************************************)
(* TryTpm2CrbStartup: the TPM is used when it has a command buffer, was    *)
(* started, now or by the firmware, and draws at least one random byte.    *)
(***************************************************************************)
StartupAnswers == {"timeout", "refused", "already started", "done"}
TryTpm2CrbStartup ==
    /\ pc = "off"
    /\ \E crb \in BOOLEAN, startup, random \in StartupAnswers, bytes \in {0, 1} :
          ready' = (crb /\ startup \in {"already started", "done"} /\ random = "done" /\ bytes > 0)
    /\ pc' = "demo"
    /\ UNCHANGED <<vol, tpm, call, keys, verdict, saved, hits>>

FileIoDemo ==
    /\ pc = "demo"
    /\ pc' = "first"
    /\ Saves(Save(vol, Demo, 1, <<"text", 1, 0>>), Demo, 1, <<"text", 1, 0>>)
    /\ UNCHANGED <<tpm, ready, call, keys, verdict>>

(***************************************************************************)
(* writeBlob and readBlob.  The directories of the store are made on the   *)
(* way; a blob that did not fit stays behind with what was written of it.  *)
(***************************************************************************)
EnsureDir(r, path) ==
    IF Exists(r.v, path) THEN r ELSE LET c == CreateDir(r.v, path) IN [c EXCEPT !.grown = @ \/ r.grown]
BaseDir(r) == [v |-> r.v, ok |-> IsDirectory(r.v, Store), size |-> 0, grown |-> r.grown]
EnsureBaseDir(v) ==
    BaseDir(EnsureDir(EnsureDir([v |-> v, grown |-> FALSE], <<"system">>), Store))

Whole(r, d) == [r EXCEPT !.ok = r.ok /\ r.size = 1, !.grown = r.grown \/ d.grown]
WriteInto(d, path, tag) == IF d.ok THEN Whole(Save(d.v, path, 1, tag), d) ELSE d
WriteBlob(v, path, tag) == WriteInto(EnsureBaseDir(v), path, tag)

ReadBlob(v, path) == Contents(v, path)

Begin(op, path) ==
    /\ call' = [NoCall EXCEPT !.op = op, !.path = path,
                              !.blob = IF op = "read" THEN ReadBlob(vol, path) ELSE <<>>]
    /\ pc' = "key"

(* The end of writeSealedBlob and readSealedBlob, back in the self-test. *)
Test == IF call.path = Append(Store, "SSTEST.BIN") THEN "first" ELSE "second"
Fail == pc' = Test \o (IF call.op = "write" THEN " not written" ELSE " not read")
Succeed == pc' = Test \o (IF call.op = "write" THEN " written" ELSE " read")

WriteSealed_NoKeyCheck(v, key) == WriteBlob(v, call.path, <<"sealed", 0, 0>>)
WriteSealed(v, key) == WriteBlob(v, call.path, <<"sealed", key, 0>>)

(* A read succeeds when the blob is whole and its tag is that of the key. *)
Sealed(blob, key) == blob = <<<<"sealed", key, 0>>>>

Finished(r) == vol' = r.v /\ hits' = Noted(r, 1) /\ IF r.ok THEN Succeed ELSE Fail
Finish(v, key) ==
    IF call.op = "write" THEN Finished(WriteSealed(v, key))
    ELSE /\ vol' = v
         /\ UNCHANGED hits
         /\ IF Sealed(call.blob, key) THEN Succeed ELSE Fail

(***************************************************************************)
(* getOrCreateWrapKey.  Without a TPM the key is a file of its own, made   *)
(* when there is none; with one, the file holds the key sealed to the PCR. *)
(***************************************************************************)
(* The new key is stored; the sealed one takes the place of a plain one,   *)
(* which is removed even when the sealed one could not be stored.          *)
WithoutPlain(v) == IF ready THEN RemoveEntry(v, PlainKey) ELSE v
Keep(r, key) ==
    IF r.ok THEN Finish(WithoutPlain(r.v), key)
    ELSE Fail /\ vol' = WithoutPlain(r.v) /\ hits' = Noted(r, 1)

PlainWrapKey ==
    /\ pc = "key" /\ ~ready
    /\ IF Exists(vol, PlainKey)
       THEN /\ IF Len(ReadBlob(vol, PlainKey)) = 1 THEN Finish(vol, ReadBlob(vol, PlainKey)[1][2])
               ELSE Fail /\ UNCHANGED <<vol, hits>>
            /\ UNCHANGED keys
       ELSE /\ keys' = keys + 1
            /\ Keep(WriteBlob(vol, PlainKey, <<"plain", keys + 1, 0>>), keys + 1)
    /\ UNCHANGED <<tpm, ready, call, verdict, saved>>

KeyExists(v) == Exists(v, TpmKey)

TpmWrapKey ==
    /\ pc = "key" /\ ready
    /\ IF KeyExists(vol) THEN pc' = "u start" /\ UNCHANGED <<keys, call>>
       ELSE /\ keys' = keys + 1
            /\ call' = [call EXCEPT !.key = keys + 1]
            /\ pc' = "s start"
    /\ UNCHANGED <<vol, tpm, ready, verdict, saved, hits>>

(***************************************************************************)
(* The commands of SecureStoreTpmSealWrapKey ("s") and                     *)
(* SecureStoreTpmUnsealWrapKey ("u"): what each is, and where the code     *)
(* goes when it succeeds and when it fails.                                *)
(***************************************************************************)
Step(command, ok, err) == [command |-> command, ok |-> ok, err |-> err]

SealProgram ==
    "s start"   :> Step("StartSession", "s pcr", "fail")
 @@ "s pcr"     :> Step("PolicyPCR", "s digest", "s drop")
 @@ "s digest"  :> Step("GetDigest", "s flush", "s drop")
 @@ "s drop"    :> Step("FlushSession", "fail", "fail")
 @@ "s flush"   :> Step("FlushSession", "s primary", "s primary")
 @@ "s primary" :> Step("CreatePrimary", "s create", "fail")
 @@ "s create"  :> Step("Create", "s unload", "s discard")
 @@ "s discard" :> Step("FlushObject", "fail", "fail")
 @@ "s unload"  :> Step("FlushObject", "keep", "keep")

UnsealProgram ==
    "u start"   :> Step("StartSession", "u pcr", "fail")
 @@ "u pcr"     :> Step("PolicyPCR", "u check", "u drop")
 @@ "u drop"    :> Step("FlushSession", "fail", "fail")
 @@ "u primary" :> Step("CreatePrimary", "u load", "fail")
 @@ "u load"    :> Step("Load", "u unseal", "x primary")
 @@ "u unseal"  :> Step("Unseal", "u object", "x object")
 @@ "u object"  :> Step("FlushObject", "u unload", "u unload")
 @@ "u unload"  :> Step("FlushObject", "u flush", "u flush")
 @@ "u flush"   :> Step("FlushSession", "got", "got")
 @@ "x object"  :> Step("FlushObject", "x primary", "x primary")
 @@ "x primary" :> Step("FlushObject", "u drop", "u drop")

Program == SealProgram @@ UnsealProgram

(***************************************************************************)
(* The commands: what each leaves in the TPM and in the caller's hands.  A *)
(* session's policy is the list of the PCR values it was bound to; the     *)
(* digest of one session is the policy of the key sealed with it.          *)
(***************************************************************************)
Done(t, c) == [tpm |-> t, call |-> c]

TpmStartPolicySession == Done([tpm EXCEPT !.sessions = @ + 1, !.policy = <<>>], call)
TpmPolicyPCR == Done([tpm EXCEPT !.policy = Append(@, tpm.pcr)], call)
TpmPolicyGetDigest == Done(tpm, [call EXCEPT !.policy = tpm.policy])
TpmCreatePrimaryStorageKey == Done([tpm EXCEPT !.objects = @ + 1], call)
TpmCreateSealedObject == Done(tpm, [call EXCEPT !.wrapped = <<"tpm", call.key, call.policy>>])
TpmLoadSealedObject == Done([tpm EXCEPT !.objects = @ + 1], call)
TpmFlushContext(kind) == Done([tpm EXCEPT ![kind] = @ - 1], call)
TpmPcrExtendSha256 == [tpm EXCEPT !.pcr = @ + 1]

WrapKey == ReadBlob(vol, TpmKey)[1]
TpmUnsealWithAuthSession == Done(tpm, [call EXCEPT !.key = WrapKey[2]])

Effect(command) ==
    CASE command = "StartSession" -> TpmStartPolicySession
      [] command = "PolicyPCR" -> TpmPolicyPCR
      [] command = "GetDigest" -> TpmPolicyGetDigest
      [] command = "CreatePrimary" -> TpmCreatePrimaryStorageKey
      [] command = "Create" -> TpmCreateSealedObject
      [] command = "Load" -> TpmLoadSealedObject
      [] command = "Unseal" -> TpmUnsealWithAuthSession
      [] command = "FlushSession" -> TpmFlushContext("sessions")
      [] command = "FlushObject" -> TpmFlushContext("objects")

(* A key is given out to a session with the policy it was sealed with. *)
RefusedByTpm(command) == command = "Unseal" /\ WrapKey[3] # tpm.policy

(* CrbSubmitQuiet: the command is done; or refused; or its answer does not *)
(* come in time, done or not.                                              *)
CrbSubmitQuiet ==
    /\ pc \in DOMAIN Program
    /\ LET s == Program[pc]
       IN  \/ /\ ~RefusedByTpm(s.command)
              /\ tpm' = Effect(s.command).tpm
              /\ call' = Effect(s.command).call
              /\ pc' = s.ok
              /\ UNCHANGED hits
           \/ /\ RefusedByTpm(s.command)
              /\ pc' = s.err
              /\ UNCHANGED <<tpm, call, hits>>
           \/ /\ hits.faults < MaxFaults
              /\ hits' = [hits EXCEPT !.faults = @ + 1]
              /\ tpm' \in {tpm, Effect(s.command).tpm}
              /\ pc' = s.err
              /\ UNCHANGED call
    /\ UNCHANGED <<vol, ready, keys, verdict, saved>>

(* The sealed key is checked after the session is open: one that was cut   *)
(* short ends the call there.                                              *)
CheckBlob ==
    /\ pc = "u check"
    /\ pc' = IF Len(ReadBlob(vol, TpmKey)) = 1 THEN "u primary" ELSE "fail"
    /\ UNCHANGED <<vol, tpm, ready, call, keys, verdict, saved, hits>>

KeepKey ==
    /\ pc = "keep"
    /\ Keep(WriteBlob(vol, TpmKey, call.wrapped), call.key)
    /\ UNCHANGED <<tpm, ready, call, keys, verdict, saved>>

GotKey ==
    /\ pc = "got"
    /\ Finish(vol, call.key)
    /\ UNCHANGED <<tpm, ready, call, keys, verdict, saved>>

KeyFailed ==
    /\ pc = "fail"
    /\ Fail
    /\ UNCHANGED <<vol, tpm, ready, call, keys, verdict, saved, hits>>

(***************************************************************************)
(* SecureStoreSelfTest: write a sealed blob, read it, remove it.           *)
(***************************************************************************)
SelfTest == Append(Store, "SSTEST.BIN")

FirstInto(d) ==
    /\ vol' = d.v
    /\ hits' = [hits EXCEPT !.grown = @ \/ d.grown, !.full = @ \/ ~d.ok]
    /\ IF d.ok THEN call' = [NoCall EXCEPT !.op = "write", !.path = SelfTest] /\ pc' = "key"
       ELSE pc' = "second" /\ UNCHANGED call

FirstBegin ==
    /\ pc = "first"
    /\ FirstInto(EnsureBaseDir(vol))
    /\ UNCHANGED <<tpm, ready, keys, verdict, saved>>

FirstRead ==
    /\ pc = "first written"
    /\ Begin("read", SelfTest)
    /\ UNCHANGED <<vol, tpm, ready, keys, verdict, saved, hits>>

FirstEnd ==
    /\ pc \in {"first not written", "first read", "first not read"}
    /\ verdict' = [verdict EXCEPT !.first = pc]
    /\ vol' = IF pc = "first not written" THEN vol ELSE RemoveEntry(vol, SelfTest)
    /\ pc' = "second" /\ call' = NoCall
    /\ UNCHANGED <<tpm, ready, keys, saved, hits>>

(***************************************************************************)
(* SecureStorePcrMismatchTest: write a sealed blob, extend the PCR, and    *)
(* expect the read to fail; then remove the blob and the keys.             *)
(***************************************************************************)
Negative == Append(Store, "PCRNEG.BIN")

SecondBegin ==
    /\ pc = "second"
    /\ IF ready /\ Exists(vol, Flag) THEN Begin("write", Negative) ELSE pc' = "run" /\ UNCHANGED call
    /\ UNCHANGED <<vol, tpm, ready, keys, verdict, saved, hits>>

SecondExtend ==
    /\ pc = "second written"
    /\ \/ /\ tpm' = TpmPcrExtendSha256
          /\ Begin("read", Negative)
          /\ UNCHANGED <<vol, hits>>
       \/ /\ hits.faults < MaxFaults
          /\ hits' = [hits EXCEPT !.faults = @ + 1]
          /\ tpm' \in {tpm, TpmPcrExtendSha256}
          /\ vol' = RemoveEntry(vol, Negative)
          /\ pc' = "run" /\ call' = NoCall
    /\ UNCHANGED <<ready, keys, verdict, saved>>

SecondEnd ==
    /\ pc \in {"second not written", "second read", "second not read"}
    /\ verdict' = [verdict EXCEPT !.second = pc]
    /\ vol' = IF pc = "second not written" THEN vol
              ELSE RemoveEntry(RemoveEntry(RemoveEntry(vol, Negative), TpmKey), PlainKey)
    /\ pc' = "run" /\ call' = NoCall
    /\ UNCHANGED <<tpm, ready, keys, saved, hits>>

(***************************************************************************)
(* The desktop.                                                            *)
(***************************************************************************)
Desktop ==
    /\ pc = "run" /\ hits.saves < MaxSaves
    /\ UNCHANGED <<tpm, ready, pc, call, keys, verdict>>
Counted(h) == [h EXCEPT !.saves = @ + 1]

(* Terminal::executeLine, saveterm to a path that only begins like the     *)
(* share's: the transcript lands on the root volume.                       *)
SaveTerminal(name, k) ==
    /\ Desktop
    /\ Saves(Save(vol, <<name>>, k, <<"text", 2 + hits.saves, 0>>), <<name>>, k,
             <<"text", 2 + hits.saves, 0>>)

(* SetupWizard::tryWriteOwnerMarker: the marker, then the name. *)
OwnerInfo(m, i) ==
    /\ vol' = i.v
    /\ hits' = Counted([hits EXCEPT !.grown = @ \/ m.grown \/ i.grown,
                                    !.full = @ \/ ~m.ok \/ ~i.ok \/ i.size = 0])
    /\ saved' = IF m.ok /\ i.ok
                THEN [saved EXCEPT ![Marker] = [j \in 1..m.size |-> <<"text", 2 + hits.saves, 1>>],
                                   ![Info] = [j \in 1..i.size |-> <<"text", 2 + hits.saves, 2>>]]
                ELSE saved
OwnerMarker(s, m) ==
    OwnerInfo([m EXCEPT !.grown = @ \/ s.grown],
              IF m.ok THEN Save(m.v, Info, 1, <<"text", 2 + hits.saves, 2>>) ELSE m)
OwnerIn(s) == OwnerMarker(s, Save(s.v, Marker, 1, <<"text", 2 + hits.saves, 1>>))
WriteOwner == Desktop /\ OwnerIn(EnsureDir([v |-> vol, grown |-> FALSE], <<"system">>))

(* ensureMountPathExists, when the shared volume is mounted. *)
Made(r) == vol' = r.v /\ hits' = Counted([hits EXCEPT !.grown = @ \/ r.grown])
MountPoint ==
    /\ Desktop
    /\ ~Exists(vol, <<"shared">>)
    /\ Made(CreateDir(vol, <<"shared">>))
    /\ UNCHANGED saved

Next ==
    \/ TryTpm2CrbStartup \/ FileIoDemo
    \/ PlainWrapKey \/ TpmWrapKey \/ CrbSubmitQuiet \/ CheckBlob \/ KeepKey \/ GotKey \/ KeyFailed
    \/ FirstBegin \/ FirstRead \/ FirstEnd
    \/ SecondBegin \/ SecondExtend \/ SecondEnd
    \/ \E name \in UserNames, k \in 0..2 : SaveTerminal(name, k)
    \/ WriteOwner \/ MountPoint

Spec == Init /\ [][Next]_vars

(***************************************************************************)
(* The volume is consistent after every call: no cluster belongs to two    *)
(* files, a file has the clusters its size says, and no cluster is lost -  *)
(* except, for the last, after a directory has grown.                      *)
(***************************************************************************)
VolumeSound ==
    /\ Unshared(vol)
    /\ ~hits.grown => FullySized(vol) /\ Unleaked(vol)

(***************************************************************************)
(* A file holds what its last save wrote, whatever was saved or removed    *)
(* since - if its name fits 8.3 and no directory has grown.                *)
(***************************************************************************)
Fits(path) == \A i \in 1..Len(path) : path[i] \notin LongNames
ReadsBack ==
    ~hits.grown => \A path \in Tracked : Fits(path) => Contents(vol, path) = saved[path]

(***************************************************************************)
(* Whichever of a call's commands fails, or is carried out although its    *)
(* answer comes too late, the way out flushes all else that was acquired:  *)
(* between two calls the TPM holds at most one session and one object of   *)
(* ours for each command that failed (both when it was the unseal's        *)
(* CreatePrimary, whose way out forgets the policy session).  Unless the   *)
(* sealed key on the volume was cut short: that call returns with its      *)
(* policy session open.                                                    *)
(***************************************************************************)
KeyCutShort == Exists(vol, TpmKey) /\ Len(ReadBlob(vol, TpmKey)) = 0
HandlesReturned ==
    call = NoCall /\ ~KeyCutShort =>
        /\ tpm.sessions \in 0 .. hits.faults
        /\ tpm.objects \in 0 .. hits.faults

(***************************************************************************)
(* The self-tests mean what they say.  A sealed blob that was written is   *)
(* read again unless a TPM command failed in between; once the PCR has     *)
(* moved, the key is not given out and the blob not opened; and they leave *)
(* nothing behind in the TPM but what a failed command leaves.             *)
(***************************************************************************)
SelfTestsTell ==
    /\ verdict.first = "first not read" => hits.faults > 0
    /\ verdict.second # "second read"
    /\ HandlesReturned
=============================================================================
