--------------------------- MODULE DbOffsite_proofs ---------------------------
(***************************************************************************)
(* Proofs about DbOffsite, for any number of processes, versions, seconds  *)
(* and encryptions and any retention: the types, what `db backup` promises, *)
(* that verdicts are honest, that a restore verification drops its own     *)
(* database only, and that the bucket keeps a copy.  IInv is inductive, and *)
(* CopyInv with it; the properties follow from them.                       *)
(***************************************************************************)
EXTENDS DbOffsite, FiniteSetTheorems, WellFoundedInduction, TLAPS

-----------------------------------------------------------------------------
(* The inductive invariant *)

Locals ==
  [cmd : AllCommands \cup {"none"}, name : 0..MaxClock, offsite : BOOLEAN, data : Content,
   manifest : Whole \cup {Absent}, gzip : BOOLEAN, file : 0..MaxEncryptions, target : 0..MaxClock,
   doomed : SUBSET Second, expired : SUBSET Key, verdict : {"none", "ok", "warn", "error"}]

\* What the dumps and the databases are.
HostTypes ==
  /\ plan \in Plans /\ engine \in plan.engines
  /\ live \in Whole \cup {Absent}
  /\ temps \in [Second -> Processes \cup {NoProcess}]
  /\ credential \in {Absent, "empty", "written"}
  /\ dump \in [Second -> Content] /\ manifest \in [Second -> Whole \cup {Absent}]
  /\ clock \in Second
  /\ completed \in BOOLEAN /\ disorder \in BOOLEAN

ProcessTypes ==
  /\ lock \in [Lock -> Processes \cup {NoProcess}]
  /\ pc \in [Processes -> Phase]
  /\ loc \in [Processes -> Locals]
  /\ spent \in [mishaps : 0..MaxMishaps, commands : 0..plan.begun]

BucketTypes ==
  /\ enc \in [Second -> [file : 0..MaxEncryptions, manifest : 0..MaxEncryptions]]
  /\ cipher \in [1..MaxEncryptions -> Content]
  /\ encryptions \in 0..MaxEncryptions
  /\ bucket \in [Key -> [id : 0..MaxEncryptions, at : 0..MaxClock]]
  /\ \A k \in Key : bucket[k] # NoObject => bucket[k].id # 0
  /\ uploaded \in BOOLEAN /\ reuploaded \in BOOLEAN

Dumping == {"open", "dump", "manifest", "list", "prune", "backed up"}
Uploading == {"encrypt", "describe", "put", "put manifest", "expire", "delete"}
Loading == {"load", "loading", "loaded", "not loaded"}
Verification == {"restore-verify", "offsite-verify"}

\* What a phase says of the command that is in it.
CommandOf(p) ==
  /\ pc[p] \in Dumping \cup {"named"} => loc[p].cmd = "backup"
  /\ pc[p] \in Uploading => loc[p].cmd \in {"backup", "upload"}
  /\ pc[p] \in Loading => loc[p].cmd \in {"restore"} \cup Verification
  /\ pc[p] \in {"temp", "download", "check"} => loc[p].cmd \in Verification
  /\ pc[p] \in Dumping \cup Uploading \cup Loading \cup {"named", "hash", "temp", "check"} =>
       loc[p].name \in Second
  /\ pc[p] = "check" => loc[p].file \in 1..MaxEncryptions

CommandInv == \A p \in Processes : CommandOf(p)

\* What works on the dumps holds the lock of the backups, and an upload that of its command.
Backing(p) == pc[p] \in Dumping \/ (pc[p] \in Uploading /\ loc[p].cmd = "backup")

LockOf(p) ==
  /\ Backing(p) => lock["backup"] = p
  /\ pc[p] \in Uploading /\ loc[p].cmd = "upload" => lock["upload"] = p

LockInv == \A p \in Processes : LockOf(p)

\* The dump of a backup is whole once its manifest is due, and stays, until newer names push it out.
HasManifest(p) ==
  pc[p] \in {"list", "prune", "backed up"} \/ (pc[p] \in Uploading /\ loc[p].cmd = "backup")

DumpOf(p) ==
  /\ pc[p] = "dump" => dump[loc[p].name] = Cut
  /\ pc[p] = "manifest" => dump[loc[p].name] \in Whole
  /\ HasManifest(p) => Good(loc[p].name) \/ (dump[loc[p].name] = Absent /\ disorder)

DumpInv ==
  /\ \A n \in Second : dump[n] = Absent => manifest[n] = Absent
  /\ \A p \in Processes : DumpOf(p)

\* As long as backups write in the order of their names, theirs is the last, retention spares
\* it, and every manifest is that of its dump.
OrderOf(p) ==
  /\ Backing(p) /\ pc[p] # "open" => \A m \in Listed : m <= loc[p].name
  /\ pc[p] = "prune" => loc[p].name \notin loc[p].doomed

OrderInv ==
  ~disorder =>
    /\ \A n \in Second : manifest[n] # Absent => manifest[n] = dump[n]
    /\ \A p \in Processes : OrderOf(p)
    /\ GoodCopyOnDisk

\* What was loaded, or found ok, is whole.
VerdictOf(p) ==
  /\ pc[p] \in {"loaded", "ok"} => loc[p].data \in Whole
  /\ pc[p] = "verified" /\ loc[p].verdict = "ok" => loc[p].data \in Whole

VerdictInv == \A p \in Processes : VerdictOf(p)

\* A verification loads into the database that it created; the live one, once there, stays.
TempOf(p) ==
  /\ pc[p] \in Loading /\ loc[p].cmd \in Verification =>
       loc[p].target \in Second /\ temps[loc[p].target] = p
  /\ pc[p] \in {"temp", "download", "check"} /\ loc[p].target = 0 => live # Absent

TempInv == \A p \in Processes : TempOf(p)

Types == HostTypes /\ ProcessTypes /\ BucketTypes

IInv == Types /\ CommandInv /\ LockInv /\ DumpInv /\ OrderInv /\ VerdictInv /\ TempInv


USE ProcessAssumption, BoundsAssumption, RetainAssumption, PlansAssumption, VersionsAssumption,
    OffsiteAssumption

-----------------------------------------------------------------------------
(* The types *)

\* What a process that is idle remembers has the type of what it may remember.
LEMMA NoLocalsType == NoLocals \in Locals
  BY DEF NoLocals, Locals, Content, Whole, Absent, AllCommands

\* A second is a name that a process may remember.
LEMMA SecondType == \A n \in Second : n \in 0..MaxClock
  BY DEF Second

\* What a command may change of what it remembers.
LEMMA LocalsUpdate ==
  ASSUME NEW l \in Locals
  PROVE  /\ \A n \in 0..MaxClock : [l EXCEPT !.name = n] \in Locals /\ [l EXCEPT !.target = n] \in Locals
         /\ \A c \in AllCommands : [l EXCEPT !.cmd = c] \in Locals
         /\ \A d \in Content : [l EXCEPT !.data = d] \in Locals
         /\ \A d \in SUBSET Second : [l EXCEPT !.doomed = d] \in Locals
         /\ \A d \in SUBSET Key : [l EXCEPT !.expired = d] \in Locals
         /\ \A c \in AllCommands, n \in 0..MaxClock, b \in BOOLEAN :
              [l EXCEPT !.cmd = c, !.name = n, !.offsite = b] \in Locals
         /\ \A n \in 0..MaxClock, t \in 0..MaxClock : [l EXCEPT !.name = n, !.target = t] \in Locals
         /\ \A n \in 0..MaxClock, f \in 0..MaxEncryptions : [l EXCEPT !.name = n, !.file = f] \in Locals
         /\ \A c \in AllCommands, n \in 0..MaxClock, b \in BOOLEAN, d \in Whole \cup {Absent} :
              [l EXCEPT !.cmd = c, !.name = n, !.gzip = b, !.manifest = d] \in Locals
         /\ \A d \in Content, v \in {"none", "ok", "warn", "error"} :
              [l EXCEPT !.data = d, !.verdict = v] \in Locals
  BY DEF Locals

\* A step that goes on, with what it remembers and its lock, or without.
LEMMA MoveTypes ==
  ASSUME ProcessTypes, NEW p \in Processes, NEW label \in Phase, NEW l \in Locals,
         Goto(p, label), loc' = [loc EXCEPT ![p] = l], lock' = lock \/ lock' = Released(p),
         plan' = plan, spent' = spent
  PROVE  ProcessTypes'
  BY DEF ProcessTypes, Goto, Released

\* A step that goes on and remembers the same.
LEMMA GotoTypes ==
  ASSUME ProcessTypes, NEW p \in Processes, NEW label \in Phase,
         Goto(p, label), loc' = loc, lock' = lock \/ lock' = Released(p), plan' = plan,
         spent' = spent \/ Mishap
  PROVE  ProcessTypes'
<1>1. spent' \in [mishaps : 0..MaxMishaps, commands : 0..plan.begun]
  BY DEF ProcessTypes, Mishap
<1> QED
  BY <1>1 DEF ProcessTypes, Goto, Released

\* A step that takes a lock.
LEMMA TakeTypes ==
  ASSUME ProcessTypes, NEW p \in Processes, NEW label \in Phase, NEW l \in Lock,
         Goto(p, label), loc' = loc, lock' = [lock EXCEPT ![l] = p], plan' = plan, spent' = spent
  PROVE  ProcessTypes'
  BY DEF ProcessTypes, Goto

\* The end of a command.
LEMMA FinishTypes ==
  ASSUME ProcessTypes, NEW p \in Processes, Finish(p), plan' = plan, spent' = spent \/ Mishap
  PROVE  ProcessTypes'
<1>1. spent' \in [mishaps : 0..MaxMishaps, commands : 0..plan.begun]
  BY DEF ProcessTypes, Mishap
<1>2. "idle" \in Phase
  BY DEF Phase
<1> QED
  BY <1>1, <1>2, NoLocalsType DEF ProcessTypes, Finish, Goto, Released

\* Counting a command keeps the count within the plan.
LEMMA StartedTypes ==
  ASSUME HostTypes, ProcessTypes, Started, plan' = plan
  PROVE  spent' \in [mishaps : 0..MaxMishaps, commands : 0..plan'.begun]
  BY DEF HostTypes, ProcessTypes, Started

\* The beginning of a command, with the lock.
LEMMA BeginTypes ==
  ASSUME HostTypes, ProcessTypes, NEW p \in Processes, NEW cmd \in AllCommands, NEW l \in Lock,
         NEW label \in Phase, NEW locals \in Locals, Begin(p, cmd, l, label, locals), plan' = plan
  PROVE  ProcessTypes'
<1>1. [locals EXCEPT !.cmd = cmd] \in Locals
  BY LocalsUpdate
<1> QED
  BY <1>1, StartedTypes DEF Begin, ProcessTypes, Goto

\* The phases, locks and commands that the actions name.
LEMMA LabelTypes ==
  /\ {"create", "credential", "secret", "named", "open", "dump", "manifest", "list", "prune",
      "backed up", "load", "loading", "loaded", "not loaded"} \subseteq Phase
  /\ {"restored", "hash", "verified", "temp", "ok", "error", "encrypt", "describe", "put",
      "put manifest", "expire", "delete", "uploaded", "download", "check"} \subseteq Phase
  /\ {"provision", "credential", "backup", "restore", "restore-verify", "upload", "offsite-verify"}
        \subseteq Lock \cap AllCommands
  /\ "verify" \in AllCommands
  BY DEF Phase, Lock, AllCommands

\* provision and credential set keep the types of the processes.
LEMMA ProvideTypes ==
  ASSUME Types, NEW p \in Processes, Provide(p), UNCHANGED offsiteVars PROVE ProcessTypes'
<1> USE LabelTypes, NoLocalsType DEF Types, hostVars, historyVars
<1>1. CASE BeginProvision(p)
  BY <1>1, BeginTypes DEF BeginProvision
<1>2. CASE CreateDatabase(p)
  BY <1>2, FinishTypes, GotoTypes DEF CreateDatabase
<1>3. CASE BeginCredential(p)
  BY <1>3, BeginTypes DEF BeginCredential
<1>4. CASE OpenCredential(p)
  BY <1>4, GotoTypes DEF OpenCredential
<1>5. CASE WriteCredential(p)
  BY <1>5, FinishTypes DEF WriteCredential
<1> QED
  BY <1>1, <1>2, <1>3, <1>4, <1>5 DEF Provide

\* backup keeps the types of the processes.
LEMMA BackupTypes ==
  ASSUME Types, NEW p \in Processes, Backup(p) \/ \E offsite \in BOOLEAN : NameDump(p, offsite),
         UNCHANGED offsiteVars
  PROVE  ProcessTypes'
<1> USE LabelTypes, NoLocalsType DEF Types, hostVars, historyVars
<1>1. ASSUME NEW offsite \in BOOLEAN, NameDump(p, offsite) PROVE ProcessTypes'
  <2> DEFINE new == [NoLocals EXCEPT !.cmd = "backup", !.name = clock, !.offsite = offsite]
  <2>1. new \in Locals
    <3>1. clock \in 0..MaxClock
      BY SecondType DEF HostTypes
    <3> QED
      BY <3>1, LocalsUpdate
  <2>2. spent' \in [mishaps : 0..MaxMishaps, commands : 0..plan'.begun]
    BY <1>1, StartedTypes DEF NameDump
  <2> QED
    BY <1>1, <2>1, <2>2 DEF NameDump, ProcessTypes, Goto
<1>2. CASE LockBackup(p)
  <2>1. "backup" \in Lock /\ "open" \in Phase
    OBVIOUS
  <2>2. CASE Free("backup")
    BY <1>2, <2>1, <2>2, TakeTypes DEF LockBackup
  <2>3. CASE ~Free("backup")
    BY <1>2, <2>3, FinishTypes DEF LockBackup
  <2> QED
    BY <2>2, <2>3
<1>3. CASE OpenDump(p)
  BY <1>3, GotoTypes DEF OpenDump
<1>4. CASE CloseDump(p)
  BY <1>4, GotoTypes DEF CloseDump
<1>5. CASE DumpFails(p)
  BY <1>5, FinishTypes DEF DumpFails
<1>6. CASE WriteManifest(p)
  BY <1>6, GotoTypes DEF WriteManifest
<1>7. CASE ListDoomed(p)
  <2> DEFINE new == [loc[p] EXCEPT !.doomed = Doomed]
  <2>1. Doomed \in SUBSET Second
    BY DEF Doomed, Listed
  <2>2. loc[p] \in Locals
    BY DEF ProcessTypes
  <2>3. new \in Locals
    BY <2>1, <2>2, LocalsUpdate
  <2>4. loc' = [loc EXCEPT ![p] = new]
    BY <1>7 DEF ListDoomed
  <2> HIDE DEF new
  <2> QED
    BY <1>7, <2>3, <2>4, MoveTypes DEF ListDoomed
<1>8. CASE DeleteOldest(p)
  <2>1. PICK n : loc' = [loc EXCEPT ![p].doomed = @ \ {n}]
    BY <1>8 DEF DeleteOldest
  <2> DEFINE new == [loc[p] EXCEPT !.doomed = @ \ {n}]
  <2>2. loc[p] \in Locals /\ loc[p].doomed \ {n} \in SUBSET Second
    BY DEF ProcessTypes, Locals
  <2>3. new \in Locals
    BY <2>2, LocalsUpdate
  <2>4. loc' = [loc EXCEPT ![p] = new]
    BY <2>1
  <2>5. lock' = lock /\ pc' = pc /\ spent' = spent /\ plan' = plan
    BY <1>8 DEF DeleteOldest
  <2> HIDE DEF new
  <2> QED
    BY <2>3, <2>4, <2>5 DEF ProcessTypes
<1>9. CASE Pruned(p)
  BY <1>9, GotoTypes DEF Pruned
<1> QED
  BY <1>1, <1>2, <1>3, <1>4, <1>5, <1>6, <1>7, <1>8, <1>9 DEF Backup

\* restore, and the loading of a verification, keep the types of the processes.
LEMMA RestoreTypes ==
  ASSUME Types, CommandInv, NEW p \in Processes, Restore(p), UNCHANGED offsiteVars PROVE ProcessTypes'
<1> USE LabelTypes, NoLocalsType DEF Types, hostVars, historyVars
<1>1. ASSUME NEW n \in Second, BeginRestore(p, n) PROVE ProcessTypes'
  <2>1. [NoLocals EXCEPT !.name = n] \in Locals
    BY SecondType, LocalsUpdate
  <2> QED
    BY <1>1, <2>1, BeginTypes DEF BeginRestore
<1>2. CASE StartLoad(p)
  <2> DEFINE new == [loc[p] EXCEPT !.data = IF @ = Absent THEN dump[loc[p].name] ELSE @]
  <2>1. CASE dump[loc[p].name] = Absent /\ loc[p].data = Absent
    BY <1>2, <2>1, GotoTypes DEF StartLoad
  <2>2. CASE ~(dump[loc[p].name] = Absent /\ loc[p].data = Absent)
    <3>1. loc[p] \in Locals /\ loc[p].data \in Content
      BY DEF ProcessTypes, Locals
    <3>2. dump[loc[p].name] \in Content
      BY <1>2 DEF StartLoad, CommandInv, CommandOf, Loading, HostTypes
    <3>3. new \in Locals
      BY <3>1, <3>2, LocalsUpdate
    <3>4. loc' = [loc EXCEPT ![p] = new] /\ Goto(p, "loading") /\ lock' = lock
      BY <1>2, <2>2 DEF StartLoad
    <3> HIDE DEF new
    <3> QED
      BY <1>2, <3>3, <3>4, MoveTypes DEF StartLoad
  <2> QED
    BY <2>1, <2>2
<1>3. CASE EndLoad(p)
  BY <1>3, GotoTypes DEF EndLoad
<1>4. CASE LoadFails(p)
  BY <1>4, GotoTypes DEF LoadFails
<1>5. CASE EndRestore(p)
  BY <1>5, FinishTypes, GotoTypes DEF EndRestore
<1> QED
  BY <1>1, <1>2, <1>3, <1>4, <1>5 DEF Restore

\* verify and restore-verify keep the types of the processes.
LEMMA VerifyTypes ==
  ASSUME Types, CommandInv, NEW p \in Processes, Verify(p), UNCHANGED offsiteVars PROVE ProcessTypes'
<1> USE LabelTypes, NoLocalsType DEF Types, hostVars, historyVars
<1>1. ASSUME NEW n \in Second, NEW gzip \in BOOLEAN, BeginVerify(p, n, gzip) PROVE ProcessTypes'
  <2> DEFINE new == [NoLocals EXCEPT !.cmd = "verify", !.name = n, !.gzip = gzip, !.manifest = manifest[n]]
  <2>1. n \in 0..MaxClock /\ manifest[n] \in Whole \cup {Absent}
    BY SecondType DEF HostTypes
  <2>2. new \in Locals
    BY <2>1, LocalsUpdate
  <2>3. spent' \in [mishaps : 0..MaxMishaps, commands : 0..plan'.begun]
    BY <1>1, StartedTypes DEF BeginVerify
  <2> QED
    BY <1>1, <2>2, <2>3 DEF BeginVerify, ProcessTypes, Goto
<1>2. CASE HashDump(p)
  <2> DEFINE data == dump[loc[p].name]
             found == IF data = Absent \/ (loc[p].gzip /\ data = Cut) THEN "error"
                      ELSE IF loc[p].manifest = Absent THEN "warn"
                      ELSE IF loc[p].manifest = data THEN "ok" ELSE "error"
             new == [loc[p] EXCEPT !.data = data, !.verdict = found]
  <2>1. loc[p] \in Locals /\ data \in Content /\ found \in {"none", "ok", "warn", "error"}
    BY <1>2 DEF HashDump, CommandInv, CommandOf, HostTypes, ProcessTypes
  <2>2. new \in Locals
    BY <2>1, LocalsUpdate
  <2>3. loc' = [loc EXCEPT ![p] = new]
    BY <1>2 DEF HashDump
  <2> HIDE DEF new
  <2> QED
    BY <1>2, <2>2, <2>3, MoveTypes DEF HashDump
<1>3. ASSUME NEW n \in Second, NEW target \in 0..MaxClock, BeginRestoreVerify(p, n, target)
      PROVE  ProcessTypes'
  <2>1. [NoLocals EXCEPT !.name = n, !.target = target] \in Locals
    BY SecondType, LocalsUpdate
  <2> QED
    BY <1>3, <2>1, BeginTypes DEF BeginRestoreVerify
<1>4. CASE Busy(p)
  <2>1. PICK cmd \in {"restore-verify", "offsite-verify"} : loc' = [loc EXCEPT ![p] = [NoLocals EXCEPT !.cmd = cmd]]
    BY <1>4 DEF Busy
  <2>2. [NoLocals EXCEPT !.cmd = cmd] \in Locals
    BY LocalsUpdate
  <2>3. spent' \in [mishaps : 0..MaxMishaps, commands : 0..plan'.begun]
    BY <1>4, StartedTypes DEF Busy
  <2> QED
    BY <1>4, <2>1, <2>2, <2>3 DEF Busy, ProcessTypes, Goto
<1>5. CASE CreateTemp(p)
  BY <1>5, GotoTypes DEF CreateTemp
<1>6. CASE DropTemp(p)
  BY <1>6, GotoTypes DEF DropTemp
<1>7. CASE WriteReport(p)
  BY <1>7, FinishTypes DEF WriteReport
<1> QED
  BY <1>1, <1>2, <1>3, <1>4, <1>5, <1>6, <1>7 DEF Verify

\* The uploads keep the types of the processes.
LEMMA UploadTypes ==
  ASSUME Types, CommandInv, NEW p \in Processes, Upload(p) PROVE ProcessTypes'
<1> USE LabelTypes, NoLocalsType DEF Types, hostVars, historyVars, offsiteVars
<1>1. ASSUME NEW n \in Second, BeginUpload(p, n) PROVE ProcessTypes'
  <2>1. [NoLocals EXCEPT !.name = n] \in Locals
    BY SecondType, LocalsUpdate
  <2> QED
    BY <1>1, <2>1, BeginTypes DEF BeginUpload
<1>2. CASE Encrypt(p)
  BY <1>2, GotoTypes DEF Encrypt
<1>3. CASE EncryptFails(p)
  BY <1>3, FinishTypes DEF EncryptFails
<1>4. CASE Describe(p)
  BY <1>4, FinishTypes, GotoTypes DEF Describe
<1>5. CASE PutObject(p)
  BY <1>5, GotoTypes DEF PutObject
<1>6. CASE PutManifest(p)
  BY <1>6, GotoTypes DEF PutManifest
<1>7. CASE PutFails(p)
  BY <1>7, FinishTypes DEF PutFails
<1>8. CASE ListExpired(p)
  <2> DEFINE old == {k \in Key : bucket[k] # NoObject /\ clock - bucket[k].at > RetentionDays}
             new == [loc[p] EXCEPT !.expired = old]
  <2>1. loc[p] \in Locals /\ old \in SUBSET Key
    BY DEF ProcessTypes
  <2>2. new \in Locals
    BY <2>1, LocalsUpdate
  <2>3. loc' = [loc EXCEPT ![p] = new]
    BY <1>8 DEF ListExpired
  <2> HIDE DEF new
  <2> QED
    BY <1>8, <2>2, <2>3, MoveTypes DEF ListExpired
<1>9. CASE DeleteExpired(p)
  <2>1. PICK k : loc' = [loc EXCEPT ![p].expired = @ \ {k}]
    BY <1>9 DEF DeleteExpired
  <2> DEFINE new == [loc[p] EXCEPT !.expired = @ \ {k}]
  <2>2. loc[p] \in Locals /\ loc[p].expired \ {k} \in SUBSET Key
    BY DEF ProcessTypes, Locals
  <2>3. new \in Locals
    BY <2>2, LocalsUpdate
  <2>4. loc' = [loc EXCEPT ![p] = new]
    BY <2>1
  <2>5. lock' = lock /\ pc' = pc /\ spent' = spent /\ plan' = plan
    BY <1>9 DEF DeleteExpired
  <2> HIDE DEF new
  <2> QED
    BY <2>3, <2>4, <2>5 DEF ProcessTypes
<1>10. CASE EndUpload(p)
  BY <1>10, FinishTypes, GotoTypes DEF EndUpload
<1>11. CASE Uploaded(p)
  BY <1>11, FinishTypes DEF Uploaded
<1> QED
  BY <1>1, <1>2, <1>3, <1>4, <1>5, <1>6, <1>7, <1>8, <1>9, <1>10, <1>11 DEF Upload

\* offsite restore-verify keeps the types of the processes.
LEMMA OffsiteVerifyTypes ==
  ASSUME Types, CommandInv, NEW p \in Processes, OffsiteVerify(p) PROVE ProcessTypes'
<1> USE LabelTypes, NoLocalsType DEF Types, hostVars, historyVars, offsiteVars
<1>1. ASSUME NEW target \in 0..MaxClock, BeginOffsiteVerify(p, target) PROVE ProcessTypes'
  <2>1. [NoLocals EXCEPT !.target = target] \in Locals
    BY LocalsUpdate
  <2> QED
    BY <1>1, <2>1, BeginTypes DEF BeginOffsiteVerify
<1>2. CASE Download(p)
  <2>1. PICK n \in Second : /\ bucket[<<n, "object">>] # NoObject
                            /\ loc' = [loc EXCEPT ![p].name = n, ![p].file = bucket[<<n, "object">>].id]
    BY <1>2 DEF Download
  <2> DEFINE file == bucket[<<n, "object">>].id
             new == [loc[p] EXCEPT !.name = n, !.file = file]
  <2>2. loc[p] \in Locals /\ n \in 0..MaxClock /\ <<n, "object">> \in Key
    BY SecondType DEF ProcessTypes, Key
  <2>3. file \in 0..MaxEncryptions
    BY <2>2 DEF BucketTypes
  <2>4. new \in Locals
    BY <2>2, <2>3, LocalsUpdate
  <2>5. loc' = [loc EXCEPT ![p] = new]
    BY <2>1
  <2> HIDE DEF new
  <2> QED
    BY <1>2, <2>4, <2>5, MoveTypes DEF Download
<1>3. CASE DownloadFails(p)
  BY <1>3, GotoTypes DEF DownloadFails
<1>4. CASE CheckDownload(p)
  <2>1. CASE Goto(p, "error") /\ lock' = Released(p) /\ UNCHANGED loc
    BY <1>4, <2>1, GotoTypes DEF CheckDownload
  <2>2. CASE /\ loc' = [loc EXCEPT ![p].data = cipher[loc[p].file]]
             /\ Goto(p, "temp") /\ UNCHANGED lock
    <3> DEFINE new == [loc[p] EXCEPT !.data = cipher[loc[p].file]]
    <3>1. loc[p] \in Locals /\ cipher[loc[p].file] \in Content
      BY <1>4 DEF CheckDownload, CommandInv, CommandOf, BucketTypes, ProcessTypes
    <3>2. new \in Locals
      BY <3>1, LocalsUpdate
    <3>3. loc' = [loc EXCEPT ![p] = new]
      BY <2>2
    <3> HIDE DEF new
    <3> QED
      BY <1>4, <2>2, <3>2, <3>3, MoveTypes DEF CheckDownload
  <2> QED
    BY <1>4, <2>1, <2>2 DEF CheckDownload
<1> QED
  BY <1>1, <1>2, <1>3, <1>4 DEF OffsiteVerify

\* The other steps of a process, and those of the application and of time.
LEMMA OtherTypes ==
  ASSUME Types, UNCHANGED offsiteVars,
         \/ \E p \in Processes : Complete(p) \/ Kill(p)
         \/ AppWrites \/ DayEnds
  PROVE  ProcessTypes'
<1> USE LabelTypes, NoLocalsType DEF Types, hostVars, historyVars, processVars
<1>1. ASSUME NEW p \in Processes, Complete(p) PROVE ProcessTypes'
  BY <1>1, FinishTypes DEF Complete
<1>2. ASSUME NEW p \in Processes, Kill(p) PROVE ProcessTypes'
  BY <1>2, FinishTypes DEF Kill
<1>3. CASE AppWrites
  BY <1>3 DEF AppWrites, ProcessTypes
<1>4. CASE DayEnds
  BY <1>4 DEF DayEnds, Tick, ProcessTypes
<1> QED
  BY <1>1, <1>2, <1>3, <1>4

\* A step that leaves the host alone keeps its types.
LEMMA HostSame ==
  ASSUME HostTypes, UNCHANGED <<hostVars, clock>>, UNCHANGED <<completed, disorder>>
  PROVE  HostTypes'
  BY DEF HostTypes, hostVars

\* The commands on the host keep the types of its dumps and databases.
LEMMA StepHostTypes ==
  ASSUME Types, CommandInv, DumpInv, NEW p \in Processes,
         Step(p) \/ \E offsite \in BOOLEAN : NameDump(p, offsite)
  PROVE  HostTypes'
<1> USE DEF Types, historyVars
<1>1. CASE Provide(p)
  <2>1. CASE CreateDatabase(p)
    BY <2>1 DEF CreateDatabase, HostTypes, Whole
  <2>2. CASE OpenCredential(p)
    BY <2>2 DEF OpenCredential, HostTypes
  <2>3. CASE WriteCredential(p)
    BY <2>3 DEF WriteCredential, HostTypes
  <2> QED
    BY <1>1, <2>1, <2>2, <2>3, HostSame DEF Provide, BeginProvision, BeginCredential
<1>2. CASE Backup(p)
  <2>1. CASE OpenDump(p)
    BY <2>1 DEF OpenDump, HostTypes, Content
  <2>2. CASE CloseDump(p)
    BY <2>2 DEF CloseDump, HostTypes, Content
  <2>3. CASE WriteManifest(p)
    BY <2>3 DEF WriteManifest, HostTypes, DumpInv, DumpOf
  <2>4. CASE DeleteOldest(p)
    BY <2>4 DEF DeleteOldest, HostTypes, Content
  <2> QED
    BY <1>2, <2>1, <2>2, <2>3, <2>4, HostSame DEF Backup, LockBackup, DumpFails, ListDoomed, Pruned
<1>3. CASE Restore(p)
  <2>1. CASE StartLoad(p)
    BY <2>1 DEF StartLoad, HostTypes, Whole
  <2>2. CASE EndLoad(p)
    BY <2>2 DEF EndLoad, HostTypes
  <2> QED
    BY <1>3, <2>1, <2>2, HostSame DEF Restore, BeginRestore, LoadFails, EndRestore
<1>4. CASE Verify(p)
  <2>1. CASE CreateTemp(p)
    BY <2>1 DEF CreateTemp, HostTypes
  <2>2. CASE DropTemp(p)
    BY <2>2 DEF DropTemp, HostTypes
  <2> QED
    BY <1>4, <2>1, <2>2, HostSame DEF Verify, BeginVerify, HashDump, BeginRestoreVerify, Busy,
       WriteReport
<1>5. CASE Complete(p)
  BY <1>5 DEF Complete, HostTypes, hostVars
<1>6. CASE Kill(p) \/ \E offsite \in BOOLEAN : NameDump(p, offsite)
  BY <1>6, HostSame DEF Kill, NameDump
<1> QED
  BY <1>1, <1>2, <1>3, <1>4, <1>5, <1>6 DEF Step

\* So do the application, time and the commands on the bucket.
LEMMA OtherHostTypes ==
  ASSUME Types, AppWrites \/ DayEnds \/ \E p \in Processes : Upload(p) \/ OffsiteVerify(p)
  PROVE  HostTypes'
<1> USE DEF Types, historyVars
<1>1. CASE AppWrites
  BY <1>1 DEF AppWrites, HostTypes, Whole
<1>2. CASE DayEnds
  <2>1. plan.seconds \in 1..MaxClock
    BY DEF HostTypes
  <2>2. clock \in Second /\ clock < plan.seconds /\ clock' = clock + 1
    BY <1>2 DEF DayEnds, Tick, HostTypes
  <2>3. clock' \in Second
    BY <2>1, <2>2 DEF Second
  <2> QED
    BY <1>2, <2>3 DEF DayEnds, Tick, HostTypes, hostVars
<1>3. ASSUME NEW p \in Processes, Upload(p) PROVE HostTypes'
  BY <1>3, HostSame DEF Upload, BeginUpload, Encrypt, EncryptFails, Describe, PutObject,
     PutManifest,
     PutFails, ListExpired, DeleteExpired, EndUpload, Uploaded
<1>4. ASSUME NEW p \in Processes, OffsiteVerify(p) PROVE HostTypes'
  BY <1>4, HostSame DEF OffsiteVerify, BeginOffsiteVerify, Download, DownloadFails, CheckDownload
<1> QED
  BY <1>1, <1>2, <1>3, <1>4

Encryption == [file : 0..MaxEncryptions, manifest : 0..MaxEncryptions]

\* A new file or manifest of an encryption has its type.
LEMMA EncryptionUpdate ==
  ASSUME NEW r \in Encryption, NEW e \in 0..MaxEncryptions
  PROVE  [r EXCEPT !.file = e] \in Encryption /\ [r EXCEPT !.manifest = e] \in Encryption
  BY DEF Encryption

\* The commands on the bucket keep its types; no object is without an encryption.
LEMMA BucketSteps ==
  ASSUME Types, CommandInv, NEW p \in Processes, Upload(p) \/ OffsiteVerify(p)
  PROVE  BucketTypes'
<1> USE DEF Types, offsiteVars
<1>1. CASE UNCHANGED offsiteVars
  BY <1>1 DEF BucketTypes
<1>2. CASE Encrypt(p)
  <2>1. loc[p].name \in Second /\ dump[loc[p].name] \in Content
    BY <1>2 DEF Encrypt, CommandInv, CommandOf, Uploading, HostTypes
  <2>2. encryptions' \in 1..MaxEncryptions
    BY <1>2 DEF Encrypt, BucketTypes
  <2>3. cipher' \in [1..MaxEncryptions -> Content]
    BY <1>2, <2>1, <2>2 DEF Encrypt, BucketTypes
  <2>4. enc' \in [Second -> Encryption]
    <3> DEFINE n == loc[p].name
               new == [enc[n] EXCEPT !.file = encryptions']
    <3>1. enc \in [Second -> Encryption] /\ n \in Second /\ encryptions' \in 0..MaxEncryptions
      BY <2>1, <2>2 DEF BucketTypes, Encryption
    <3>2. new \in Encryption
      BY <3>1, EncryptionUpdate
    <3>3. enc' = [enc EXCEPT ![n] = new]
      BY <1>2 DEF Encrypt
    <3> HIDE DEF n, new
    <3> QED
      BY <3>1, <3>2, <3>3
  <2>5. reuploaded' \in BOOLEAN /\ bucket' = bucket /\ uploaded' = uploaded
    BY <1>2 DEF Encrypt
  <2> QED
    BY <2>2, <2>3, <2>4, <2>5 DEF BucketTypes, Encryption
<1>3. CASE Describe(p)
  <2>1. loc[p].name \in Second
    BY <1>3 DEF Describe, CommandInv, CommandOf, Uploading
  <2>2. enc' \in [Second -> Encryption]
    <3> DEFINE n == loc[p].name
               new == [enc[n] EXCEPT !.manifest = enc[n].file]
    <3>1. enc \in [Second -> Encryption] /\ n \in Second
      BY <2>1 DEF BucketTypes, Encryption
    <3>2. enc[n] \in Encryption /\ enc[n].file \in 0..MaxEncryptions
      BY <3>1 DEF Encryption
    <3>3. new \in Encryption
      BY <3>2, EncryptionUpdate
    <3>4. enc' = enc \/ enc' = [enc EXCEPT ![n] = new]
      BY <1>3 DEF Describe
    <3> HIDE DEF n, new
    <3> QED
      BY <3>1, <3>3, <3>4
  <2> QED
    BY <1>3, <2>2 DEF Describe, BucketTypes, Encryption
<1>4. CASE PutObject(p) \/ PutManifest(p)
  <2>1. PICK what \in {"object", "manifest"}, id \in 1..MaxEncryptions, n \in Second :
          bucket' = [bucket EXCEPT ![<<n, what>>] = [id |-> id, at |-> clock]]
    <3>1. loc[p].name \in Second
      BY <1>4 DEF PutObject, PutManifest, CommandInv, CommandOf, Uploading
    <3>2. enc[loc[p].name] \in [file : 0..MaxEncryptions, manifest : 0..MaxEncryptions]
      BY <3>1 DEF BucketTypes
    <3>3. CASE PutObject(p)
      <4> WITNESS "object" \in {"object", "manifest"}
      <4>1. enc[loc[p].name].file # 0
        BY <3>3 DEF PutObject
      <4>2. enc[loc[p].name].file \in 1..MaxEncryptions
        BY <3>2, <4>1
      <4> WITNESS enc[loc[p].name].file \in 1..MaxEncryptions
      <4> WITNESS loc[p].name \in Second
      <4> QED
        BY <3>3 DEF PutObject
    <3>4. CASE PutManifest(p)
      <4> WITNESS "manifest" \in {"object", "manifest"}
      <4>1. enc[loc[p].name].manifest # 0
        BY <3>4 DEF PutManifest
      <4>2. enc[loc[p].name].manifest \in 1..MaxEncryptions
        BY <3>2, <4>1
      <4> WITNESS enc[loc[p].name].manifest \in 1..MaxEncryptions
      <4> WITNESS loc[p].name \in Second
      <4> QED
        BY <3>4 DEF PutManifest
    <3> QED
      BY <1>4, <3>3, <3>4
  <2>2. clock \in 0..MaxClock
    BY SecondType DEF HostTypes
  <2>3. [id |-> id, at |-> clock] \in [id : 0..MaxEncryptions, at : 0..MaxClock]
    BY <2>2
  <2>4. bucket' \in [Key -> [id : 0..MaxEncryptions, at : 0..MaxClock]]
    BY <2>1, <2>3 DEF BucketTypes
  <2>5. \A k \in Key : bucket'[k] = bucket[k] \/ bucket'[k] = [id |-> id, at |-> clock]
    BY <2>1 DEF BucketTypes
  <2>6. \A k \in Key : bucket'[k] # NoObject => bucket'[k].id # 0
    <3>1. [id |-> id, at |-> clock].id # 0
      OBVIOUS
    <3> QED
      BY <2>5, <3>1 DEF BucketTypes
  <2>7. UNCHANGED <<enc, cipher, encryptions, uploaded, reuploaded>>
    BY <1>4 DEF PutObject, PutManifest
  <2> QED
    BY <2>4, <2>6, <2>7 DEF BucketTypes
<1>5. CASE PutFails(p) \/ DeleteExpired(p)
  <2>1. PICK k : bucket' = [bucket EXCEPT ![k] = NoObject] \/ bucket' = bucket
    BY <1>5 DEF PutFails, DeleteExpired
  <2>2. NoObject \in [id : 0..MaxEncryptions, at : 0..MaxClock]
    BY DEF NoObject
  <2>3. bucket' \in [Key -> [id : 0..MaxEncryptions, at : 0..MaxClock]]
    BY <2>1, <2>2 DEF BucketTypes
  <2>4. \A j \in Key : bucket'[j] = bucket[j] \/ bucket'[j] = NoObject
    BY <2>1 DEF BucketTypes
  <2>5. \A j \in Key : bucket'[j] # NoObject => bucket'[j].id # 0
    BY <2>4 DEF BucketTypes
  <2>6. UNCHANGED <<enc, cipher, encryptions, uploaded, reuploaded>>
    BY <1>5 DEF PutFails, DeleteExpired
  <2> QED
    BY <2>3, <2>5, <2>6 DEF BucketTypes
<1>6. CASE EndUpload(p)
  <2>1. NoEnc \in Encryption
    BY DEF NoEnc, Encryption
  <2>2. enc' \in [Second -> Encryption]
    BY <1>6, <2>1 DEF EndUpload, BucketTypes, Encryption
  <2>3. uploaded' \in BOOLEAN /\ UNCHANGED <<cipher, encryptions, bucket, reuploaded>>
    BY <1>6 DEF EndUpload, BucketTypes
  <2> QED
    BY <2>2, <2>3 DEF BucketTypes, Encryption
<1> QED
  BY <1>1, <1>2, <1>3, <1>4, <1>5, <1>6 DEF Upload, OffsiteVerify, BeginUpload, EncryptFails,
     ListExpired,
     Uploaded, BeginOffsiteVerify, Download, DownloadFails, CheckDownload

-----------------------------------------------------------------------------
(* What each process is doing *)

\* A step of p ends its command, goes on in it, or begins one; the others are where they were.
LEMMA OthersStay ==
  ASSUME Types, NEW p \in Processes,
         \/ Step(p) \/ Upload(p) \/ OffsiteVerify(p)
         \/ \E offsite \in BOOLEAN : NameDump(p, offsite)
  PROVE  \A q \in Processes : q # p => pc'[q] = pc[q] /\ loc'[q] = loc[q]
<1> USE DEF Types, ProcessTypes, Goto, Finish
<1>1. CASE Provide(p)
  BY <1>1 DEF Provide, BeginProvision, CreateDatabase, BeginCredential, OpenCredential,
     WriteCredential, Begin
<1>2. CASE Backup(p)
  BY <1>2 DEF Backup, LockBackup, OpenDump, CloseDump, DumpFails, WriteManifest, ListDoomed,
     DeleteOldest, Pruned
<1>3. CASE Restore(p)
  BY <1>3 DEF Restore, BeginRestore, StartLoad, EndLoad, LoadFails, EndRestore, Begin
<1>4. CASE Verify(p)
  BY <1>4 DEF Verify, BeginVerify, HashDump, BeginRestoreVerify, Busy, CreateTemp, DropTemp,
     WriteReport, Begin
<1>5. CASE Complete(p) \/ Kill(p) \/ \E offsite \in BOOLEAN : NameDump(p, offsite)
  BY <1>5 DEF Complete, Kill, NameDump
<1>6. CASE Upload(p)
  BY <1>6 DEF Upload, BeginUpload, Encrypt, EncryptFails, Describe, PutObject, PutManifest,
     PutFails,
     ListExpired, DeleteExpired, EndUpload, Uploaded, Begin
<1>7. CASE OffsiteVerify(p)
  BY <1>7 DEF OffsiteVerify, BeginOffsiteVerify, Download, DownloadFails, CheckDownload, Begin
<1> QED
  BY <1>1, <1>2, <1>3, <1>4, <1>5, <1>6, <1>7 DEF Step

\* Where a command that ends is then.
LEMMA FinishAt ==
  ASSUME ProcessTypes, NEW p \in Processes, Finish(p)
  PROVE  pc'[p] = "idle" /\ loc'[p] = NoLocals
  BY DEF ProcessTypes, Finish, Goto

\* Where a command that goes on is then.
LEMMA GotoAt ==
  ASSUME ProcessTypes, NEW p \in Processes, NEW label, Goto(p, label)
  PROVE  pc'[p] = label
  BY DEF ProcessTypes, Goto

\* Nothing is asked of a command in these phases.
LEMMA IdleCommand ==
  ASSUME NEW p \in Processes, pc'[p] \in {"idle", "create", "credential", "secret", "restored", "verified",
                                          "ok", "error", "uploaded"}
  PROVE  CommandOf(p)'
  BY DEF CommandOf, Dumping, Uploading, Loading

\* CommandOf, through provision and credential set.
LEMMA ProvideCommand ==
  ASSUME Types, NEW p \in Processes, Provide(p) PROVE CommandOf(p)'
<1> USE DEF Types
<1>1. pc'[p] \in {"idle", "create", "credential", "secret"}
  BY FinishAt, GotoAt DEF Provide, BeginProvision, CreateDatabase, BeginCredential, OpenCredential,
     WriteCredential, Begin
<1> QED
  BY <1>1, IdleCommand

\* CommandOf, through backup.
LEMMA BackupCommand ==
  ASSUME Types, NEW p \in Processes, CommandOf(p),
         Backup(p) \/ \E offsite \in BOOLEAN : NameDump(p, offsite)
  PROVE  CommandOf(p)'
<1> USE DEF Types
<1>1. ASSUME NEW offsite \in BOOLEAN, NameDump(p, offsite) PROVE CommandOf(p)'
  <2>1. pc'[p] = "named" /\ loc'[p].cmd = "backup" /\ loc'[p].name = clock /\ clock \in Second
    BY <1>1 DEF NameDump, Goto, ProcessTypes, HostTypes, NoLocals
  <2> QED
    BY <2>1 DEF CommandOf, Dumping, Uploading, Loading
<1>2. CASE Finish(p)
  BY <1>2, FinishAt, IdleCommand
<1>3. CASE \E label \in Dumping :
             /\ pc[p] \in Dumping \cup {"named"} /\ Goto(p, label)
             /\ loc'[p].cmd = loc[p].cmd /\ loc'[p].name = loc[p].name
  BY <1>3, GotoAt DEF CommandOf, Dumping, Uploading, Loading
<1>4. CASE LockBackup(p) \/ OpenDump(p) \/ CloseDump(p) \/ DumpFails(p) \/ WriteManifest(p)
  BY <1>2, <1>3, <1>4 DEF LockBackup, OpenDump, CloseDump, DumpFails, WriteManifest, Dumping
<1>5. CASE ListDoomed(p)
  BY <1>3, <1>5 DEF ListDoomed, Dumping, ProcessTypes, Locals
<1>6. CASE DeleteOldest(p)
  <2>1. pc'[p] = "prune" /\ pc[p] = "prune" /\ loc'[p].cmd = loc[p].cmd /\ loc'[p].name = loc[p].name
    BY <1>6 DEF DeleteOldest, ProcessTypes, Locals
  <2> QED
    BY <2>1 DEF CommandOf, Dumping, Uploading, Loading
<1>7. CASE Pruned(p)
  <2>1. pc'[p] \in {"encrypt", "backed up"} /\ pc[p] = "prune" /\ loc' = loc
    BY <1>7, GotoAt DEF Pruned
  <2> QED
    BY <2>1 DEF CommandOf, Dumping, Uploading, Loading
<1> QED
  BY <1>1, <1>4, <1>5, <1>6, <1>7 DEF Backup

\* CommandOf, through restore and the loading of a verification.
LEMMA RestoreCommand ==
  ASSUME Types, NEW p \in Processes, CommandOf(p), Restore(p) PROVE CommandOf(p)'
<1> USE DEF Types
<1>1. ASSUME NEW n \in Second, BeginRestore(p, n) PROVE CommandOf(p)'
  <2>1. pc'[p] = "load" /\ loc'[p].cmd = "restore" /\ loc'[p].name = n
    BY <1>1, GotoAt DEF BeginRestore, Begin, NoLocals, ProcessTypes
  <2> QED
    BY <2>1 DEF CommandOf, Dumping, Uploading, Loading
<1>2. CASE StartLoad(p) \/ EndLoad(p) \/ LoadFails(p)
  <2>1. /\ pc[p] \in {"load", "loading"} /\ pc'[p] \in Loading
        /\ loc'[p].cmd = loc[p].cmd /\ loc'[p].name = loc[p].name
    <3>1. CASE StartLoad(p)
      <4>1. loc'[p].cmd = loc[p].cmd /\ loc'[p].name = loc[p].name
        <5>1. loc' = loc \/ loc' = [loc EXCEPT ![p].data = IF @ = Absent THEN dump[loc[p].name] ELSE @]
          BY <3>1 DEF StartLoad
        <5> DEFINE data == IF loc[p].data = Absent THEN dump[loc[p].name] ELSE loc[p].data
        <5>2. loc' = loc \/ loc' = [loc EXCEPT ![p].data = data]
          BY <5>1
        <5> HIDE DEF data
        <5> QED
          BY <5>2 DEF ProcessTypes, Locals
      <4> QED
        BY <3>1, <4>1, GotoAt DEF StartLoad, Loading
    <3>2. CASE EndLoad(p)
      BY <3>2, GotoAt DEF EndLoad, Loading
    <3>3. CASE LoadFails(p)
      BY <3>3, GotoAt DEF LoadFails, Loading
    <3> QED
      BY <1>2, <3>1, <3>2, <3>3
  <2> QED
    BY <2>1 DEF CommandOf, Dumping, Uploading, Loading
<1>3. CASE EndRestore(p)
  BY <1>3, FinishAt, GotoAt, IdleCommand DEF EndRestore
<1> QED
  BY <1>1, <1>2, <1>3 DEF Restore

\* CommandOf, through verify and restore-verify.
LEMMA VerifyCommand ==
  ASSUME Types, NEW p \in Processes, CommandOf(p), Verify(p) PROVE CommandOf(p)'
<1> USE DEF Types
<1>1. ASSUME NEW n \in Second, NEW gzip \in BOOLEAN, BeginVerify(p, n, gzip) PROVE CommandOf(p)'
  <2>1. pc'[p] = "hash" /\ loc'[p].name = n
    BY <1>1, GotoAt DEF BeginVerify, NoLocals, ProcessTypes
  <2> QED
    BY <2>1 DEF CommandOf, Dumping, Uploading, Loading
<1>2. ASSUME NEW n \in Second, NEW target \in 0..MaxClock, BeginRestoreVerify(p, n, target)
      PROVE  CommandOf(p)'
  <2>1. pc'[p] = "temp" /\ loc'[p].name = n /\ loc'[p].cmd = "restore-verify"
    BY <1>2, GotoAt DEF BeginRestoreVerify, Begin, NoLocals, ProcessTypes
  <2> QED
    BY <2>1 DEF CommandOf, Dumping, Uploading, Loading, Verification
<1>3. CASE CreateTemp(p)
  <2>1. pc[p] = "temp" /\ pc'[p] \in {"error", "load"} /\ loc' = loc
    BY <1>3, GotoAt DEF CreateTemp
  <2> QED
    BY <2>1 DEF CommandOf, Dumping, Uploading, Loading, Verification
<1>4. CASE HashDump(p) \/ Busy(p) \/ DropTemp(p) \/ WriteReport(p)
  <2>1. pc'[p] \in {"verified", "error", "ok", "idle"}
    BY <1>4, FinishAt, GotoAt DEF HashDump, Busy, DropTemp, WriteReport
  <2> QED
    BY <2>1, IdleCommand
<1> QED
  BY <1>1, <1>2, <1>3, <1>4 DEF Verify

\* CommandOf, through the uploads.
LEMMA UploadCommand ==
  ASSUME Types, NEW p \in Processes, CommandOf(p), Upload(p) PROVE CommandOf(p)'
<1> USE DEF Types
<1>1. ASSUME NEW n \in Second, BeginUpload(p, n) PROVE CommandOf(p)'
  <2>1. pc'[p] = "encrypt" /\ loc'[p].name = n /\ loc'[p].cmd = "upload"
    BY <1>1, GotoAt DEF BeginUpload, Begin, NoLocals, ProcessTypes
  <2> QED
    BY <2>1 DEF CommandOf, Dumping, Uploading, Loading
<1>2. CASE Finish(p)
  BY <1>2, FinishAt, IdleCommand
<1>3. CASE Encrypt(p) \/ Describe(p) \/ PutObject(p) \/ PutManifest(p) \/ ListExpired(p)
           \/ DeleteExpired(p) \/ EndUpload(p)
  <2>1. \/ Finish(p)
        \/ /\ pc[p] \in Uploading /\ pc'[p] \in Uploading
           /\ loc'[p].cmd = loc[p].cmd /\ loc'[p].name = loc[p].name
        \/ /\ pc[p] \in Uploading /\ pc'[p] = IF loc[p].cmd = "backup" THEN "backed up" ELSE "uploaded"
           /\ loc' = loc
    <3>1. CASE Encrypt(p) \/ Describe(p) \/ PutObject(p) \/ PutManifest(p)
      BY <3>1, GotoAt DEF Encrypt, Describe, PutObject, PutManifest, Uploading
    <3>2. CASE ListExpired(p)
      <4>1. loc'[p].cmd = loc[p].cmd /\ loc'[p].name = loc[p].name
        BY <3>2 DEF ListExpired, ProcessTypes, Locals
      <4> QED
        BY <3>2, <4>1, GotoAt DEF ListExpired, Uploading
    <3>3. CASE DeleteExpired(p)
      <4>1. loc'[p].cmd = loc[p].cmd /\ loc'[p].name = loc[p].name
        BY <3>3 DEF DeleteExpired, ProcessTypes, Locals
      <4> QED
        BY <3>3, <4>1 DEF DeleteExpired, Uploading
    <3>4. CASE EndUpload(p)
      BY <3>4, GotoAt DEF EndUpload, Uploading
    <3> QED
      BY <1>3, <3>1, <3>2, <3>3, <3>4
  <2> QED
    BY <1>2, <2>1 DEF CommandOf, Dumping, Uploading, Loading
<1>4. CASE EncryptFails(p) \/ PutFails(p) \/ Uploaded(p)
  BY <1>2, <1>4 DEF EncryptFails, PutFails, Uploaded
<1> QED
  BY <1>1, <1>3, <1>4 DEF Upload

\* CommandOf, through offsite restore-verify.
LEMMA OffsiteVerifyCommand ==
  ASSUME Types, NEW p \in Processes, CommandOf(p), OffsiteVerify(p) PROVE CommandOf(p)'
<1> USE DEF Types
<1>1. ASSUME NEW target \in 0..MaxClock, BeginOffsiteVerify(p, target) PROVE CommandOf(p)'
  <2>1. pc'[p] = "download" /\ loc'[p].cmd = "offsite-verify"
    BY <1>1, GotoAt DEF BeginOffsiteVerify, Begin, NoLocals, ProcessTypes
  <2> QED
    BY <2>1 DEF CommandOf, Dumping, Uploading, Loading, Verification
<1>2. CASE Download(p)
  <2>1. PICK n \in Second : /\ bucket[<<n, "object">>] # NoObject
                            /\ loc' = [loc EXCEPT ![p].name = n, ![p].file = bucket[<<n, "object">>].id]
    BY <1>2 DEF Download
  <2>2. <<n, "object">> \in Key
    BY DEF Key
  <2>3. bucket[<<n, "object">>].id \in 1..MaxEncryptions
    BY <2>1, <2>2 DEF BucketTypes
  <2>4. /\ pc[p] = "download" /\ pc'[p] = "check" /\ loc'[p].name = n
        /\ loc'[p].file = bucket[<<n, "object">>].id /\ loc'[p].cmd = loc[p].cmd
    BY <1>2, <2>1, GotoAt DEF Download, ProcessTypes, Locals
  <2> QED
    BY <2>3, <2>4 DEF CommandOf, Dumping, Uploading, Loading, Verification
<1>3. CASE DownloadFails(p)
  BY <1>3, GotoAt, IdleCommand DEF DownloadFails
<1>4. CASE CheckDownload(p)
  <2>1. \/ pc'[p] = "error"
        \/ pc[p] = "check" /\ pc'[p] = "temp" /\ loc'[p].cmd = loc[p].cmd /\ loc'[p].name = loc[p].name
    BY <1>4, GotoAt DEF CheckDownload, ProcessTypes, Locals
  <2> QED
    BY <2>1 DEF CommandOf, Dumping, Uploading, Loading, Verification
<1> QED
  BY <1>1, <1>2, <1>3, <1>4 DEF OffsiteVerify

\* A step of a process keeps CommandInv.
LEMMA CommandStep ==
  ASSUME Types, CommandInv, NEW p \in Processes,
         \/ Step(p) \/ Upload(p) \/ OffsiteVerify(p)
         \/ \E offsite \in BOOLEAN : NameDump(p, offsite)
  PROVE  CommandInv'
<1>1. CommandOf(p)
  BY DEF CommandInv
<1>2. CommandOf(p)'
  <2>1. CASE Complete(p) \/ Kill(p)
    BY <2>1, FinishAt, IdleCommand DEF Complete, Kill, Types
  <2> QED
    BY <1>1, <2>1, ProvideCommand, BackupCommand, RestoreCommand, VerifyCommand, UploadCommand,
       OffsiteVerifyCommand DEF Step
<1>3. \A q \in Processes : q # p => CommandOf(q)'
  BY OthersStay DEF CommandInv, CommandOf
<1> QED
  BY <1>2, <1>3 DEF CommandInv

-----------------------------------------------------------------------------
(* Verdicts *)

\* Nothing is asked of what has not been verified.
LEMMA NoVerdict ==
  ASSUME NEW p \in Processes, pc'[p] \notin {"loaded", "ok", "verified"} PROVE VerdictOf(p)'
  BY DEF VerdictOf

\* A step of a process keeps VerdictInv: only a whole dump loads, or is found ok.
LEMMA VerdictStep ==
  ASSUME Types, CommandInv, VerdictInv, NEW p \in Processes,
         \/ Step(p) \/ Upload(p) \/ OffsiteVerify(p)
         \/ \E offsite \in BOOLEAN : NameDump(p, offsite)
  PROVE  VerdictInv'
<1> USE DEF Types
<1>1. VerdictOf(p)'
  <2>1. CASE Finish(p)
    BY <2>1, FinishAt, NoVerdict
  <2>2. CASE Provide(p)
    BY <2>1, <2>2, GotoAt, NoVerdict DEF Provide, BeginProvision, CreateDatabase, BeginCredential,
       OpenCredential, WriteCredential, Begin
  <2>3. CASE Backup(p)
    <3>1. pc'[p] \notin {"loaded", "ok", "verified"}
      BY <2>3, FinishAt, GotoAt DEF Backup, LockBackup, OpenDump, CloseDump, DumpFails,
         WriteManifest,
         ListDoomed, DeleteOldest, Pruned
    <3> QED
      BY <3>1, NoVerdict
  <2>4. CASE Restore(p)
    <3>1. CASE EndLoad(p)
      BY <3>1, GotoAt DEF EndLoad, VerdictOf
    <3>2. CASE LoadFails(p)
      BY <3>2, GotoAt DEF LoadFails, VerdictOf
    <3> QED
      BY <2>1, <2>4, <3>1, <3>2, GotoAt, NoVerdict DEF Restore, BeginRestore, Begin, StartLoad,
         EndRestore
  <2>5. CASE Verify(p)
    <3>1. CASE HashDump(p)
      <4>1. loc[p].manifest \in Whole \cup {Absent}
        BY DEF ProcessTypes, Locals
      <4>2. pc'[p] = "verified"
        BY <3>1, GotoAt DEF HashDump
      <4>3. ASSUME loc'[p].verdict = "ok" PROVE loc'[p].data \in Whole
        <5> DEFINE data == dump[loc[p].name]
                   found == IF data = Absent \/ (loc[p].gzip /\ data = Cut) THEN "error"
                            ELSE IF loc[p].manifest = Absent THEN "warn"
                            ELSE IF loc[p].manifest = data THEN "ok" ELSE "error"
        <5>1. found = "ok" => data \in Whole
          BY <4>1
        <5>2. loc' = [loc EXCEPT ![p].data = data, ![p].verdict = found]
          BY <3>1 DEF HashDump
        <5> HIDE DEF data, found
        <5>3. loc'[p].data = data /\ loc'[p].verdict = found
          BY <5>2 DEF ProcessTypes, Locals
        <5> QED
          BY <4>3, <5>1, <5>3
      <4> QED
        BY <4>2, <4>3 DEF VerdictOf
    <3>2. CASE DropTemp(p)
      BY <3>2, GotoAt DEF DropTemp, Loaded, VerdictInv, VerdictOf
    <3> QED
      BY <2>1, <2>5, <3>1, <3>2, GotoAt, NoVerdict DEF Verify, BeginVerify, BeginRestoreVerify,
         Begin,
         Busy, CreateTemp, WriteReport
  <2>6. CASE Upload(p)
    <3>1. Finish(p) \/ pc'[p] \notin {"loaded", "ok", "verified"}
      BY <2>6, GotoAt DEF Upload, BeginUpload, Begin, Encrypt, EncryptFails, Describe, PutObject,
         PutManifest, PutFails, ListExpired, DeleteExpired, EndUpload, Uploaded
    <3> QED
      BY <2>1, <3>1, NoVerdict
  <2>7. CASE OffsiteVerify(p)
    BY <2>7, GotoAt, NoVerdict DEF OffsiteVerify, BeginOffsiteVerify, Begin, Download,
       DownloadFails, CheckDownload
  <2>8. ASSUME NEW offsite \in BOOLEAN, NameDump(p, offsite) PROVE VerdictOf(p)'
    BY <2>8, GotoAt, NoVerdict DEF NameDump
  <2> QED
    BY <2>1, <2>2, <2>3, <2>4, <2>5, <2>6, <2>7, <2>8 DEF Step, Complete, Kill
<1>2. \A q \in Processes : q # p => VerdictOf(q)'
  BY OthersStay DEF VerdictInv, VerdictOf
<1> QED
  BY <1>1, <1>2 DEF VerdictInv

-----------------------------------------------------------------------------
(* Temporary databases *)

\* No step drops what another process created, and none drops the live database.
LEMMA OthersTemps ==
  ASSUME Types, CommandInv, TempInv, NEW p \in Processes,
         \/ Step(p) \/ (Upload(p) \/ OffsiteVerify(p))
         \/ \E offsite \in BOOLEAN : NameDump(p, offsite)
  PROVE  /\ live # Absent => live' # Absent
         /\ \A n \in Second, q \in Processes : temps[n] = q /\ (q # p \/ ~Loaded(p)) => temps'[n] = q
<1> USE DEF Types
<1>1. CASE UNCHANGED <<live, temps>>
  BY <1>1
<1>2. CASE CreateDatabase(p)
  BY <1>2 DEF CreateDatabase, Absent
<1>3. CASE StartLoad(p)
  <2>1. live' \in {live, Torn} /\ temps' = temps
    BY <1>3 DEF StartLoad
  <2> QED
    BY <2>1 DEF Torn, Absent
<1>4. CASE EndLoad(p)
  <2>1. live' = live \/ live' \in Whole
    BY <1>4 DEF EndLoad
  <2>2. temps' = temps
    BY <1>4 DEF EndLoad
  <2> QED
    BY <2>1, <2>2 DEF Whole, Torn, Absent
<1>5. CASE CreateTemp(p)
  <2>1. live' = live
    BY <1>5 DEF CreateTemp
  <2>2. CASE Exists(loc[p].target)
    BY <1>5, <2>1, <2>2 DEF CreateTemp
  <2>3. CASE ~Exists(loc[p].target)
    <3> temps' = [temps EXCEPT ![loc[p].target] = p]
      BY <1>5, <2>3 DEF CreateTemp
    <3>1. CASE loc[p].target \in Second
      <4>1. temps[loc[p].target] = NoProcess
        BY <2>3, <3>1 DEF Exists, Second
      <4> QED
        BY <2>1, <2>3, <4>1 DEF HostTypes
    <3>2. CASE loc[p].target \notin Second
      BY <2>1, <2>3, <3>2 DEF HostTypes
    <3> QED
      BY <3>1, <3>2
  <2> QED
    BY <2>1, <2>2, <2>3
<1>6. CASE DropTemp(p)
  <2>1. loc[p].target \in Second /\ temps[loc[p].target] = p /\ Loaded(p)
    BY <1>6 DEF DropTemp, Loaded, TempInv, TempOf, Loading, Verification
  <2>2. loc[p].target # 0
    BY <2>1 DEF Second
  <2>3. live' = live /\ (temps' = temps \/ temps' = [temps EXCEPT ![loc[p].target] = NoProcess])
    BY <1>6, <2>2 DEF DropTemp
  <2> QED
    BY <2>1, <2>3 DEF HostTypes
<1>7. UNCHANGED <<live, temps>> \/ CreateDatabase(p) \/ StartLoad(p) \/ EndLoad(p) \/ CreateTemp(p) \/ DropTemp(p)
  <2>1. CASE Provide(p)
    BY <2>1 DEF Provide, BeginProvision, BeginCredential, OpenCredential, WriteCredential, hostVars
  <2>2. CASE Backup(p)
    BY <2>2 DEF Backup, LockBackup, OpenDump, CloseDump, DumpFails, WriteManifest, ListDoomed,
       DeleteOldest, Pruned, hostVars
  <2>3. CASE Restore(p)
    BY <2>3 DEF Restore, BeginRestore, LoadFails, EndRestore, hostVars
  <2>4. CASE Verify(p)
    BY <2>4 DEF Verify, BeginVerify, HashDump, BeginRestoreVerify, Busy, WriteReport, hostVars
  <2>5. CASE Upload(p)
    BY <2>5 DEF Upload, BeginUpload, Encrypt, EncryptFails, Describe, PutObject, PutManifest,
       PutFails, ListExpired, DeleteExpired, EndUpload, Uploaded, hostVars
  <2>6. CASE OffsiteVerify(p)
    BY <2>6 DEF OffsiteVerify, BeginOffsiteVerify, Download, DownloadFails, CheckDownload, hostVars
  <2>7. CASE Complete(p) \/ Kill(p) \/ \E offsite \in BOOLEAN : NameDump(p, offsite)
    BY <2>7 DEF Complete, Kill, NameDump, hostVars
  <2> QED
    BY <2>1, <2>2, <2>3, <2>4, <2>5, <2>6, <2>7 DEF Step
<1> QED
  BY <1>1, <1>2, <1>3, <1>4, <1>5, <1>6, <1>7

\* Nothing is asked of a process without a temporary database.
LEMMA NoTemp ==
  ASSUME NEW p \in Processes,
         \/ pc'[p] \notin Loading \cup {"temp", "download", "check"}
         \/ pc'[p] \in Loading /\ loc'[p].cmd \notin Verification
  PROVE  TempOf(p)'
  BY DEF TempOf, Loading

\* A process keeps what TempInv says of itself: it loads into the database that it created.
LEMMA OwnTemp ==
  ASSUME Types, CommandInv, TempInv, NEW p \in Processes,
         \/ Step(p) \/ (Upload(p) \/ OffsiteVerify(p))
         \/ \E offsite \in BOOLEAN : NameDump(p, offsite)
  PROVE  TempOf(p)'
<1> USE DEF Types
<1>1. CASE Finish(p)
  BY <1>1, FinishAt, NoTemp DEF Loading
<1>2. CASE Provide(p)
  <2>1. pc'[p] \in {"idle", "create", "credential", "secret"}
    BY <1>2, FinishAt, GotoAt DEF Provide, BeginProvision, CreateDatabase, BeginCredential,
       OpenCredential,
       WriteCredential, Begin
  <2> QED
    BY <2>1, NoTemp DEF Loading
<1>3. CASE Backup(p) \/ \E offsite \in BOOLEAN : NameDump(p, offsite)
  <2>1. pc'[p] \in {"idle", "named", "open", "dump", "manifest", "list", "prune", "encrypt", "backed up"}
    <3>1. CASE LockBackup(p) \/ OpenDump(p) \/ CloseDump(p) \/ DumpFails(p) \/ WriteManifest(p)
               \/ ListDoomed(p)
      BY <3>1, FinishAt, GotoAt DEF LockBackup, OpenDump, CloseDump, DumpFails, WriteManifest,
         ListDoomed
    <3>2. CASE DeleteOldest(p) \/ Pruned(p) \/ \E offsite \in BOOLEAN : NameDump(p, offsite)
      BY <3>2, GotoAt DEF DeleteOldest, Pruned, NameDump
    <3> QED
      BY <1>3, <3>1, <3>2 DEF Backup
  <2> QED
    BY <2>1, NoTemp DEF Loading
<1>4. CASE Restore(p)
  <2>1. ASSUME NEW n \in Second, BeginRestore(p, n) PROVE TempOf(p)'
    <3>1. pc'[p] = "load" /\ loc'[p].cmd = "restore"
      BY <2>1, GotoAt DEF BeginRestore, Begin, NoLocals, ProcessTypes
    <3> QED
      BY <3>1, NoTemp DEF Loading, Verification
  <2>2. CASE StartLoad(p) \/ EndLoad(p) \/ LoadFails(p)
    <3>1. /\ pc[p] \in {"load", "loading"} /\ pc'[p] \in Loading
          /\ loc'[p].cmd = loc[p].cmd /\ loc'[p].target = loc[p].target
      <4>1. CASE StartLoad(p)
        <5> DEFINE data == IF loc[p].data = Absent THEN dump[loc[p].name] ELSE loc[p].data
        <5>1. loc' = loc \/ loc' = [loc EXCEPT ![p].data = data]
          BY <4>1 DEF StartLoad
        <5> HIDE DEF data
        <5>2. loc'[p].cmd = loc[p].cmd /\ loc'[p].target = loc[p].target
          BY <5>1 DEF ProcessTypes, Locals
        <5> QED
          BY <4>1, <5>2, GotoAt DEF StartLoad, Loading
      <4>2. CASE EndLoad(p)
        BY <4>2, GotoAt DEF EndLoad, Loading
      <4>3. CASE LoadFails(p)
        BY <4>3, GotoAt DEF LoadFails, Loading
      <4> QED
        BY <2>2, <4>1, <4>2, <4>3
    <3>2. temps[loc[p].target] = p /\ loc[p].target \in Second => temps'[loc[p].target] = p
      <4>1. ~Loaded(p)
        BY <3>1 DEF Loaded
      <4>2. Step(p)
        BY <1>4 DEF Step
      <4>3. \A n \in Second : temps[n] = p => temps'[n] = p
        BY <4>1, <4>2, OthersTemps
      <4> QED
        BY <4>3
    <3> QED
      BY <3>1, <3>2 DEF TempInv, TempOf, Loading
  <2>3. CASE EndRestore(p)
    <3>1. Finish(p) \/ pc'[p] = "restored"
      BY <2>3, GotoAt DEF EndRestore
    <3> QED
      BY <1>1, <3>1, NoTemp DEF Loading
  <2> QED
    BY <1>4, <2>1, <2>2, <2>3 DEF Restore
<1>5. CASE Verify(p)
  <2>1. ASSUME NEW n \in Second, NEW gzip \in BOOLEAN, BeginVerify(p, n, gzip) PROVE TempOf(p)'
    BY <2>1, GotoAt, NoTemp DEF BeginVerify, Loading
  <2>2. CASE HashDump(p) \/ Busy(p) \/ DropTemp(p) \/ WriteReport(p)
    <3>1. pc'[p] \in {"verified", "error", "ok", "idle"}
      BY <2>2, FinishAt, GotoAt DEF HashDump, Busy, DropTemp, WriteReport
    <3> QED
      BY <3>1, NoTemp DEF Loading
  <2>3. ASSUME NEW n \in Second, NEW target \in 0..MaxClock, BeginRestoreVerify(p, n, target)
        PROVE  TempOf(p)'
    <3>1. pc'[p] = "temp" /\ loc'[p].target = target /\ live' = live
      BY <2>3, GotoAt DEF BeginRestoreVerify, Begin, NoLocals, ProcessTypes, hostVars
    <3>2. target = 0 => live # Absent
      BY <2>3 DEF BeginRestoreVerify, Targets, HostTypes, Second
    <3> QED
      BY <3>1, <3>2 DEF TempOf, Loading
  <2>4. CASE CreateTemp(p)
    <3>1. CASE pc'[p] = "error"
      BY <3>1, NoTemp DEF Loading
    <3>2. CASE ~Exists(loc[p].target)
      <4>1. /\ pc[p] = "temp" /\ loc' = loc /\ pc'[p] = "load"
            /\ temps' = [temps EXCEPT ![loc[p].target] = p]
        BY <2>4, <3>2, GotoAt DEF CreateTemp
      <4>2. loc[p].target \in 0..MaxClock
        BY DEF ProcessTypes, Locals
      <4>3. loc[p].target # 0
        BY <3>2, <4>1 DEF Exists, TempInv, TempOf
      <4>4. loc[p].target \in Second
        BY <4>2, <4>3 DEF Second
      <4> QED
        BY <4>1, <4>4 DEF TempOf, Loading, HostTypes
    <3> QED
      BY <2>4, <3>1, <3>2, GotoAt DEF CreateTemp
  <2> QED
    BY <1>5, <2>1, <2>2, <2>3, <2>4 DEF Verify
<1>6. CASE Upload(p)
  <2>1. Finish(p) \/ pc'[p] \in Uploading \cup {"backed up", "uploaded"}
    BY <1>6, GotoAt DEF Upload, BeginUpload, Begin, Encrypt, EncryptFails, Describe, PutObject,
       PutManifest, PutFails, ListExpired, DeleteExpired, EndUpload, Uploaded, Uploading
  <2> QED
    BY <1>1, <2>1, NoTemp DEF Loading, Uploading
<1>7. CASE OffsiteVerify(p)
  <2>1. ASSUME NEW target \in 0..MaxClock, BeginOffsiteVerify(p, target) PROVE TempOf(p)'
    <3>1. pc'[p] = "download" /\ loc'[p].target = target /\ live' = live
      BY <2>1, GotoAt DEF BeginOffsiteVerify, Begin, NoLocals, ProcessTypes, hostVars
    <3>2. target = 0 => live # Absent
      BY <2>1 DEF BeginOffsiteVerify, Targets, HostTypes, Second
    <3> QED
      BY <3>1, <3>2 DEF TempOf, Loading
  <2>2. CASE Download(p) \/ CheckDownload(p) \/ DownloadFails(p)
    <3>1. \/ pc'[p] = "error"
          \/ /\ pc[p] \in {"download", "check"} /\ pc'[p] \in {"temp", "check"}
             /\ loc'[p].target = loc[p].target
      <4>1. CASE Download(p)
        <5>1. PICK n \in Second : loc' = [loc EXCEPT ![p].name = n, ![p].file = bucket[<<n, "object">>].id]
          BY <4>1 DEF Download
        <5>2. loc'[p].target = loc[p].target
          BY <5>1 DEF ProcessTypes, Locals
        <5> QED
          BY <4>1, <5>2, GotoAt DEF Download
      <4>2. CASE CheckDownload(p)
        <5>1. \/ Goto(p, "error")
              \/ Goto(p, "temp") /\ loc' = [loc EXCEPT ![p].data = cipher[loc[p].file]]
          BY <4>2 DEF CheckDownload
        <5>2. CASE Goto(p, "temp") /\ loc' = [loc EXCEPT ![p].data = cipher[loc[p].file]]
          <6>1. loc'[p].target = loc[p].target
            BY <5>2 DEF ProcessTypes, Locals
          <6> QED
            BY <4>2, <5>2, <6>1, GotoAt DEF CheckDownload
        <5> QED
          BY <5>1, <5>2, GotoAt
      <4>3. CASE DownloadFails(p)
        BY <4>3, GotoAt DEF DownloadFails
      <4> QED
        BY <2>2, <4>1, <4>2, <4>3
    <3>2. live' = live
      BY <2>2 DEF Download, CheckDownload, DownloadFails, hostVars
    <3> QED
      BY <3>1, <3>2 DEF TempInv, TempOf, Loading
  <2> QED
    BY <1>7, <2>1, <2>2 DEF OffsiteVerify
<1> QED
  BY <1>1, <1>2, <1>3, <1>4, <1>5, <1>6, <1>7 DEF Step, Complete, Kill

\* A step of a process keeps TempInv.
LEMMA TempStep ==
  ASSUME Types, CommandInv, TempInv, NEW p \in Processes,
         \/ Step(p) \/ (Upload(p) \/ OffsiteVerify(p))
         \/ \E offsite \in BOOLEAN : NameDump(p, offsite)
  PROVE  TempInv'
<1>1. \A q \in Processes : q # p => TempOf(q)'
  BY OthersStay, OthersTemps DEF TempInv, TempOf
<1> QED
  BY <1>1, OwnTemp DEF TempInv

-----------------------------------------------------------------------------
(* Locks *)

\* Releasing the locks of one process leaves those of another.
LEMMA ReleasedAt ==
  ASSUME ProcessTypes, NEW p \in Processes, NEW l \in Lock, NEW q \in Processes, q # p, lock[l] = q
  PROVE  Released(p)[l] = q
  BY DEF ProcessTypes, Released

\* No step of p takes a lock from another process.
LEMMA OthersLocks ==
  ASSUME Types, NEW p \in Processes, NEW q \in Processes, q # p, NEW l \in Lock, lock[l] = q,
         \/ Step(p) \/ Upload(p) \/ OffsiteVerify(p)
         \/ \E offsite \in BOOLEAN : NameDump(p, offsite)
  PROVE  lock'[l] = q
<1> USE DEF Types
<1>1. CASE lock' = lock
  BY <1>1
<1>2. CASE lock' = Released(p)
  BY <1>2, ReleasedAt
<1>3. ASSUME NEW cmd, NEW k \in Lock, NEW label, NEW locals, Begin(p, cmd, k, label, locals)
      PROVE  lock'[l] = q
  <2>1. lock[k] = NoProcess /\ lock' = [lock EXCEPT ![k] = p]
    BY <1>3 DEF Begin, Free
  <2> QED
    BY <2>1 DEF ProcessTypes
<1>4. CASE LockBackup(p)
  <2>1. CASE Free("backup")
    <3>1. lock["backup"] = NoProcess /\ lock' = [lock EXCEPT !["backup"] = p]
      BY <1>4, <2>1 DEF LockBackup, Free
    <3> QED
      BY <3>1 DEF ProcessTypes
  <2> QED
    BY <1>2, <1>4, <2>1 DEF LockBackup, Finish
<1>5. CASE Provide(p)
  BY <1>1, <1>2, <1>3, <1>5, LabelTypes DEF Provide, BeginProvision, CreateDatabase,
     BeginCredential, OpenCredential,
     WriteCredential, Finish
<1>6. CASE Backup(p) \/ \E offsite \in BOOLEAN : NameDump(p, offsite)
  BY <1>1, <1>2, <1>4, <1>6 DEF Backup, OpenDump, CloseDump, DumpFails, WriteManifest, ListDoomed,
     DeleteOldest, Pruned, NameDump, Finish
<1>7. CASE Restore(p)
  BY <1>1, <1>2, <1>3, <1>7, LabelTypes DEF Restore, BeginRestore, StartLoad, EndLoad, LoadFails,
     EndRestore, Finish
<1>8. CASE Verify(p)
  BY <1>1, <1>2, <1>3, <1>8, LabelTypes DEF Verify, BeginVerify, HashDump, BeginRestoreVerify,
     Busy, CreateTemp,
     DropTemp, WriteReport, Finish
<1>9. CASE Upload(p)
  BY <1>1, <1>2, <1>3, <1>9, LabelTypes DEF Upload, BeginUpload, Encrypt, EncryptFails, Describe,
     PutObject,
     PutManifest, PutFails, ListExpired, DeleteExpired, EndUpload, Uploaded, Finish
<1>10. CASE OffsiteVerify(p)
  BY <1>1, <1>2, <1>3, <1>10, LabelTypes DEF OffsiteVerify, BeginOffsiteVerify, Download,
     DownloadFails, CheckDownload
<1> QED
  BY <1>2, <1>5, <1>6, <1>7, <1>8, <1>9, <1>10 DEF Step, Complete, Kill, Finish

\* A backup goes on under its lock, and its manifest was written before it prunes or uploads.
LEMMA UploadBacking ==
  ASSUME Types, CommandInv, LockInv, NEW p \in Processes, Upload(p)
  PROVE  /\ LockOf(p)'
         /\ Backing(p)' => /\ HasManifest(p) /\ loc'[p].name = loc[p].name
                           /\ pc'[p] \in Uploading \cup {"backed up"}
<1> USE DEF Types
<1>1. CASE pc'[p] \in {"idle", "uploaded"}
  BY <1>1 DEF LockOf, Backing, Dumping, Uploading
<1>2. ASSUME NEW n \in Second, BeginUpload(p, n)
      PROVE  pc'[p] = "encrypt" /\ loc'[p].cmd = "upload" /\ lock'["upload"] = p
  BY <1>2, GotoAt, LabelTypes DEF BeginUpload, Begin, NoLocals, ProcessTypes
<1>3. CASE Encrypt(p) \/ Describe(p) \/ PutObject(p) \/ PutManifest(p) \/ ListExpired(p)
           \/ DeleteExpired(p)
  <2>1. \/ Finish(p)
        \/ /\ pc[p] \in Uploading /\ pc'[p] \in Uploading /\ lock' = lock
           /\ loc'[p].cmd = loc[p].cmd /\ loc'[p].name = loc[p].name
    <3>1. CASE Encrypt(p) \/ Describe(p) \/ PutObject(p) \/ PutManifest(p)
      BY <3>1, GotoAt DEF Encrypt, Describe, PutObject, PutManifest, Uploading
    <3>2. CASE ListExpired(p)
      <4>1. loc'[p].cmd = loc[p].cmd /\ loc'[p].name = loc[p].name
        BY <3>2 DEF ListExpired, ProcessTypes, Locals
      <4> QED
        BY <3>2, <4>1, GotoAt DEF ListExpired, Uploading
    <3>3. CASE DeleteExpired(p)
      <4>1. loc'[p].cmd = loc[p].cmd /\ loc'[p].name = loc[p].name
        BY <3>3 DEF DeleteExpired, ProcessTypes, Locals
      <4> QED
        BY <3>3, <4>1 DEF DeleteExpired, Uploading
    <3> QED
      BY <1>3, <3>1, <3>2, <3>3
  <2>2. CASE Finish(p)
    BY <1>1, <2>2, FinishAt DEF Backing, Dumping, Uploading
  <2> QED
    BY <2>1, <2>2 DEF LockInv, LockOf, Backing, HasManifest, Dumping, Uploading
<1>4. CASE EndUpload(p)
  <2>1. CASE Finish(p)
    BY <1>1, <2>1, FinishAt DEF Backing, Dumping, Uploading
  <2>2. CASE UNCHANGED <<lock, loc>> /\ pc'[p] = IF loc[p].cmd = "backup" THEN "backed up" ELSE "uploaded"
    <3>1. pc[p] \in Uploading
      BY <1>4 DEF EndUpload, Uploading
    <3> QED
      BY <2>2, <3>1 DEF LockInv, LockOf, Backing, HasManifest, Dumping, Uploading
  <2> QED
    BY <1>4, <2>1, <2>2, GotoAt DEF EndUpload
<1>5. CASE EncryptFails(p) \/ PutFails(p) \/ Uploaded(p)
  <2>1. Finish(p)
    BY <1>5 DEF EncryptFails, PutFails, Uploaded
  <2> QED
    BY <1>1, <2>1, FinishAt DEF Backing, Dumping, Uploading
<1>6. CASE \E n \in Second : BeginUpload(p, n)
  BY <1>2, <1>6 DEF LockOf, Backing, Dumping, Uploading
<1> QED
  BY <1>3, <1>4, <1>5, <1>6 DEF Upload

\* A backup works on the dumps under its lock.
LEMMA BackupLock ==
  ASSUME Types, CommandInv, LockInv, NEW p \in Processes, Backup(p) PROVE LockOf(p)'
<1> USE DEF Types
<1>1. CASE Finish(p)
  BY <1>1, FinishAt DEF LockOf, Backing, Dumping, Uploading
<1>2. CASE LockBackup(p)
  <2>1. CASE Free("backup")
    <3>1. pc'[p] = "open" /\ lock'["backup"] = p
      BY <1>2, <2>1, GotoAt, LabelTypes DEF LockBackup, ProcessTypes
    <3> QED
      BY <3>1 DEF LockOf, Backing, Dumping, Uploading
  <2> QED
    BY <1>1, <1>2, <2>1 DEF LockBackup
<1>3. ASSUME pc[p] \in Dumping, pc'[p] \in Dumping \cup {"encrypt"}, lock' = lock,
             loc'[p].cmd = loc[p].cmd
      PROVE  LockOf(p)'
  <2>1. lock'["backup"] = p /\ loc'[p].cmd = "backup"
    BY <1>3 DEF LockInv, LockOf, Backing, CommandInv, CommandOf
  <2> QED
    BY <2>1 DEF LockOf
<1>4. CASE OpenDump(p) \/ CloseDump(p) \/ DumpFails(p) \/ WriteManifest(p) \/ Pruned(p)
  BY <1>1, <1>3, <1>4, GotoAt DEF OpenDump, CloseDump, DumpFails, WriteManifest, Pruned, Dumping
<1>5. CASE ListDoomed(p)
  <2>1. loc'[p].cmd = loc[p].cmd
    BY <1>5 DEF ListDoomed, ProcessTypes, Locals
  <2> QED
    BY <1>3, <1>5, <2>1, GotoAt DEF ListDoomed, Dumping
<1>6. CASE DeleteOldest(p)
  <2>1. loc'[p].cmd = loc[p].cmd
    BY <1>6 DEF DeleteOldest, ProcessTypes, Locals
  <2> QED
    BY <1>3, <1>6, <2>1 DEF DeleteOldest, Dumping
<1> QED
  BY <1>2, <1>4, <1>5, <1>6 DEF Backup

\* Whatever is not a step of `db backup` or of an upload leaves p without a backup underway, or is
\* the end of it.
LEMMA NotBacking ==
  ASSUME Types, NEW p \in Processes,
         \/ Provide(p) \/ Restore(p) \/ Verify(p) \/ Complete(p) \/ Kill(p) \/ OffsiteVerify(p)
         \/ \E offsite \in BOOLEAN : NameDump(p, offsite)
  PROVE  pc'[p] \notin Dumping \cup Uploading
<1> USE DEF Types
<1>1. CASE Finish(p)
  BY <1>1, FinishAt DEF Dumping, Uploading
<1>2. CASE Provide(p)
  <2>1. pc'[p] \in {"idle", "create", "credential", "secret"}
    BY <1>2, FinishAt, GotoAt DEF Provide, BeginProvision, CreateDatabase, BeginCredential,
       OpenCredential,
       WriteCredential, Begin
  <2> QED
    BY <2>1 DEF Dumping, Uploading
<1>3. CASE Restore(p)
  <2>1. Finish(p) \/ pc'[p] \in Loading \cup {"restored"}
    <3>1. CASE \E n \in Second : BeginRestore(p, n)
      BY <3>1, GotoAt DEF BeginRestore, Begin, Loading
    <3>2. CASE StartLoad(p)
      BY <3>2, GotoAt DEF StartLoad, Loading
    <3>3. CASE EndLoad(p) \/ LoadFails(p) \/ EndRestore(p)
      BY <3>3, GotoAt DEF EndLoad, LoadFails, EndRestore, Loading
    <3> QED
      BY <1>3, <3>1, <3>2, <3>3 DEF Restore
  <2> QED
    BY <1>1, <2>1 DEF Loading, Dumping, Uploading
<1>4. CASE Verify(p)
  <2>1. Finish(p) \/ pc'[p] \in {"hash", "verified", "temp", "load", "ok", "error"}
    <3>1. CASE \E n \in Second, gzip \in BOOLEAN : BeginVerify(p, n, gzip)
      BY <3>1, GotoAt DEF BeginVerify
    <3>2. CASE \E n \in Second, target \in 0..MaxClock : BeginRestoreVerify(p, n, target)
      BY <3>2, GotoAt DEF BeginRestoreVerify, Begin
    <3>3. CASE HashDump(p) \/ Busy(p) \/ CreateTemp(p) \/ DropTemp(p) \/ WriteReport(p)
      BY <3>3, GotoAt DEF HashDump, Busy, CreateTemp, DropTemp, WriteReport
    <3> QED
      BY <1>4, <3>1, <3>2, <3>3 DEF Verify
  <2> QED
    BY <1>1, <2>1 DEF Dumping, Uploading
<1>5. CASE OffsiteVerify(p)
  <2>1. pc'[p] \in {"download", "check", "temp", "error"}
    BY <1>5, GotoAt DEF OffsiteVerify, BeginOffsiteVerify, Begin, Download, DownloadFails,
       CheckDownload
  <2> QED
    BY <2>1 DEF Dumping, Uploading
<1>6. ASSUME NEW offsite \in BOOLEAN, NameDump(p, offsite) PROVE pc'[p] = "named"
  BY <1>6, GotoAt DEF NameDump
<1> QED
  BY <1>1, <1>2, <1>3, <1>4, <1>5, <1>6 DEF Complete, Kill, Dumping, Uploading

\* A step of a process keeps LockInv.
LEMMA LockStep ==
  ASSUME Types, CommandInv, LockInv, NEW p \in Processes,
         \/ Step(p) \/ Upload(p) \/ OffsiteVerify(p)
         \/ \E offsite \in BOOLEAN : NameDump(p, offsite)
  PROVE  LockInv'
<1>1. LockOf(p)'
  <2>1. CASE Backup(p) \/ Upload(p)
    BY <2>1, BackupLock, UploadBacking
  <2>2. CASE pc'[p] \notin Dumping \cup Uploading
    BY <2>2 DEF LockOf, Backing
  <2> QED
    BY <2>1, <2>2, NotBacking DEF Step
<1>2. ASSUME NEW q \in Processes, q # p PROVE LockOf(q)'
  <2>1. pc'[q] = pc[q] /\ loc'[q] = loc[q]
    BY <1>2, OthersStay
  <2>2. \A l \in Lock : lock[l] = q => lock'[l] = q
    BY <1>2, OthersLocks
  <2>3. lock["backup"] = q => lock'["backup"] = q
    BY <2>2, LabelTypes
  <2>4. lock["upload"] = q => lock'["upload"] = q
    BY <2>2, LabelTypes
  <2> QED
    BY <2>1, <2>3, <2>4 DEF LockInv, LockOf, Backing
<1> QED
  BY <1>1, <1>2 DEF LockInv

-----------------------------------------------------------------------------
(* Dumps *)

Writes(p) == OpenDump(p) \/ CloseDump(p) \/ WriteManifest(p) \/ DeleteOldest(p)

\* Only a backup that holds the lock touches the dumps and the manifests.
LEMMA OnlyBackupWrites ==
  ASSUME NEW p \in Processes,
         \/ Step(p) \/ Upload(p) \/ OffsiteVerify(p)
         \/ \E offsite \in BOOLEAN : NameDump(p, offsite)
  PROVE  Writes(p) \/ UNCHANGED <<dump, manifest, disorder>>
<1> USE DEF hostVars, historyVars
<1>1. CASE Provide(p)
  BY <1>1 DEF Provide, BeginProvision, CreateDatabase, BeginCredential, OpenCredential,
     WriteCredential
<1>2. CASE Backup(p) \/ \E offsite \in BOOLEAN : NameDump(p, offsite)
  BY <1>2 DEF Backup, LockBackup, DumpFails, ListDoomed, Pruned, NameDump, Writes
<1>3. CASE Restore(p)
  BY <1>3 DEF Restore, BeginRestore, StartLoad, EndLoad, LoadFails, EndRestore
<1>4. CASE Verify(p)
  BY <1>4 DEF Verify, BeginVerify, HashDump, BeginRestoreVerify, Busy, CreateTemp, DropTemp,
     WriteReport
<1>5. CASE Upload(p)
  BY <1>5 DEF Upload, BeginUpload, Encrypt, EncryptFails, Describe, PutObject, PutManifest,
     PutFails,
     ListExpired, DeleteExpired, EndUpload, Uploaded
<1>6. CASE OffsiteVerify(p)
  BY <1>6 DEF OffsiteVerify, BeginOffsiteVerify, Download, DownloadFails, CheckDownload
<1>7. CASE Complete(p) \/ Kill(p)
  BY <1>7 DEF Complete, Kill
<1> QED
  BY <1>1, <1>2, <1>3, <1>4, <1>5, <1>6, <1>7 DEF Step

\* While p writes no other backup is underway, since it would hold the same lock.
LEMMA AloneWrites ==
  ASSUME LockInv, NEW p \in Processes, Writes(p), NEW q \in Processes, q # p
  PROVE  ~Backing(q)
<1>1. pc[p] \in Dumping
  BY DEF Writes, OpenDump, CloseDump, WriteManifest, DeleteOldest, Dumping
<1> QED
  BY <1>1 DEF LockInv, LockOf, Backing

\* Nothing is asked of a process without a backup underway.
LEMMA NoBackup ==
  ASSUME NEW q \in Processes, (~Backing(q))' PROVE DumpOf(q)' /\ OrderOf(q)'
  BY DEF Backing, HasManifest, DumpOf, OrderOf, Dumping

\* It is enough to look at the process that writes.
LEMMA WriterOnly ==
  ASSUME Types, LockInv, NEW p \in Processes, Writes(p)
  PROVE  \A q \in Processes : q # p => DumpOf(q)' /\ OrderOf(q)'
<1> SUFFICES ASSUME NEW q \in Processes, q # p PROVE DumpOf(q)' /\ OrderOf(q)'
  OBVIOUS
<1>1. ~Backing(q)
  BY AloneWrites
<1>2. pc'[q] = pc[q] /\ loc'[q] = loc[q]
  BY OthersStay DEF Step, Backup, Writes
<1>3. (~Backing(q))'
  BY <1>1, <1>2 DEF Backing
<1> QED
  BY <1>3, NoBackup

\* A dump that ends early, or none, is not a whole one.
LEMMA ContentFacts == /\ Cut \notin Whole /\ Absent \notin Whole /\ Absent # Cut
  BY DEF Cut, Absent, Torn, Whole

\* Emptying a file: under a new name, in order, nothing is lost.
LEMMA OpenDumpStep ==
  ASSUME Types, CommandInv, LockInv, DumpInv, OrderInv, NEW p \in Processes, OpenDump(p)
  PROVE  DumpInv' /\ OrderInv'
<1> DEFINE name == loc[p].name
<1>1. name \in Second /\ loc' = loc /\ pc[p] = "open" /\ pc'[p] = "dump" /\ completed' = completed
  BY GotoAt DEF OpenDump, CommandInv, CommandOf, Dumping, Types
<1>2. dump' = [dump EXCEPT ![name] = Cut] /\ manifest' = manifest /\ dump \in [Second -> Content]
  BY DEF OpenDump, Types, HostTypes
<1>3. disorder' = (disorder \/ \E n \in Listed : n >= name)
  BY DEF OpenDump
<1> HIDE DEF name
<1>4. \A q \in Processes : q # p => DumpOf(q)' /\ OrderOf(q)'
  BY WriterOnly DEF Writes
<1>5. DumpOf(p)'
  BY <1>1, <1>2 DEF DumpOf, HasManifest, Uploading, name
<1>6. \A n \in Second : dump'[n] = Absent => manifest'[n] = Absent
  BY <1>2, ContentFacts DEF DumpInv
<1>7. ASSUME ~disorder' PROVE OrderInv'
  <2>1. ~disorder /\ \A n \in Listed : n < name
    <3>1. ~disorder /\ \A n \in Listed : ~(n >= name)
      BY <1>3, <1>7
    <3>2. \A n \in Listed : n \in Int
      BY DEF Listed, Second
    <3>3. name \in Int
      BY <1>1 DEF Second
    <3> QED
      BY <3>1, <3>2, <3>3
  <2>2. dump[name] = Absent /\ manifest[name] = Absent
    <3>1. name \notin Listed
      BY <1>1, <2>1 DEF Second
    <3> QED
      BY <1>1, <3>1 DEF Listed, DumpInv
  <2>3. \A n \in Second : manifest'[n] # Absent => manifest'[n] = dump'[n]
    BY <1>1, <1>2, <2>1, <2>2 DEF OrderInv
  <2>4. \A m \in Listed' : m <= name
    <3>1. \A m \in Listed' : m \in Listed \/ m = name
      BY <1>2 DEF Listed
    <3> QED
      BY <1>1, <2>1, <3>1 DEF Second, Listed
  <2>5. OrderOf(p)'
    BY <1>1, <2>4 DEF OrderOf, name
  <2>6. GoodCopyOnDisk'
    <3>1. \A n \in Second : Good(n) => Good(n)'
      BY <1>2, <2>2, ContentFacts DEF Good
    <3> QED
      BY <1>1, <2>1, <3>1 DEF OrderInv, GoodCopyOnDisk
  <2> QED
    BY <1>4, <2>3, <2>5, <2>6 DEF OrderInv
<1> QED
  BY <1>4, <1>5, <1>6, <1>7 DEF DumpInv, OrderInv

\* The dump is there; what was under the name had no manifest.
LEMMA CloseDumpStep ==
  ASSUME Types, CommandInv, LockInv, DumpInv, OrderInv, NEW p \in Processes, CloseDump(p)
  PROVE  DumpInv' /\ OrderInv'
<1> DEFINE name == loc[p].name
<1>1. /\ name \in Second /\ loc' = loc /\ pc[p] = "dump" /\ pc'[p] = "manifest"
      /\ completed' = completed /\ disorder' = disorder
  BY GotoAt DEF CloseDump, CommandInv, CommandOf, Dumping, Types, historyVars
<1>2. /\ dump' = [dump EXCEPT ![name] = live] /\ manifest' = manifest /\ dump \in [Second -> Content]
      /\ live \in Whole
  BY DEF CloseDump, Types, HostTypes
<1>3. dump[name] = Cut /\ manifest[name] \in Whole \cup {Absent}
  BY <1>1 DEF DumpInv, DumpOf, Types, HostTypes
<1>4. \A q \in Processes : q # p => DumpOf(q)' /\ OrderOf(q)'
  BY WriterOnly DEF Writes
<1>5. DumpOf(p)'
  BY <1>1, <1>2 DEF DumpOf, HasManifest, Uploading
<1> HIDE DEF name
<1>6. \A n \in Second : dump'[n] = Absent => manifest'[n] = Absent
  BY <1>1, <1>2, ContentFacts DEF DumpInv
<1>7. ASSUME ~disorder' PROVE OrderInv'
  <2>1. manifest[name] = Absent
    BY <1>1, <1>3, <1>7, ContentFacts DEF OrderInv
  <2>2. \A n \in Second : manifest'[n] # Absent => manifest'[n] = dump'[n]
    BY <1>1, <1>2, <1>7, <2>1 DEF OrderInv
  <2>3. Listed' = Listed
    BY <1>1, <1>2, <1>3, ContentFacts DEF Listed
  <2>4. \A m \in Listed : m <= name
    BY <1>1, <1>7 DEF OrderInv, OrderOf, Backing, Dumping, name
  <2>5. OrderOf(p)'
    BY <1>1, <2>3, <2>4 DEF OrderOf, name
  <2>6. GoodCopyOnDisk'
    <3>1. \A n \in Second : Good(n) => Good(n)'
      BY <1>2, <1>3, ContentFacts DEF Good
    <3> QED
      BY <1>1, <1>7, <3>1 DEF OrderInv, GoodCopyOnDisk
  <2> QED
    BY <1>4, <2>2, <2>5, <2>6 DEF OrderInv
<1> QED
  BY <1>4, <1>5, <1>6, <1>7 DEF DumpInv, OrderInv

\* The manifest describes the whole dump of the same backup.
LEMMA WriteManifestStep ==
  ASSUME Types, CommandInv, LockInv, DumpInv, OrderInv, NEW p \in Processes, WriteManifest(p)
  PROVE  DumpInv' /\ OrderInv'
<1> DEFINE name == loc[p].name
<1>1. /\ name \in Second /\ loc' = loc /\ pc[p] = "manifest" /\ pc'[p] = "list"
      /\ completed' = completed /\ disorder' = disorder
  BY GotoAt DEF WriteManifest, CommandInv, CommandOf, Dumping, Types, historyVars
<1>2. /\ manifest' = [manifest EXCEPT ![name] = dump[name]] /\ dump' = dump
      /\ manifest \in [Second -> Whole \cup {Absent}]
  BY DEF WriteManifest, Types, HostTypes
<1>3. dump[name] \in Whole
  BY <1>1 DEF DumpInv, DumpOf
<1>4. \A q \in Processes : q # p => DumpOf(q)' /\ OrderOf(q)'
  BY WriterOnly DEF Writes
<1> HIDE DEF name
<1>5. Good(name)'
  <2>1. dump'[name] \in Whole /\ manifest'[name] = dump'[name]
    BY <1>1, <1>2, <1>3
  <2>2. name' = name
    BY <1>1 DEF name
  <2> QED
    BY <2>1, <2>2 DEF Good
<1>6. DumpOf(p)'
  BY <1>1, <1>5 DEF DumpOf, HasManifest, Uploading, name
<1>7. \A n \in Second : dump'[n] = Absent => manifest'[n] = Absent
  BY <1>1, <1>2, <1>3, ContentFacts DEF DumpInv
<1>8. ASSUME ~disorder' PROVE OrderInv'
  <2>1. \A n \in Second : manifest'[n] # Absent => manifest'[n] = dump'[n]
    BY <1>1, <1>2, <1>8 DEF OrderInv
  <2>2. Listed' = Listed
    BY <1>2 DEF Listed
  <2>3. \A m \in Listed : m <= name
    BY <1>1, <1>8 DEF OrderInv, OrderOf, Backing, Dumping, name
  <2>4. OrderOf(p)'
    BY <1>1, <2>2, <2>3 DEF OrderOf, name
  <2>5. GoodCopyOnDisk'
    BY <1>1, <1>5 DEF GoodCopyOnDisk, name
  <2> QED
    BY <1>4, <2>1, <2>4, <2>5 DEF OrderInv
<1> QED
  BY <1>4, <1>6, <1>7, <1>8 DEF DumpInv, OrderInv

\* Pruning deletes no dump of its own backup, as long as the names are in order.
LEMMA DeleteOldestStep ==
  ASSUME Types, CommandInv, LockInv, DumpInv, OrderInv, NEW p \in Processes, DeleteOldest(p)
  PROVE  DumpInv' /\ OrderInv'
<1> DEFINE name == loc[p].name
<1>1. PICK n \in loc[p].doomed :
           /\ dump' = [dump EXCEPT ![n] = Absent]
           /\ manifest' = [manifest EXCEPT ![n] = Absent]
           /\ loc' = [loc EXCEPT ![p].doomed = @ \ {n}]
  BY DEF DeleteOldest
<1>2. /\ name \in Second /\ pc[p] = "prune" /\ pc' = pc
      /\ completed' = completed /\ disorder' = disorder
  BY DEF DeleteOldest, CommandInv, CommandOf, Dumping, Types, historyVars
<1>3. /\ loc'[p].name = name /\ loc'[p].cmd = loc[p].cmd /\ loc'[p].doomed \subseteq loc[p].doomed
      /\ loc[p].doomed \subseteq Second
  BY <1>1 DEF Types, ProcessTypes, Locals
<1>4. dump \in [Second -> Content] /\ manifest \in [Second -> Whole \cup {Absent}] /\ n \in Second
  BY <1>3 DEF Types, HostTypes
<1>5. \A q \in Processes : q # p => DumpOf(q)' /\ OrderOf(q)'
  BY WriterOnly DEF Writes
<1>6. Good(name) \/ (dump[name] = Absent /\ disorder)
  BY <1>2 DEF DumpInv, DumpOf, HasManifest
<1>7. ~disorder => n # name
  BY <1>1, <1>2 DEF OrderInv, OrderOf
<1> HIDE DEF name
<1>8. (dump'[name] = Absent /\ disorder') \/ (dump'[name] \in Whole /\ manifest'[name] = dump'[name])
  BY <1>1, <1>2, <1>4, <1>6, <1>7 DEF Good
<1>9. DumpOf(p)'
  BY <1>2, <1>3, <1>8 DEF DumpOf, Good
<1>10. \A m \in Second : dump'[m] = Absent => manifest'[m] = Absent
  BY <1>1, <1>4 DEF DumpInv
<1>11. ASSUME ~disorder' PROVE OrderInv'
  <2>1. \A m \in Second : manifest'[m] # Absent => manifest'[m] = dump'[m]
    BY <1>1, <1>2, <1>4, <1>11 DEF OrderInv
  <2>2. Listed' \subseteq Listed
    BY <1>1, <1>4 DEF Listed
  <2>3. (\A m \in Listed : m <= name) /\ name \notin loc[p].doomed
    BY <1>2, <1>11 DEF OrderInv, OrderOf, Backing, Dumping, name
  <2>4. OrderOf(p)'
    BY <1>2, <1>3, <2>2, <2>3 DEF OrderOf
  <2>5. GoodCopyOnDisk'
    BY <1>2, <1>8, <1>11, ContentFacts DEF GoodCopyOnDisk, Good
  <2> QED
    BY <1>5, <2>1, <2>4, <2>5 DEF OrderInv
<1> QED
  BY <1>5, <1>9, <1>10, <1>11 DEF DumpInv, OrderInv

\* The last name is not among those that retention gives up.
LEMMA ListDoomedStep ==
  ASSUME Types, CommandInv, LockInv, DumpInv, OrderInv, NEW p \in Processes, ListDoomed(p)
  PROVE  DumpInv' /\ OrderInv'
<1> DEFINE name == loc[p].name
<1>1. /\ pc[p] = "list" /\ pc'[p] = "prune" /\ name \in Second
      /\ UNCHANGED <<dump, manifest, disorder, completed>>
  BY GotoAt DEF ListDoomed, CommandInv, CommandOf, Dumping, Types, hostVars, historyVars
<1>2. loc'[p].name = name /\ loc'[p].doomed = Doomed
  BY DEF ListDoomed, Types, ProcessTypes, Locals
<1>3. \A q \in Processes : q # p => pc'[q] = pc[q] /\ loc'[q] = loc[q]
  BY OthersStay DEF Step, Backup
<1>4. \A q \in Processes : q # p => DumpOf(q)' /\ (~disorder => OrderOf(q)')
  <2> SUFFICES ASSUME NEW q \in Processes, q # p PROVE DumpOf(q)' /\ (~disorder => OrderOf(q)')
    OBVIOUS
  <2>1. DumpOf(q)'
    BY <1>1, <1>3 DEF DumpInv, DumpOf, HasManifest, Good
  <2>2. Listed' = Listed
    BY <1>1 DEF Listed
  <2>3. ~disorder => OrderOf(q)'
    BY <1>1, <1>3, <2>2 DEF OrderInv, OrderOf, Backing
  <2> QED
    BY <2>1, <2>3
<1>5. DumpOf(p)'
  BY <1>1, <1>2 DEF DumpInv, DumpOf, HasManifest, Good
<1>6. ASSUME ~disorder PROVE OrderOf(p)'
  <2>1. \A m \in Listed : m <= name
    BY <1>1, <1>6 DEF OrderInv, OrderOf, Backing, Dumping
  <2> HIDE DEF name
  <2>2. name \notin Doomed
    <3>1. {m \in Listed : m > name} = {}
      <4>1. \A m \in Listed : m \in Int
        BY DEF Listed, Second
      <4>2. name \in Int
        BY <1>1 DEF Second
      <4> QED
        BY <2>1, <4>1, <4>2
    <3>2. Cardinality({m \in Listed : m > name}) = 0
      BY <3>1, FS_EmptySet
    <3>3. ~(Cardinality({m \in Listed : m > name}) >= RetainCount)
      BY <3>2
    <3> QED
      BY <3>3 DEF Doomed
  <2>3. Listed' = Listed
    BY <1>1 DEF Listed
  <2> QED
    BY <1>1, <1>2, <2>1, <2>2, <2>3 DEF OrderOf
<1>7. GoodCopyOnDisk = GoodCopyOnDisk'
  BY <1>1 DEF GoodCopyOnDisk, Good
<1> QED
  BY <1>1, <1>4, <1>5, <1>6, <1>7 DEF DumpInv, OrderInv

\* Only a backup reports a backup complete.
LEMMA OnlyBackupCompletes ==
  ASSUME Types, NEW p \in Processes,
         \/ Step(p) \/ Upload(p) \/ OffsiteVerify(p)
         \/ \E offsite \in BOOLEAN : NameDump(p, offsite)
  PROVE  completed' = completed \/ pc[p] = "backed up"
<1> USE DEF historyVars
<1>1. CASE Provide(p)
  BY <1>1 DEF Provide, BeginProvision, CreateDatabase, BeginCredential, OpenCredential,
     WriteCredential
<1>2. CASE Backup(p) \/ \E offsite \in BOOLEAN : NameDump(p, offsite)
  BY <1>2 DEF Backup, LockBackup, OpenDump, CloseDump, DumpFails, WriteManifest, ListDoomed,
     DeleteOldest,
     Pruned, NameDump
<1>3. CASE Restore(p)
  BY <1>3 DEF Restore, BeginRestore, StartLoad, EndLoad, LoadFails, EndRestore
<1>4. CASE Verify(p)
  BY <1>4 DEF Verify, BeginVerify, HashDump, BeginRestoreVerify, Busy, CreateTemp, DropTemp,
     WriteReport
<1>5. CASE Upload(p)
  BY <1>5 DEF Upload, BeginUpload, Encrypt, EncryptFails, Describe, PutObject, PutManifest,
     PutFails,
     ListExpired, DeleteExpired, EndUpload, Uploaded
<1>6. CASE OffsiteVerify(p)
  BY <1>6 DEF OffsiteVerify, BeginOffsiteVerify, Download, DownloadFails, CheckDownload
<1>7. CASE Complete(p)
  BY <1>7 DEF Complete, Types, HostTypes
<1>8. CASE Kill(p)
  BY <1>8 DEF Kill
<1> QED
  BY <1>1, <1>2, <1>3, <1>4, <1>5, <1>6, <1>7, <1>8 DEF Step

\* Every other step leaves the dumps alone.
LEMMA QuietStep ==
  ASSUME Types, CommandInv, LockInv, DumpInv, OrderInv, NEW p \in Processes,
         \/ Step(p) \/ Upload(p) \/ OffsiteVerify(p)
         \/ \E offsite \in BOOLEAN : NameDump(p, offsite),
         ~Writes(p), ~ListDoomed(p)
  PROVE  DumpInv' /\ OrderInv'
<1>1. UNCHANGED <<dump, manifest, disorder>>
  BY OnlyBackupWrites
<1>2. \A q \in Processes : q # p => pc'[q] = pc[q] /\ loc'[q] = loc[q]
  BY OthersStay
<1>3. \A q \in Processes : q # p => DumpOf(q)' /\ (~disorder => OrderOf(q)')
  BY <1>1, <1>2 DEF DumpInv, OrderInv, DumpOf, OrderOf, HasManifest, Backing, Good, Listed
<1>4. \/ (~Backing(p))'
      \/ pc'[p] = "open"
      \/ /\ HasManifest(p) /\ loc'[p].name = loc[p].name /\ pc'[p] \in Uploading \cup {"backed up"}
  <2>1. CASE Upload(p)
    BY <2>1, UploadBacking
  <2>2. CASE Finish(p)
    BY <2>2, FinishAt DEF Types, Backing, Dumping, Uploading
  <2>3. CASE LockBackup(p) \/ DumpFails(p) \/ Pruned(p)
    BY <2>2, <2>3, GotoAt DEF LockBackup, DumpFails, Pruned, Types, HasManifest, Uploading
  <2>4. CASE pc'[p] \notin Dumping \cup Uploading
    BY <2>4 DEF Backing
  <2> QED
    BY <2>1, <2>3, <2>4, NotBacking DEF Step, Backup, Writes
<1>5. DumpOf(p)' /\ (~disorder => OrderOf(p)')
  <2>1. CASE (~Backing(p))'
    BY <2>1, NoBackup
  <2>2. CASE pc'[p] = "open"
    BY <2>2 DEF DumpOf, OrderOf, HasManifest, Uploading
  <2>3. CASE HasManifest(p) /\ loc'[p].name = loc[p].name /\ pc'[p] \in Uploading \cup {"backed up"}
    <3>1. pc'[p] \notin {"dump", "manifest", "prune"}
      BY <2>3 DEF Uploading
    <3>2. Backing(p) /\ pc[p] # "open"
      BY <2>3 DEF HasManifest, Backing, Dumping, Uploading
    <3>3. Listed' = Listed
      BY <1>1 DEF Listed
    <3>4. DumpOf(p)'
      BY <1>1, <2>3, <3>1 DEF DumpInv, DumpOf, Good
    <3>5. ~disorder => OrderOf(p)'
      BY <2>3, <3>1, <3>2, <3>3 DEF OrderInv, OrderOf
    <3> QED
      BY <3>4, <3>5
  <2> QED
    BY <1>4, <2>1, <2>2, <2>3
<1>6. ~disorder => GoodCopyOnDisk'
  <2>1. CASE completed' = completed
    BY <1>1, <2>1 DEF OrderInv, GoodCopyOnDisk, Good
  <2>2. CASE pc[p] = "backed up"
    <3>1. loc[p].name \in Second /\ (~disorder => Good(loc[p].name))
      BY <2>2 DEF CommandInv, CommandOf, Dumping, DumpInv, DumpOf, HasManifest
    <3> QED
      BY <1>1, <3>1 DEF GoodCopyOnDisk, Good
  <2> QED
    BY <2>1, <2>2, OnlyBackupCompletes
<1>7. /\ \A n \in Second : dump'[n] = Absent => manifest'[n] = Absent
      /\ ~disorder => \A n \in Second : manifest'[n] # Absent => manifest'[n] = dump'[n]
  BY <1>1 DEF DumpInv, OrderInv
<1> QED
  BY <1>1, <1>3, <1>5, <1>6, <1>7 DEF DumpInv, OrderInv

\* A step of a process keeps DumpInv and OrderInv.
LEMMA DumpStep ==
  ASSUME Types, CommandInv, LockInv, DumpInv, OrderInv, NEW p \in Processes,
         \/ Step(p) \/ Upload(p) \/ OffsiteVerify(p)
         \/ \E offsite \in BOOLEAN : NameDump(p, offsite)
  PROVE  DumpInv' /\ OrderInv'
  BY OpenDumpStep, CloseDumpStep, WriteManifestStep, DeleteOldestStep, ListDoomedStep, QuietStep
     DEF Writes

-----------------------------------------------------------------------------
(* The invariant *)

\* The invariant holds at the beginning.
LEMMA InitInvariant == OffsiteInit => IInv
<1> SUFFICES ASSUME OffsiteInit PROVE IInv
  OBVIOUS
<1> USE DEF OffsiteInit, Init
<1>1. HostTypes
  <2>1. clock \in Second
    BY DEF Second
  <2>2. /\ temps \in [Second -> Processes \cup {NoProcess}]
        /\ dump \in [Second -> Content] /\ manifest \in [Second -> Whole \cup {Absent}]
    BY DEF Content
  <2>3. plan \in Plans /\ engine \in plan.engines /\ live = Absent /\ credential = Absent
    OBVIOUS
  <2>4. completed \in BOOLEAN /\ disorder \in BOOLEAN
    OBVIOUS
  <2> QED
    BY <2>1, <2>2, <2>3, <2>4 DEF HostTypes
<1>2. ProcessTypes
  <2>1. spent \in [mishaps : 0..MaxMishaps, commands : 0..plan.begun]
    OBVIOUS
  <2>2. "idle" \in Phase
    BY DEF Phase
  <2> QED
    BY <2>1, <2>2, NoLocalsType DEF ProcessTypes
<1>3. BucketTypes
  <2>1. enc \in [Second -> [file : 0..MaxEncryptions, manifest : 0..MaxEncryptions]]
    BY DEF NoEnc
  <2>2. cipher \in [1..MaxEncryptions -> Content] /\ encryptions \in 0..MaxEncryptions
    BY DEF Content
  <2>3. NoObject \in [id : 0..MaxEncryptions, at : 0..MaxClock]
    BY DEF NoObject
  <2>4. bucket \in [Key -> [id : 0..MaxEncryptions, at : 0..MaxClock]] /\ \A k \in Key : bucket[k] = NoObject
    BY <2>3
  <2>5. uploaded \in BOOLEAN /\ reuploaded \in BOOLEAN
    OBVIOUS
  <2> QED
    BY <2>1, <2>2, <2>4, <2>5 DEF BucketTypes
<1>4. \A p \in Processes : pc[p] = "idle"
  OBVIOUS
<1>5. CommandInv /\ LockInv /\ VerdictInv /\ TempInv
  BY <1>4 DEF CommandInv, CommandOf, LockInv, LockOf, VerdictInv, VerdictOf, TempInv, TempOf,
     Backing, Dumping, Uploading, Loading
<1>6. DumpInv
  BY <1>4 DEF DumpInv, DumpOf, HasManifest, Uploading
<1>7. OrderInv
  BY <1>4 DEF OrderInv, OrderOf, GoodCopyOnDisk, Backing, Dumping, Uploading
<1> QED
  BY <1>1, <1>2, <1>3, <1>5, <1>6, <1>7 DEF IInv, Types

\* Every step of a process keeps the invariant.
LEMMA ProcessStep ==
  ASSUME IInv, NEW p \in Processes,
         \/ (Step(p) \/ \E offsite \in BOOLEAN : NameDump(p, offsite)) /\ UNCHANGED offsiteVars
         \/ Upload(p) \/ OffsiteVerify(p)
  PROVE  IInv'
<1> USE DEF IInv
<1>1. HostTypes'
  BY StepHostTypes, OtherHostTypes
<1>2. ProcessTypes'
  BY ProvideTypes, BackupTypes, RestoreTypes, VerifyTypes, UploadTypes, OffsiteVerifyTypes,
     OtherTypes DEF Step
<1>3. BucketTypes'
  <2>1. CASE UNCHANGED offsiteVars
    BY <2>1 DEF offsiteVars, Types, BucketTypes
  <2> QED
    BY <2>1, BucketSteps
<1>4. CommandInv' /\ LockInv' /\ VerdictInv'
  BY CommandStep, LockStep, VerdictStep
<1>5. DumpInv' /\ OrderInv'
  BY DumpStep
<1>6. TempInv'
  BY TempStep
<1> QED
  BY <1>1, <1>2, <1>3, <1>4, <1>5, <1>6 DEF Types

\* The application, time, and a step that changes nothing.
LEMMA OutsideStep ==
  ASSUME IInv, ((AppWrites \/ DayEnds) /\ UNCHANGED offsiteVars) \/ UNCHANGED allVars
  PROVE  IInv'
<1> USE DEF IInv
<1>1. /\ UNCHANGED <<processVars, historyVars, dump, manifest, temps, offsiteVars>>
      /\ live # Absent => live' # Absent
  <2>1. CASE AppWrites /\ UNCHANGED offsiteVars
    BY <2>1 DEF AppWrites, Absent
  <2>2. CASE DayEnds /\ UNCHANGED offsiteVars
    BY <2>2 DEF DayEnds, Tick, hostVars
  <2>3. CASE UNCHANGED allVars
    BY <2>3 DEF allVars, vars, hostVars
  <2> QED
    BY <2>1, <2>2, <2>3
<1>2. Types'
  <2>1. CASE UNCHANGED allVars
    BY <2>1 DEF allVars, vars, hostVars, processVars, historyVars, offsiteVars, Types, HostTypes,
       ProcessTypes,
       BucketTypes
  <2>2. CASE (AppWrites \/ DayEnds) /\ UNCHANGED offsiteVars
    <3>1. HostTypes' /\ ProcessTypes'
      BY <2>2, OtherHostTypes, OtherTypes
    <3>2. BucketTypes'
      BY <2>2 DEF offsiteVars, Types, BucketTypes
    <3> QED
      BY <3>1, <3>2 DEF Types
  <2> QED
    BY <2>1, <2>2
<1> USE <1>1 DEF processVars, historyVars
<1>3. CommandInv' /\ LockInv' /\ VerdictInv'
  BY DEF CommandInv, CommandOf, LockInv, LockOf, Backing, VerdictInv, VerdictOf
<1>4. DumpInv'
  BY DEF DumpInv, DumpOf, HasManifest, Good
<1>5. OrderInv'
  BY DEF OrderInv, OrderOf, Backing, Listed, GoodCopyOnDisk, Good
<1>6. TempInv'
  BY DEF TempInv, TempOf
<1> QED
  BY <1>2, <1>3, <1>4, <1>5, <1>6

\* Every step keeps the invariant.
LEMMA NextInvariant == IInv /\ [OffsiteNext]_allVars => IInv'
  BY ProcessStep, OutsideStep DEF OffsiteNext

\* IInv holds in every state, for any number of processes, plans, versions, encryptions and
\* seconds and every retention.
THEOREM Invariance == OffsiteSpec => []IInv
  BY InitInvariant, NextInvariant, PTL DEF OffsiteSpec

-----------------------------------------------------------------------------
(* The copies in the bucket *)

ObjectOf(n) == bucket[<<n, "object">>]
ManifestOf(n) == bucket[<<n, "manifest">>]

\* At work on the copy of one dump, from its encryption on.
Copying == {"describe", "put", "put manifest", "expire", "delete"}

\* Some upload is about to delete an object of n ...
Threatened(n) == \E p \in Processes : pc[p] = "delete" /\ \E k \in loc[p].expired : k[1] = n

\* ... and a copy of today that none is about to delete.
Copied(n) == ObjectOf(n) # NoObject /\ ManifestOf(n) # NoObject
Safe(n) == Copied(n) /\ ObjectOf(n).at = clock /\ ManifestOf(n).at = clock /\ ~Threatened(n)
SomeSafe == \E n \in Second : Safe(n)

\* Nothing is in the bucket before an upload puts it there, and its manifest describes its object.
UploadOf(p) ==
  /\ pc[p] \in {"describe", "put"} => ObjectOf(loc[p].name) = NoObject
  /\ pc[p] \in {"describe", "put", "put manifest"} => ManifestOf(loc[p].name) = NoObject
  /\ pc[p] \in {"put", "put manifest"} => enc[loc[p].name].manifest = enc[loc[p].name].file
  /\ pc[p] = "put manifest" /\ ObjectOf(loc[p].name) # NoObject =>
       ObjectOf(loc[p].name).id = enc[loc[p].name].manifest

\* Who prunes has a copy of today that nobody threatens: its own, unless its object was deleted by
\* another upload, that has one.
FreshOf(p) ==
  /\ pc[p] \in {"expire", "delete"} => SomeSafe
  /\ pc[p] = "put manifest" =>
       \/ SomeSafe
       \/ /\ ObjectOf(loc[p].name) # NoObject /\ ObjectOf(loc[p].name).at = clock
          /\ ~Threatened(loc[p].name)

OneUpload ==
  \A p, q \in Processes :
     pc[p] \in Copying /\ pc[q] \in Copying /\ loc[p].name = loc[q].name => p = q

UploadInv == \A p \in Processes : UploadOf(p)
FreshInv == \A p \in Processes : FreshOf(p)
MatchInv == \A n \in Second : Copied(n) => ObjectOf(n).id = ManifestOf(n).id
CopyLeft == uploaded => \E n \in Second : Copied(n)

CopyInv == ~reuploaded => OneUpload /\ UploadInv /\ FreshInv /\ MatchInv /\ CopyLeft

\* What a step that does not touch the bucket, nor begins to work on a copy, keeps.
LEMMA Bystander ==
  ASSUME CopyInv, NEW p \in Processes, pc'[p] \notin Copying, UNCHANGED <<clock, offsiteVars>>,
         \A q \in Processes : q # p => pc'[q] = pc[q] /\ loc'[q] = loc[q]
  PROVE  CopyInv'
<1> SUFFICES ASSUME ~reuploaded' PROVE (OneUpload /\ UploadInv /\ FreshInv /\ MatchInv /\ CopyLeft)'
  BY DEF CopyInv
<1>1. OneUpload /\ UploadInv /\ FreshInv /\ MatchInv /\ CopyLeft
  BY DEF CopyInv, offsiteVars
<1>2. \A n \in Second : /\ ObjectOf(n)' = ObjectOf(n) /\ ManifestOf(n)' = ManifestOf(n)
                        /\ Copied(n)' = Copied(n)
  BY DEF ObjectOf, ManifestOf, Copied, offsiteVars
<1>3. \A n : Threatened(n)' => Threatened(n)
  <2>1. pc'[p] # "delete"
    BY DEF Copying
  <2> QED
    BY <2>1 DEF Threatened
<1>4. SomeSafe => SomeSafe'
  BY <1>2, <1>3 DEF SomeSafe, Safe
<1>5. OneUpload'
  BY <1>1 DEF OneUpload
<1>6. UploadInv'
  <2> SUFFICES ASSUME NEW q \in Processes PROVE UploadOf(q)'
    BY DEF UploadInv
  <2>1. CASE q = p
    BY <2>1, Zenon DEF UploadOf, Copying
  <2>2. CASE q # p
    <3>1. pc'[q] = pc[q] /\ loc'[q] = loc[q] /\ enc' = enc /\ bucket' = bucket
      BY <2>2 DEF offsiteVars
    <3>2. UploadOf(q)
      BY <1>1 DEF UploadInv
    <3> QED
      BY <3>1, <3>2, Zenon DEF UploadOf, ObjectOf, ManifestOf
  <2> QED
    BY <2>1, <2>2
<1>7. FreshInv'
  <2> SUFFICES ASSUME NEW q \in Processes PROVE FreshOf(q)'
    BY DEF FreshInv
  <2>1. CASE q = p
    BY <2>1, Zenon DEF FreshOf, Copying
  <2>2. CASE q # p
    <3>1. pc'[q] = pc[q] /\ loc'[q] = loc[q] /\ clock' = clock /\ bucket' = bucket
      BY <2>2 DEF offsiteVars
    <3>2. FreshOf(q)
      BY <1>1 DEF FreshInv
    <3> QED
      BY <1>3, <1>4, <3>1, <3>2, Zenon DEF FreshOf, ObjectOf
  <2> QED
    BY <2>1, <2>2
<1>8. MatchInv'
  BY <1>1, <1>2 DEF MatchInv
<1>9. CopyLeft'
  BY <1>1, <1>2 DEF CopyLeft, offsiteVars
<1> QED
  BY <1>5, <1>6, <1>7, <1>8, <1>9

\* Every key of the bucket is that of an object or that of a manifest.
LEMMA KeyOf ==
  /\ \A n \in Second : <<n, "object">> \in Key /\ <<n, "manifest">> \in Key
  /\ \A k \in Key : k[1] \in Second /\ (k = <<k[1], "object">> \/ k = <<k[1], "manifest">>)
  BY DEF Key

\* One object of the bucket changes.
LEMMA PutAt ==
  ASSUME BucketTypes, NEW n \in Second, NEW what \in {"object", "manifest"}, NEW v,
         bucket' = [bucket EXCEPT ![<<n, what>>] = v]
  PROVE  /\ \A m \in Second : m # n => ObjectOf(m)' = ObjectOf(m) /\ ManifestOf(m)' = ManifestOf(m)
         /\ ObjectOf(n)' = IF what = "object" THEN v ELSE ObjectOf(n)
         /\ ManifestOf(n)' = IF what = "manifest" THEN v ELSE ManifestOf(n)
<1> USE KeyOf DEF ObjectOf, ManifestOf, BucketTypes
<1>1. \A m \in Second : <<m, "object">> # <<m, "manifest">>
  OBVIOUS
<1>2. \A k \in Key : bucket'[k] = IF k = <<n, what>> THEN v ELSE bucket[k]
  OBVIOUS
<1>3. ASSUME NEW m \in Second, m # n
      PROVE  ObjectOf(m)' = ObjectOf(m) /\ ManifestOf(m)' = ManifestOf(m)
  <2>1. <<m, "object">> # <<n, what>> /\ <<m, "manifest">> # <<n, what>>
    BY <1>3
  <2> QED
    BY <1>2, <2>1
<1>4. ObjectOf(n)' = IF what = "object" THEN v ELSE ObjectOf(n)
  BY <1>1, <1>2
<1>5. ManifestOf(n)' = IF what = "manifest" THEN v ELSE ManifestOf(n)
  BY <1>1, <1>2
<1> QED
  BY <1>3, <1>4, <1>5

\* No other works on the copy that p works on.
LEMMA AloneWith ==
  ASSUME OneUpload, NEW p \in Processes, pc[p] \in Copying, NEW n, loc[p].name = n
  PROVE  \A q \in Processes : q # p /\ pc[q] \in Copying => loc[q].name # n
  BY DEF OneUpload

\* Who is not taking the step keeps what it knows of its copy.
LEMMA OthersCopies ==
  ASSUME NEW q \in Processes, UploadOf(q), FreshOf(q), NEW n, loc[q].name = n,
         pc'[q] = pc[q], loc'[q] = loc[q], clock' = clock, SomeSafe => SomeSafe',
         pc[q] \in Copying =>
           /\ enc'[n] = enc[n]
           /\ ObjectOf(n)' = ObjectOf(n) \/ (ObjectOf(n)' = NoObject /\ Threatened(n))
           /\ ManifestOf(n)' = ManifestOf(n) \/ ManifestOf(n)' = NoObject
           /\ ObjectOf(n) # NoObject /\ ObjectOf(n).at = clock /\ ManifestOf(n) = NoObject =>
                (Threatened(n)' => Threatened(n))
  PROVE  UploadOf(q)' /\ FreshOf(q)'
<1>1. loc'[q].name = n
  OBVIOUS
<1>2. CASE pc[q] \notin Copying
  BY <1>2, Zenon DEF UploadOf, FreshOf, Copying
<1>3. CASE pc[q] \in Copying
  <2>1. UploadOf(q)'
    <3>1. pc[q] \in {"describe", "put"} => ObjectOf(n)' = NoObject
      BY <1>3, Zenon DEF UploadOf
    <3>2. pc[q] \in {"describe", "put", "put manifest"} => ManifestOf(n)' = NoObject
      BY <1>3, Zenon DEF UploadOf
    <3>3. pc[q] \in {"put", "put manifest"} => enc'[n].manifest = enc'[n].file
      BY <1>3, Zenon DEF UploadOf
    <3>4. pc[q] = "put manifest" /\ ObjectOf(n)' # NoObject => ObjectOf(n)'.id = enc'[n].manifest
      BY <1>3, Zenon DEF UploadOf
    <3>5. ObjectOf(loc[q].name)' = ObjectOf(n)' /\ ManifestOf(loc[q].name)' = ManifestOf(n)'
      BY <1>1 DEF ObjectOf, ManifestOf
    <3> QED
      BY <1>1, <3>1, <3>2, <3>3, <3>4, <3>5, Zenon DEF UploadOf
  <2>2. FreshOf(q)'
    <3>1. pc[q] \in {"expire", "delete"} => SomeSafe'
      BY Zenon DEF FreshOf
    <3>2. pc[q] = "put manifest" =>
            SomeSafe' \/ (ObjectOf(n)' # NoObject /\ ObjectOf(n)'.at = clock' /\ ~Threatened(n)')
      <4> SUFFICES ASSUME pc[q] = "put manifest", ~SomeSafe'
                   PROVE  ObjectOf(n)' # NoObject /\ ObjectOf(n)'.at = clock' /\ ~Threatened(n)'
        OBVIOUS
      <4>1. ObjectOf(n) # NoObject /\ ObjectOf(n).at = clock /\ ~Threatened(n)
        BY Zenon DEF FreshOf
      <4>2. ManifestOf(n) = NoObject
        BY Zenon DEF UploadOf
      <4>3. ObjectOf(n)' = ObjectOf(n)
        BY <1>3, <4>1
      <4> QED
        BY <1>3, <4>1, <4>2, <4>3
    <3>3. ObjectOf(loc[q].name)' = ObjectOf(n)' /\ Threatened(loc[q].name)' = Threatened(n)'
      BY <1>1 DEF ObjectOf, Threatened
    <3> QED
      BY <3>1, <3>2, <3>3, Zenon DEF FreshOf
  <2> QED
    BY <2>1, <2>2
<1> QED
  BY <1>2, <1>3

\* A copy of today is not touched, nor threatened, by a step that changes another one.
LEMMA SafeStays ==
  ASSUME clock' = clock,
         \A n \in Second : Safe(n) => /\ ObjectOf(n)' = ObjectOf(n) /\ ManifestOf(n)' = ManifestOf(n)
                                      /\ Threatened(n)' => Threatened(n)
  PROVE  SomeSafe => SomeSafe'
  BY DEF SomeSafe, Safe, Copied

\* A step of an upload that touches its own copy, and of the others what it threatened.
LEMMA UploadStep ==
  ASSUME CommandInv, OneUpload, UploadInv, FreshInv, NEW p \in Processes, NEW n,
         pc'[p] \in Copying => loc'[p].name = n,
         \A q \in Processes : q # p => pc'[q] = pc[q] /\ loc'[q] = loc[q],
         \A q \in Processes : q # p /\ pc[q] \in Copying => loc[q].name # n,
         clock' = clock, SomeSafe => SomeSafe',
         \A m \in Second : m # n =>
           /\ enc'[m] = enc[m]
           /\ ObjectOf(m)' = ObjectOf(m) \/ (ObjectOf(m)' = NoObject /\ Threatened(m))
           /\ ManifestOf(m)' = ManifestOf(m) \/ ManifestOf(m)' = NoObject
           /\ ObjectOf(m) # NoObject /\ ObjectOf(m).at = clock /\ ManifestOf(m) = NoObject =>
                (Threatened(m)' => Threatened(m)),
         UploadOf(p)', FreshOf(p)'
  PROVE  (OneUpload /\ UploadInv /\ FreshInv)'
<1>1. OneUpload'
  <2> SUFFICES ASSUME NEW q \in Processes, NEW r \in Processes, pc'[q] \in Copying, pc'[r] \in Copying,
                      loc'[q].name = loc'[r].name
               PROVE  q = r
    BY DEF OneUpload
  <2> QED
    BY DEF OneUpload
<1>2. ASSUME NEW q \in Processes, q # p PROVE UploadOf(q)' /\ FreshOf(q)'
  <2>1. PICK m : loc[q].name = m
    OBVIOUS
  <2>2. UploadOf(q) /\ FreshOf(q)
    BY DEF UploadInv, FreshInv
  <2>3. ASSUME pc[q] \in Copying PROVE m \in Second /\ m # n
    <3>1. m \in Second
      BY <2>1, <2>3, Zenon DEF CommandInv, CommandOf, Copying, Uploading
    <3>2. m # n
      BY <1>2, <2>1, <2>3
    <3> QED
      BY <3>1, <3>2
  <2>4. pc'[q] = pc[q] /\ loc'[q] = loc[q]
    BY <1>2
  <2> QED
    BY <2>1, <2>2, <2>3, <2>4, OthersCopies
<1>3. UploadInv' /\ FreshInv'
  BY <1>2 DEF UploadInv, FreshInv
<1> QED
  BY <1>1, <1>3

\* The manifest of what will be uploaded is that of the encryption.
LEMMA DescribeCopies ==
  ASSUME Types, CommandInv, CopyInv, NEW p \in Processes, Describe(p) PROVE CopyInv'
<1> USE DEF Types
<1>1. \A q \in Processes : q # p => pc'[q] = pc[q] /\ loc'[q] = loc[q]
  BY OthersStay DEF Upload
<1>2. pc[p] = "describe" /\ UNCHANGED <<clock, bucket, uploaded, reuploaded>>
  BY DEF Describe, hostVars, historyVars
<1>3. CASE Finish(p) /\ UNCHANGED enc
  <2>1. pc'[p] \notin Copying
    BY <1>3, FinishAt DEF Copying
  <2> QED
    BY <1>1, <1>3, <2>1, Bystander DEF Describe, offsiteVars
<1>4. CASE Goto(p, "put") /\ loc' = loc /\ enc' = [enc EXCEPT ![loc[p].name].manifest = enc[loc[p].name].file]
  <2> SUFFICES ASSUME ~reuploaded
               PROVE  (OneUpload /\ UploadInv /\ FreshInv /\ MatchInv /\ CopyLeft)'
    BY <1>2 DEF CopyInv
  <2>1. OneUpload /\ UploadInv /\ FreshInv /\ MatchInv /\ CopyLeft
    BY DEF CopyInv
  <2>2. PICK n \in Second : loc[p].name = n
    BY <1>2, Zenon DEF CommandInv, CommandOf, Uploading
  <2>3. pc'[p] = "put"
    BY <1>4, GotoAt
  <2>4. \A m : ObjectOf(m)' = ObjectOf(m) /\ ManifestOf(m)' = ManifestOf(m)
    BY <1>2 DEF ObjectOf, ManifestOf
  <2>5. \A m : Threatened(m)' => Threatened(m)
    BY <1>1, <2>3 DEF Threatened
  <2>6. SomeSafe => SomeSafe'
    BY <1>2, <2>4, <2>5, SafeStays
  <2>7. enc'[n].manifest = enc'[n].file /\ \A m \in Second : m # n => enc'[m] = enc[m]
    BY <1>4, <2>2 DEF BucketTypes
  <2>8. UploadOf(p)'
    <3>1. UploadOf(p) /\ loc'[p].name = n
      BY <1>4, <2>1, <2>2 DEF UploadInv
    <3>2. ObjectOf(loc[p].name)' = NoObject /\ ManifestOf(loc[p].name)' = NoObject
      BY <1>2, <1>4, <3>1, Zenon DEF UploadOf, ObjectOf, ManifestOf
    <3> QED
      BY <2>3, <2>7, <3>1, <3>2, Zenon DEF UploadOf
  <2>9. FreshOf(p)'
    BY <2>3, Zenon DEF FreshOf
  <2>10. loc'[p].name = n /\ \A q \in Processes : q # p /\ pc[q] \in Copying => loc[q].name # n
    BY <1>2, <1>4, <2>1, <2>2, AloneWith DEF Copying
  <2>11. (OneUpload /\ UploadInv /\ FreshInv)'
    BY <1>1, <1>2, <2>1, <2>4, <2>5, <2>6, <2>7, <2>8, <2>9, <2>10, UploadStep
  <2>12. (MatchInv /\ CopyLeft)'
    BY <1>2, <2>1, <2>4 DEF MatchInv, CopyLeft, Copied
  <2> QED
    BY <2>11, <2>12
<1> QED
  BY <1>3, <1>4 DEF Describe

\* What is encrypted while nothing of it is in the bucket or on its way there.
LEMMA EncryptCopies ==
  ASSUME Types, CommandInv, CopyInv, NEW p \in Processes, Encrypt(p) PROVE CopyInv'
<1> USE DEF Types
<1> SUFFICES ASSUME ~reuploaded' PROVE (OneUpload /\ UploadInv /\ FreshInv /\ MatchInv /\ CopyLeft)'
  BY DEF CopyInv
<1>1. \A q \in Processes : q # p => pc'[q] = pc[q] /\ loc'[q] = loc[q]
  BY OthersStay DEF Upload
<1>2. pc[p] = "encrypt" /\ UNCHANGED <<clock, loc, bucket, uploaded>>
  BY DEF Encrypt, hostVars, historyVars
<1>3. PICK n \in Second : loc[p].name = n
  BY <1>2, Zenon DEF CommandInv, CommandOf, Uploading
<1>4. ~reuploaded /\ Uploads(n) = {} /\ \A k \in Key : k[1] = n => bucket[k] = NoObject
  BY <1>3 DEF Encrypt
<1>5. OneUpload /\ UploadInv /\ FreshInv /\ MatchInv /\ CopyLeft
  BY <1>4 DEF CopyInv
<1>6. pc'[p] = "describe" /\ loc'[p].name = n
  BY <1>2, <1>3, GotoAt DEF Encrypt
<1>7. \A q \in Processes : pc[q] \in Copying => loc[q].name # n
  BY <1>4, Zenon DEF Uploads, Copying
<1>8. \A m : ObjectOf(m)' = ObjectOf(m) /\ ManifestOf(m)' = ManifestOf(m)
  BY <1>2 DEF ObjectOf, ManifestOf
<1>9. \A m : Threatened(m)' => Threatened(m)
  BY <1>1, <1>6 DEF Threatened
<1>10. SomeSafe => SomeSafe'
  BY <1>2, <1>8, <1>9, SafeStays
<1>11. \A m \in Second : m # n => enc'[m] = enc[m]
  BY <1>3 DEF Encrypt, BucketTypes
<1>12. UploadOf(p)'
  <2>1. ObjectOf(n) = NoObject /\ ManifestOf(n) = NoObject
    BY <1>4, KeyOf DEF ObjectOf, ManifestOf
  <2>2. ObjectOf(loc[p].name)' = NoObject /\ ManifestOf(loc[p].name)' = NoObject
    BY <1>2, <1>6, <2>1, Zenon DEF ObjectOf, ManifestOf
  <2> QED
    BY <1>6, <2>2, Zenon DEF UploadOf
<1>13. FreshOf(p)'
  BY <1>6, Zenon DEF FreshOf
<1>14. (OneUpload /\ UploadInv /\ FreshInv)'
  BY <1>1, <1>2, <1>5, <1>6, <1>7, <1>8, <1>9, <1>10, <1>11, <1>12, <1>13, UploadStep
<1>15. (MatchInv /\ CopyLeft)'
  BY <1>2, <1>5, <1>8 DEF MatchInv, CopyLeft, Copied
<1> QED
  BY <1>14, <1>15

\* The object of the copy: no other upload threatens it, or one that does has a copy of its own.
LEMMA PutObjectCopies ==
  ASSUME Types, CommandInv, CopyInv, NEW p \in Processes, PutObject(p) PROVE CopyInv'
<1> USE DEF Types
<1>1. \A q \in Processes : q # p => pc'[q] = pc[q] /\ loc'[q] = loc[q]
  BY OthersStay DEF Upload
<1>2. pc[p] = "put" /\ UNCHANGED <<clock, loc, enc, uploaded, reuploaded>>
  BY DEF PutObject, hostVars, historyVars
<1> SUFFICES ASSUME ~reuploaded PROVE (OneUpload /\ UploadInv /\ FreshInv /\ MatchInv /\ CopyLeft)'
  BY <1>2 DEF CopyInv
<1>3. PICK n \in Second : loc[p].name = n
  BY <1>2, Zenon DEF CommandInv, CommandOf, Uploading
<1>4. OneUpload /\ UploadInv /\ FreshInv /\ MatchInv /\ CopyLeft
  BY DEF CopyInv
<1>5. PICK v : /\ v = [id |-> enc[n].file, at |-> clock]
               /\ bucket' = [bucket EXCEPT ![<<n, "object">>] = v] /\ enc[n].file # 0
  BY <1>3 DEF PutObject
<1>6. v # NoObject /\ v.at = clock /\ v.id = enc[n].file
  BY <1>5 DEF NoObject
<1>7. pc'[p] = "put manifest" /\ loc'[p].name = n
  BY <1>2, <1>3, GotoAt DEF PutObject
<1>8. /\ \A m \in Second : m # n => ObjectOf(m)' = ObjectOf(m) /\ ManifestOf(m)' = ManifestOf(m)
      /\ ObjectOf(n)' = v /\ ManifestOf(n)' = ManifestOf(n)
  BY <1>5, PutAt
<1>9. ObjectOf(n) = NoObject /\ ManifestOf(n) = NoObject /\ enc[n].manifest = enc[n].file
  BY <1>2, <1>3, <1>4, Zenon DEF UploadInv, UploadOf
<1>10. \A m : Threatened(m)' => Threatened(m)
  BY <1>1, <1>7 DEF Threatened
<1>11. SomeSafe => SomeSafe'
  <2>1. \A m \in Second : Safe(m) => m # n
    BY <1>9 DEF Safe, Copied
  <2> QED
    BY <1>2, <1>8, <1>10, <2>1, SafeStays
<1>12. UploadOf(p)'
  <2>1. ObjectOf(loc[p].name)' = v /\ ManifestOf(loc[p].name)' = NoObject
    BY <1>7, <1>8, <1>9, Zenon DEF ObjectOf, ManifestOf
  <2> QED
    BY <1>2, <1>6, <1>7, <1>9, <2>1, Zenon DEF UploadOf
<1>13. FreshOf(p)'
  <2>1. SomeSafe' \/ ~Threatened(n)'
    <3> SUFFICES ASSUME Threatened(n) PROVE SomeSafe
      BY <1>10, <1>11
    <3>1. PICK q \in Processes : pc[q] = "delete"
      BY DEF Threatened
    <3> QED
      BY <1>4, <3>1, Zenon DEF FreshInv, FreshOf
  <2>2. ObjectOf(loc[p].name)' = v /\ Threatened(loc[p].name)' = Threatened(n)'
    BY <1>7, <1>8 DEF ObjectOf, Threatened
  <2>3. v.at = clock'
    BY <1>2, <1>6
  <2> QED
    BY <1>6, <1>7, <2>1, <2>2, <2>3, Zenon DEF FreshOf
<1>14. \A q \in Processes : q # p /\ pc[q] \in Copying => loc[q].name # n
  BY <1>2, <1>3, <1>4, AloneWith DEF Copying
<1>15. (OneUpload /\ UploadInv /\ FreshInv)'
  <2>1. \A m \in Second : m # n =>
          /\ enc'[m] = enc[m] /\ ObjectOf(m)' = ObjectOf(m) /\ ManifestOf(m)' = ManifestOf(m)
          /\ (Threatened(m)' => Threatened(m))
    BY <1>2, <1>8, <1>10
  <2> QED
    BY <1>1, <1>2, <1>4, <1>7, <1>11, <1>12, <1>13, <1>14, <2>1, UploadStep
<1>16. \A m \in Second : Copied(m)' <=> Copied(m)
  BY <1>8, <1>9 DEF Copied
<1>17. (MatchInv /\ CopyLeft)'
  BY <1>2, <1>4, <1>8, <1>9, <1>16 DEF MatchInv, CopyLeft, Copied
<1> QED
  BY <1>15, <1>17

\* The manifest of the copy: it is that of its object, if that is still there.
LEMMA PutManifestCopies ==
  ASSUME Types, CommandInv, CopyInv, NEW p \in Processes, PutManifest(p) PROVE CopyInv'
<1> USE DEF Types
<1>1. \A q \in Processes : q # p => pc'[q] = pc[q] /\ loc'[q] = loc[q]
  BY OthersStay DEF Upload
<1>2. pc[p] = "put manifest" /\ UNCHANGED <<clock, loc, enc, uploaded, reuploaded>>
  BY DEF PutManifest, hostVars, historyVars
<1> SUFFICES ASSUME ~reuploaded PROVE (OneUpload /\ UploadInv /\ FreshInv /\ MatchInv /\ CopyLeft)'
  BY <1>2 DEF CopyInv
<1>3. PICK n \in Second : loc[p].name = n
  BY <1>2, Zenon DEF CommandInv, CommandOf, Uploading
<1>4. OneUpload /\ UploadInv /\ FreshInv /\ MatchInv /\ CopyLeft
  BY DEF CopyInv
<1>5. PICK v : /\ v = [id |-> enc[n].manifest, at |-> clock]
               /\ bucket' = [bucket EXCEPT ![<<n, "manifest">>] = v] /\ enc[n].manifest # 0
  BY <1>3 DEF PutManifest
<1>6. v # NoObject /\ v.at = clock /\ v.id = enc[n].manifest
  BY <1>5 DEF NoObject
<1>7. pc'[p] = "expire" /\ loc'[p].name = n
  BY <1>2, <1>3, GotoAt DEF PutManifest
<1>8. /\ \A m \in Second : m # n => ObjectOf(m)' = ObjectOf(m) /\ ManifestOf(m)' = ManifestOf(m)
      /\ ObjectOf(n)' = ObjectOf(n) /\ ManifestOf(n)' = v
  BY <1>5, PutAt
<1>9. ManifestOf(n) = NoObject /\ (ObjectOf(n) # NoObject => ObjectOf(n).id = enc[n].manifest)
  BY <1>2, <1>3, <1>4, Zenon DEF UploadInv, UploadOf
<1>10. \A m : Threatened(m)' => Threatened(m)
  BY <1>1, <1>7 DEF Threatened
<1>11. SomeSafe => SomeSafe'
  <2>1. \A m \in Second : Safe(m) => m # n
    BY <1>9 DEF Safe, Copied
  <2> QED
    BY <1>2, <1>8, <1>10, <2>1, SafeStays
<1>12. UploadOf(p)'
  BY <1>7, Zenon DEF UploadOf
<1>13. FreshOf(p)'
  <2>1. SomeSafe'
    <3> SUFFICES ASSUME ~SomeSafe PROVE SomeSafe'
      BY <1>11
    <3>1. ObjectOf(n) # NoObject /\ ObjectOf(n).at = clock /\ ~Threatened(n)
      BY <1>2, <1>3, <1>4, Zenon DEF FreshInv, FreshOf
    <3>2. Safe(n)'
      BY <1>2, <1>6, <1>8, <1>10, <3>1 DEF Safe, Copied
    <3> QED
      BY <3>2 DEF SomeSafe
  <2> QED
    BY <1>7, <2>1, Zenon DEF FreshOf
<1>14. \A q \in Processes : q # p /\ pc[q] \in Copying => loc[q].name # n
  BY <1>2, <1>3, <1>4, AloneWith DEF Copying
<1>15. (OneUpload /\ UploadInv /\ FreshInv)'
  <2>1. \A m \in Second : m # n =>
          /\ enc'[m] = enc[m] /\ ObjectOf(m)' = ObjectOf(m) /\ ManifestOf(m)' = ManifestOf(m)
          /\ (Threatened(m)' => Threatened(m))
    BY <1>2, <1>8, <1>10
  <2> QED
    BY <1>1, <1>2, <1>4, <1>7, <1>11, <1>12, <1>13, <1>14, <2>1, UploadStep
<1>16. MatchInv'
  <2> SUFFICES ASSUME NEW m \in Second, Copied(m)' PROVE ObjectOf(m)'.id = ManifestOf(m)'.id
    BY DEF MatchInv
  <2>1. CASE m = n
    BY <1>6, <1>8, <1>9, <2>1 DEF Copied
  <2>2. CASE m # n
    BY <1>4, <1>8, <2>2 DEF MatchInv, Copied
  <2> QED
    BY <2>1, <2>2
<1>17. CopyLeft'
  <2>1. \A m \in Second : Copied(m) => Copied(m)'
    BY <1>6, <1>8, <1>9 DEF Copied
  <2> QED
    BY <1>2, <1>4, <2>1 DEF CopyLeft
<1> QED
  BY <1>15, <1>16, <1>17

\* The object of a copy that fails is not the last one.
LEMMA PutFailsCopies ==
  ASSUME Types, CommandInv, CopyInv, NEW p \in Processes, PutFails(p) PROVE CopyInv'
<1> USE DEF Types
<1>1. \A q \in Processes : q # p => pc'[q] = pc[q] /\ loc'[q] = loc[q]
  BY OthersStay DEF Upload
<1>2. UNCHANGED <<clock, enc, uploaded, reuploaded>> /\ pc'[p] = "idle"
  BY FinishAt DEF PutFails, hostVars, historyVars
<1>3. pc'[p] \notin Copying
  BY <1>2 DEF Copying
<1>4. CASE bucket' = bucket
  BY <1>1, <1>2, <1>3, <1>4, Bystander DEF PutFails, offsiteVars
<1>5. CASE pc[p] = "put manifest" /\ bucket' = [bucket EXCEPT ![<<loc[p].name, "object">>] = NoObject]
  <2> SUFFICES ASSUME ~reuploaded
               PROVE  (OneUpload /\ UploadInv /\ FreshInv /\ MatchInv /\ CopyLeft)'
    BY <1>2 DEF CopyInv
  <2>1. PICK n \in Second : loc[p].name = n
    BY <1>5, Zenon DEF CommandInv, CommandOf, Uploading
  <2>2. OneUpload /\ UploadInv /\ FreshInv /\ MatchInv /\ CopyLeft
    BY DEF CopyInv
  <2>3. /\ \A m \in Second : m # n => ObjectOf(m)' = ObjectOf(m) /\ ManifestOf(m)' = ManifestOf(m)
        /\ ObjectOf(n)' = NoObject /\ ManifestOf(n)' = ManifestOf(n)
    BY <1>5, <2>1, PutAt
  <2>4. ManifestOf(n) = NoObject
    BY <1>5, <2>1, <2>2, Zenon DEF UploadInv, UploadOf
  <2>5. \A m : Threatened(m)' => Threatened(m)
    BY <1>1, <1>2 DEF Threatened
  <2>6. SomeSafe => SomeSafe'
    <3>1. \A m \in Second : Safe(m) => m # n
      BY <2>4 DEF Safe, Copied
    <3> QED
      BY <1>2, <2>3, <2>5, <3>1, SafeStays
  <2>7. UploadOf(p)' /\ FreshOf(p)'
    BY <1>2, Zenon DEF UploadOf, FreshOf
  <2>8. \A q \in Processes : q # p /\ pc[q] \in Copying => loc[q].name # n
    BY <1>5, <2>1, <2>2, AloneWith DEF Copying
  <2>9. (OneUpload /\ UploadInv /\ FreshInv)'
    <3>1. \A m \in Second : m # n =>
            /\ enc'[m] = enc[m] /\ ObjectOf(m)' = ObjectOf(m) /\ ManifestOf(m)' = ManifestOf(m)
            /\ (Threatened(m)' => Threatened(m))
      BY <1>2, <2>3, <2>5
    <3> QED
      BY <1>1, <1>2, <1>3, <2>2, <2>6, <2>7, <2>8, <3>1, UploadStep
  <2>10. \A m \in Second : Copied(m)' <=> Copied(m)
    BY <2>3, <2>4 DEF Copied
  <2>11. (MatchInv /\ CopyLeft)'
    BY <1>2, <2>2, <2>3, <2>4, <2>10 DEF MatchInv, CopyLeft, Copied
  <2> QED
    BY <2>9, <2>11
<1> QED
  BY <1>4, <1>5 DEF PutFails

\* The age of what was put today is none.
LEMMA ListExpiredCopies ==
  ASSUME Types, CommandInv, CopyInv, NEW p \in Processes, ListExpired(p) PROVE CopyInv'
<1> USE DEF Types
<1>1. \A q \in Processes : q # p => pc'[q] = pc[q] /\ loc'[q] = loc[q]
  BY OthersStay DEF Upload
<1>2. pc[p] = "expire" /\ UNCHANGED <<clock, bucket, enc, uploaded, reuploaded>>
  BY DEF ListExpired, hostVars, historyVars, offsiteVars
<1> SUFFICES ASSUME ~reuploaded PROVE (OneUpload /\ UploadInv /\ FreshInv /\ MatchInv /\ CopyLeft)'
  BY <1>2 DEF CopyInv
<1>3. PICK n \in Second : loc[p].name = n
  BY <1>2, Zenon DEF CommandInv, CommandOf, Uploading
<1>4. OneUpload /\ UploadInv /\ FreshInv /\ MatchInv /\ CopyLeft
  BY DEF CopyInv
<1>5. pc'[p] = "delete"
  BY GotoAt DEF ListExpired
<1>6. /\ loc'[p].expired = {k \in Key : bucket[k] # NoObject /\ clock - bucket[k].at > RetentionDays}
      /\ loc'[p].name = n
  BY <1>3 DEF ListExpired, ProcessTypes, Locals
<1>7. \A m : ObjectOf(m)' = ObjectOf(m) /\ ManifestOf(m)' = ManifestOf(m)
  BY <1>2 DEF ObjectOf, ManifestOf
<1>8. ASSUME NEW m \in Second, Threatened(m)'
      PROVE  \/ Threatened(m)
             \/ ObjectOf(m) # NoObject /\ ObjectOf(m).at # clock
             \/ ManifestOf(m) # NoObject /\ ManifestOf(m).at # clock
  <2>1. PICK q \in Processes : pc'[q] = "delete" /\ \E k \in loc'[q].expired : k[1] = m
    BY <1>8 DEF Threatened
  <2> PICK k \in loc'[q].expired : k[1] = m
    BY <2>1
  <2>2. CASE q = p
    <3>1. k \in Key /\ bucket[k] # NoObject /\ clock - bucket[k].at > RetentionDays
      BY <1>6, <2>1, <2>2
    <3>2. k = <<m, "object">> \/ k = <<m, "manifest">>
      BY <2>1, <3>1, KeyOf
    <3>3. bucket[k].at # clock
      BY <3>1 DEF HostTypes, Second
    <3> QED
      BY <3>1, <3>2, <3>3 DEF ObjectOf, ManifestOf
  <2>3. CASE q # p
    BY <1>1, <2>1, <2>3 DEF Threatened
  <2> QED
    BY <2>2, <2>3
<1>9. SomeSafe => SomeSafe'
  <2>1. \A m \in Second : Safe(m) => (Threatened(m)' => Threatened(m))
    BY <1>8 DEF Safe
  <2> QED
    BY <1>2, <1>7, <2>1, SafeStays
<1>10. UploadOf(p)'
  BY <1>5, Zenon DEF UploadOf
<1>11. FreshOf(p)'
  <2>1. SomeSafe
    BY <1>2, <1>4, Zenon DEF FreshInv, FreshOf
  <2> QED
    BY <1>5, <1>9, <2>1, Zenon DEF FreshOf
<1>12. \A q \in Processes : q # p /\ pc[q] \in Copying => loc[q].name # n
  BY <1>2, <1>3, <1>4, AloneWith DEF Copying
<1>13. (OneUpload /\ UploadInv /\ FreshInv)'
  <2>1. \A m \in Second : m # n =>
          /\ enc'[m] = enc[m] /\ ObjectOf(m)' = ObjectOf(m) /\ ManifestOf(m)' = ManifestOf(m)
          /\ ObjectOf(m) # NoObject /\ ObjectOf(m).at = clock /\ ManifestOf(m) = NoObject =>
               (Threatened(m)' => Threatened(m))
    BY <1>2, <1>7, <1>8
  <2>2. loc'[p].name = n
    BY <1>6
  <2> QED
    BY <1>1, <1>2, <1>4, <1>9, <1>10, <1>11, <1>12, <2>1, <2>2, UploadStep
<1>14. (MatchInv /\ CopyLeft)'
  BY <1>2, <1>4, <1>7 DEF MatchInv, CopyLeft, Copied
<1> QED
  BY <1>13, <1>14

\* What is deleted was threatened, so that a copy stays.
LEMMA DeleteExpiredCopies ==
  ASSUME Types, CommandInv, CopyInv, NEW p \in Processes, DeleteExpired(p) PROVE CopyInv'
<1> USE DEF Types
<1>1. \A q \in Processes : q # p => pc'[q] = pc[q] /\ loc'[q] = loc[q]
  BY OthersStay DEF Upload
<1>2. pc[p] = "delete" /\ UNCHANGED <<pc, clock, enc, uploaded, reuploaded>>
  BY DEF DeleteExpired, hostVars, historyVars
<1> SUFFICES ASSUME ~reuploaded PROVE (OneUpload /\ UploadInv /\ FreshInv /\ MatchInv /\ CopyLeft)'
  BY <1>2 DEF CopyInv
<1>3. PICK n \in Second : loc[p].name = n
  BY <1>2, Zenon DEF CommandInv, CommandOf, Uploading
<1>4. OneUpload /\ UploadInv /\ FreshInv /\ MatchInv /\ CopyLeft
  BY DEF CopyInv
<1>5. PICK k \in loc[p].expired : /\ bucket' = [bucket EXCEPT ![k] = NoObject]
                                  /\ loc' = [loc EXCEPT ![p].expired = @ \ {k}]
  BY DEF DeleteExpired
<1>6. k \in Key /\ loc'[p].expired = loc[p].expired \ {k} /\ loc'[p].name = n
  BY <1>3, <1>5 DEF ProcessTypes, Locals
<1>7. PICK m \in Second : k[1] = m /\ (k = <<m, "object">> \/ k = <<m, "manifest">>)
  BY <1>6, KeyOf
<1>8. /\ \A o \in Second : o # m => ObjectOf(o)' = ObjectOf(o) /\ ManifestOf(o)' = ManifestOf(o)
      /\ ObjectOf(m)' = ObjectOf(m) \/ ObjectOf(m)' = NoObject
      /\ ManifestOf(m)' = ManifestOf(m) \/ ManifestOf(m)' = NoObject
  BY <1>5, <1>7, PutAt
<1>9. Threatened(m)
  BY <1>2, <1>5, <1>7 DEF Threatened
<1>10. \A o : Threatened(o)' => Threatened(o)
  BY <1>1, <1>2, <1>6 DEF Threatened
<1>11. SomeSafe => SomeSafe'
  <2>1. \A o \in Second : Safe(o) => o # m
    BY <1>9 DEF Safe
  <2> QED
    BY <1>2, <1>8, <1>10, <2>1, SafeStays
<1>12. SomeSafe'
  <2>1. SomeSafe
    BY <1>2, <1>4, Zenon DEF FreshInv, FreshOf
  <2> QED
    BY <1>11, <2>1
<1>13. UploadOf(p)' /\ FreshOf(p)'
  BY <1>2, <1>12, Zenon DEF UploadOf, FreshOf
<1>14. \A q \in Processes : q # p /\ pc[q] \in Copying => loc[q].name # n
  BY <1>2, <1>3, <1>4, AloneWith DEF Copying
<1>15. (OneUpload /\ UploadInv /\ FreshInv)'
  <2>1. \A o \in Second :
          /\ enc'[o] = enc[o]
          /\ ObjectOf(o)' = ObjectOf(o) \/ (ObjectOf(o)' = NoObject /\ Threatened(o))
          /\ ManifestOf(o)' = ManifestOf(o) \/ ManifestOf(o)' = NoObject
          /\ (Threatened(o)' => Threatened(o))
    BY <1>2, <1>8, <1>9, <1>10
  <2> QED
    BY <1>1, <1>2, <1>4, <1>6, <1>11, <1>13, <1>14, <2>1, UploadStep
<1>16. MatchInv'
  BY <1>4, <1>8 DEF MatchInv, Copied
<1>17. CopyLeft'
  BY <1>12 DEF CopyLeft, SomeSafe, Safe
<1> QED
  BY <1>15, <1>16, <1>17

\* An upload that is reported complete has pruned, and left a copy.
LEMMA EndUploadCopies ==
  ASSUME Types, CommandInv, CopyInv, NEW p \in Processes, EndUpload(p) PROVE CopyInv'
<1> USE DEF Types
<1>1. \A q \in Processes : q # p => pc'[q] = pc[q] /\ loc'[q] = loc[q]
  BY OthersStay DEF Upload
<1>2. /\ pc[p] = "delete" /\ UNCHANGED <<clock, bucket, reuploaded>>
      /\ enc' = [enc EXCEPT ![loc[p].name] = NoEnc]
  BY DEF EndUpload, hostVars, historyVars
<1> SUFFICES ASSUME ~reuploaded PROVE (OneUpload /\ UploadInv /\ FreshInv /\ MatchInv /\ CopyLeft)'
  BY <1>2 DEF CopyInv
<1>3. PICK n \in Second : loc[p].name = n
  BY <1>2, Zenon DEF CommandInv, CommandOf, Uploading
<1>4. OneUpload /\ UploadInv /\ FreshInv /\ MatchInv /\ CopyLeft
  BY DEF CopyInv
<1>5. pc'[p] \in {"backed up", "uploaded", "idle"}
  BY GotoAt, FinishAt, Zenon DEF EndUpload
<1>6. pc'[p] \notin Copying
  BY <1>5, Zenon DEF Copying
<1>7. \A m : ObjectOf(m)' = ObjectOf(m) /\ ManifestOf(m)' = ManifestOf(m)
  BY <1>2 DEF ObjectOf, ManifestOf
<1>8. \A m : Threatened(m)' => Threatened(m)
  <2>1. pc'[p] # "delete"
    BY <1>6, Zenon DEF Copying
  <2> QED
    BY <1>1, <2>1 DEF Threatened
<1>9. SomeSafe => SomeSafe'
  BY <1>2, <1>7, <1>8, SafeStays
<1>10. UploadOf(p)' /\ FreshOf(p)'
  BY <1>6, Zenon DEF UploadOf, FreshOf, Copying
<1>11. \A q \in Processes : q # p /\ pc[q] \in Copying => loc[q].name # n
  BY <1>2, <1>3, <1>4, AloneWith DEF Copying
<1>12. (OneUpload /\ UploadInv /\ FreshInv)'
  <2>1. \A m \in Second : m # n =>
          /\ enc'[m] = enc[m] /\ ObjectOf(m)' = ObjectOf(m) /\ ManifestOf(m)' = ManifestOf(m)
          /\ (Threatened(m)' => Threatened(m))
    BY <1>2, <1>3, <1>7, <1>8 DEF BucketTypes
  <2> QED
    BY <1>1, <1>2, <1>4, <1>6, <1>9, <1>10, <1>11, <2>1, UploadStep
<1>13. MatchInv'
  BY <1>4, <1>7 DEF MatchInv, Copied
<1>14. CopyLeft'
  <2>1. SomeSafe
    BY <1>2, <1>4, Zenon DEF FreshInv, FreshOf
  <2> QED
    BY <1>7, <2>1 DEF CopyLeft, SomeSafe, Safe, Copied
<1> QED
  BY <1>12, <1>13, <1>14

\* A day ends when no upload is between its first object and the end of its pruning.
LEMMA DayEndsCopies ==
  ASSUME Types, CopyInv, DayEnds, UNCHANGED offsiteVars PROVE CopyInv'
<1> SUFFICES ASSUME ~reuploaded PROVE (OneUpload /\ UploadInv /\ FreshInv /\ MatchInv /\ CopyLeft)'
  BY DEF CopyInv, offsiteVars
<1>1. OneUpload /\ UploadInv /\ FreshInv /\ MatchInv /\ CopyLeft
  BY DEF CopyInv
<1>2. UNCHANGED <<pc, loc, enc, bucket, uploaded, reuploaded>>
  BY DEF DayEnds, Tick, processVars, offsiteVars
<1>3. OneUpload'
  BY <1>1, <1>2 DEF OneUpload
<1>4. UploadInv'
  BY <1>1, <1>2, Zenon DEF UploadInv, UploadOf, ObjectOf, ManifestOf
<1>5. FreshInv'
  BY <1>2, Zenon DEF FreshInv, FreshOf, DayEnds
<1>6. (MatchInv /\ CopyLeft)'
  BY <1>1, <1>2 DEF MatchInv, CopyLeft, Copied, ObjectOf, ManifestOf
<1> QED
  BY <1>3, <1>4, <1>5, <1>6

\* The phases that no command but an upload, and it only after its encryption, enters.
LEMMA NotCopying ==
  ASSUME Types, NEW p \in Processes,
         \/ Step(p) \/ OffsiteVerify(p) \/ \E offsite \in BOOLEAN : NameDump(p, offsite)
         \/ EncryptFails(p) \/ Uploaded(p) \/ \E n \in Second : BeginUpload(p, n)
  PROVE  pc'[p] \notin Copying /\ clock' = clock
<1> USE DEF Types
<1>1. ASSUME NEW label, label \notin Copying, Goto(p, label) PROVE pc'[p] \notin Copying
  BY <1>1, GotoAt
<1>2. /\ \A label \in {"create", "credential", "secret", "named", "open", "dump", "manifest", "list", "prune",
                       "backed up", "load", "loading", "loaded", "not loaded"} : label \notin Copying
      /\ \A label \in {"restored", "hash", "verified", "temp", "ok", "error", "encrypt", "uploaded",
                       "download", "check", "idle"} : label \notin Copying
  BY Zenon DEF Copying
<1>3. ASSUME Finish(p) PROVE pc'[p] \notin Copying
  BY <1>2, <1>3, FinishAt
<1>4. ASSUME NEW cmd, NEW l, NEW label, NEW locals, label \notin Copying, Begin(p, cmd, l, label, locals)
      PROVE  pc'[p] \notin Copying
  BY <1>1, <1>4 DEF Begin
<1>5. CASE Provide(p)
  BY <1>1, <1>2, <1>3, <1>4, <1>5 DEF Provide, BeginProvision, CreateDatabase, BeginCredential,
     OpenCredential, WriteCredential, hostVars
<1>6. CASE Backup(p) \/ \E offsite \in BOOLEAN : NameDump(p, offsite)
  BY <1>1, <1>2, <1>3, <1>6 DEF Backup, LockBackup, OpenDump, CloseDump, DumpFails, WriteManifest,
     ListDoomed, DeleteOldest, Pruned, NameDump, hostVars
<1>7. CASE Restore(p)
  BY <1>1, <1>2, <1>3, <1>4, <1>7 DEF Restore, BeginRestore, StartLoad, EndLoad, LoadFails, EndRestore
<1>8. CASE Verify(p)
  BY <1>1, <1>2, <1>3, <1>4, <1>8 DEF Verify, BeginVerify, HashDump, BeginRestoreVerify, Busy,
     CreateTemp, DropTemp, WriteReport
<1>9. CASE Complete(p) \/ Kill(p)
  BY <1>3, <1>9 DEF Complete, Kill
<1>10. CASE OffsiteVerify(p)
  BY <1>1, <1>2, <1>4, <1>10 DEF OffsiteVerify, BeginOffsiteVerify, Download, DownloadFails, CheckDownload
<1>11. CASE EncryptFails(p) \/ Uploaded(p) \/ \E n \in Second : BeginUpload(p, n)
  BY <1>2, <1>3, <1>4, <1>11 DEF EncryptFails, Uploaded, BeginUpload
<1> QED
  BY <1>5, <1>6, <1>7, <1>8, <1>9, <1>10, <1>11 DEF Step

\* Every step keeps what the copies are.
LEMMA CopiesNext == IInv /\ CopyInv /\ [OffsiteNext]_allVars => CopyInv'
<1> SUFFICES ASSUME IInv, CopyInv, [OffsiteNext]_allVars PROVE CopyInv'
  OBVIOUS
<1> USE DEF IInv
<1>1. ASSUME NEW p \in Processes,
             \/ (Step(p) \/ \E offsite \in BOOLEAN : NameDump(p, offsite)) /\ UNCHANGED offsiteVars
             \/ Upload(p) \/ OffsiteVerify(p)
      PROVE  CopyInv'
  <2>1. \A q \in Processes : q # p => pc'[q] = pc[q] /\ loc'[q] = loc[q]
    BY <1>1, OthersStay
  <2>2. CASE \/ (Step(p) \/ \E offsite \in BOOLEAN : NameDump(p, offsite)) /\ UNCHANGED offsiteVars
             \/ OffsiteVerify(p) \/ EncryptFails(p) \/ Uploaded(p)
             \/ \E n \in Second : BeginUpload(p, n)
    <3>1. UNCHANGED offsiteVars
      BY <2>2 DEF OffsiteVerify, BeginOffsiteVerify, Download, DownloadFails, CheckDownload,
         EncryptFails, Uploaded, BeginUpload
    <3>2. pc'[p] \notin Copying /\ clock' = clock
      BY <2>2, NotCopying
    <3> QED
      BY <2>1, <3>1, <3>2, Bystander
  <2> QED
    BY <1>1, <2>2, DescribeCopies, EncryptCopies, PutObjectCopies, PutManifestCopies, PutFailsCopies,
       ListExpiredCopies, DeleteExpiredCopies, EndUploadCopies DEF Upload
<1>2. CASE DayEnds /\ UNCHANGED offsiteVars
  BY <1>2, DayEndsCopies
<1>3. CASE (AppWrites /\ UNCHANGED offsiteVars) \/ UNCHANGED allVars
  <2>1. UNCHANGED <<clock, pc, loc, enc, bucket, uploaded, reuploaded>>
    BY <1>3 DEF AppWrites, processVars, allVars, vars, offsiteVars
  <2>2. OneUpload => OneUpload'
    BY <2>1 DEF OneUpload
  <2>3. UploadInv => UploadInv'
    BY <2>1, Zenon DEF UploadInv, UploadOf, ObjectOf, ManifestOf
  <2>4. FreshInv => FreshInv'
    <3>1. \A n : /\ ObjectOf(n)' = ObjectOf(n) /\ ManifestOf(n)' = ManifestOf(n)
                 /\ Threatened(n)' <=> Threatened(n)
      BY <2>1, Zenon DEF ObjectOf, ManifestOf, Threatened
    <3>2. SomeSafe => SomeSafe'
      BY <2>1, <3>1, SafeStays
    <3>3. \A p \in Processes :
            /\ ObjectOf(loc[p].name)' = ObjectOf(loc[p].name)
            /\ Threatened(loc[p].name)' <=> Threatened(loc[p].name)
      BY <2>1 DEF ObjectOf, Threatened
    <3> QED
      BY <2>1, <3>2, <3>3, Zenon DEF FreshInv, FreshOf
  <2>5. (MatchInv => MatchInv') /\ (CopyLeft => CopyLeft')
    BY <2>1 DEF MatchInv, CopyLeft, Copied, ObjectOf, ManifestOf
  <2> QED
    BY <2>1, <2>2, <2>3, <2>4, <2>5 DEF CopyInv
<1> QED
  BY <1>1, <1>2, <1>3 DEF OffsiteNext

\* One of the pairs of the natural order.
LEMMA PairOfOrder ==
  ASSUME NEW m \in Nat, NEW n \in Nat, m < n PROVE <<m, n>> \in OpToRel(<, Nat)
<1>1. <<m, n>> \in Nat \X Nat /\ <<m, n>>[1] < <<m, n>>[2]
  OBVIOUS
<1>2. <<m, n>> \in {pair \in Nat \X Nat : pair[1] < pair[2]}
  BY <1>1
<1> QED
  BY <1>2, Zenon DEF OpToRel

\* A set of numbers has a least one.
LEMMA LeastNumber ==
  ASSUME NEW S \in SUBSET Nat, S # {} PROVE \E n \in S : \A m \in S : n <= m
<1>1. \E n \in S : \A m \in S : ~(<<m, n>> \in OpToRel(<, Nat))
  BY NatLessThanWellFounded, WFMin
<1>2. PICK n \in S : \A m \in S : ~(<<m, n>> \in OpToRel(<, Nat))
  BY <1>1, Zenon
<1>3. ASSUME NEW m \in S PROVE n <= m
  <2>1. ~(m < n)
    <3>1. SUFFICES ASSUME m < n PROVE FALSE
      OBVIOUS
    <3>2. m \in Nat /\ n \in Nat
      OBVIOUS
    <3>3. <<m, n>> \in OpToRel(<, Nat)
      BY <3>1, <3>2, PairOfOrder, Zenon
    <3> QED
      BY <1>2, <3>3, Zenon
  <2> QED
    BY <2>1
<1> QED
  BY <1>3

\* Of some copies one is the last.
LEMMA LastCopy ==
  ASSUME Types, NEW n \in Second, Copied(n) PROVE LatestPair # {}
<1> DEFINE At(m) == ObjectOf(m).at
           ages == {MaxClock - At(m) : m \in Pairs}
<1>1. \A m \in Second : m \in Pairs <=> Copied(m)
  BY KeyOf DEF Pairs, Copied, ObjectOf, ManifestOf
<1>2. \A m \in Second : At(m) \in 0..MaxClock
  BY KeyOf DEF Types, BucketTypes, ObjectOf
<1>3. Pairs \subseteq Second
  BY DEF Pairs
<1> HIDE DEF At
<1>4. ages \in SUBSET Nat /\ ages # {}
  BY <1>1, <1>2, <1>3
<1>5. PICK age \in ages : \A a \in ages : age <= a
  <2> HIDE DEF ages
  <2> QED
    BY <1>4, LeastNumber
<1>6. PICK m \in Pairs : age = MaxClock - At(m)
  OBVIOUS
<1>7. \A o \in Pairs : At(o) <= At(m)
  <2> SUFFICES ASSUME NEW o \in Pairs PROVE At(o) <= At(m)
    OBVIOUS
  <2>1. MaxClock - At(m) <= MaxClock - At(o)
    BY <1>5, <1>6
  <2> QED
    BY <1>2, <1>3, <2>1
<1>8. m \in LatestPair
  BY <1>3, <1>7 DEF LatestPair, At, ObjectOf
<1> QED
  BY <1>8

-----------------------------------------------------------------------------
(* The properties *)

\* Every variable has its type, and what works on the dumps, or uploads, holds its lock: two
\* commands never do so under the same one.
THEOREM TypeSafety == OffsiteSpec => []OffsiteTypeOK
<1>1. IInv => OffsiteTypeOK
  <2> SUFFICES ASSUME IInv PROVE OffsiteTypeOK
    OBVIOUS
  <2> USE DEF IInv, Types
  <2>1. ASSUME NEW p \in Processes
        PROVE  /\ loc[p].name \in 0..MaxClock /\ loc[p].target \in 0..MaxClock
               /\ loc[p].data \in Content /\ loc[p].manifest \in Content
               /\ loc[p].doomed \subseteq Second
               /\ loc[p].expired \subseteq Key /\ loc[p].file \in 0..MaxEncryptions
    BY <2>1 DEF ProcessTypes, Locals, Content
  <2>2. ASSUME NEW p \in Processes
        PROVE  /\ pc[p] \in Dumping => lock["backup"] = p
               /\ pc[p] \in Uploading => lock[IF loc[p].cmd = "backup" THEN "backup" ELSE "upload"] = p
    <3>1. pc[p] \in Uploading => loc[p].cmd \in {"backup", "upload"}
      BY DEF CommandInv, CommandOf
    <3>2. LockOf(p)
      BY DEF LockInv
    <3> QED
      BY <3>1, <3>2 DEF LockOf, Backing
  <2>3. manifest \in [Second -> Content]
    BY DEF HostTypes, Content
  <2>4. TypeOK
    BY <2>1, <2>2, <2>3 DEF TypeOK, HostTypes, ProcessTypes, Dumping
  <2> QED
    BY <2>1, <2>2, <2>4 DEF OffsiteTypeOK, BucketTypes, Uploading
<1> QED
  BY <1>1, Invariance, PTL

\* What `db backup` promises: a backup that is reported complete left a whole dump with its
\* manifest, and from then on there is one on disk, as long as backups write in the order of
\* their names.
THEOREM BackupPromise == OffsiteSpec => []GoodCopyKept
<1>1. IInv => GoodCopyKept
  BY DEF IInv, DumpInv, DumpOf, HasManifest, OrderInv, GoodCopyKept, CompletedWhole
<1> QED
  BY <1>1, Invariance, PTL

\* What `db verify`, the restore verifications and `db status` report is true of the dump they
\* looked at, status on the condition that backups write in the order of their names.
THEOREM HonestVerdicts == OffsiteSpec => []VerdictsHonest
<1>1. IInv => VerdictsHonest
  <2> SUFFICES ASSUME IInv PROVE VerdictsHonest
    OBVIOUS
  <2>1. \A p \in Processes :
          pc[p] = "ok" \/ (pc[p] = "verified" /\ loc[p].verdict = "ok") => loc[p].data \in Whole
    BY DEF IInv, VerdictInv, VerdictOf
  <2>2. ASSUME ~disorder, BackupStatus = "ok" PROVE \E n \in Listed : (\A m \in Listed : m <= n) /\ Good(n)
    <3>1. PICK n \in Listed : (\A m \in Listed : m <= n) /\ manifest[n] # Absent
      BY <2>2 DEF BackupStatus
    <3>2. n \in Second /\ manifest[n] = dump[n] /\ manifest[n] \in Whole \cup {Absent}
      BY <2>2, <3>1 DEF IInv, OrderInv, Listed, Types, HostTypes
    <3> QED
      BY <3>1, <3>2 DEF Good
  <2> QED
    BY <2>1, <2>2 DEF VerdictsHonest
<1> QED
  BY <1>1, Invariance, PTL

\* A restore verification drops the database that it created and no other, in particular not the
\* application's.
THEOREM OwnDropped == OffsiteSpec => []DropsOwnOnly
<1>1. 0 \notin Second
  BY DEF Second
<1>2. IInv => DropsOwnOnly
  BY <1>1 DEF IInv, TempInv, TempOf, DropsOwnOnly, Loaded, Loading, Verification
<1> QED
  BY <1>2, Invariance, PTL

\* Once a dump was uploaded there is a copy of it or of another in the bucket, and the last one
\* is intact, as long as no dump was uploaded again over what was there of it.
THEOREM CopiesKept == OffsiteSpec => []OffsiteCopyKept
<1>1. OffsiteInit => CopyInv
  <2> SUFFICES ASSUME OffsiteInit PROVE OneUpload /\ UploadInv /\ FreshInv /\ MatchInv /\ CopyLeft
    BY DEF CopyInv
  <2>1. \A p \in Processes : pc[p] = "idle"
    BY DEF OffsiteInit, Init
  <2>2. \A p \in Processes : pc[p] \notin Copying
    BY <2>1, Zenon DEF Copying
  <2>3. \A n \in Second : ~Copied(n)
    BY KeyOf DEF OffsiteInit, Copied, ObjectOf
  <2>4. UploadInv /\ FreshInv
    BY <2>2, Zenon DEF UploadInv, UploadOf, FreshInv, FreshOf, Copying
  <2> QED
    BY <2>2, <2>3, <2>4 DEF OneUpload, MatchInv, CopyLeft, OffsiteInit
<1>2. IInv /\ CopyInv => OffsiteCopyKept
  <2> SUFFICES ASSUME IInv, CopyInv, ~reuploaded
               PROVE  /\ uploaded => LatestPair # {}
                      /\ \A n \in LatestPair : Intact(n)
    BY DEF OffsiteCopyKept
  <2> USE DEF IInv
  <2>1. MatchInv /\ CopyLeft
    BY DEF CopyInv
  <2>2. uploaded => LatestPair # {}
    BY <2>1, LastCopy DEF CopyLeft
  <2>3. ASSUME NEW n \in LatestPair PROVE Intact(n)
    <3>1. n \in Second /\ Copied(n)
      BY KeyOf DEF LatestPair, Pairs, Copied, ObjectOf, ManifestOf
    <3>2. ObjectOf(n).id # 0 /\ ObjectOf(n).id = ManifestOf(n).id
      BY <2>1, <3>1, KeyOf DEF MatchInv, Types, BucketTypes, Copied, ObjectOf
    <3> QED
      BY <3>2 DEF Intact, ObjectOf, ManifestOf
  <2> QED
    BY <2>2, <2>3
<1> QED
  BY <1>1, <1>2, Invariance, CopiesNext, PTL DEF OffsiteSpec

=============================================================================
