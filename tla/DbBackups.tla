------------------------------ MODULE DbBackups ------------------------------
(***************************************************************************)
(* The database of one site and the dumps of it in its backup directory:   *)
(* `larops db provision`, `credential set`, `backup`, `restore`, `verify`  *)
(* and `restore-verify`.  Each family of commands has a lock of its own;   *)
(* `verify` has none.  What a dump holds is a version of the data.  Writing *)
(* a manifest or a report is one step, and a kill ends the programs that   *)
(* the command runs as well.                                               *)
(***************************************************************************)
EXTENDS Integers, FiniteSets

CONSTANTS
  Processes, NoProcess,
  Versions,        \* what the application writes into the database
  MaxClock,        \* bound: seconds, which name the dump files
  RetainCount,     \* --retain-count
  MaxMishaps,      \* bound: kills and programs that fail
  Plans            \* bound: the commands of a behaviour, how many begin and within how many seconds

AllCommands == {"provision", "credential", "backup", "restore", "verify", "restore-verify",
                "upload", "offsite-verify"}

ASSUME ProcessAssumption == NoProcess \notin Processes
ASSUME BoundsAssumption == MaxClock \in Nat \ {0} /\ MaxMishaps \in Nat
ASSUME RetainAssumption == RetainCount \in Nat \ {0}
ASSUME PlansAssumption ==
  \A plan \in Plans :
    /\ plan.commands \subseteq AllCommands
    /\ plan.engines \subseteq {"mysql", "postgres"}
    /\ plan.seconds \in 1..MaxClock /\ plan.begun \in Nat
ASSUME VersionsAssumption == Versions \cap {"absent", "torn", "cut"} = {}

VARIABLES
  plan,        \* which commands this behaviour is about
  engine,      \* the engine of the database
  live,        \* what is in the application's database
  temps,       \* the temporary databases, with the process that created each (history)
  credential,  \* the credential file
  dump,        \* the dump file of each second
  manifest,    \* which content the manifest of each dump describes
  clock,
  lock,        \* the holder of each lock
  pc, loc,     \* the phase of each process, and what it remembers
  completed,   \* history: some backup was reported complete
  disorder,    \* history: a backup began to write under a name that was not the newest
  spent        \* of the bounds: faults and commands so far

hostVars == <<plan, engine, live, temps, credential, dump, manifest>>
processVars == <<lock, pc, loc>>
historyVars == <<completed, disorder, spent>>
vars == <<hostVars, clock, processVars, historyVars>>

Second == 1..MaxClock
Absent == "absent"
Torn   == "torn"      \* a database of which some tables are old and some are new
Cut    == "cut"       \* a dump file that ends early

Lock == {"provision", "credential", "backup", "restore", "restore-verify", "upload", "offsite-verify"}

\* The content of a whole dump.
Whole == Versions \cup {Torn}

\* What a command remembers: its name, the second of its dump file, whether to upload, the content
\* it loads or checks, the manifest it read, whether to unpack, the encrypted file it downloaded,
\* its temporary database, the dumps and the objects it has still to delete, and its verdict.
NoLocals == [cmd |-> "none", name |-> 0, offsite |-> FALSE, data |-> Absent, manifest |-> Absent,
             gzip |-> TRUE, file |-> 0, target |-> 0, doomed |-> {}, expired |-> {},
             verdict |-> "none"]

-----------------------------------------------------------------------------
(* Helpers *)

\* list_backups: whatever has the name of a dump, whole or not.
Listed == {n \in Second : dump[n] # Absent}

\* prune_backups: all but the last retain_count in the order of their names.
Doomed == {n \in Listed : Cardinality({m \in Listed : m > n}) >= RetainCount}

\* backup_status, of a dump that is not stale.
BackupStatus ==
  IF \E n \in Listed : (\A m \in Listed : m <= n) /\ manifest[n] # Absent THEN "ok" ELSE "warn"

Goto(p, label) == pc' = [pc EXCEPT ![p] = label]

Mishap == spent.mishaps < MaxMishaps /\ spent' = [spent EXCEPT !.mishaps = @ + 1]

Started == spent.commands < plan.begun /\ spent' = [spent EXCEPT !.commands = @ + 1]

\* CommandLock: taken without waiting.
Free(l) == lock[l] = NoProcess

Begin(p, cmd, l, label, locals) ==
  /\ cmd \in plan.commands
  /\ pc[p] = "idle"
  /\ Free(l)
  /\ lock' = [lock EXCEPT ![l] = p]
  /\ Goto(p, label)
  /\ loc' = [loc EXCEPT ![p] = [locals EXCEPT !.cmd = cmd]]
  /\ Started

Released(p) == [l \in Lock |-> IF lock[l] = p THEN NoProcess ELSE lock[l]]

Finish(p) ==
  /\ lock' = Released(p)
  /\ Goto(p, "idle")
  /\ loc' = [loc EXCEPT ![p] = NoLocals]

-----------------------------------------------------------------------------
(* db provision, db credential set *)

BeginProvision(p) ==
  /\ Begin(p, "provision", "provision", "create", NoLocals)
  /\ UNCHANGED <<hostVars, clock, completed, disorder>>

\* Without allow_existing a database that is there ends the command.
CreateDatabase(p) ==
  /\ pc[p] = "create"
  /\ IF live # Absent
     THEN Finish(p) /\ UNCHANGED live
     ELSE /\ live' \in Versions
          /\ Goto(p, "credential")
          /\ UNCHANGED <<lock, loc>>
  /\ UNCHANGED <<plan, engine, temps, credential, dump, manifest, clock, historyVars>>

BeginCredential(p) ==
  /\ Begin(p, "credential", "credential", "credential", NoLocals)
  /\ UNCHANGED <<hostVars, clock, completed, disorder>>

\* The file is emptied (O_TRUNC), then written.
OpenCredential(p) ==
  /\ pc[p] = "credential"
  /\ credential' = "empty"
  /\ Goto(p, "secret")
  /\ UNCHANGED <<plan, engine, live, temps, dump, manifest, clock, lock, loc, historyVars>>

WriteCredential(p) ==
  /\ pc[p] = "secret"
  /\ credential' = "written"
  /\ Finish(p)
  /\ UNCHANGED <<plan, engine, live, temps, dump, manifest, clock, historyVars>>

-----------------------------------------------------------------------------
(* db backup *)

\* The file is named after the second, before the lock is asked for.
NameDump(p, offsite) ==
  /\ "backup" \in plan.commands
  /\ pc[p] = "idle"
  /\ Started
  /\ credential # Absent
  /\ Goto(p, "named")
  /\ loc' = [loc EXCEPT ![p] = [NoLocals EXCEPT !.cmd = "backup", !.name = clock, !.offsite = offsite]]
  /\ UNCHANGED <<hostVars, clock, lock, completed, disorder>>

\* Mutant of LockBackup: backups of one directory may overlap.
LockBackupBlindly(p) ==
  /\ pc[p] = "named"
  /\ lock' = [lock EXCEPT !["backup"] = p]
  /\ Goto(p, "open")
  /\ UNCHANGED <<hostVars, clock, loc, historyVars>>

LockBackup(p) ==
  /\ pc[p] = "named"
  /\ IF Free("backup")
     THEN /\ lock' = [lock EXCEPT !["backup"] = p]
          /\ Goto(p, "open")
          /\ UNCHANGED loc
     ELSE Finish(p)
  /\ UNCHANGED <<hostVars, clock, historyVars>>

\* `gzip > file` empties the file before the first byte is written.
OpenDump(p) ==
  /\ pc[p] = "open"
  /\ dump' = [dump EXCEPT ![loc[p].name] = Cut]
  /\ disorder' = (disorder \/ \E n \in Listed : n >= loc[p].name)
  /\ Goto(p, "dump")
  /\ UNCHANGED <<plan, engine, live, temps, credential, manifest, clock, lock, loc, completed, spent>>

CloseDump(p) ==
  /\ pc[p] = "dump"
  /\ live # Absent /\ credential = "written"
  /\ dump' = [dump EXCEPT ![loc[p].name] = live]
  /\ Goto(p, "manifest")
  /\ UNCHANGED <<plan, engine, live, temps, credential, manifest, clock, lock, loc, historyVars>>

\* Mutant of DumpFails: without pipefail the end of gzip is the end of all.
DumpFailsUnseen(p) ==
  /\ pc[p] = "dump"
  /\ IF live = Absent \/ credential # "written" THEN UNCHANGED spent ELSE Mishap
  /\ Goto(p, "manifest")
  /\ UNCHANGED <<hostVars, clock, lock, loc, completed, disorder>>

\* mysqldump or gzip fails (pipefail): what was written so far stays.
DumpFails(p) ==
  /\ pc[p] = "dump"
  /\ IF live = Absent \/ credential # "written" THEN UNCHANGED spent ELSE Mishap
  /\ Finish(p)
  /\ UNCHANGED <<hostVars, clock, completed, disorder>>

WriteManifest(p) ==
  /\ pc[p] = "manifest"
  /\ manifest' = [manifest EXCEPT ![loc[p].name] = dump[loc[p].name]]
  /\ Goto(p, "list")
  /\ UNCHANGED <<plan, engine, live, temps, credential, dump, clock, lock, loc, historyVars>>

\* Mutant of ListDoomed: the oldest are kept.
ListNewest(p) ==
  /\ pc[p] = "list"
  /\ loc' = [loc EXCEPT ![p].doomed =
               {n \in Listed : Cardinality({m \in Listed : m < n}) >= RetainCount}]
  /\ Goto(p, "prune")
  /\ UNCHANGED <<hostVars, clock, lock, historyVars>>

ListDoomed(p) ==
  /\ pc[p] = "list"
  /\ loc' = [loc EXCEPT ![p].doomed = Doomed]
  /\ Goto(p, "prune")
  /\ UNCHANGED <<hostVars, clock, lock, historyVars>>

\* The dump and its manifest, oldest first.
DeleteOldest(p) ==
  /\ pc[p] = "prune"
  /\ \E n \in loc[p].doomed :
       /\ \A m \in loc[p].doomed : n <= m
       /\ dump' = [dump EXCEPT ![n] = Absent]
       /\ manifest' = [manifest EXCEPT ![n] = Absent]
       /\ loc' = [loc EXCEPT ![p].doomed = @ \ {n}]
  /\ UNCHANGED <<plan, engine, live, temps, credential, clock, lock, pc, historyVars>>

\* With offsite copies configured the upload follows under the same lock.
Pruned(p) ==
  /\ pc[p] = "prune" /\ loc[p].doomed = {}
  /\ Goto(p, IF loc[p].offsite THEN "encrypt" ELSE "backed up")
  /\ UNCHANGED <<hostVars, clock, lock, loc, historyVars>>

\* The event db.backup.completed, and the ends of the other commands.
Complete(p) ==
  /\ pc[p] \in {"backed up", "restored", "verified"}
  /\ completed' = (completed \/ pc[p] = "backed up")
  /\ Finish(p)
  /\ UNCHANGED <<hostVars, clock, disorder, spent>>

-----------------------------------------------------------------------------
(* Loading a dump: db restore and the restore of restore-verify *)

\* Which database the dump n is loaded into.  A dump of mysqldump --databases names its
\* database (CREATE DATABASE, USE), whatever database the client was given.
LoadsIntoLive(p) == engine = "mysql" \/ loc[p].cmd = "restore"

BeginRestore(p, n) ==
  /\ n \in Listed /\ credential # Absent
  /\ Begin(p, "restore", "restore", "load", [NoLocals EXCEPT !.name = n])
  /\ UNCHANGED <<hostVars, clock, completed, disorder>>

\* gunzip has the file open, and the client begins to drop and create tables.
StartLoad(p) ==
  /\ pc[p] = "load"
  /\ IF dump[loc[p].name] = Absent /\ loc[p].data = Absent
     THEN Goto(p, "not loaded") /\ UNCHANGED <<live, loc>>
     ELSE /\ live' = IF LoadsIntoLive(p) THEN Torn ELSE live
          /\ loc' = [loc EXCEPT ![p].data = IF @ = Absent THEN dump[loc[p].name] ELSE @]
          /\ Goto(p, "loading")
  /\ UNCHANGED <<plan, engine, temps, credential, dump, manifest, clock, lock, historyVars>>

\* A dump that ends early fails (gunzip).
EndLoad(p) ==
  /\ pc[p] = "loading"
  /\ IF loc[p].data \in Whole
     THEN /\ live' = IF LoadsIntoLive(p) THEN loc[p].data ELSE live
          /\ Goto(p, "loaded")
     ELSE Goto(p, "not loaded") /\ UNCHANGED live
  /\ UNCHANGED <<plan, engine, temps, credential, dump, manifest, clock, lock, loc, historyVars>>

\* The client fails, or psql, which goes on after an error and exits with 0, loads a part only.
LoadFails(p) ==
  /\ pc[p] = "loading"
  /\ Mishap
  /\ \/ Goto(p, "not loaded")
     \/ engine = "postgres" /\ loc[p].data \in Whole /\ Goto(p, "loaded")
  /\ UNCHANGED <<hostVars, clock, lock, loc, completed, disorder>>

EndRestore(p) ==
  /\ loc[p].cmd = "restore"
  /\ \/ pc[p] = "loaded" /\ Goto(p, "restored") /\ UNCHANGED <<lock, loc>>
     \/ pc[p] = "not loaded" /\ Finish(p)
  /\ UNCHANGED <<hostVars, clock, historyVars>>

-----------------------------------------------------------------------------
(* db verify: no lock *)

BeginVerify(p, n, gzip) ==
  /\ "verify" \in plan.commands
  /\ pc[p] = "idle"
  /\ Started
  /\ n \in Listed
  /\ loc' = [loc EXCEPT ![p] = [NoLocals EXCEPT !.cmd = "verify", !.name = n, !.gzip = gzip,
                                                !.manifest = manifest[n]]]
  /\ Goto(p, "hash")
  /\ UNCHANGED <<hostVars, clock, lock, completed, disorder>>

\* The manifest was read; the file is hashed, and unpacked with --check-gzip.
HashDump(p) ==
  /\ pc[p] = "hash"
  /\ LET data == dump[loc[p].name]
     IN  loc' = [loc EXCEPT ![p].data = data,
                   ![p].verdict = IF data = Absent \/ (loc[p].gzip /\ data = Cut) THEN "error"
                                  ELSE IF loc[p].manifest = Absent THEN "warn"
                                  ELSE IF loc[p].manifest = data THEN "ok" ELSE "error"]
  /\ Goto(p, "verified")
  /\ UNCHANGED <<hostVars, clock, lock, historyVars>>

-----------------------------------------------------------------------------
(* db restore-verify *)

\* The temporary database is named after the second; 0 is the live one, which --verify-database
\* may name by mistake.
Targets == {clock} \cup (IF live # Absent THEN {0} ELSE {})

BeginRestoreVerify(p, n, target) ==
  /\ n \in Listed /\ credential # Absent
  /\ target \in Targets
  /\ Begin(p, "restore-verify", "restore-verify", "temp", [NoLocals EXCEPT !.name = n, !.target = target])
  /\ UNCHANGED <<hostVars, clock, completed, disorder>>

\* A busy lock is an error which is reported like any other.
Busy(p) ==
  /\ pc[p] = "idle"
  /\ Started
  /\ \E cmd \in {"restore-verify", "offsite-verify"} \cap plan.commands :
       ~Free(cmd) /\ loc' = [loc EXCEPT ![p] = [NoLocals EXCEPT !.cmd = cmd]]
  /\ Goto(p, "error")
  /\ UNCHANGED <<hostVars, clock, lock, completed, disorder>>

Exists(target) == IF target = 0 THEN live # Absent ELSE temps[target] # NoProcess

\* Mutant of CreateTemp: the clean-up does not ask who created the database.
CreateTempOrNot(p) ==
  /\ pc[p] = "temp"
  /\ IF Exists(loc[p].target)
     THEN Goto(p, "not loaded") /\ UNCHANGED temps
     ELSE /\ temps' = [temps EXCEPT ![loc[p].target] = p]
          /\ Goto(p, "load")
  /\ UNCHANGED <<plan, engine, live, credential, dump, manifest, clock, lock, loc, historyVars>>

CreateTemp(p) ==
  /\ pc[p] = "temp"
  /\ IF Exists(loc[p].target)
     THEN /\ Goto(p, "error")
          /\ lock' = Released(p)
          /\ UNCHANGED temps
     ELSE /\ temps' = [temps EXCEPT ![loc[p].target] = p]
          /\ Goto(p, "load")
          /\ UNCHANGED lock
  /\ UNCHANGED <<plan, engine, live, credential, dump, manifest, clock, loc, historyVars>>

Loaded(p) == pc[p] \in {"loaded", "not loaded"} /\ loc[p].cmd \in {"restore-verify", "offsite-verify"}

\* finally: DROP DATABASE IF EXISTS, whose failure is not looked at.
DropTemp(p) ==
  /\ Loaded(p)
  /\ \/ /\ IF loc[p].target = 0 THEN live' = Absent /\ UNCHANGED temps
           ELSE temps' = [temps EXCEPT ![loc[p].target] = NoProcess] /\ UNCHANGED live
        /\ UNCHANGED spent
     \/ Mishap /\ UNCHANGED <<live, temps>>
  /\ IF pc[p] = "loaded" THEN Goto(p, "ok") /\ UNCHANGED lock
     ELSE Goto(p, "error") /\ lock' = Released(p)
  /\ UNCHANGED <<plan, engine, credential, dump, manifest, clock, loc, completed, disorder>>

\* last_restore_verify.json, which no command here reads: that of a success is written under the
\* lock, that of a failure after it.
WriteReport(p) ==
  /\ pc[p] \in {"ok", "error"}
  /\ Finish(p)
  /\ UNCHANGED <<hostVars, clock, historyVars>>

-----------------------------------------------------------------------------
(* What else happens *)

Kill(p) ==
  /\ pc[p] # "idle"
  /\ Mishap
  /\ Finish(p)
  /\ UNCHANGED <<hostVars, clock, completed, disorder>>

AppWrites ==
  /\ live \in Versions
  /\ live' \in Versions \ {live}
  /\ UNCHANGED <<plan, engine, temps, credential, dump, manifest, clock, processVars, historyVars>>

Tick ==
  /\ clock < plan.seconds
  /\ clock' = clock + 1
  /\ UNCHANGED <<hostVars, processVars, historyVars>>

Init ==
  /\ plan \in Plans
  /\ engine \in plan.engines
  /\ live = Absent
  /\ temps = [n \in Second |-> NoProcess]
  /\ credential = Absent
  /\ dump = [n \in Second |-> Absent] /\ manifest = [n \in Second |-> Absent]
  /\ clock = 1
  /\ lock = [l \in Lock |-> NoProcess]
  /\ pc = [p \in Processes |-> "idle"] /\ loc = [p \in Processes |-> NoLocals]
  /\ completed = FALSE /\ disorder = FALSE /\ spent = [mishaps |-> 0, commands |-> 0]

Provide(p) ==
  \/ BeginProvision(p) \/ CreateDatabase(p)
  \/ BeginCredential(p) \/ OpenCredential(p) \/ WriteCredential(p)

Backup(p) ==
  \/ LockBackup(p) \/ OpenDump(p) \/ CloseDump(p) \/ DumpFails(p) \/ WriteManifest(p)
  \/ ListDoomed(p) \/ DeleteOldest(p) \/ Pruned(p)

Restore(p) ==
  \/ \E n \in Second : BeginRestore(p, n)
  \/ StartLoad(p) \/ EndLoad(p) \/ LoadFails(p) \/ EndRestore(p)

Verify(p) ==
  \/ \E n \in Second, gzip \in BOOLEAN : BeginVerify(p, n, gzip)
  \/ HashDump(p)
  \/ \E n \in Second, target \in 0..MaxClock : BeginRestoreVerify(p, n, target)
  \/ Busy(p) \/ CreateTemp(p) \/ DropTemp(p) \/ WriteReport(p)

Step(p) == Provide(p) \/ Backup(p) \/ Restore(p) \/ Verify(p) \/ Complete(p) \/ Kill(p)

Next ==
  \/ \E p \in Processes : NameDump(p, FALSE) \/ Step(p)
  \/ AppWrites \/ Tick

Spec == Init /\ [][Next]_vars

-----------------------------------------------------------------------------
(* Properties *)

Content == Whole \cup {Absent, Cut}

Phase == {"idle", "create", "credential", "secret", "named", "open", "dump", "manifest", "list",
          "prune", "backed up", "load", "loading", "loaded", "not loaded", "restored", "hash",
          "verified", "temp", "ok", "error",
          "encrypt", "describe", "put", "put manifest", "expire", "delete", "uploaded",
          "download", "check"}

\* Every variable has its type, and what works on the dumps holds the lock of the backups.
TypeOK ==
  /\ plan \in Plans /\ engine \in plan.engines
  /\ live \in Whole \cup {Absent}
  /\ temps \in [Second -> Processes \cup {NoProcess}]
  /\ credential \in {Absent, "empty", "written"}
  /\ dump \in [Second -> Content] /\ manifest \in [Second -> Content]
  /\ clock \in Second
  /\ lock \in [Lock -> Processes \cup {NoProcess}]
  /\ pc \in [Processes -> Phase]
  /\ \A p \in Processes :
       /\ loc[p].name \in 0..MaxClock /\ loc[p].target \in 0..MaxClock
       /\ loc[p].data \in Content /\ loc[p].manifest \in Content
       /\ loc[p].doomed \subseteq Second
       /\ pc[p] \in {"open", "dump", "manifest", "list", "prune", "backed up"} => lock["backup"] = p
  /\ completed \in BOOLEAN /\ disorder \in BOOLEAN /\ spent \in [mishaps : 0..MaxMishaps, commands : 0..plan.begun]

\* A dump which the next restore can trust: all of it is there, and its manifest says so.
Good(n) == dump[n] \in Whole /\ manifest[n] = dump[n]

\* When a backup is reported complete its dump is whole and its manifest describes it, or
\* newer names have pushed it out, and then the one in its place was written later.
CompletedWhole ==
  \A p \in Processes : pc[p] = "backed up" =>
    Good(loc[p].name) \/ (dump[loc[p].name] = Absent /\ disorder)

\* Once a backup was complete there is a good dump on disk.
GoodCopyOnDisk == completed => \E n \in Second : Good(n)

\* What `db backup` promises, through failed dumps (which count in the retention), kills at any
\* point and prunes: a backup that reports success left a whole dump with its manifest, and from
\* then on there is one on disk, provided that backups write in the order of their names.
GoodCopyKept == CompletedWhole /\ (disorder \/ GoodCopyOnDisk)

\* `db verify` finds a dump ok only if it is whole, with --no-check-gzip as well, and whatever
\* a backup does with the file meanwhile; an ok report of restore-verify is about a whole dump;
\* and where `db status` is ok the last dump is good, as long as backups write in the order of
\* their names, although status looks at no more than whether the manifest is there.
VerdictsHonest ==
  /\ \A p \in Processes :
       \/ pc[p] = "ok"
       \/ pc[p] = "verified" /\ loc[p].verdict = "ok"
       => loc[p].data \in Whole
  /\ ~disorder /\ BackupStatus = "ok" => \E n \in Listed : (\A m \in Listed : m <= n) /\ Good(n)

\* restore-verify drops the database that it created, and neither the live one, even when
\* --verify-database names it, nor that of another command or of an earlier one that died.
DropsOwnOnly ==
  \A p \in Processes : Loaded(p) => loc[p].target # 0 /\ temps[loc[p].target] = p

\* Refuted: README.en.md says of the restore verification that it "Restores into a temporary
\* database"; no step of it writes the live one.
VerifyLeavesLive ==
  [][\A p \in Processes : loc[p].cmd = "restore-verify" /\ pc[p] \in {"load", "loading"} /\ pc'[p] # pc[p]
       => live' = live]_vars

=============================================================================
