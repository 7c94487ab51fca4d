----------------------------- MODULE SiteDelete -----------------------------
(***************************************************************************)
(* `larops site delete` and `larops site restore` on one domain: a delete  *)
(* archives the site, unless --no-checkpoint, and purges it part by part;  *)
(* a restore extracts an archive, removes what is there and copies the     *)
(* archive back part by part.  Both hold the lock site-delete-<domain>,    *)
(* may die at any step and may be run again.                               *)
(*                                                                         *)
(* Of the secrets they know the two files of _secret_files, <domain>.cnf   *)
(* and <domain>.pgpass.  The file <domain>.txt, in which create site keeps *)
(* the password, is not among them: no delete and no restore touches it,   *)
(* and it is no part of the site here.                                     *)
(***************************************************************************)
EXTENDS Naturals, Sequences

CONSTANTS
  Operators, NoOperator,   \* the processes which delete and restore, and none of them
  Versions,                \* contents which a deploy can give the site
  Absent, Torn,            \* a part which is not there, and one that is there in part
  MaxArchives, MaxMishaps  \* bounds: archives made, and mishaps, in a behaviour

ASSUME NoOperatorAssumption == NoOperator \notin Operators
ASSUME VersionsAssumption ==
  Absent # Torn /\ {Absent, Torn} \cap (Versions \cup {"on", "off", "credentials"}) = {}
ASSUME BoundsAssumption == MaxArchives \in Nat \ {0} /\ MaxMishaps \in Nat

VARIABLES
  site,      \* the parts of the site on disk
  unit,      \* the unit file of its runtime process is there
  running,   \* the service of its runtime process runs
  archives,  \* the archives of the site, oldest first
  lock,      \* holder of the flock site-delete-<domain>
  pc, loc,
  wanted,    \* history: the site as its operators last established it
  mishaps    \* history: commands that died, services that did not stop

host == <<site, unit, running>>
vars == <<site, unit, running, archives, lock, pc, loc, wanted, mishaps>>

\* The application's directory, its metadata, the spec of its runtime
\* process and the files of _secret_files.
Part == {"root", "metadata", "runtime", "secrets"}
Directories == {"root", "runtime"}

Restored == Part \ {"secrets"}   \* what every restore brings back

NothingThere == [part \in Part |-> Absent]

\* `paths.root`, `paths.metadata`, ... in the order of each loop.
PurgeOrder   == <<"runtime", "metadata", "root", "secrets">>
RestoreOrder == <<"root", "metadata", "runtime", "secrets">>
PlainOrder   == <<"root", "metadata", "runtime">>   \* without --restore-secrets

\* --checkpoint and --checkpoint-include-secrets of a delete; --restore-runtime
\* and --restore-secrets of a restore.
DeleteOption == {o \in [checkpoint : BOOLEAN, secrets : BOOLEAN, runtime : {FALSE}] :
                   o.secrets => o.checkpoint}
RestoreOption == [checkpoint : {FALSE}, secrets : BOOLEAN, runtime : BOOLEAN]

\* A file that is no archive (its gzip ends early), one that is valid and was
\* ended between two members, and one that holds everything.
ArchiveKind == {"broken", "cut", "whole"}

\* A command remembers its flags, the archive it works with and the parts
\* it has still to handle.
NoLocals == [opt |-> [checkpoint |-> FALSE, secrets |-> FALSE, runtime |-> FALSE],
             archive |-> 0, todo |-> <<>>]

-----------------------------------------------------------------------------
(* Helpers *)

\* The part of the history that matters.
Established(parts) == [part \in Restored |-> parts[part]]

Holds(parts) == Established(parts) = wanted

\* An archive that can be extracted holds all of the wanted site.
Archived ==
  \E a \in DOMAIN archives : archives[a].kind # "broken" /\ Holds(archives[a].parts)

There(part) == site[part] # Absent
Registered  == site["metadata"] \notin {Absent, Torn}

Goto(p, label) == pc' = [pc EXCEPT ![p] = label]

\* Mutant of Lock: nobody looks whether it is held.
LockBlindly(p) == pc[p] = "idle" /\ lock' = p

\* The lock is taken without waiting: a command that finds it held ends.
Lock(p) == pc[p] = "idle" /\ lock = NoOperator /\ lock' = p

Finish(p) ==
  /\ lock' = IF lock = p THEN NoOperator ELSE lock
  /\ Goto(p, "idle")
  /\ loc' = [loc EXCEPT ![p] = NoLocals]

NextPart(p) == Head(loc[p].todo)
PartDone(p) == loc' = [loc EXCEPT ![p].todo = Tail(@)]

-----------------------------------------------------------------------------
(* site delete *)

\* Only a registered site can be deleted.
BeginDelete(p, opt) ==
  /\ Registered
  /\ opt.checkpoint => Len(archives) < MaxArchives
  /\ Lock(p)
  /\ Goto(p, IF opt.checkpoint THEN "archive" ELSE "stop")
  /\ loc' = [loc EXCEPT ![p] = [NoLocals EXCEPT !.opt = opt]]
  /\ wanted' = IF opt.checkpoint THEN wanted ELSE Established(NothingThere)
  /\ UNCHANGED <<host, archives, mishaps>>

\* tarfile.open(mode="w:gz"): the file is there and is no archive yet.
OpenArchive(p) ==
  /\ pc[p] = "archive"
  /\ archives' = Append(archives, [kind |-> "broken", parts |-> NothingThere])
  /\ loc' = [loc EXCEPT ![p].archive = Len(archives')]
  /\ Goto(p, "fill")
  /\ UNCHANGED <<host, lock, wanted, mishaps>>

\* What is added to the archive: the secrets only when asked for.
Added(p) == IF loc[p].opt.secrets THEN site ELSE [site EXCEPT !["secrets"] = Absent]

\* Everything is added and the archive is closed.
CloseArchive(p) ==
  /\ pc[p] = "fill"
  /\ archives' = [archives EXCEPT ![loc[p].archive] = [kind |-> "whole", parts |-> Added(p)]]
  /\ loc' = [loc EXCEPT ![p] = NoLocals]   \* its flags do not matter any more
  /\ Goto(p, "stop")
  /\ UNCHANGED <<host, lock, wanted, mishaps>>

\* The first parts of a site, with what there is of the next one: of a
\* directory some of its files.
FirstParts(parts, n, next) ==
  [part \in Part |->
     IF \E i \in 1..n : RestoreOrder[i] = part THEN parts[part]
     ELSE IF part = RestoreOrder[n + 1] THEN next ELSE Absent]

\* An exception between two members (a file that vanished, Ctrl-C) ends the
\* command, and the `with` block closes the gzip: what was added is a valid archive.
CutArchive(p) ==
  /\ pc[p] = "fill"
  /\ mishaps < MaxMishaps /\ mishaps' = mishaps + 1
  /\ \E n \in 0..3, next \in {Absent, Torn} :
       LET parts == FirstParts(Added(p), n, next)
       IN  /\ next = Torn => RestoreOrder[n + 1] \in Directories /\ There(RestoreOrder[n + 1])
           /\ parts # NothingThere
           /\ archives' = [archives EXCEPT ![loc[p].archive] = [kind |-> "cut", parts |-> parts]]
  /\ Finish(p)
  /\ UNCHANGED <<host, wanted>>

\* disable_process, when the spec is there: whether systemctl stopped the
\* service is not looked at, and the spec is emptied before it is written.
StopRuntime(p) ==
  /\ pc[p] = "stop"
  /\ site["runtime"] \in {"on", "off"}
  /\ \/ running' = FALSE /\ UNCHANGED mishaps
     \/ running /\ mishaps < MaxMishaps /\ mishaps' = mishaps + 1 /\ UNCHANGED running
  /\ site' = [site EXCEPT !["runtime"] = Torn]
  /\ Goto(p, "disabled")
  /\ UNCHANGED <<unit, archives, lock, loc, wanted>>

\* A directory without a spec is passed over like no directory.
NoRuntime(p) ==
  /\ pc[p] = "stop"
  /\ site["runtime"] \in {Absent, Torn}
  /\ Goto(p, "unit")
  /\ UNCHANGED <<host, archives, lock, loc, wanted, mishaps>>

\* A spec that cannot be read ends a delete (JSONDecodeError), and a restore
\* which has just copied it back.
BrokenSpec(p) ==
  /\ \/ pc[p] = "stop"
     \/ pc[p] = "copy" /\ loc[p].todo = <<>> /\ loc[p].opt.runtime
  /\ site["runtime"] = Torn
  /\ Finish(p)
  /\ UNCHANGED <<host, archives, wanted, mishaps>>

WriteDisabled(p) ==
  /\ pc[p] = "disabled"
  /\ site' = [site EXCEPT !["runtime"] = "off"]
  /\ Goto(p, "unit")
  /\ UNCHANGED <<unit, running, archives, lock, loc, wanted, mishaps>>

UnlinkUnit(p) ==
  /\ pc[p] = "unit"
  /\ unit' = FALSE
  /\ loc' = [loc EXCEPT ![p].todo = PurgeOrder]
  /\ Goto(p, "purge")
  /\ UNCHANGED <<site, running, archives, lock, wanted, mishaps>>

\* Mutant of RemovePart: a part that is not whole is passed over.
RemoveWhole(p) ==
  /\ pc[p] \in {"purge", "clear"}
  /\ loc[p].todo # <<>>
  /\ LET part == NextPart(p)
     IN  /\ site' = IF site[part] = Torn THEN site ELSE [site EXCEPT ![part] = Absent]
         /\ PartDone(p)
  /\ UNCHANGED <<unit, running, archives, lock, pc, wanted, mishaps>>

\* The removal of one part, by purge and by restore: rmtree takes a directory
\* piece by piece, a file is unlinked.
RemovePart(p) ==
  /\ pc[p] \in {"purge", "clear"}
  /\ loc[p].todo # <<>>
  /\ LET part == NextPart(p)
     IN  IF part \in Directories /\ site[part] \notin {Absent, Torn}
         THEN site' = [site EXCEPT ![part] = Torn] /\ UNCHANGED loc
         ELSE site' = [site EXCEPT ![part] = Absent] /\ PartDone(p)
  /\ UNCHANGED <<unit, running, archives, lock, pc, wanted, mishaps>>

\* rmtree(ignore_errors=True): a directory in which somebody writes (the
\* application itself does, under storage) stays, and the command goes on.
RemoveInVain(p) ==
  /\ pc[p] \in {"purge", "clear"}
  /\ loc[p].todo # <<>>
  /\ NextPart(p) = "root" /\ site["root"] = Torn
  /\ PartDone(p)
  /\ UNCHANGED <<host, archives, lock, pc, wanted, mishaps>>

Purged(p) ==
  /\ pc[p] = "purge" /\ loc[p].todo = <<>>
  /\ Goto(p, "deleted")
  /\ UNCHANGED <<host, archives, lock, loc, wanted, mishaps>>

\* The event site.delete.completed or site.restore.completed.
Complete(p) ==
  /\ pc[p] \in {"deleted", "restored"}
  /\ Finish(p)
  /\ UNCHANGED <<host, archives, wanted, mishaps>>

-----------------------------------------------------------------------------
(* site restore *)

\* Without --force nothing of the application may be there.
BeginRestore(p, a, force) ==
  /\ a \in DOMAIN archives
  /\ force \/ ~(There("root") \/ There("metadata") \/ There("runtime"))
  /\ Lock(p)
  /\ loc' = [loc EXCEPT ![p] = [NoLocals EXCEPT !.archive = a]]
  /\ Goto(p, "extract")
  /\ UNCHANGED <<host, archives, wanted, mishaps>>

\* What the operator wants when the archive is extracted: what a whole one
\* holds.  One that was cut gives up the site when that is nowhere else.
Chosen(archive) ==
  IF archive.kind = "whole" THEN Established(archive.parts)
  ELSE IF archive.kind = "broken" \/ Archived THEN wanted ELSE Established(NothingThere)

\* Mutant of Extract: what is no archive is taken as far as it goes.
ExtractAny(p) ==
  /\ pc[p] = "extract"
  /\ wanted' = Chosen(archives[loc[p].archive])
  /\ loc' = [loc EXCEPT ![p].todo = RestoreOrder]
  /\ Goto(p, "clear")
  /\ UNCHANGED <<host, archives, lock, mishaps>>

\* All that the archive holds is extracted elsewhere before anything is touched.
Extract(p) ==
  /\ pc[p] = "extract"
  /\ archives[loc[p].archive].kind # "broken"
  /\ wanted' = Chosen(archives[loc[p].archive])
  /\ loc' = [loc EXCEPT ![p].todo = RestoreOrder]
  /\ Goto(p, "clear")
  /\ UNCHANGED <<host, archives, lock, mishaps>>

\* What is no archive ends the command (tarfile.ReadError, EOFError).
ExtractFails(p) ==
  /\ pc[p] = "extract"
  /\ archives[loc[p].archive].kind = "broken"
  /\ Finish(p)
  /\ UNCHANGED <<host, archives, wanted, mishaps>>

\* The flags are chosen here, where the code reads them first: nothing before
\* depends on them.
Cleared(p, opt) ==
  /\ pc[p] = "clear" /\ loc[p].todo = <<>>
  /\ loc' = [loc EXCEPT ![p].opt = opt,
                        ![p].todo = IF opt.secrets THEN RestoreOrder ELSE PlainOrder]
  /\ Goto(p, "copy")
  /\ UNCHANGED <<host, archives, lock, wanted, mishaps>>

Source(p) == archives[loc[p].archive].parts

StartCopy(p) ==
  /\ pc[p] = "copy" /\ loc[p].todo # <<>>
  /\ LET part == NextPart(p)
     IN  /\ Source(p)[part] # Absent
         /\ part \in Directories => ~There(part)
         /\ site' = [site EXCEPT ![part] = Torn]
  /\ Goto(p, "copying")
  /\ UNCHANGED <<unit, running, archives, lock, loc, wanted, mishaps>>

\* copytree refuses a directory that is there (FileExistsError).
CopyRefused(p) ==
  /\ pc[p] = "copy" /\ loc[p].todo # <<>>
  /\ NextPart(p) \in Directories /\ There(NextPart(p))
  /\ Source(p)[NextPart(p)] # Absent
  /\ Finish(p)
  /\ UNCHANGED <<host, archives, wanted, mishaps>>

NothingToCopy(p) ==
  /\ pc[p] = "copy" /\ loc[p].todo # <<>>
  /\ Source(p)[NextPart(p)] = Absent
  /\ PartDone(p)
  /\ UNCHANGED <<host, archives, lock, pc, wanted, mishaps>>

EndCopy(p) ==
  /\ pc[p] = "copying"
  /\ site' = [site EXCEPT ![NextPart(p)] = Source(p)[NextPart(p)]]
  /\ PartDone(p)
  /\ Goto(p, "copy")
  /\ UNCHANGED <<unit, running, archives, lock, wanted, mishaps>>

\* Mutant of Copied: the processes are never recreated.
CopiedOnly(p) ==
  /\ pc[p] = "copy" /\ loc[p].todo = <<>>
  /\ Goto(p, "restored")
  /\ UNCHANGED <<host, archives, lock, loc, wanted, mishaps>>

\* The processes are recreated of which an enabled spec was restored.
Copied(p) ==
  /\ pc[p] = "copy" /\ loc[p].todo = <<>>
  /\ Goto(p, IF loc[p].opt.runtime /\ site["runtime"] = "on" THEN "enable" ELSE "restored")
  /\ UNCHANGED <<host, archives, lock, loc, wanted, mishaps>>

\* enable_process: the spec is emptied, then written, with the unit file.
OpenSpec(p) ==
  /\ pc[p] = "enable"
  /\ site' = [site EXCEPT !["runtime"] = Torn]
  /\ Goto(p, "spec")
  /\ UNCHANGED <<unit, running, archives, lock, loc, wanted, mishaps>>

WriteSpec(p) ==
  /\ pc[p] = "spec"
  /\ site' = [site EXCEPT !["runtime"] = "on"]
  /\ unit' = TRUE
  /\ Goto(p, "start")
  /\ UNCHANGED <<running, archives, lock, loc, wanted, mishaps>>

StartService(p) ==
  /\ pc[p] = "start"
  /\ running' = TRUE
  /\ Goto(p, "restored")
  /\ UNCHANGED <<site, unit, archives, lock, loc, wanted, mishaps>>

\* RuntimeProcessError (no current release, systemctl): the event site.restore.failed.
StartFails(p) ==
  /\ pc[p] \in {"enable", "start"}
  /\ Finish(p)
  /\ UNCHANGED <<host, archives, wanted, mishaps>>

-----------------------------------------------------------------------------
(* Others *)

\* Killed, or another error that no clause catches (a full disk).
Crash(p) ==
  /\ pc[p] # "idle"
  /\ mishaps < MaxMishaps /\ mishaps' = mishaps + 1
  /\ Finish(p)
  /\ UNCHANGED <<host, archives, wanted>>

Between == \A p \in Operators : pc[p] = "idle"

\* create site or app deploy, between two of the commands above.
Deploy(v) ==
  /\ Between
  /\ \E secrets \in {site["secrets"], "credentials"} :
       site' = [site EXCEPT !["root"] = v, !["metadata"] = v, !["secrets"] = secrets]
  /\ wanted' = Established(site')
  /\ UNCHANGED <<unit, running, archives, lock, pc, loc, mishaps>>

\* worker enable, between two of the commands above.
EnableWorker ==
  /\ Between
  /\ Registered /\ site["root"] \in Versions
  /\ site' = [site EXCEPT !["runtime"] = "on"]
  /\ unit' = TRUE /\ running' = TRUE
  /\ wanted' = Established(site')
  /\ UNCHANGED <<archives, lock, pc, loc, mishaps>>

-----------------------------------------------------------------------------
Init ==
  /\ site = NothingThere /\ wanted = Established(NothingThere)
  /\ unit = FALSE /\ running = FALSE
  /\ archives = <<>> /\ mishaps = 0
  /\ lock = NoOperator
  /\ pc = [p \in Operators |-> "idle"]
  /\ loc = [p \in Operators |-> NoLocals]

Delete(p) ==
  \/ \E opt \in DeleteOption : BeginDelete(p, opt)
  \/ OpenArchive(p) \/ CloseArchive(p) \/ CutArchive(p) \/ StopRuntime(p) \/ NoRuntime(p) \/ WriteDisabled(p)
  \/ UnlinkUnit(p) \/ Purged(p)

Restore(p) ==
  \/ \E a \in 1..MaxArchives, force \in BOOLEAN : BeginRestore(p, a, force)
  \/ \E opt \in RestoreOption : Cleared(p, opt)
  \/ Extract(p) \/ ExtractFails(p) \/ StartCopy(p) \/ CopyRefused(p)
  \/ NothingToCopy(p) \/ EndCopy(p) \/ Copied(p) \/ OpenSpec(p)
  \/ WriteSpec(p) \/ StartService(p) \/ StartFails(p)

Next ==
  \/ \E p \in Operators :
       \/ Delete(p) \/ Restore(p) \/ RemovePart(p) \/ RemoveInVain(p)
       \/ BrokenSpec(p) \/ Complete(p) \/ Crash(p)
  \/ \E v \in Versions : Deploy(v)
  \/ EnableWorker

Spec == Init /\ [][Next]_vars

-----------------------------------------------------------------------------
(* Properties *)

Contents ==
  [root : Versions \cup {Absent, Torn}, metadata : Versions \cup {Absent, Torn},
   runtime : {"on", "off", Absent, Torn}, secrets : {"credentials", Absent, Torn}]

Suffixes(order) == {SubSeq(order, i, Len(order)) : i \in 1..5}
Todo == UNION {Suffixes(order) : order \in {PurgeOrder, RestoreOrder, PlainOrder}}

Deleting  == {"archive", "fill", "stop", "disabled", "unit", "purge", "deleted"}
Restoring == {"extract", "clear", "copy", "copying", "enable", "spec", "start", "restored"}

\* Every variable has its type, and a command works only while it holds the lock.
TypeOK ==
  /\ site \in Contents
  /\ wanted \in [Restored -> Versions \cup {"on", "off", Absent, Torn}]
  /\ unit \in BOOLEAN /\ running \in BOOLEAN /\ mishaps \in 0..MaxMishaps
  /\ Len(archives) <= MaxArchives
  /\ \A a \in DOMAIN archives : archives[a] \in [kind : ArchiveKind, parts : Contents]
  /\ pc \in [Operators -> {"idle"} \cup Deleting \cup Restoring]
  /\ \A p \in Operators :
       /\ loc[p].opt \in DeleteOption \cup RestoreOption /\ loc[p].archive \in 0..Len(archives)
       /\ loc[p].todo \in Todo
       /\ pc[p] # "idle" <=> lock = p

\* The site that was last deployed, enabled or chosen for a restore is never
\* lost: it is on disk as it was, or one archive that can be extracted holds
\* all of it, wherever deletes (unless --no-checkpoint) and restores die and
\* however they are run again.  Exempt is what an operator restores, with
\* --force, from an archive that was cut while the site is nowhere but on disk:
\* the restore cannot tell it from a whole one and removes the site for it.
\* The secrets are not spoken of.
Recoverable == wanted["root"] = Absent \/ Holds(site) \/ Archived

\* When a delete reports that it is complete nothing is left that a command
\* could take for a site, whatever earlier deletes and restores left behind:
\* no metadata, no spec, no unit file, no usable directory, and neither file of
\* _secret_files.  (The file <domain>.txt stays.)
DeletedWholly ==
  \A p \in Operators : pc[p] = "deleted" =>
    /\ \A part \in Part \ {"root"} : ~There(part)
    /\ site["root"] \in {Absent, Torn}
    /\ ~unit

\* When a restore reports that it is complete the site is what the archive
\* holds and nothing else, its process runs again if asked for, and the files
\* of _secret_files are those that were restored, or none.  (The file
\* <domain>.txt is whatever it was.)
RestoresWhole ==
  \A p \in Operators : pc[p] = "restored" =>
    /\ \A part \in Restored :
         site[part] = Source(p)[part] \/ (part = "root" /\ Source(p)["root"] = Absent)
    /\ site["secrets"] = IF loc[p].opt.secrets THEN Source(p)["secrets"] ELSE Absent
    /\ loc[p].opt.runtime /\ Source(p)["runtime"] = "on" => unit /\ running

=============================================================================
