------------------------------ MODULE DbOffsite ------------------------------
(***************************************************************************)
(* Copies of the dumps in a bucket, beside the commands of DbBackups: the  *)
(* upload at the end of `larops db backup` (under the lock of the backups), *)
(* `offsite upload` (under one of its own), and `offsite restore-verify`.  *)
(* A copy is two objects: the encrypted dump and a manifest with its hash. *)
(* Two encryptions of one dump differ (openssl -salt), so that a hash names *)
(* the encryption.  A tick of the clock is a day of the retention as well. *)
(***************************************************************************)
EXTENDS DbBackups

CONSTANTS
  RetentionDays,   \* backups.offsite.retention_days
  MaxEncryptions   \* bound: encryptions

ASSUME OffsiteAssumption == RetentionDays \in Nat /\ MaxEncryptions \in Nat

VARIABLES
  enc,           \* beside each dump: its encryption and the manifest of that
  cipher,        \* what was encrypted each time
  encryptions,   \* encryptions so far
  bucket,        \* the object under each key
  uploaded,      \* history: some upload was reported complete
  reuploaded     \* history: a dump was uploaded while an object of it was there, or was underway

offsiteVars == <<enc, cipher, encryptions, bucket, uploaded, reuploaded>>
allVars == <<vars, offsiteVars>>

Key == Second \X {"object", "manifest"}

NoEnc == [file |-> 0, manifest |-> 0]
NoObject == [id |-> 0, at |-> 0]

-----------------------------------------------------------------------------
(* The upload *)

BeginUpload(p, n) ==
  /\ n \in Listed
  /\ Begin(p, "upload", "upload", "encrypt", [NoLocals EXCEPT !.name = n])
  /\ UNCHANGED <<hostVars, clock, completed, disorder, offsiteVars>>

Uploads(n) ==
  {p \in Processes :
     loc[p].name = n /\ pc[p] \in {"describe", "put", "put manifest", "expire", "delete"}}

\* openssl enc: of a dump that ends early too.
Encrypt(p) ==
  /\ pc[p] = "encrypt"
  /\ dump[loc[p].name] # Absent
  /\ encryptions < MaxEncryptions
  /\ encryptions' = encryptions + 1
  /\ cipher' = [cipher EXCEPT ![encryptions'] = dump[loc[p].name]]
  /\ enc' = [enc EXCEPT ![loc[p].name].file = encryptions']
  /\ LET n == loc[p].name
     IN  reuploaded' = (reuploaded \/ Uploads(n) # {} \/ \E k \in Key : k[1] = n /\ bucket[k] # NoObject)
  /\ Goto(p, "describe")
  /\ UNCHANGED <<hostVars, clock, lock, loc, historyVars, bucket, uploaded>>

EncryptFails(p) ==
  /\ pc[p] = "encrypt"
  /\ IF dump[loc[p].name] = Absent THEN UNCHANGED spent ELSE Mishap
  /\ Finish(p)
  /\ UNCHANGED <<hostVars, clock, completed, disorder, offsiteVars>>

\* The manifest has the hash of the file as it is by now.
Describe(p) ==
  /\ pc[p] = "describe"
  /\ IF enc[loc[p].name].file = 0
     THEN Finish(p) /\ UNCHANGED enc
     ELSE /\ enc' = [enc EXCEPT ![loc[p].name].manifest = enc[loc[p].name].file]
          /\ Goto(p, "put")
          /\ UNCHANGED <<lock, loc>>
  /\ UNCHANGED <<hostVars, clock, historyVars, cipher, encryptions, bucket, uploaded, reuploaded>>

PutObject(p) ==
  /\ pc[p] = "put"
  /\ LET n == loc[p].name
     IN  /\ enc[n].file # 0
         /\ bucket' = [bucket EXCEPT ![<<n, "object">>] = [id |-> enc[n].file, at |-> clock]]
  /\ Goto(p, "put manifest")
  /\ UNCHANGED <<hostVars, clock, lock, loc, historyVars, enc, cipher, encryptions, uploaded, reuploaded>>

PutManifest(p) ==
  /\ pc[p] = "put manifest"
  /\ LET n == loc[p].name
     IN  /\ enc[n].manifest # 0
         /\ bucket' = [bucket EXCEPT ![<<n, "manifest">>] = [id |-> enc[n].manifest, at |-> clock]]
  /\ Goto(p, "expire")
  /\ UNCHANGED <<hostVars, clock, lock, loc, historyVars, enc, cipher, encryptions, uploaded, reuploaded>>

\* The object is deleted if its manifest cannot follow; that may fail as well, unseen.  What
\* was encrypted stays beside the dump.
PutFails(p) ==
  /\ \/ pc[p] = "put" /\ enc[loc[p].name].file # 0 /\ Mishap
     \/ pc[p] = "put" /\ enc[loc[p].name].file = 0 /\ UNCHANGED spent
     \/ pc[p] = "put manifest" /\ enc[loc[p].name].manifest # 0 /\ Mishap
     \/ pc[p] = "put manifest" /\ enc[loc[p].name].manifest = 0 /\ UNCHANGED spent
  /\ \/ UNCHANGED bucket
     \/ pc[p] = "put manifest" /\ bucket' = [bucket EXCEPT ![<<loc[p].name, "object">>] = NoObject]
  /\ Finish(p)
  /\ UNCHANGED <<hostVars, clock, completed, disorder, enc, cipher, encryptions, uploaded, reuploaded>>

\* Mutant of ListExpired: the age is not asked.
ListAll(p) ==
  /\ pc[p] = "expire"
  /\ loc' = [loc EXCEPT ![p].expired = {k \in Key : bucket[k] # NoObject}]
  /\ Goto(p, "delete")
  /\ UNCHANGED <<hostVars, clock, lock, historyVars, offsiteVars>>

\* prune_offsite_by_age lists the bucket, every key with an age of its own ...
ListExpired(p) ==
  /\ pc[p] = "expire"
  /\ loc' = [loc EXCEPT ![p].expired =
               {k \in Key : bucket[k] # NoObject /\ clock - bucket[k].at > RetentionDays}]
  /\ Goto(p, "delete")
  /\ UNCHANGED <<hostVars, clock, lock, historyVars, offsiteVars>>

\* ... and deletes by key, in their order, whatever is under the key by then.
DeleteExpired(p) ==
  /\ pc[p] = "delete"
  /\ \E k \in loc[p].expired :
       /\ \A j \in loc[p].expired : k[1] < j[1] \/ (k[1] = j[1] /\ (k = j \/ k[2] = "object"))
       /\ bucket' = [bucket EXCEPT ![k] = NoObject]
       /\ loc' = [loc EXCEPT ![p].expired = @ \ {k}]
  /\ UNCHANGED <<hostVars, clock, lock, pc, historyVars, enc, cipher, encryptions, uploaded, reuploaded>>

\* finally: the local files go, whether the bucket could be pruned or not.
EndUpload(p) ==
  /\ pc[p] = "delete"
  /\ enc' = [enc EXCEPT ![loc[p].name] = NoEnc]
  /\ \/ /\ loc[p].expired = {}
        /\ uploaded' = TRUE
        /\ Goto(p, IF loc[p].cmd = "backup" THEN "backed up" ELSE "uploaded")
        /\ UNCHANGED <<lock, loc, spent>>
     \/ Mishap /\ Finish(p) /\ UNCHANGED uploaded
  /\ UNCHANGED <<hostVars, clock, completed, disorder, cipher, encryptions, bucket, reuploaded>>

Uploaded(p) ==
  /\ pc[p] = "uploaded"
  /\ Finish(p)
  /\ UNCHANGED <<hostVars, clock, historyVars, offsiteVars>>

Upload(p) ==
  \/ \E n \in Second : BeginUpload(p, n)
  \/ Encrypt(p) \/ EncryptFails(p) \/ Describe(p) \/ PutObject(p) \/ PutManifest(p) \/ PutFails(p)
  \/ ListExpired(p) \/ DeleteExpired(p) \/ EndUpload(p) \/ Uploaded(p)

-----------------------------------------------------------------------------
(* offsite status and offsite restore-verify *)

\* The copies that have both objects, and the last of them, by its encrypted object: the one
\* `offsite status` dates and `offsite restore-verify` downloads.
Pairs == {n \in Second : \A k \in Key : k[1] = n => bucket[k] # NoObject}

LatestPair == {n \in Pairs : \A m \in Pairs : bucket[<<m, "object">>].at <= bucket[<<n, "object">>].at}

\* offsite_status, of copies that are not stale: an object without its manifest is a warning or, when
\* it is the newest, an error.
OffsiteStatus ==
  LET Incomplete == {n \in Second \ Pairs : bucket[<<n, "object">>] # NoObject}
  IN  IF Pairs # {} /\ Incomplete = {} THEN "ok" ELSE "not ok"

BeginOffsiteVerify(p, target) ==
  /\ credential # Absent
  /\ target \in Targets
  /\ Begin(p, "offsite-verify", "offsite-verify", "download", [NoLocals EXCEPT !.target = target])
  /\ UNCHANGED <<hostVars, clock, completed, disorder, offsiteVars>>

\* The last copy, or that of --object-key.
Download(p) ==
  /\ pc[p] = "download"
  /\ \E n \in Second :
       /\ bucket[<<n, "object">>] # NoObject
       /\ loc' = [loc EXCEPT ![p].name = n, ![p].file = bucket[<<n, "object">>].id]
  /\ Goto(p, "check")
  /\ UNCHANGED <<hostVars, clock, lock, historyVars, offsiteVars>>

DownloadFails(p) ==
  /\ pc[p] = "download"
  /\ IF Pairs = {} THEN UNCHANGED spent ELSE Mishap
  /\ Goto(p, "error")
  /\ lock' = Released(p)
  /\ UNCHANGED <<hostVars, clock, loc, completed, disorder, offsiteVars>>

\* The manifest is downloaded, the hash compared and the dump decrypted.  verify_backup refuses one
\* that ends early (gzip -t); what it says of the dump's own manifest is not acted upon.
CheckDownload(p) ==
  /\ pc[p] = "check"
  /\ IF bucket[<<loc[p].name, "manifest">>].id = loc[p].file /\ cipher[loc[p].file] # Cut
     THEN /\ loc' = [loc EXCEPT ![p].data = cipher[loc[p].file]]
          /\ Goto(p, "temp")
          /\ UNCHANGED lock
     ELSE Goto(p, "error") /\ lock' = Released(p) /\ UNCHANGED loc
  /\ UNCHANGED <<hostVars, clock, historyVars, offsiteVars>>

OffsiteVerify(p) ==
  \/ \E target \in 0..MaxClock : BeginOffsiteVerify(p, target)
  \/ Download(p) \/ DownloadFails(p) \/ CheckDownload(p)

-----------------------------------------------------------------------------
(* All commands *)

\* From the first object to the pruning an upload takes less than the retention, a day or more.
DayEnds ==
  /\ \A p \in Processes : pc[p] \notin {"put manifest", "expire", "delete"}
  /\ Tick

OffsiteInit ==
  /\ Init
  /\ enc = [n \in Second |-> NoEnc]
  /\ cipher = [e \in 1..MaxEncryptions |-> Absent]
  /\ encryptions = 0
  /\ bucket = [k \in Key |-> NoObject]
  /\ uploaded = FALSE /\ reuploaded = FALSE

OffsiteNext ==
  \/ /\ \/ \E p \in Processes : Step(p) \/ \E offsite \in BOOLEAN : NameDump(p, offsite)
        \/ AppWrites \/ DayEnds
     /\ UNCHANGED offsiteVars
  \/ \E p \in Processes : Upload(p) \/ OffsiteVerify(p)

OffsiteSpec == OffsiteInit /\ [][OffsiteNext]_allVars

-----------------------------------------------------------------------------
(* Properties *)

\* Every variable has its type, and one upload at a time goes on under each lock.
OffsiteTypeOK ==
  /\ TypeOK
  /\ enc \in [Second -> [file : 0..MaxEncryptions, manifest : 0..MaxEncryptions]]
  /\ cipher \in [1..MaxEncryptions -> Content]
  /\ encryptions \in 0..MaxEncryptions
  /\ bucket \in [Key -> [id : 0..MaxEncryptions, at : 0..MaxClock]]
  /\ \A p \in Processes : loc[p].expired \subseteq Key /\ loc[p].file \in 0..MaxEncryptions
  /\ uploaded \in BOOLEAN /\ reuploaded \in BOOLEAN
  /\ \A p \in Processes :
       pc[p] \in {"encrypt", "describe", "put", "put manifest", "expire", "delete"} =>
         lock[IF loc[p].cmd = "backup" THEN "backup" ELSE "upload"] = p

\* A copy that the restore verification accepts.
Intact(n) == bucket[<<n, "object">>].id # 0 /\ bucket[<<n, "object">>].id = bucket[<<n, "manifest">>].id

\* Once a dump was uploaded there is a copy in the bucket, and the last one is intact: nothing
\* that expires, fails or is killed takes it away, since only an upload prunes and its own
\* copy is newer; and where `offsite status` is ok the last copy is intact.  This holds as long
\* as no dump was uploaded again over what was there of it.
OffsiteCopyKept ==
  ~reuploaded =>
    /\ uploaded => LatestPair # {}
    /\ uploaded \/ OffsiteStatus = "ok" => \A n \in LatestPair : Intact(n)

=============================================================================
