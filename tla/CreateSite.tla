----------------------------- MODULE CreateSite -----------------------------
(***************************************************************************)
(* `larops create site` on one domain: under one lock it registers the     *)
(* application, provisions its database, deploys a release, writes the     *)
(* nginx virtual host, enables the runtime processes and issues the        *)
(* certificate.  With --atomic a step that fails is followed by a          *)
(* compensation, which starts when the lock is already free and works from *)
(* a snapshot that was taken before it was held.                           *)
(***************************************************************************)
EXTENDS Integers, FiniteSets

CONSTANTS
  Creators, NoCreator,   \* the processes which run create site, and none of them
  MaxRelease,            \* bound: releases created in a behaviour
  Keep,                  \* deploy.keep_releases
  Forces, Atomics, Deploys, WithDb, WithTls,   \* the values of --force, --atomic, --deploy,
                                               \* --with-db and --letsencrypt in use
  RuntimePlans,          \* the sets of runtime processes asked for
  Overlap                \* which commands run beside others, of "plain", "atomic"

\* The runtime processes, in the order in which they are enabled.
Runtime == {"worker", "scheduler", "horizon"}
Turn == [worker |-> 1, scheduler |-> 2, horizon |-> 3]

ASSUME NoCreatorAssumption == NoCreator \notin Creators
ASSUME BoundsAssumption == MaxRelease \in Nat \ {0} /\ Keep \in Int
ASSUME FlagsAssumption ==
  /\ Forces \subseteq BOOLEAN /\ Atomics \subseteq BOOLEAN /\ Deploys \subseteq BOOLEAN
  /\ WithDb \subseteq BOOLEAN /\ WithTls \subseteq BOOLEAN
ASSUME PlansAssumption == \A plan \in RuntimePlans : plan \subseteq Runtime
ASSUME OverlapAssumption == Overlap \subseteq {"plain", "atomic"}

VARIABLES
  (* the application: files under releases_path and state_path *)
  root,       \* the directory of the application is there
  releases,   \* ids of the release directories on disk
  manifests,  \* those with a deploy manifest
  current,    \* release the symlink points at (it may dangle), or NoRelease
  meta,       \* apps/<domain>.json
  clock,      \* next release id
  (* what belongs to the site elsewhere on the host *)
  database,   \* the database exists
  nginx,      \* vhost: the configuration on disk; loaded: the one nginx runs
  runtime,    \* dir: runtime/<domain> exists; spec: enabled spec files; unit: services running
  cert,       \* the certificate exists
  (* the commands *)
  lock,       \* holder of the flock create-site-<domain>
  pc, loc,
  lastDone    \* history: release of the last create that was recorded

app  == <<root, releases, manifests, current, meta, clock>>
host == <<database, nginx, runtime, cert>>
vars == <<root, releases, manifests, current, meta, clock, database, nginx, runtime, cert,
          lock, pc, loc, lastDone>>

Release   == 1..MaxRelease
NoRelease == 0
Unregistered == [registered |-> FALSE, lastDeploy |-> NoRelease]

\* The flags of a command; without --deploy there is nothing to serve.
Option ==
  {o \in [force : Forces, atomic : Atomics, deploy : Deploys, db : WithDb, tls : WithTls,
          plan : RuntimePlans] : o.deploy \/ (~o.tls /\ o.plan = {})}

NoOption == [force |-> FALSE, atomic |-> FALSE, deploy |-> FALSE, db |-> FALSE, tls |-> FALSE,
             plan |-> {}]

NoSnapshot == [root |-> FALSE, current |-> NoRelease, meta |-> Unregistered, dir |-> FALSE,
               vhost |-> "none"]

\* A command remembers its flags and snapshot, whether it found a certificate, its release, what
\* prune is to remove, the vhost it replaces, the runtimes still to handle, those it enabled, and
\* whether it provisioned the database.  History: "hadDb" says that the database was there when
\* it began, "stuck" what its compensation failed to remove without noticing.
NoLocals == [opt |-> NoOption, snap |-> NoSnapshot, https |-> FALSE, cand |-> NoRelease,
             doomed |-> {}, vhost |-> "none", todo |-> {}, enabled |-> {}, provisioned |-> FALSE,
             hadDb |-> FALSE, stuck |-> {}]

-----------------------------------------------------------------------------
(* Helpers *)

GetCurrent == IF current \in releases THEN current ELSE NoRelease

\* prune_releases: the oldest but current, as many as exceed keep_releases.
PruneSet ==
  LET others == releases \ {GetCurrent}
      excess == Cardinality(releases) - Keep
  IN  IF Keep < 1 THEN {} ELSE {r \in others : Cardinality({s \in others : s < r}) < excess}

\* shutil.rmtree(..., ignore_errors=True): the directory goes, or the call
\* gives up half way and says nothing; the manifest may then be gone or not.
RemoveTree(r) ==
  \E kept \in BOOLEAN :
    /\ releases' = IF kept THEN releases ELSE releases \ {r}
    /\ \/ manifests' = manifests \ {r}
       \/ kept /\ UNCHANGED manifests

\* nginx -t refuses a virtual host whose certificate is not there.
Loadable(vhost) == vhost = "https" => cert

FirstOf(todo) == CHOOSE t \in todo : \A u \in todo : Turn[t] <= Turn[u]

Goto(p, label) == pc' = [pc EXCEPT ![p] = label]

\* Mutant of Finish: the lock stays with the command that is over.
FinishHoldingLock(p) ==
  /\ Goto(p, "idle")
  /\ loc' = [loc EXCEPT ![p] = NoLocals]
  /\ UNCHANGED lock

Finish(p) ==
  /\ lock' = IF lock = p THEN NoCreator ELSE lock
  /\ Goto(p, "idle")
  /\ loc' = [loc EXCEPT ![p] = NoLocals]

\* A caught error: the `with CommandLock` block is left, then --atomic compensates.
Raise(p) ==
  IF loc[p].opt.atomic
  THEN /\ lock' = NoCreator
       /\ Goto(p, "undoruntimes")
       /\ loc' = [loc EXCEPT ![p].todo = loc[p].enabled]
  ELSE Finish(p)

AfterInit(o) == IF o.db THEN "provision" ELSE IF o.deploy THEN "prepare" ELSE "end"
AfterDb(o)   == IF o.deploy THEN "prepare" ELSE "end"
AfterNginx(o) == IF o.plan # {} THEN "runtimes" ELSE IF o.tls THEN "issue" ELSE "save"
AfterRuntimes(o) == IF o.tls THEN "issue" ELSE "save"

-----------------------------------------------------------------------------
(* Before the lock *)

\* A command starts; Overlap says which may do so while another is at work.
Begin(p, atomic) ==
  /\ pc[p] = "idle"
  /\ \A q \in Creators : pc[q] = "idle" \/
       /\ (IF atomic THEN "atomic" ELSE "plain") \in Overlap
       /\ (IF loc[q].opt.atomic THEN "atomic" ELSE "plain") \in Overlap
  /\ loc' = [loc EXCEPT ![p].opt.atomic = atomic]
  /\ Goto(p, "snapshot")
  /\ UNCHANGED <<app, host, lock, lastDone>>

\* _capture_atomic_snapshot and capture_nginx_site_snapshot, with --atomic only,
\* and the look at the certificate.
Capture(p) ==
  /\ pc[p] = "snapshot"
  /\ loc' = [loc EXCEPT
       ![p].snap = IF loc[p].opt.atomic
                   THEN [root |-> root, current |-> GetCurrent, meta |-> meta,
                         dir |-> runtime.dir, vhost |-> nginx.vhost]
                   ELSE NoSnapshot,
       ![p].https = cert,
       ![p].hadDb = loc[p].opt.atomic /\ database]
  /\ Goto(p, "lock")
  /\ UNCHANGED <<app, host, lock, lastDone>>

\* The other flags are read under the lock only: they are chosen here, so that
\* the commands that wait look alike.
Lock(p, o) ==
  /\ pc[p] = "lock"
  /\ lock = NoCreator
  /\ lock' = p
  /\ o.atomic = loc[p].opt.atomic
  /\ loc' = [loc EXCEPT ![p].opt = o]
  /\ Goto(p, "init")
  /\ UNCHANGED <<app, host, lastDone>>

\* CommandLockError: nothing was done, nothing is undone.
Refused(p) ==
  /\ pc[p] = "lock"
  /\ lock # NoCreator
  /\ Finish(p)
  /\ UNCHANGED <<app, host, lastDone>>

-----------------------------------------------------------------------------
(* Under the lock *)

\* Mutant of Initialize: --force does not preserve what was recorded.
InitializeAfresh(p) ==
  /\ pc[p] = "init"
  /\ ~meta.registered \/ loc[p].opt.force
  /\ root' = TRUE
  /\ meta' = [registered |-> TRUE, lastDeploy |-> NoRelease]
  /\ Goto(p, AfterInit(loc[p].opt))
  /\ UNCHANGED <<releases, manifests, current, clock, host, lock, loc, lastDone>>

\* _preserved_site_metadata and initialize_app.
Initialize(p) ==
  /\ pc[p] = "init"
  /\ ~meta.registered \/ loc[p].opt.force
  /\ root' = TRUE
  /\ meta' = [registered |-> TRUE, lastDeploy |-> meta.lastDeploy]
  /\ Goto(p, AfterInit(loc[p].opt))
  /\ UNCHANGED <<releases, manifests, current, clock, host, lock, loc, lastDone>>

\* provision_database creates the database or, with --force, adopts it.
Provision(p) ==
  /\ pc[p] = "provision"
  /\ ~database \/ loc[p].opt.force
  /\ database' = TRUE
  /\ loc' = [loc EXCEPT ![p].provisioned = TRUE]
  /\ Goto(p, "recorddb")
  /\ UNCHANGED <<app, nginx, runtime, cert, lock, lastDone>>

\* The server may have created the database when a later statement fails.
ProvisionFails(p) ==
  /\ pc[p] = "provision"
  /\ database' \in {database, TRUE}
  /\ Raise(p)
  /\ UNCHANGED <<app, nginx, runtime, cert, lastDone>>

\* The metadata are loaded and saved with the database.
RecordDb(p) ==
  /\ pc[p] = "recorddb"
  /\ meta.registered
  /\ Goto(p, AfterDb(loc[p].opt))
  /\ UNCHANGED <<app, host, lock, loc, lastDone>>

Prepare(p) ==
  /\ pc[p] = "prepare"
  /\ clock <= MaxRelease
  /\ root' = TRUE
  /\ releases' = releases \cup {clock}
  /\ clock' = clock + 1
  /\ loc' = [loc EXCEPT ![p].cand = clock]
  /\ Goto(p, "build")
  /\ UNCHANGED <<manifests, current, meta, host, lock, lastDone>>

\* Build and pre-activate commands, then activate_release.
Activate(p) ==
  /\ pc[p] = "build"
  /\ loc[p].cand \in releases
  /\ current' = loc[p].cand
  /\ Goto(p, "gates")
  /\ UNCHANGED <<root, releases, manifests, meta, clock, host, lock, loc, lastDone>>

\* Permissions, bootstrap, post-activate commands, health check and verify
\* pass; prune_releases reads the directories and `current` once.
PassGates(p) ==
  /\ pc[p] = "gates"
  /\ loc' = [loc EXCEPT ![p].doomed = PruneSet]
  /\ Goto(p, "prune")
  /\ UNCHANGED <<app, host, lock, lastDone>>

DeleteOldest(p) ==
  /\ pc[p] = "prune"
  /\ \E r \in loc[p].doomed :
       /\ \A s \in loc[p].doomed : r <= s
       /\ RemoveTree(r)
       /\ loc' = [loc EXCEPT ![p].doomed = @ \ {r}]
  /\ UNCHANGED <<root, current, meta, clock, host, lock, pc, lastDone>>

Pruned(p) ==
  /\ pc[p] = "prune"
  /\ loc[p].doomed = {}
  /\ Goto(p, "nginx")
  /\ UNCHANGED <<app, host, lock, loc, lastDone>>

\* apply_nginx_site_config, before the runtimes (with https when a certificate
\* was there from the start) and again once the certificate is issued.  A file
\* that LarOps does not manage is replaced with --force only.
WriteVhost(p) ==
  /\ pc[p] \in {"nginx", "nginxtls"}
  /\ pc[p] = "nginx" => nginx.vhost # "foreign" \/ loc[p].opt.force
  /\ GetCurrent # NoRelease
  /\ loc' = [loc EXCEPT ![p].vhost = nginx.vhost]
  /\ nginx' = [nginx EXCEPT !.vhost = IF pc[p] = "nginxtls" \/ loc[p].https
                                      THEN "https" ELSE "http"]
  /\ Goto(p, IF pc[p] = "nginx" THEN "reload" ELSE "reloadtls")
  /\ UNCHANGED <<app, database, runtime, cert, lock, lastDone>>

AfterReload(p) == IF pc[p] = "reload" THEN AfterNginx(loc[p].opt) ELSE "save"

\* Mutant of Reload: whether nginx took the configuration is not heeded.
ReloadUnheeded(p) ==
  /\ pc[p] \in {"reload", "reloadtls"}
  /\ nginx' \in {nginx, [nginx EXCEPT !.loaded = nginx.vhost]}
  /\ loc' = [loc EXCEPT ![p].todo = IF pc[p] = "reload" THEN loc[p].opt.plan ELSE @]
  /\ Goto(p, AfterReload(p))
  /\ UNCHANGED <<app, database, runtime, cert, lock, lastDone>>

\* nginx -t and the reload.
Reload(p) ==
  /\ pc[p] \in {"reload", "reloadtls"}
  /\ Loadable(nginx.vhost)
  /\ nginx' = [nginx EXCEPT !.loaded = nginx.vhost]
  /\ loc' = [loc EXCEPT ![p].todo = IF pc[p] = "reload" THEN loc[p].opt.plan ELSE @]
  /\ Goto(p, AfterReload(p))
  /\ UNCHANGED <<app, database, runtime, cert, lock, lastDone>>

\* On failure the file is put back; nginx goes on with what it has loaded.
ReloadFails(p) ==
  /\ pc[p] \in {"reload", "reloadtls"}
  /\ nginx' = [nginx EXCEPT !.vhost = loc[p].vhost]
  /\ Raise(p)
  /\ UNCHANGED <<app, database, runtime, cert, lastDone>>

\* enable_process of the next runtime: its spec, then its units.  Those enabled
\* are known to the compensation when all of them are.
EnableNext(p) ==
  /\ pc[p] = "runtimes"
  /\ meta.registered /\ GetCurrent # NoRelease
  /\ LET t == FirstOf(loc[p].todo)
     IN  /\ runtime' = [dir |-> TRUE, spec |-> runtime.spec \cup {t}, unit |-> runtime.unit \cup {t}]
         /\ loc' = [loc EXCEPT ![p].todo = @ \ {t},
                               ![p].enabled = IF loc[p].todo = {t} THEN loc[p].opt.plan ELSE @]
         /\ Goto(p, IF loc[p].todo = {t} THEN AfterRuntimes(loc[p].opt) ELSE "runtimes")
  /\ UNCHANGED <<app, database, nginx, cert, lock, lastDone>>

\* systemctl fails: the spec is already written.
EnableFails(p) ==
  /\ pc[p] = "runtimes"
  /\ meta.registered /\ GetCurrent # NoRelease
  /\ runtime' = [runtime EXCEPT !.dir = TRUE, !.spec = @ \cup {FirstOf(loc[p].todo)}]
  /\ Raise(p)
  /\ UNCHANGED <<app, database, nginx, cert, lastDone>>

\* certbot certonly.
Issue(p) ==
  /\ pc[p] = "issue"
  /\ cert' = TRUE
  /\ Goto(p, "nginxtls")
  /\ UNCHANGED <<app, database, nginx, runtime, lock, loc, lastDone>>

SaveDeploy(p) ==
  /\ pc[p] = "save"
  /\ meta.registered
  /\ meta' = [meta EXCEPT !.lastDeploy = loc[p].cand]
  /\ lastDone' = loc[p].cand
  /\ Goto(p, "manifest")
  /\ UNCHANGED <<root, releases, manifests, current, clock, host, lock, loc>>

\* write_release_manifest, the last write.
WriteManifest(p) ==
  /\ pc[p] = "manifest"
  /\ manifests' = manifests \cup ({loc[p].cand} \cap releases)
  /\ Finish(p)
  /\ UNCHANGED <<root, releases, current, meta, clock, host, lastDone>>

\* A create without --deploy is over.
Complete(p) ==
  /\ pc[p] = "end"
  /\ Finish(p)
  /\ UNCHANGED <<app, host, lastDone>>

\* A phase that fails: a missing source, an application that is registered
\* already, a command of the release, the health check, a file of nginx that is
\* not ours, certbot; or what another command took away.
PhaseError(p) ==
  /\ \/ pc[p] \in {"init", "build", "gates", "issue"}
     \/ pc[p] = "prepare"
     \/ pc[p] = "nginx" /\ nginx.vhost = "foreign" /\ ~loc[p].opt.force
     \/ pc[p] \in {"recorddb", "runtimes", "save"} /\ ~meta.registered
     \/ pc[p] = "runtimes" /\ GetCurrent = NoRelease
  /\ Raise(p)
  /\ UNCHANGED <<app, host, lastDone>>

-----------------------------------------------------------------------------
(* _atomic_rollback_create_site and what follows it, without the lock; a *)
(* step that fails is reported and the next one is tried.                *)

\* disable_process, which needs the application registered, and the unlink of
\* the spec.  That systemctl disable --now failed is not noticed: the unit goes
\* on running and no spec names it any more.
UndoRuntime(p) ==
  /\ pc[p] = "undoruntimes"
  /\ loc[p].todo # {}
  /\ \E t \in {FirstOf(loc[p].todo)}, stopped \in BOOLEAN :
       LET running == IF stopped \/ ~meta.registered THEN {} ELSE {t}
       IN  /\ runtime' = IF meta.registered
                         THEN [runtime EXCEPT !.spec = @ \ {t}, !.unit = (@ \ {t}) \cup (@ \cap running)]
                         ELSE runtime
           /\ loc' = [loc EXCEPT ![p].todo = @ \ {t}, ![p].stuck = @ \cup running]
  /\ UNCHANGED <<app, database, nginx, cert, lock, pc, lastDone>>

UndoRelease(p) ==
  /\ pc[p] = "undoruntimes"
  /\ loc[p].todo = {}
  /\ RemoveTree(loc[p].cand)
  /\ loc' = [loc EXCEPT ![p].stuck = IF loc[p].cand \in releases' THEN @ \cup {"release"} ELSE @]
  /\ Goto(p, "undocurrent")
  /\ UNCHANGED <<root, current, meta, clock, host, lock, lastDone>>

\* Mutant of UndoCurrent: nothing to go back to, nothing done.
UndoCurrentKeeps(p) ==
  /\ pc[p] = "undocurrent"
  /\ current' = IF loc[p].snap.current \in releases THEN loc[p].snap.current ELSE current
  /\ Goto(p, "undometa")
  /\ UNCHANGED <<root, releases, manifests, meta, clock, host, lock, loc, lastDone>>

\* The release of the snapshot, unless it was pruned; the symlink is removed
\* if there was none.
UndoCurrent(p) ==
  /\ pc[p] = "undocurrent"
  /\ current' = IF loc[p].snap.current = NoRelease THEN NoRelease
                ELSE IF loc[p].snap.current \in releases THEN loc[p].snap.current ELSE current
  /\ Goto(p, "undometa")
  /\ UNCHANGED <<root, releases, manifests, meta, clock, host, lock, loc, lastDone>>

UndoMeta(p) ==
  /\ pc[p] = "undometa"
  /\ meta' = loc[p].snap.meta
  /\ Goto(p, "undodirs")
  /\ UNCHANGED <<root, releases, manifests, current, clock, host, lock, loc, lastDone>>

\* rmtree of the application and of the runtime specs, if they were not there:
\* as with a release, any part of either may stay.
RemoveRoot ==
  \/ root' = FALSE /\ releases' = {} /\ manifests' = {} /\ current' = NoRelease
  \/ /\ root' = root
     /\ releases' \in SUBSET releases
     /\ manifests' \in SUBSET (manifests \cap releases')
     /\ current' \in {current, NoRelease}

RemoveSpecs ==
  \E dir \in {runtime.dir, FALSE}, spec \in SUBSET runtime.spec :
    /\ ~dir => spec = {}
    /\ runtime' = [runtime EXCEPT !.dir = dir, !.spec = spec]

UndoDirs(p) ==
  /\ pc[p] = "undodirs"
  /\ IF loc[p].snap.root THEN UNCHANGED <<root, releases, manifests, current>> ELSE RemoveRoot
  /\ IF loc[p].snap.dir THEN UNCHANGED runtime ELSE RemoveSpecs
  /\ loc' = [loc EXCEPT ![p].stuck = @ \cup (IF root' /\ ~loc[p].snap.root THEN {"root"} ELSE {})
                                     \cup (IF runtime'.dir /\ ~loc[p].snap.dir THEN {"dir"} ELSE {})]
  /\ Goto(p, "undotls")
  /\ UNCHANGED <<meta, clock, database, nginx, cert, lock, lastDone>>

\* certbot delete, if it was asked to issue; it may fail.
UndoTls(p) ==
  /\ pc[p] = "undotls"
  /\ cert' \in IF loc[p].opt.tls THEN {cert, FALSE} ELSE {cert}
  /\ Goto(p, "undovhost")
  /\ UNCHANGED <<app, database, nginx, runtime, lock, loc, lastDone>>

\* restore_nginx_site_snapshot; a reload that fails is ignored.
UndoVhost(p) ==
  /\ pc[p] = "undovhost"
  /\ IF loc[p].opt.deploy
     THEN \E reloads \in {FALSE, Loadable(loc[p].snap.vhost)} :
            nginx' = [vhost |-> loc[p].snap.vhost,
                      loaded |-> IF reloads THEN loc[p].snap.vhost ELSE nginx.loaded]
     ELSE UNCHANGED nginx
  /\ Goto(p, "undodb")
  /\ UNCHANGED <<app, database, runtime, cert, lock, loc, lastDone>>

\* deprovision_database, if this command provisioned it; it may fail.
UndoDb(p) ==
  /\ pc[p] = "undodb"
  /\ database' \in IF loc[p].provisioned THEN {database, FALSE} ELSE {database}
  /\ Goto(p, "undone")
  /\ UNCHANGED <<app, nginx, runtime, cert, lock, loc, lastDone>>

\* The event create.site.failed.
ReportFailure(p) ==
  /\ pc[p] = "undone"
  /\ Finish(p)
  /\ UNCHANGED <<app, host, lastDone>>

-----------------------------------------------------------------------------
(* Others *)

\* Killed, or an error that no clause catches (PermissionServiceError, OSError).
Crash(p) ==
  /\ pc[p] # "idle"
  /\ Finish(p)
  /\ UNCHANGED <<app, host, lastDone>>

\* app rollback, between two creates.
Rollback(r) ==
  /\ \A p \in Creators : pc[p] = "idle"
  /\ r \in releases \ {GetCurrent}
  /\ meta.registered
  /\ current' = r
  /\ UNCHANGED <<root, releases, manifests, meta, clock, host, lock, pc, loc, lastDone>>

-----------------------------------------------------------------------------
\* The host may hold a database of the name and a virtual host from before.
Init ==
  /\ root = FALSE /\ releases = {} /\ manifests = {} /\ current = NoRelease
  /\ meta = Unregistered /\ clock = 1
  /\ database \in BOOLEAN
  /\ \E vhost \in {"none", "foreign"} : nginx = [vhost |-> vhost, loaded |-> vhost]
  /\ runtime = [dir |-> FALSE, spec |-> {}, unit |-> {}]
  /\ cert = FALSE
  /\ lock = NoCreator
  /\ pc = [p \in Creators |-> "idle"]
  /\ loc = [p \in Creators |-> NoLocals]
  /\ lastDone = NoRelease

Continue(p) ==
  \/ Capture(p) \/ (\E o \in Option : Lock(p, o)) \/ Refused(p) \/ Initialize(p)
  \/ Provision(p) \/ ProvisionFails(p) \/ RecordDb(p)
  \/ Prepare(p) \/ Activate(p) \/ PassGates(p) \/ DeleteOldest(p) \/ Pruned(p)
  \/ WriteVhost(p) \/ Reload(p) \/ ReloadFails(p) \/ EnableNext(p) \/ EnableFails(p)
  \/ Issue(p) \/ SaveDeploy(p) \/ WriteManifest(p) \/ Complete(p) \/ PhaseError(p)
  \/ UndoRuntime(p) \/ UndoRelease(p) \/ UndoCurrent(p) \/ UndoMeta(p) \/ UndoDirs(p)
  \/ UndoTls(p) \/ UndoVhost(p) \/ UndoDb(p) \/ ReportFailure(p)

Next ==
  \/ \E p \in Creators : (\E atomic \in Atomics : Begin(p, atomic)) \/ Continue(p) \/ Crash(p)
  \/ \E r \in Release : Rollback(r)

Spec == Init /\ [][Next]_vars

-----------------------------------------------------------------------------
(* Properties *)

AfterActivation == {"gates", "prune", "nginx", "reload", "runtimes", "issue", "nginxtls",
                    "reloadtls", "save", "manifest"}
Critical == {"init", "provision", "recorddb", "prepare", "build", "end"} \cup AfterActivation
Undoing  == {"undoruntimes", "undocurrent", "undometa", "undodirs", "undotls", "undovhost",
             "undodb", "undone"}
Vhost == {"none", "foreign", "http", "https"}

\* Every variable has its type, and the lock is held in the locked phases only.
TypeOK ==
  /\ releases \subseteq Release /\ manifests \subseteq releases
  /\ current \in Release \cup {NoRelease} /\ (releases # {} => root)
  /\ meta \in [registered : BOOLEAN, lastDeploy : Release \cup {NoRelease}]
  /\ clock \in 1..(MaxRelease + 1) /\ \A r \in releases : r < clock
  /\ database \in BOOLEAN /\ cert \in BOOLEAN
  /\ nginx \in [vhost : Vhost, loaded : Vhost]
  /\ runtime \in [dir : BOOLEAN, spec : SUBSET Runtime, unit : SUBSET Runtime]
  /\ runtime.spec # {} => runtime.dir
  /\ pc \in [Creators -> {"idle", "snapshot", "lock"} \cup Critical \cup Undoing]
  /\ \A p \in Creators : pc[p] \in Critical <=> lock = p
  /\ \A p \in Creators : lock = p => loc[p].opt \in Option

\* When a create makes its last write the site is whole: its release is live
\* and recorded, nginx runs the configuration that is on disk, with https when
\* a certificate was asked for, and the runtimes asked for are enabled and
\* started.  It holds whatever earlier creates left behind where they failed.
CompletedServes ==
  \A p \in Creators : pc[p] = "manifest" =>
    /\ current = loc[p].cand /\ current \in releases
    /\ meta = [registered |-> TRUE, lastDeploy |-> loc[p].cand]
    /\ nginx.loaded = nginx.vhost /\ nginx.vhost \in {"http", "https"} /\ Loadable(nginx.vhost)
    /\ loc[p].opt.tls => nginx.vhost = "https"
    /\ loc[p].opt.plan \subseteq runtime.spec \cap runtime.unit

\* A site whose create was recorded stays registered with that record: no
\* create that fails, is killed, is forced or is compensated takes it away.
LastDeployKept == lastDone # NoRelease => meta.registered /\ meta.lastDeploy = lastDone

\* When a compensation is over, what the completed steps of its create did to
\* the application and to nginx is undone, wherever the create failed: the
\* metadata, the virtual host and the symlink are as before (the symlink as
\* long as its release was not pruned), its release, the directories it made
\* and the units it enabled are gone, and no spec of them is left.  Exempt is
\* what a rmtree or a systemctl disable left behind unheard, which the code
\* reports as done: that release, directory or unit, and nothing else.
UndoRestores ==
  \A p \in Creators : pc[p] = "undone" =>
    LET snap == loc[p].snap  stuck == loc[p].stuck
    IN  /\ meta = snap.meta
        /\ root # snap.root => root /\ "root" \in stuck
        /\ runtime.dir => snap.dir \/ "dir" \in stuck
        /\ loc[p].opt.deploy => nginx.vhost = snap.vhost
        /\ loc[p].cand \in releases => "release" \in stuck
        /\ snap.current = NoRelease \/ snap.current \in releases => current = snap.current
        /\ loc[p].enabled \cap runtime.spec = {}
        /\ loc[p].enabled \cap runtime.unit \subseteq stuck
        /\ loc[p].provisioned \/ ~loc[p].hadDb \/ database

=============================================================================
