# LarOps in TLA+

LarOps is a command line tool which operates Laravel sites on one host. It has
no server of its own: every command is a process that locks something, reads
and writes files, runs programs (composer, php, systemctl, mysqldump, aws) and
ends. What makes it hard is that the processes share files: two operators, the
timers, the daemons which systemd restarts, and commands that die in the middle.
This directory holds the TLA+ model of that: who reads and writes which file, in
which order, under which lock, and what survives a kill.

## Inventory

| component | state | operations | talks to | what is hard |
|---|---|---|---|---|
| `app` commands | `releases/`, `current`, release manifests, `apps/<domain>.json` | create, deploy, refresh, rollback, bootstrap | nginx, workers, the lock `app-<domain>` | reads before the lock, stale metadata, automatic restore, pruning, kills |
| `create site` | all of the above and database, runtimes, certificate | provision, deploy, compensate | everything, under the lock `create-site-<domain>` | partial failure and what the compensation may undo; another lock than `app` |
| runtime processes | `runtime/<domain>/<type>.json`, systemd units | enable, disable, restart, reconcile, terminate, status, run-once | systemd | spec and units disagree; restart limits and cooldown |
| site delete/restore | checkpoint archives | checkpoint, purge, restore | all files of a site | one step of several failing; what a restore overwrites |
| events and Telegram | `events.jsonl`, the notifier's offset file | emit, dispatch | every command emits; Telegram | rotation, retries, crash between send and save, two dispatchers |
| database backups | dump files, manifests, credential file, temporary databases | provision, credential set, backup, prune, restore, verify, restore-verify | mysqldump/pg_dump, mysql/psql, the lock of each family of commands | partial files, names by the second, retention, a dump read while it is written |
| offsite copies | encrypted dump and its manifest beside the dump, objects in a bucket | upload, expire, status, restore-verify | openssl, aws s3 | object and manifest in two steps, age retention, uploads under two locks |
| nginx sites and hardening | virtual host, http file and snippet of the limits | app deploy, create site, ssl issue, secure nginx | nginx -t, systemctl reload, four locks | one configuration that several commands test; snapshots that are put back |
| service watchdog | last status and last restart of each service | service run | systemctl, events | restart cooldown; the state file at the end only, the events after the lock |
| log scanner, app probe | offset, inode and recent hits; last status | scan run, app run | nginx' log, events | rotation during a run, batches, alert transitions |
| file integrity | baseline | init, run | events | init and run under different locks; files that change while they are hashed |
| timers of LarOps | unit files, links, running units | enable, disable, restart | systemctl | several calls, of which some are not looked at; enable and disable under different locks |
| TLS certificates | certificate | issue, renew, check | certbot | a certificate that the metadata promise and nobody issued |
| doctor, metrics, security report, stack, log shipping, configuration, secrets | unit and configuration files | status, report, install | apt, systemd | one file and one command each |

Every command is a process. Processes interact through files, through `flock`
(taken with `LOCK_NB`: a busy lock ends the command), and through systemd,
nginx and Telegram. There are no callbacks and no threads; a "step" of the
models is the piece of a command between two points where another process, a
kill or a failing program can be seen.

What makes each component correct:

- app commands: `current` never dangles; what a command checks and records is
  what is live; a failed gate restores what was live; records are not lost;
- create site: a create that completes leaves a whole site; a create that fails
  takes back what it did, and nothing else;
- runtime processes: restarts stay within the policy, and a process that is down
  comes back;
- Telegram: every alert arrives, and repeats are bounded by what was cut short;
- site delete: a checkpoint that was taken can be restored;
- database, offsite: retention never removes the last good copy; a failed backup
  is not taken for a good one; a verification touches nothing but its own
  temporary database;
- watchdog, scanner, probe, file integrity: what a state file holds, so that no
  later run tells of it, was told; restarts keep their cooldown; no line counts
  twice or not at all;
- timers: a command that says it is done has left what it says;
- nginx: what is on disk can be loaded at every moment, since every command tests
  all of it.

## Modules

| module | models | against |
|---|---|---|
| `ReleaseStore` | what the releases directory and `current` promise | abstract |
| `ReleaseLifecycle` | app create, deploy, refresh, rollback, bootstrap; the queue worker | `commands/app.py`, `services/app_lifecycle.py`, `services/release_service.py` |
| `MCReleaseLifecycle` | symmetry of the processes, for TLC | |
| `ReleaseLifecycle_proofs` | the theorems about `ReleaseLifecycle` | |
| `CreateSite` | create site and its compensation | `commands/create.py`, `services/nginx_site_service.py`, `services/db_service.py` |
| `MCCreateSite` | symmetry of the creates, for TLC | |
| `CreateSite_proofs` | the theorems about `CreateSite` | |
| `RuntimeProcess` | one worker, scheduler or horizon with its spec and units | `services/runtime_process.py`, `commands/worker.py`, `commands/create.py` |
| `RuntimeProcess_proofs` | the theorems about `RuntimeProcess` | |
| `AlertDelivery` | each alert of the event stream is delivered | abstract |
| `TelegramAdapter` | the event stream, dispatchers, their state file | `services/telegram_adapter.py`, `core/events.py` |
| `TelegramAdapter_proofs` | the theorems about `TelegramAdapter` | |
| `SiteDelete` | site delete and site restore | `services/site_delete.py`, `commands/site.py` |
| `SiteDelete_proofs` | the theorems about `SiteDelete` | |
| `DbBackups` | the database of a site, its dumps and everything that reads them | `commands/db.py`, `services/db_service.py` |
| `DbOffsite` | the copies of the dumps in a bucket; extends `DbBackups` | `services/db_offsite_service.py`, `commands/db.py` |
| `DbOffsite_proofs` | the theorems about `DbBackups` and `DbOffsite` | |
| `MonitorHost` | what the modules below have in common: processes, locks, kills, time | `core/locks.py` |
| `ServiceWatch` | monitor service run | `services/monitor_service_watch.py`, `commands/monitor.py` |
| `AppMonitor` | monitor app run | `services/monitor_app_service.py`, `commands/monitor.py` |
| `LogScan` | monitor scan run and the log it reads | `services/monitor_scan_service.py`, `commands/monitor.py` |
| `FileIntegrity` | monitor fim init and run | `services/monitor_fim_service.py`, `commands/monitor.py` |
| `SystemdTimers` | enable, disable and restart of LarOps' own units | `services/monitor_systemd.py`, `db_systemd.py`, `doctor_systemd.py`, `notify_systemd.py`, `ssl_auto_renew.py` |
| `NginxConfig` | the files nginx loads and who writes them | `services/nginx_site_service.py`, `services/secure_service.py`, `commands/ssl.py` |
| `NginxConfig_proofs` | the theorem about `NginxConfig` | |
| `Monitors` | composes the six above; a behaviour is about one of them | |
| `Monitors_proofs` | the theorems about `ServiceWatch`, `AppMonitor`, `LogScan`, `FileIntegrity`, `SystemdTimers` and `NginxConfig`, of the specification of `Monitors` | |
| `MCDbOffsite`, `MCMonitors`, `MCSiteDelete`, `MCTelegramAdapter` | symmetries and, for the database, the plans, for TLC | |

### ReleaseLifecycle

State. `releases` is the set of directories under `releases/`; ids are times in
the code and numbers here, handed out by `clock`. `current` is the symlink, which
may dangle: `GetCurrent` reads it as `get_current_release` does. `manifest` is the
status in `.larops-release.json` of each release, `meta` the file
`apps/<domain>.json` with the records the commands write, `lock` the flock
`app-<domain>`. `worker` is the release whose code the queue worker has loaded and
`asked` the pending `queue:restart`. Each process has a `pc`, named after the phase
it is in, and `loc`, what it read and will use later: that is where stale values
live. `live` is history: what was live when the holder took the lock. `deleted`, in
`loc`, is what a prune has reported as deleted so far.

Actions. A deploy is `DeployLock`, `Prepare`, `PassPhase` (build, pre-activate),
`Activate`, `PassPhase` (permissions, nginx, post-activate, health, verify),
`QueueRestart`, `RestartEnabled`, `ListDoomed`, `DeleteOldest` for each release,
`SaveDeploy`, `WriteDeployed`. A phase may end in `PhaseError` or, at a gate, in
`RestorePrevious` and `Discard`; the manifest of a failed deploy is written by
`WriteFailed` when the lock is free, as in the code. A rollback is `ResolveTarget`
and `ReadCurrent`, both before the lock, `RollbackLock`, then the same phases from
`Activate` on. `Crash` is a kill anywhere. `StartWorker` is systemd starting the
worker whenever it likes.

A release is removed by rmtree with `ignore_errors=True`, in `Discard` and in
`DeleteOldest`: `RemoveTree` says that it goes, or stays with what could not be
removed, while the command reports it as deleted and goes on. `DeployPrunes` therefore
speaks of what a prune has not reported as deleted: no more releases than are to be kept,
the new one among them, and what it has reported is older than all the others. A directory that stayed is listed, counted and doomed again
by the next deploy.

Left out: what a phase does inside the release directory, `.env` and APP_KEY, a
copy that fails half way (it is `Prepare` followed by `Crash`), JSON files that are
torn (each write is one step).

`ReleaseStore` has three steps: add a newest release, switch to one that is on
disk, drop one that is not live. `ReleaseLifecycle` implements it with the identity
mapping: `StoreSpec` is checked by `release_store_refined` and proved.

### CreateSite

State. The application as above, `root` (its directory), and what the site has
elsewhere: `database`, `nginx` (the virtual host on disk, and the configuration
that nginx has loaded), `runtime` (the specs, whether their directory exists, the
services that run) and `cert`. `lock` is `create-site-<domain>`, which is not the lock
of the app commands.

Actions. `Capture` takes the snapshot and looks for a certificate before `Lock` or
`Refused`; then `Initialize`, `Provision`, `RecordDb`, `Prepare`, `Activate`, `PassGates`,
`DeleteOldest`, `WriteVhost`, `Reload`, `EnableNext` for each runtime, `Issue`,
`WriteVhost` and `Reload` again, `SaveDeploy`, `WriteManifest`. `PhaseError`,
`ProvisionFails`, `ReloadFails` and `EnableFails` are what a step that fails leaves
behind. With `--atomic`, `UndoRuntime` to `UndoDb` follow, one per step of
`_atomic_rollback_create_site` and of the except clause, when the lock is free. Its
failures that nobody looks at are in it: `RemoveTree`, `RemoveRoot` and `RemoveSpecs` are
rmtree with `ignore_errors=True`, which may leave a release, the root or the specs, and
`systemctl disable --now` has `check=False`, so that `UndoRuntime` may leave a service
enabled of which the spec is gone. `stuck` is history: what stayed in this way.
`UndoRestores` exempts what is in `stuck`, and nothing else.
Flags are chosen when the lock is taken, since nothing reads them before, except
`--atomic`, which decides whether there is a snapshot.

Left out: cloning the source, the `.env` file, the database record in the metadata
(nothing here decides by it), bootstrap commands, smoke checks, which only warn.
The app commands run between two creates (`Rollback`); beside one they are not
composed yet.

### SiteDelete

State. `site` gives the content of each part (`root`, `metadata`, `runtime`,
`secrets`), `Absent`, or `Torn`: a directory of which only some is there, a file that
was emptied and not yet written. `unit` and `running` are the unit file and the
service of one runtime process. `archives` are the checkpoint files: `"broken"`, which a
kill leaves while it is written and no restore accepts; `"cut"`, a valid archive of the
first parts of the site; `"whole"`. `wanted` is history: the site as it was last deployed,
enabled or chosen to be restored, and nothing once it was given up, with
`--no-checkpoint` or as follows.

An exception between two members (a file that vanished, Ctrl-C) ends a checkpoint, and
its `with` block closes the gzip: `CutArchive`. A restore cannot tell such an archive from
a whole one (`Extract`), removes the site and puts back the part. If the site is in no
other archive it is lost, so that `Recoverable` cannot hold there: `Chosen` takes the
operator who restores it, with `--force`, to have given the site up. A cut archive whose
site is archived elsewhere, or which holds all but the secrets, exempts nothing.

`secrets` are the two files of `_secret_files`, `<domain>.cnf` and `<domain>.pgpass`. The
file `<domain>.txt`, in which create site writes the password in plain text, is not among
them: a delete leaves it, and a restore leaves whatever was in it. Nothing here touches
it, so that it is no part of the model; `DeletedWholly` and `RestoresWhole` do not speak
of it.

Actions. A delete is `BeginDelete`, `OpenArchive`, `CloseArchive` (or `CutArchive`), `StopRuntime` and
`WriteDisabled` or `NoRuntime`, `UnlinkUnit`, then `RemovePart` for each part in the
order of `purge_site`. A restore is `BeginRestore`, `Extract` (or `ExtractFails`),
`RemovePart` in its own order, `Cleared`, which chooses its flags where the code first
reads them (nothing before depends on them, and choosing them there spares states), `StartCopy` and `EndCopy` for each part, then for an
enabled spec `OpenSpec`, `WriteSpec`, `StartService`. A directory goes in two steps, so
that a kill leaves it torn; `RemoveInVain` is `rmtree(ignore_errors=True)` that gives
up on the root (the other directory holds one spec file, which nobody writes in between). `StartFails`, `BrokenSpec` and `CopyRefused` are the errors. `Deploy` and
`EnableWorker` stand for all that happens between two of these commands.

Left out: the numbered units of a worker with replicas, a deploy at the same time
(it has another lock), an error of `disable_process`, which inside a purge only a
command under another lock can cause.

### RuntimeProcess

State. `spec` is `runtime/<domain>/<kind>.json`, with the history of restarts and the
cooldown; `unit` the state of each systemd service; one process for each of the
three locks under which commands touch a spec: `"own"` (`worker-<domain>` and the
like), `"site"` (`create-site-<domain>`) and `"app"` (the refresh of a deploy). Times
are kept as ages and remainders, which `Tick` moves on, so that behaviours need no
last moment. `restarts` and `mishaps` are history.

Actions. One for each command up to its first write, and one for each call of
systemctl: `Enable`, `WriteUnits`, `EnableService`; `Disable`, `DisableService`,
`WriteDisabled`; `Reconcile`, `LookAtService`, `Looked`, `CheckPolicy`, `RestartService`,
`RecordRestart`; `Restart`, `Terminate`, `SaveTerminated`, `RunOnce`, `Refresh`.
`CheckPolicy` takes the time once, and `RecordRestart` uses it after the calls, as
`restart_process` does.
`Recent` and `Older` cut the history where `restart_process` filters it: its entries are
in order (`Proper`, proved), so the recent ones are its tail.

Left out: the text of the units, counters that nothing reads,
`systemd.manage: false`; the application is registered and has a release.

### TelegramAdapter

State. `file`, `inode` and `mtime` are the stream `events.jsonl`; `state` the offset
file with the ids that were sent, `torn` whether its last writer was interrupted;
`loc` what a dispatch loaded and is about to save; `times` how often each event
reached the chat. `emptied` and `outgrown` are history: when the stream was last
emptied in place, and whether it then grew past the size that some dispatcher knew
before that dispatcher looked, which is the one truncation `dispatch_once` cannot see.

Actions. `Load`, `Stat`, `Read`, then `Skip` or `Send` for each event, `SaveBegin`,
`SaveEnd`: the look at the file, the reading and the saving are apart, so that
rotation, other dispatchers and kills come in between. `Rotate` renames or
truncates. `AlertDelivery`, the abstract promise, is met through
`delivered <- {e : times[e] > 0}`.

Left out: reading an environment, formatting, a line longer than the write buffer,
which would be appended in two parts.

### DbBackups and DbOffsite

State. `live` is what the application's database holds, a version of the data, or
`Torn` while a load has replaced some tables only; `dump` and `manifest` are the files
of each second, since a dump is named after the second it was asked for; a dump that
was cut short is `Cut`. `temps` are the temporary databases with who created them, and
`credential` the password file, which is emptied before it is written. `lock` has one
entry per family of commands: backup, upload, restore and so on do not keep each other
out, and `verify` takes none. In the bucket of `DbOffsite` every dump has two keys,
`"object"` and `"manifest"`; `enc` are the encrypted file and the manifest beside the
dump, and an encryption is a number, because openssl salts: its hash matches no other
encryption of the same dump. `completed`, `disorder`, `uploaded` and `reuploaded` are
history: the first success of each kind, a backup that began under a name which was not
the newest, a dump uploaded over an upload of itself.

Actions. A backup is `NameDump`, before the lock, `LockBackup`, `OpenDump` (the shell
empties the file), `CloseDump` or `DumpFails`, `WriteManifest`, `ListDoomed`,
`DeleteOldest` for each, `Pruned`, and either `Complete` or the upload: `Encrypt`,
`Describe`, `PutObject`, `PutManifest`, `ListExpired`, `DeleteExpired`, `EndUpload`, with
`EncryptFails` and `PutFails`. Restore and the two restore verifications share
`StartLoad`, `EndLoad` and `LoadFails`; around them are `CreateTemp`, `DropTemp`,
`WriteReport`, and for the offsite one `Download` and `CheckDownload`. `verify` is
`BeginVerify`, which reads the manifest, and `HashDump`, which reads the dump.
`LoadsIntoLive` says which database a dump goes to: one of mysqldump `--databases` names
it, whatever the client was told.

Left out: passwords and SQL, the age at which status calls a dump stale, `--force` of
provision, deprovision (in `CreateSite`, as a compensation), the text of reports. A
manifest is written in one step. The bucket is consistent.

### MonitorHost, ServiceWatch, AppMonitor, LogScan, FileIntegrity

A run of a monitor takes its lock, works, saves its state file, gives the lock back and
emits its events last. `MonitorHost` has the processes, the locks, kills and time, and
`subject`: the monitors share neither files nor locks, so that a behaviour of `Monitors`
is about one of them, and their state spaces add up where they would multiply.

`ServiceWatch`: `LoadWatch`, `ProbeService`, `RestartService` when the cooldown is over,
`ProbeAgain`, `SaveWatch`, `EmitWatch`; `unit` is the service, which changes by itself.
`AppMonitor`: `LockApp`, `CheckApp`, `SaveApp`, `EmitApp`; `health` is what the checks
would find. `LogScan`: `LoadScan`, `StatLog`, `ReadLog` (the file is looked at, then
opened), `SaveScan`, `EmitScan`, while nginx writes (`WriteLine`) and logrotate renames,
creates and truncates. `FileIntegrity`: `LockInit` and `LockRun` under two locks,
`HashNext` for each watched file while files change, `Compare`, `SaveBaseline`,
`UnlockRun`, `EmitChange` for each file. A kill may fall anywhere; one that falls into
the writing of a state file leaves text which is no JSON, and an operator removes it.

The history variables say what is excused and no more: `lostNews`, `lostDown`,
`unalerted` and `untold` are set by a kill between a state file and its event, `forgotten`
by one between a restart and its record, `swapped` by a log that was replaced between its
stat and its open. `overlooked` is no kill: the watchdog saves a service as failed and owes
no event, when the service is down as it is first seen, or fails after it was seen
activating, and is not restarted. Two fields of the scan's state are history as well:
`read`, the lines that were read since the file was last lost, and `before`, where the log
began when offset 0 of it was read. With them `CountedAll` says of every line in `read`
that it counts as long as it is not older than the cutoff of the last run, whatever was
rotated or truncated since; and `AllRead` that every line before the offset is in `read`,
unless the log was truncated after its start was read, which the code notices by the size
only.

Left out: the patterns of the scan, hit counts of more than one address, profiles,
several services and checks beside each other, which do not influence one another.

### SystemdTimers

Eight families of units: five timers of monitors and backups, the metrics, the
certificate renewal, and the Telegram daemon. A command is a sequence of calls (write a
unit, relabel, daemon-reload, enable, disable, unlink), and each call is an action.
`disk`, `loaded`, `enabled` and `started` are what is in the unit files, what systemd has
read of them, the link and what the running unit follows. Enable and disable hold
different locks, and the daemon's commands none, so that they overlap; a `"try"` call is
one whose failure the code does not look at. `settled` is what the last command reported
if it had the host to itself and nothing failed.

### NginxConfig

State. `http` and `snippet` are the files that `secure nginx` writes: the zones, and the
limits which name them. `vhost` is the virtual host of a site: whether it is there,
includes the snippet, and names a certificate. `Loads` is what nginx -t says of all three.
`misled` is history: a command took over what another had not proved yet, or was killed
having written what cannot load or while putting back.

Actions. A hardening is `BeginSecure`, `SaveFiles`, `WriteHttp`, `WriteSnippet`,
`InjectInclude`, `TestLimits`, `ReloadLimits`; what fails goes through `RestoreHttp`,
`RestoreSnippet`, `RestoreServer`. `BeginDeploy`, `BeginCreate` and `BeginIssue` lead to
`Capture`, `Render`, `WriteServer`, `TestConfig`, `ReloadConfig`, or `RestoreSite`. The
four kinds of commands hold four locks.

Left out: profiles, `--no-reload`, the layouts of other distributions, paths; the site is
one. A write of a file is one step here, while the order of the files is not.

## Runs

| run | question | bounds |
|---|---|---|
| `release_safety` | Do deploys and rollbacks that overlap, fail and die keep the store, the records and the restores right? | two processes, three releases, keep 2 |
| `release_store_refined` | All commands and a restarting worker: is the store `ReleaseStore`, are records and workers current? | two processes, two releases, keep 1 |
| `release_commands_end` | Does every command end, do the workers catch up? | two processes, two releases |
| `create_site` | Is a created site whole, its record kept, its failure undone but for what could not be removed? | two processes, all flags but a site without database, two releases, keep 1 |
| `site_delete` | Is a site never lost, and is a delete or restore that completes complete, whatever was left behind before? | two operators, two archives, two contents, two mishaps |
| `runtime_policy` | Do the rate limit, the cooldown and the healing hold? | two locks, two replicas, limit 2 |
| `runtime_two_locks` | violation: two locks on one spec lose a restart | two locks |
| `telegram_safety` | Is no alert passed over, with two dispatchers, rotation, refusals and kills? | three events, batch of 2 |
| `telegram_delivers` | Is each alert delivered, and repeated only for a cut? | four events, two cuts |
| `db_backups` | Backups, uploads, restores and verifications side by side: does a good dump stay, are verdicts true, is only the own database dropped? | two processes, four commands; three seconds for backups with uploads, two for all that reads; retain 1, retention one day, two encryptions, one mishap |
| `db_restore_verify` | violation: the verification of a MySQL dump writes the live database | two processes, one second |
| `monitors` | Do the monitors, the timer commands and the commands that write for nginx keep their word, each family by itself? | two processes, one mishap, time 3, cooldown 2; three lines, two log files, batch 2, window 1, threshold 2; two watched files; two sets of options |

Why the bounds are enough. A hazard of the release commands needs one command that
works and one that intrudes, and a third release for prune to remove while two are
wanted; keep 1 is the extreme of the same arithmetic. Of the creates one that fails
and one that completes are enough, and with keep 1 prune removes what a compensation
wants back. A site without a database differs by steps that are passed over. The policy is told apart by a limit of two
restarts, a window of one tick and a cooldown of two: the window ends before the
cooldown, and a restart falls inside, on the edge and outside of both. Of site delete one archive
to restore and one to lose, an old and a new content, and two kills: one of a command
and one of the command that was to repair it. A batch of two
with three or four events makes a dispatch end inside and at the end of the stream.

In `db_backups` retention is 1, so that every backup prunes what the one before it
left; three seconds give an old, a middle and a new dump, and four commands a provision,
two backups and one intruder, which with one mishap is enough for a failed dump in
between. The readers need two dumps only. In `monitors` a second process is what
overlaps, and one mishap the kill. The cooldown of two falls inside the time of three;
three lines over two log files with a batch of two make a run stop before the end of a
file, and a rotation fall before, in and after a run; a threshold of two in a window of
one has a hit age out. Two options tell a unit that follows the new schedule from one
that follows the old.

`CHECK_DEADLOCK` is off in three configurations, `DbBackups`, `DbRestoreVerify` and
`Monitors`: there the commands, time and faults are bounded, and the host stops when they
are used up. In the other runs there is always a command to start, an event of systemd or
a tick.

The two runs which are expected to fail state what a document says; the findings in
`PROJECT.json` quote it.

## Fairness

`Spec` has none. `ReleaseLifecycle!FairSpec` asks that a command that was started goes
on: it never waits for a lock, and the build, the hooks and the health check have a
timeout. The calls of systemctl and artisan `queue:restart` have none
(`release_service.py:533`, `:561`); that they return is assumed. A kill needs no
fairness and may come at any step. A worker that was asked to restart does so: its
job ends by `--timeout`. `RuntimeProcess!FairSpec` asks that time passes, that commands
go on, and, strongly, that somebody reconciles: the timer or the operator comes
back. `TelegramAdapter!FairSpec` asks that the daemon polls again (a loop, under
`Restart=always`) and, strongly, that a message which is tried again and again is
accepted in the end; a message that never can be would block the stream for ever,
which is listed as a hazard. Create site, site delete, the database, the monitors, timers
and nginx have safety properties only and need no fairness: nothing there waits, a command
ends or is killed, and a timer starts the next.

## Proofs

`ReleaseLifecycle_proofs` proves for any number of processes, any number of releases
and any configuration: `TypeOK`, `NoDangling`, `ServesOwnRelease`,
`DeployRestoresLive`, `NoFailedRecorded`, `SavesLoseNothing`, `WorkersRestarted`,
`DeployPrunes`, and that the commands implement `ReleaseStore`. The assumptions are those on the constants,
named in `ReleaseLifecycle`, with the assumption, made by `clock`, that two releases
never get the same id.

The argument. `NoDangling` is not inductive: that the release which a deploy prunes
is not the live one depends on what `doomed` was when it was listed, and on nobody
having switched since. `IInv` says so, in parts:

- `LockInv`: whoever is in a locked phase, and only he, holds the lock;
- `CommandInv`: what a phase says of the command that is in it;
- `IdInv`: ids grow, so that a candidate is none of the older releases;
- `CurrentInv`: where `current` points while the lock is held, that what is doomed is
  on disk and not live, and what a deploy would restore is what was live;
- `RecordInv`: the metadata a deploy loaded are still those on disk until it saves,
  its candidate is nobody else's, and not marked failed.

Each action preserves each part; the theorems follow by the rules for invariance
and for stuttering steps.

`DeployPrunes` counts, and needs more than `IInv`: what a prune dooms are the oldest
releases (`OldestAre`, by the least of a set of numbers, again and again), so that what is
left are the ones to keep and the live one, if that is old (`PruneSetLeaves`). `PruneOf`
follows that through the deletions, one release after the other, of which some may stay on
disk: what is neither doomed nor reported as deleted is never more than is to be kept, and
at the end nothing doomed is left to report.

`DbOffsite_proofs` proves for any number of processes, plans, versions, seconds and
encryptions and for any retention: `OffsiteTypeOK`, `GoodCopyKept`, `VerdictsHonest`,
`DropsOwnOnly` and `OffsiteCopyKept`. The assumptions are the named ones of `DbBackups` and `DbOffsite`, which
say that the constants are what they stand for and that at least one dump is retained.

The argument. What writes dumps does so under the lock `"backup"`, and one at a time: so
the dump that a backup opened is nobody else's until it ends. Unless there was
`disorder`, its name is the last of the names on disk, and with at least one to retain it
is not among the doomed: `Doomed` leaves out whatever has nothing above it. A manifest
that is there describes the dump that is there, because only a whole dump gets one, both
go together, and a dump opened over an older one would be disorder. A completed backup
is therefore good; and the next one deletes only after its own dump is good, so that
some good dump is on disk at every moment. A verification has a verdict about what it
read, not about what is there now, which is why `verify` needs no lock. What is dropped
is what `CreateTemp` made: it refuses a name that exists, the live database always does
when it is asked for, and nobody else creates the same name while it is there.

`OffsiteCopyKept` is the same promise for the remote side, where copies are deleted by
age. Its invariant, `CopyInv`, holds as the property does while no dump was uploaded twice: `OneUpload`, of one dump
there is one upload at a time; `UploadInv`, nothing of its pair is in the bucket before it
puts it there; `FreshInv`, whoever is about to delete has beside that a whole copy of today
which nobody is about to delete, be it his own or that of another upload; `MatchInv`, an object
and its manifest fit each other; `CopyLeft`, a pair is left. The newest pair is then intact
as every pair is.

`NginxConfig_proofs` proves `ConfigLoads` for any number of commands, hardenings, deploys,
creates and issues, killed anywhere. `ConfigLoads` names the three situations it leaves
out; that these are all is what is proved. The argument: of hardenings there is one at a
time, so that what it saved is what it found. An include that stays on disk is firm:
snippet and zones are there, and a hardening under way found both and so puts both back.
Whoever may write or put back an include read it while it was firm, or is misled. The one
include that is not firm is what a hardening injected itself; it goes away with the
files. `NInv` says this phase by phase. A certificate named on disk is there, or its writer
is still testing.

`Monitors_proofs` proves of the whole `Monitors`, for any number of processes, any time,
any files and any options: `RestartsApart`, `SavedTold`, `BaselineKnown`, `TimerSettled`,
`HitsExact`, `ConfigLoads` and `MonitorsTypeOK`. The assumptions are those on the constants. `MonitorsInv` has one part for each of five subjects. For the watchdog the lock
matters: a run that works on the state file is the only one, so that the file still is as
it read it, and the last restart is in the file unless a run is about to save it
(`Recorded`), or one died with it (`forgotten`). That what is saved was told does not need
the lock: the run that saves a change owes its event from that step on, and it pays, or is
killed. `BaselineKnown` holds without any lock between init and run because of what a run
compares with: the baseline as it was when the run began, every hash of which was vouched
for then and stays so (`Vouched`); what differs from it the run owes itself, and what does
not differ is vouched for already, whatever has been written over the baseline meanwhile.
For a timer nothing keeps an enable and a disable apart, and a command may begin with any
half of an earlier one; `TimerInv` therefore speaks of a command only as long as it was
alone and looked at every failure. The calls it has left then tell what it has behind it
(`EnableDone`, `DisableDone`): an enable without a file left to write has written them, a
disable past its stop has the unit stopped. `TimersSettle` follows where the calls run out.
Its lemmas say once, of each list of calls that there can be, what comes next and what is
left (`EnableTails`, `StopTails`, `UnlinkTails`).

For the log scan the part is `ScanInv`. What was counted of a file up to an offset stays
true while the file grows, is renamed or is emptied, because it is said of the file's
identity and not of the path; what is read but not yet saved belongs to the scan that read
it, and a saved state never goes back behind what its hits stand for. `Counted` says it:
whatever is in `read` and not older than the cutoff is among the hits, and what is before
the offset is in `read`. A truncation only makes the second part vacuous. `Covered` and
`Alerts` say what hits at the threshold owe: an alert. `Recent` is a recursive function, so that what it keeps of the hits is settled by
the least index at which it could be wrong, with the well-foundedness of `<` on the
naturals from the library; no other fact about recursion is used.

`ConfigLoads` follows from `NInv` where the behaviour is about nginx, and elsewhere from
nobody writing its files. `MonitorsTypeOK` is not inductive, since what is written comes from what
a run remembers: `TypesInv` adds the types of that for each subject (`WatchLocal`,
`AppLocal`, `FimLocal`, `NginxLocal`; of the timers `TimerInv` knows it, of the scan
`ScanInv`). The attempt showed that the bound on the times of the watchdog was wrong for
`MaxClock = 0`, where the first second is past it; it is corrected.

`SiteDelete_proofs` proves for any number of operators, contents, archives and mishaps:
`TypeOK`, `Recoverable`, `DeletedWholly` and `RestoresWhole`. The assumptions are those on the
constants. `Recoverable` does not say how it is kept: that a site whose files are partly gone
can be restored depends on which archive the purge relies on, and on what the earlier,
interrupted attempts left. `IInv` says it in parts: `LockInv`, whoever is at work holds the
lock; `PhaseInv`, what a delete has handled is gone and what a restore has handled is as it
was archived, whatever half of an earlier attempt it began with; `KeptInv`, the site is
recoverable, and in every phase that changes it a whole archive holds what is wanted. A
kill takes an operator out of any phase, and the archive is still there then. A purge
relies on the archive that it closed itself, which is whole; a restore on the one it
extracted, and if that was cut there is nothing to be kept, or another archive has it.

`TelegramAdapter_proofs` proves for any finite set of events, any number of dispatchers and
any faults: `TypeOK`, `UnreadAhead`, and that the dispatchers implement what `AlertDelivery`
says of safety (`DeliverySafe`). Its premises are the assumptions on the constants; the
one about repeats, `RepeatsBounded`, needs also that there is a single dispatcher and that
`sent_ids` has room for all alerts, as the property itself is about. The argument: `Known`,
what a state remembers of the stream was so once, whence an offset is never past the end
of a stream that was not emptied since; `Covered`, each line before an offset of the current
file is no alert, was delivered, or is in the batch of the dispatch that moved the offset,
save when the stream was outgrown; and `LoneInv`, with nobody else about, an event is sent
once more than dispatches were cut short, and not once more unless its id is among those
which the dispatcher knows as sent: these are distinct, so that none is ever dropped.

`CreateSite_proofs` proves for any commands, releases, plans and options: `TypeOK`,
`CompletedServes`, `LastDeployKept` and `UndoRestores`. It assumes `"atomic" \notin Overlap`:
a create with `--atomic` and another create of the site do not overlap (those without do,
and so does a rollback). The code does not see to that; it is the limit of what is true:
the compensation runs when the lock is free again, and beside another create it takes back
what that one completed (the hazard of `create.py:1530`). The parts of the invariant: `LockInv`; `Alone`, an atomic create is
by itself until it ends; `DeployOf`, `ServeOf` and `UndoOf`, what has been deployed, what is
served and what is undone in each phase; `SnapOf`, the snapshot is what the site was when the
command began. `UndoRestores` follows from the last two, since each step of the compensation
puts back one part or records in `stuck` that it stayed, and no step disturbs a part that
was put back.

`RuntimeProcess_proofs` proves for any number of replicas, any policy and any number of
faults: `TypeOK`, `RestartsLimited`, `CooldownKept` and `EnabledStarted`. It assumes
`OneFamily`: of the commands under the locks `"own"` and `"site"` only one kind is used. With both,
`RestartsLimited` is violated, which `runtime_two_locks` shows. `RestartsLimited` speaks of
the restarts that happened and the code of those it wrote down; what joins the two is
`Counted`: of the restarts of a window all but the newest `mishaps` (one more while a
restart is not yet recorded) have an entry in the history, or in the copy a restart works
on, that is not older. `CoolInv` says that while the last `max_restarts` lie in one window,
what is left of the cooldown and the time since the last are a whole cooldown together.
`TypeInv` holds `Proper`, histories in order with room for one more, `PhaseInv` that what a
disable writes back is what is on disk, and `StartInv` that what an enable has passed is
started. The attempt to prove `TypeOK` showed that its bound on the ages of restarts was false for a cooldown of 1, which
the run does not use: a restart may take longer than the history looks back. It is corrected.

Only model-checked:

- `RuntimeProcess` with both locks, where `runtime_two_locks` shows the limit; atomic creates
  beside other creates are not even checked, since the properties fail there;
- liveness (`CommandsEnd`, `WorkersCatchUp`, `Heals`, and that part of `DeliverySpec`),
  which the prover does not treat.

## What the models show of the code

Apart from the findings, the models reach states that no document speaks of:

- after the automatic restore of a deploy nothing refreshes workers which systemd
  restarted on the candidate: they run code that is no longer on disk;
- a rollback whose gate fails restores what was live before it had the lock;
- the compensation of a create cannot restore a release that its own prune removed
  and leaves `current` dangling; it stops runtimes which the site had before, and
  deletes a certificate it did not issue when `--letsencrypt` was given; of runtimes
  of which one fails to start the others are left running without a spec;
- `rollback --to previous` takes the newest release but the live one, which may be
  one whose build failed: such releases stay on disk until they are pruned;
- a restore without `--restore-secrets` deletes the credentials that are there, even
  without `--force`; a forced one that dies before it has removed the metadata leaves
  a registered site without its directory;
- a purge that dies when the metadata are gone cannot be run again, since the site is
  not registered; only `site restore --force` or a new create takes the rest up;
- the specs in an archive made by a second attempt at a delete are disabled already,
  so that restoring it starts no process;
- a service that has no spec, as after a forced restore of an archive without one, is
  not stopped by a delete, which removes its unit file;
- a restart in which systemctl fails is not counted by the rate limit;
- enable with fewer replicas leaves those beyond running, out of sight of disable;
- a rename of the stream loses what was appended since the last poll; a stream that is
  emptied in place and has outgrown its old size before the next poll is read from the
  middle, and the alerts before are passed over (`outgrown`);
- the compensation of a create drops a database and deletes a certificate which the
  site had before, since neither is told apart from one that the create made; it runs
  when the lock is free again, so that it also removes a site which another create
  completed in between (the hazard of `create.py:1530`, without a property: there is
  nothing that the code keeps);
- two backups asked for in one second, or one that waited for the lock past another,
  write in another order than their names: prune then removes the newer dump
  (`disorder`), and a failed dump counts in the retention like a good one;
- psql goes on after an error and exits with 0, so that a restore of a part is reported
  complete, and so is a verification that counted no table;
- a dump uploaded a second time leaves, when it fails half way, the object of one
  encryption beside the manifest of another, a pair that `offsite status` calls ok; a
  manifest that cannot be uploaded takes the earlier good object with it;
- a service that is "activating" when the watchdog looks counts as healthy; if it fails
  afterwards that is seen by the next run only;
- a service that is down when the watchdog first sees it, or that fails after it was seen
  activating, is saved as failed and never told, unless the watchdog may restart it
  (`overlooked`);
- the removal of a release, a root or the specs that gives up is reported as done; a
  prune may leave more than `keep_releases` directories, and a compensation an enabled
  unit without a spec (`stuck`);
- a checkpoint that an exception ended is an archive like any other, and a restore of it
  puts back a part of the site for the whole;
- the plaintext password file of create site survives delete and restore;
- a log that was truncated and has outgrown the saved offset again is read from the
  middle; one that is swapped between its stat and its open counts twice;
- a Telegram state file that a kill left torn stops every later dispatch until an operator
  removes it;
- a run of a monitor that dies between its state file and its events loses the news for
  good, since the next run finds nothing new;
- enable and disable of a timer hold different locks: beside each other they leave files
  of one and the state of the other, and a disable whose systemctl fails says disabled;
- enabling the Telegram daemon again writes its new unit and does not restart it;
- a hardening that fails takes back files which the virtual host of a deploy includes by
  then, and one that is killed while it puts back leaves what nginx cannot load;
- the profiles laravel, queue and horizon write `ssl: true` into the metadata of a site
  whether it gets a certificate or not; without one each `app deploy` of the site fails at
  nginx -t, and while it tests, the commands of every other site fail as well.

## Not modelled

- doctor, metrics, security report: they read what the others write and report; of what
  they change, a metrics file, nobody reads anything back.
- stack installation, host bootstrap, log shipping: fixed lists of package and systemctl
  calls in one command, whose idempotence is that of the package manager.
- `secure ssh` writes one file that no other command reads, under one lock; `ssl renew` is
  one call of certbot, and `ssl check` reads.
- configuration, command line, shell helpers: parsing and wiring, whose values are the
  constants of the models. Modes, SELinux labels, `.env` and alert secrets: data at the
  file system. Scripts and CI: not part of the program.

## What is left to do

`CreateSite` and `SiteDelete` beside `ReleaseLifecycle` with their three locks
(`create-site-<domain>` keeps no `app` command out), which multiplies three machines of a
million states each and needs a smaller model of each first.
