--------------------------- MODULE CreateSite_proofs ---------------------------
(***************************************************************************)
(* Proofs about CreateSite, for any number of commands, releases, flags    *)
(* and runtime plans, as long as no create with --atomic runs beside       *)
(* another create: the types, that a create which ends has a whole site,   *)
(* that a recorded site stays recorded, and that a compensation undoes     *)
(* what its create did.  IInv is inductive; the properties follow from it. *)
(***************************************************************************)
EXTENDS CreateSite, FiniteSetTheorems, TLAPS

-----------------------------------------------------------------------------
(* The inductive invariant *)

Label == {"idle", "snapshot", "lock"} \cup Critical \cup Undoing

AnyOption == [force : BOOLEAN, atomic : BOOLEAN, deploy : BOOLEAN, db : BOOLEAN, tls : BOOLEAN,
              plan : SUBSET Runtime]
MetaFile == [registered : BOOLEAN, lastDeploy : Release \cup {NoRelease}]
Locals ==
  [opt : AnyOption,
   snap : [root : BOOLEAN, current : Release \cup {NoRelease}, meta : MetaFile, dir : BOOLEAN, vhost : Vhost],
   https : BOOLEAN, cand : Release \cup {NoRelease}, doomed : SUBSET Release, vhost : Vhost,
   todo : SUBSET Runtime, enabled : SUBSET Runtime, provisioned : BOOLEAN,
   hadDb : BOOLEAN, stuck : SUBSET ({"release", "root", "dir"} \cup Runtime)]

AppTypes ==
  /\ root \in BOOLEAN /\ (releases # {} => root)
  /\ releases \subseteq Release /\ manifests \subseteq releases /\ current \in Release \cup {NoRelease}
  /\ meta \in MetaFile
  /\ clock \in 1..(MaxRelease + 1) /\ \A r \in releases : r < clock

HostTypes ==
  /\ database \in BOOLEAN /\ cert \in BOOLEAN
  /\ nginx \in [vhost : Vhost, loaded : Vhost]
  /\ runtime \in [dir : BOOLEAN, spec : SUBSET Runtime, unit : SUBSET Runtime]
  /\ runtime.spec # {} => runtime.dir

ProcessTypes ==
  /\ lock \in Creators \cup {NoCreator}
  /\ pc \in [Creators -> Label]
  /\ loc \in [Creators -> Locals]
  /\ lastDone \in Release \cup {NoRelease}

LockInv ==
  /\ \A p \in Creators : pc[p] \in Critical <=> lock = p
  /\ \A p \in Creators : lock = p => loc[p].opt \in Option

\* A create with --atomic runs beside no other.
Alone == \A p, q \in Creators : p # q /\ pc[p] # "idle" /\ loc[p].opt.atomic => pc[q] = "idle"

\* The phases behind the runtime processes.
Enabled == {"issue", "nginxtls", "reloadtls", "save", "manifest"}

\* What a phase of the deploy can rely on.
DeployOf(p) ==
  /\ pc[p] \in Critical \ {"init"} => meta.registered
  /\ pc[p] \in AfterActivation => current = loc[p].cand /\ current \in releases
  /\ pc[p] = "prune" => loc[p].cand \notin loc[p].doomed
  /\ pc[p] = "manifest" => meta.lastDeploy = loc[p].cand

\* What serves the site: its virtual host and its runtime processes.
ServeOf(p) ==
  /\ pc[p] \in {"reload", "reloadtls"} => nginx.vhost \in {"http", "https"}
  /\ pc[p] \in {"runtimes", "issue", "nginxtls", "save", "manifest"} =>
       nginx.loaded = nginx.vhost /\ nginx.vhost \in {"http", "https"} /\ Loadable(nginx.vhost)
  /\ pc[p] = "reloadtls" \/ (pc[p] \in {"save", "manifest"} /\ loc[p].opt.tls) => nginx.vhost = "https"
  /\ pc[p] = "runtimes" =>
       /\ loc[p].todo # {} /\ loc[p].todo \subseteq loc[p].opt.plan
       /\ loc[p].opt.plan \ loc[p].todo \subseteq runtime.spec \cap runtime.unit
  /\ pc[p] \in Enabled => loc[p].opt.plan \subseteq runtime.spec \cap runtime.unit
  /\ loc[p].enabled # {} => pc[p] \in Enabled \cup Undoing

\* What the compensation has undone so far.
UndoOf(p) ==
  /\ pc[p] \in Undoing => loc[p].opt.atomic
  /\ pc[p] = "undoruntimes" =>
       /\ loc[p].enabled = {} \/ meta.registered
       /\ loc[p].todo \subseteq loc[p].enabled
       /\ (loc[p].enabled \ loc[p].todo) \cap runtime.spec = {}
       /\ (loc[p].enabled \ loc[p].todo) \cap runtime.unit \subseteq loc[p].stuck
  /\ pc[p] \in Undoing \ {"undoruntimes"} =>
       /\ loc[p].cand \in releases => "release" \in loc[p].stuck
       /\ loc[p].enabled \cap runtime.spec = {}
       /\ loc[p].enabled \cap runtime.unit \subseteq loc[p].stuck
  /\ pc[p] \in Undoing \ {"undoruntimes", "undocurrent"} =>
       (loc[p].snap.current \in releases \cup {NoRelease} => current = loc[p].snap.current)
  /\ pc[p] \in Undoing \ {"undoruntimes", "undocurrent", "undometa"} => meta = loc[p].snap.meta
  /\ pc[p] \in {"undotls", "undovhost", "undodb", "undone"} =>
       /\ root # loc[p].snap.root => root /\ "root" \in loc[p].stuck
       /\ runtime.dir => loc[p].snap.dir \/ "dir" \in loc[p].stuck
  /\ pc[p] \in {"undodb", "undone"} /\ loc[p].opt.deploy => nginx.vhost = loc[p].snap.vhost

\* What was there before is there until the compensation takes it away.
SnapOf(p) ==
  loc[p].opt.atomic /\ pc[p] \notin {"idle", "snapshot"} =>
    /\ loc[p].snap.root => root
    /\ ~loc[p].snap.root => loc[p].snap.current = NoRelease
    /\ lastDone # NoRelease /\ pc[p] # "manifest" =>
         loc[p].snap.meta.registered /\ loc[p].snap.meta.lastDeploy = lastDone
    /\ loc[p].hadDb => database \/ (pc[p] = "undone" /\ loc[p].provisioned)


Own(p) == DeployOf(p) /\ ServeOf(p) /\ UndoOf(p) /\ SnapOf(p)

Types == AppTypes /\ HostTypes /\ ProcessTypes

IInv == Types /\ LockInv /\ Alone /\ (\A p \in Creators : Own(p)) /\ LastDeployKept

USE NoCreatorAssumption, BoundsAssumption, FlagsAssumption, PlansAssumption, OverlapAssumption

-----------------------------------------------------------------------------
(* Steps in general *)

\* A command at work is alone with what it works on: the others have not begun to work.
LEMMA OthersWait ==
  ASSUME IInv, NEW p \in Creators, NEW q \in Creators, p # q, pc[q] \in Critical \cup Undoing
  PROVE  /\ pc[p] \in {"idle", "snapshot", "lock"}
         /\ pc[p] # "idle" => ~loc[p].opt.atomic
<1>1. pc[p] \in Label /\ pc[q] # "idle"
  BY DEF IInv, Types, ProcessTypes, Critical, Undoing, AfterActivation
<1>2. pc[p] # "idle" => ~loc[p].opt.atomic
  BY <1>1 DEF IInv, Alone
<1>3. pc[p] \notin Undoing
  BY <1>2 DEF IInv, Own, UndoOf, Undoing
<1>4. pc[p] \notin Critical
  <2>1. CASE pc[q] \in Critical
    BY <2>1 DEF IInv, LockInv
  <2>2. CASE pc[q] \in Undoing
    <3>1. loc[q].opt.atomic
      BY <2>2 DEF IInv, Own, UndoOf
    <3>2. pc[p] = "idle"
      BY <1>1, <3>1 DEF IInv, Alone
    <3> QED BY <3>2 DEF Critical, AfterActivation
  <2> QED BY <2>1, <2>2
<1> QED BY <1>1, <1>2, <1>3, <1>4 DEF Label

\* Of a command that has not begun to work there is little to know.
LEMMA WaitingOwn ==
  ASSUME NEW p \in Creators, pc'[p] \in {"idle", "snapshot", "lock"}, loc'[p].enabled = {},
         pc'[p] # "idle" => ~loc'[p].opt.atomic
  PROVE  Own(p)'
<1>1. /\ pc'[p] \notin Critical \cup Undoing \cup Enabled \cup AfterActivation
      /\ pc'[p] \notin {"reload", "reloadtls", "runtimes", "prune", "undoruntimes", "undotls", "undovhost", "undodb", "undone"}
  BY DEF Critical, Undoing, Enabled, AfterActivation
<1>2. DeployOf(p)' /\ ServeOf(p)' /\ UndoOf(p)' /\ SnapOf(p)'
  BY <1>1 DEF DeployOf, ServeOf, UndoOf, SnapOf, Enabled
<1> QED BY <1>2 DEF Own

\* A step of a command leaves the invariant to that command.
LEMMA StepKept ==
  ASSUME IInv, NEW q \in Creators, pc[q] # "idle",
         AppTypes', HostTypes', lastDone' \in Release \cup {NoRelease}, LastDeployKept',
         pc' \in [Creators -> Label], loc' \in [Creators -> Locals],
         \A p \in Creators \ {q} : pc'[p] = pc[p] /\ loc'[p] = loc[p],
         loc'[q].opt.atomic = loc[q].opt.atomic \/ pc'[q] = "idle",
         \/ lock' = lock /\ (pc'[q] \in Critical <=> pc[q] \in Critical)
         \/ lock' = NoCreator /\ pc[q] \in Critical /\ pc'[q] \notin Critical
         \/ lock' = q /\ lock = NoCreator /\ pc'[q] \in Critical,
         pc'[q] \in Critical => loc'[q].opt \in Option,
         pc[q] \in Critical \cup Undoing \/ UNCHANGED <<app, host, lastDone>>,
         Own(q)'
  PROVE  IInv'
<1>1. Types'
  <2>1. lock' \in Creators \cup {NoCreator}
    BY DEF IInv, Types, ProcessTypes
  <2> QED BY <2>1 DEF Types, ProcessTypes
<1>2. LockInv'
  BY DEF IInv, LockInv
<1>3. Alone'
  BY DEF IInv, Alone
<1>4. ASSUME NEW p \in Creators, p # q PROVE Own(p)'
  <2>1. pc'[p] = pc[p] /\ loc'[p] = loc[p] /\ Own(p)
    BY <1>4 DEF IInv
  <2>2. CASE pc[q] \in Critical \cup Undoing
    <3>1. pc[p] \in {"idle", "snapshot", "lock"} /\ (pc[p] # "idle" => ~loc[p].opt.atomic)
      BY <1>4, <2>2, OthersWait
    <3>2. loc[p].enabled = {}
      BY <2>1, <3>1 DEF Own, ServeOf, Enabled, Undoing
    <3> QED BY <2>1, <3>1, <3>2, WaitingOwn
  <2>3. CASE UNCHANGED <<app, host, lastDone>>
    <3>1. DeployOf(p)'
      BY <2>1, <2>3 DEF Own, DeployOf, app, host
    <3>2. ServeOf(p)'
      BY <2>1, <2>3 DEF Own, ServeOf, Loadable, app, host
    <3>3. UndoOf(p)'
      BY <2>1, <2>3 DEF Own, UndoOf, app, host
    <3>4. SnapOf(p)'
      BY <2>1, <2>3 DEF Own, SnapOf, app, host
    <3> QED BY <3>1, <3>2, <3>3, <3>4 DEF Own
  <2> QED BY <2>2, <2>3
<1> QED BY <1>1, <1>2, <1>3, <1>4 DEF IInv

\* A step of one process changes its own label and locals only.
LEMMA Moved ==
  ASSUME ProcessTypes, NEW q \in Creators, NEW label \in Label, NEW new \in Locals,
         pc' = [pc EXCEPT ![q] = label], loc' = [loc EXCEPT ![q] = new]
  PROVE  /\ pc' \in [Creators -> Label] /\ pc'[q] = label
         /\ loc' \in [Creators -> Locals] /\ loc'[q] = new
         /\ \A p \in Creators \ {q} : pc'[p] = pc[p] /\ loc'[p] = loc[p]
BY DEF ProcessTypes

\* A command that is not at work remembers nothing.
LEMMA NoLocalsType ==
  NoLocals \in Locals /\ NoLocals.enabled = {} /\ NoSnapshot.current = NoRelease
BY DEF NoLocals, Locals, NoOption, NoSnapshot, AnyOption, MetaFile, Unregistered, NoRelease, Vhost

-----------------------------------------------------------------------------
(* The end of a command *)

\* A command that ends forgets what it knew and lets go of the lock.
LEMMA FinishKept ==
  ASSUME IInv, NEW q \in Creators, pc[q] # "idle", Finish(q), AppTypes', HostTypes',
         UNCHANGED <<meta, lastDone>>,
         pc[q] \in Critical \cup Undoing \/ UNCHANGED <<app, host>>
  PROVE  IInv'
<1>1. /\ pc' = [pc EXCEPT ![q] = "idle"] /\ loc' = [loc EXCEPT ![q] = NoLocals]
      /\ lock' = IF lock = q THEN NoCreator ELSE lock
  BY DEF Finish, Goto
<1>2. "idle" \in Label /\ "idle" \notin Critical
  BY DEF Label, Critical, AfterActivation
<1>3. /\ pc' \in [Creators -> Label] /\ pc'[q] = "idle"
      /\ loc' \in [Creators -> Locals] /\ loc'[q] = NoLocals
      /\ \A p \in Creators \ {q} : pc'[p] = pc[p] /\ loc'[p] = loc[p]
  BY <1>1, <1>2, NoLocalsType, Moved DEF IInv, Types
<1>4. LastDeployKept' /\ lastDone' \in Release \cup {NoRelease}
  BY DEF IInv, LastDeployKept, Types, ProcessTypes
<1>5. Own(q)'
  BY <1>3, NoLocalsType, WaitingOwn
<1>6. \/ lock' = lock /\ (pc'[q] \in Critical <=> pc[q] \in Critical)
      \/ lock' = NoCreator /\ pc[q] \in Critical /\ pc'[q] \notin Critical
  BY <1>1, <1>2, <1>3 DEF IInv, LockInv
<1> QED BY <1>2, <1>3, <1>4, <1>5, <1>6, StepKept

\* A step that fails: with --atomic the compensation begins.
LEMMA RaiseKept ==
  ASSUME IInv, NEW q \in Creators, pc[q] \in Critical \ {"manifest"}, Raise(q), HostTypes',
         UNCHANGED <<app, lastDone>>, database => database'
  PROVE  IInv'
<1> DEFINE new == [loc[q] EXCEPT !.todo = loc[q].enabled]
<1>1. AppTypes' /\ pc[q] # "idle"
  BY DEF IInv, Types, AppTypes, app, Critical, AfterActivation
<1>2. CASE ~loc[q].opt.atomic
  <2>1. Finish(q)
    BY <1>2 DEF Raise
  <2> QED BY <1>1, <2>1, FinishKept DEF app
<1>3. CASE loc[q].opt.atomic
  <2>1. lock' = NoCreator /\ pc' = [pc EXCEPT ![q] = "undoruntimes"] /\ loc' = [loc EXCEPT ![q] = new]
    BY <1>3 DEF Raise, Goto
  <2>2. loc[q] \in Locals
    BY DEF IInv, Types, ProcessTypes
  <2>3. /\ new \in Locals /\ new.opt = loc[q].opt /\ new.snap = loc[q].snap /\ new.hadDb = loc[q].hadDb
        /\ new.enabled = loc[q].enabled /\ new.todo = loc[q].enabled
    BY <2>2 DEF Locals
  <2> HIDE DEF new
  <2>4. "undoruntimes" \in Label /\ "undoruntimes" \notin Critical
    BY DEF Label, Critical, AfterActivation, Undoing
  <2>5. /\ pc' \in [Creators -> Label] /\ pc'[q] = "undoruntimes"
        /\ loc' \in [Creators -> Locals] /\ loc'[q] = new
        /\ \A p \in Creators \ {q} : pc'[p] = pc[p] /\ loc'[p] = loc[p]
    BY <2>1, <2>3, <2>4, Moved DEF IInv, Types
  <2>6. Own(q)
    BY DEF IInv
  <2>7. DeployOf(q)' /\ ServeOf(q)'
    BY <2>5 DEF DeployOf, ServeOf, Critical, AfterActivation, Enabled, Undoing
  <2>8. UndoOf(q)'
    <3>1. new.enabled = {} \/ meta.registered
      BY <2>3, <2>6 DEF Own, ServeOf, DeployOf, Enabled, Critical, AfterActivation, Undoing
    <3> QED BY <1>3, <2>3, <2>5, <3>1 DEF UndoOf, Undoing, app
  <2>9. SnapOf(q)'
    <3>1. /\ loc[q].snap.root => root
          /\ ~loc[q].snap.root => loc[q].snap.current = NoRelease
          /\ lastDone # NoRelease => loc[q].snap.meta.registered /\ loc[q].snap.meta.lastDeploy = lastDone
          /\ loc[q].hadDb => database
      BY <1>3, <2>6 DEF Own, SnapOf, Critical, AfterActivation
    <3> QED BY <2>3, <2>5, <3>1 DEF SnapOf, app
  <2>10. LastDeployKept' /\ lastDone' \in Release \cup {NoRelease}
    BY DEF IInv, LastDeployKept, Types, ProcessTypes, app
  <2> QED BY <1>1, <2>1, <2>3, <2>4, <2>5, <2>7, <2>8, <2>9, <2>10, StepKept DEF Own
<1> QED BY <1>2, <1>3

-----------------------------------------------------------------------------
(* Before the lock *)

\* Option is made of flags that a command can have.
LEMMA OptionType == \A o \in Option : o \in AnyOption
BY DEF Option, AnyOption

\* A create with --atomic begins alone, and no other begins beside it.
LEMMA BeginKept ==
  ASSUME IInv, NEW q \in Creators, NEW atomic \in Atomics, Begin(q, atomic), "atomic" \notin Overlap
  PROVE  IInv'
<1> DEFINE new == [loc[q] EXCEPT !.opt.atomic = atomic]
<1>1. /\ pc[q] = "idle" /\ pc' = [pc EXCEPT ![q] = "snapshot"] /\ loc' = [loc EXCEPT ![q] = new]
      /\ UNCHANGED <<app, host, lock, lastDone>>
      /\ \A p \in Creators : pc[p] = "idle" \/ (~atomic /\ ~loc[p].opt.atomic)
  BY DEF Begin, Goto
<1>2. loc[q] \in Locals /\ atomic \in BOOLEAN
  BY DEF IInv, Types, ProcessTypes
<1>3. new \in Locals /\ new.opt.atomic = atomic /\ new.enabled = loc[q].enabled
  BY <1>2 DEF Locals, AnyOption
<1> HIDE DEF new
<1>4. "snapshot" \in Label /\ "snapshot" \notin Critical /\ "idle" \notin Critical
  BY DEF Label, Critical, AfterActivation
<1>5. /\ pc' \in [Creators -> Label] /\ pc'[q] = "snapshot"
      /\ loc' \in [Creators -> Locals] /\ loc'[q] = new
      /\ \A p \in Creators \ {q} : pc'[p] = pc[p] /\ loc'[p] = loc[p]
  BY <1>1, <1>3, <1>4, Moved DEF IInv, Types
<1>6. Types'
  BY <1>1, <1>5 DEF IInv, Types, AppTypes, HostTypes, ProcessTypes, app, host
<1>7. LockInv'
  BY <1>1, <1>4, <1>5 DEF IInv, LockInv
<1>8. Alone'
  BY <1>1, <1>3, <1>5 DEF IInv, Alone
<1>9. LastDeployKept'
  BY <1>1 DEF IInv, LastDeployKept, app
<1>10. Own(q)'
  <2>1. new.enabled = {}
    BY <1>1, <1>3 DEF IInv, Own, ServeOf, Enabled, Undoing
  <2>2. /\ pc'[q] \notin Critical \cup Undoing \cup Enabled \cup AfterActivation
        /\ pc'[q] \notin {"reload", "reloadtls", "runtimes", "prune", "undoruntimes", "undotls", "undovhost", "undodb", "undone"}
    BY <1>5 DEF Critical, Undoing, Enabled, AfterActivation
  <2>3. DeployOf(q)' /\ ServeOf(q)' /\ UndoOf(q)' /\ SnapOf(q)'
    BY <1>5, <2>1, <2>2 DEF DeployOf, ServeOf, UndoOf, SnapOf, Enabled
  <2> QED BY <2>3 DEF Own
<1>11. ASSUME NEW p \in Creators, p # q PROVE Own(p)'
  <2>1. pc'[p] = pc[p] /\ loc'[p] = loc[p] /\ Own(p)
    BY <1>5, <1>11 DEF IInv
  <2>2. DeployOf(p)' /\ ServeOf(p)'
    BY <1>1, <2>1 DEF Own, DeployOf, ServeOf, Loadable, app, host
  <2>3. UndoOf(p)' /\ SnapOf(p)'
    BY <1>1, <2>1 DEF Own, UndoOf, SnapOf, app, host
  <2> QED BY <2>2, <2>3 DEF Own
<1> QED BY <1>6, <1>7, <1>8, <1>9, <1>10, <1>11 DEF IInv

\* The snapshot is what is there.
LEMMA CaptureKept ==
  ASSUME IInv, NEW q \in Creators, Capture(q)
  PROVE  IInv'
<1> DEFINE snap == IF loc[q].opt.atomic
                   THEN [root |-> root, current |-> GetCurrent, meta |-> meta,
                         dir |-> runtime.dir, vhost |-> nginx.vhost]
                   ELSE NoSnapshot
           hadDb == loc[q].opt.atomic /\ database
           new == [loc[q] EXCEPT !.snap = snap, !.https = cert, !.hadDb = hadDb]
<1>1. /\ pc[q] = "snapshot" /\ pc' = [pc EXCEPT ![q] = "lock"] /\ loc' = [loc EXCEPT ![q] = new]
      /\ UNCHANGED <<app, host, lock, lastDone>>
  BY DEF Capture, Goto
<1>2. /\ loc[q] \in Locals /\ root \in BOOLEAN /\ meta \in MetaFile /\ nginx \in [vhost : Vhost, loaded : Vhost]
      /\ runtime \in [dir : BOOLEAN, spec : SUBSET Runtime, unit : SUBSET Runtime]
      /\ database \in BOOLEAN /\ cert \in BOOLEAN
  BY DEF IInv, Types, AppTypes, HostTypes, ProcessTypes
<1>3. GetCurrent \in Release \cup {NoRelease}
  BY DEF GetCurrent, IInv, Types, AppTypes
<1>0. ~root => GetCurrent = NoRelease
  BY DEF GetCurrent, IInv, Types, AppTypes
<1>4. /\ snap \in [root : BOOLEAN, current : Release \cup {NoRelease}, meta : MetaFile, dir : BOOLEAN, vhost : Vhost]
      /\ hadDb \in BOOLEAN
      /\ loc[q].opt.atomic => /\ snap.root = root /\ snap.meta = meta /\ hadDb = database
                              /\ snap.current = GetCurrent /\ (~root => GetCurrent = NoRelease)
  BY <1>2, <1>3, <1>0 DEF NoSnapshot, MetaFile, Unregistered, NoRelease, Vhost
<1> HIDE DEF snap, hadDb
<1>5. new \in Locals /\ new.opt = loc[q].opt /\ new.enabled = loc[q].enabled /\ new.snap = snap /\ new.hadDb = hadDb
  BY <1>2, <1>4 DEF Locals
<1> HIDE DEF new
<1>6. "lock" \in Label /\ "lock" \notin Critical /\ "snapshot" \notin Critical
  BY DEF Label, Critical, AfterActivation
<1>7. /\ pc' \in [Creators -> Label] /\ pc'[q] = "lock"
      /\ loc' \in [Creators -> Locals] /\ loc'[q] = new
      /\ \A p \in Creators \ {q} : pc'[p] = pc[p] /\ loc'[p] = loc[p]
  BY <1>1, <1>5, <1>6, Moved DEF IInv, Types
<1>8. AppTypes' /\ HostTypes' /\ LastDeployKept' /\ lastDone' \in Release \cup {NoRelease}
  BY <1>1 DEF IInv, Types, AppTypes, HostTypes, ProcessTypes, LastDeployKept, app, host
<1>9. Own(q)'
  <2>1. new.enabled = {}
    BY <1>1, <1>5 DEF IInv, Own, ServeOf, Enabled, Undoing
  <2>2. /\ pc'[q] \notin Critical \cup Undoing \cup Enabled \cup AfterActivation
        /\ pc'[q] \notin {"reload", "reloadtls", "runtimes", "prune", "undoruntimes", "undotls", "undovhost", "undodb", "undone"}
    BY <1>7 DEF Critical, Undoing, Enabled, AfterActivation
  <2>3. DeployOf(q)' /\ ServeOf(q)' /\ UndoOf(q)'
    BY <1>7, <2>1, <2>2 DEF DeployOf, ServeOf, UndoOf, Enabled
  <2>4. lastDone # NoRelease => meta.registered /\ meta.lastDeploy = lastDone
    BY DEF IInv, LastDeployKept
  <2>5. SnapOf(q)'
    BY <1>1, <1>4, <1>5, <1>7, <2>4 DEF SnapOf, app, host
  <2> QED BY <2>3, <2>5 DEF Own
<1> QED BY <1>1, <1>5, <1>6, <1>7, <1>8, <1>9, StepKept

\* The lock is free, and the flags are chosen.
LEMMA LockKept ==
  ASSUME IInv, NEW q \in Creators, NEW o \in Option, Lock(q, o)
  PROVE  IInv'
<1> DEFINE new == [loc[q] EXCEPT !.opt = o]
<1>1. /\ pc[q] = "lock" /\ pc' = [pc EXCEPT ![q] = "init"] /\ loc' = [loc EXCEPT ![q] = new]
      /\ lock = NoCreator /\ lock' = q /\ o.atomic = loc[q].opt.atomic
      /\ UNCHANGED <<app, host, lastDone>>
  BY DEF Lock, Goto
<1>2. loc[q] \in Locals /\ o \in AnyOption
  BY OptionType DEF IInv, Types, ProcessTypes
<1>3. /\ new \in Locals /\ new.opt = o /\ new.enabled = loc[q].enabled /\ new.snap = loc[q].snap
      /\ new.hadDb = loc[q].hadDb
  BY <1>2 DEF Locals
<1> HIDE DEF new
<1>4. "init" \in Label /\ "init" \in Critical
  BY DEF Label, Critical
<1>5. /\ pc' \in [Creators -> Label] /\ pc'[q] = "init"
      /\ loc' \in [Creators -> Locals] /\ loc'[q] = new
      /\ \A p \in Creators \ {q} : pc'[p] = pc[p] /\ loc'[p] = loc[p]
  BY <1>1, <1>3, <1>4, Moved DEF IInv, Types
<1>6. AppTypes' /\ HostTypes' /\ LastDeployKept' /\ lastDone' \in Release \cup {NoRelease}
  BY <1>1 DEF IInv, Types, AppTypes, HostTypes, ProcessTypes, LastDeployKept, app, host
<1>7. Own(q)'
  <2>1. new.enabled = {}
    BY <1>1, <1>3 DEF IInv, Own, ServeOf, Enabled, Undoing
  <2>2. DeployOf(q)' /\ ServeOf(q)' /\ UndoOf(q)'
    BY <1>5, <2>1 DEF DeployOf, ServeOf, UndoOf, Enabled, AfterActivation, Undoing
  <2>3. SnapOf(q)
    BY DEF IInv, Own
  <2>4. SnapOf(q)'
    BY <1>1, <1>3, <1>5, <2>3 DEF SnapOf, app, host
  <2> QED BY <2>2, <2>4 DEF Own
<1> QED BY <1>1, <1>3, <1>4, <1>5, <1>6, <1>7, StepKept

\* app rollback, while no create runs.
LEMMA RollbackKept ==
  ASSUME IInv, NEW r \in Release, Rollback(r)
  PROVE  IInv'
<1>1. /\ \A p \in Creators : pc[p] = "idle"
      /\ UNCHANGED <<root, releases, manifests, meta, clock, host, lock, pc, loc, lastDone>> /\ current' = r
  BY DEF Rollback
<1>2. Types'
  BY <1>1 DEF IInv, Types, AppTypes, HostTypes, ProcessTypes, host
<1>3. LockInv' /\ Alone' /\ LastDeployKept'
  BY <1>1 DEF IInv, LockInv, Alone, LastDeployKept
<1>4. ASSUME NEW p \in Creators PROVE Own(p)'
  <2>1. loc[p].enabled = {}
    BY <1>1 DEF IInv, Own, ServeOf, Enabled, Undoing
  <2> QED BY <1>1, <2>1, WaitingOwn
<1> QED BY <1>2, <1>3, <1>4 DEF IInv

-----------------------------------------------------------------------------
(* Under the lock *)

\* A step that changes its label only.
LEMMA MovedOn ==
  ASSUME ProcessTypes, NEW q \in Creators, NEW label \in Label,
         pc' = [pc EXCEPT ![q] = label], UNCHANGED loc
  PROVE  /\ pc' \in [Creators -> Label] /\ pc'[q] = label
         /\ loc' \in [Creators -> Locals] /\ loc'[q] = loc[q]
         /\ \A p \in Creators \ {q} : pc'[p] = pc[p] /\ loc'[p] = loc[p]
BY DEF ProcessTypes

\* A step under the lock which goes on under the lock.
LEMMA WorkKept ==
  ASSUME IInv, NEW q \in Creators, pc[q] \in Critical, pc'[q] \in Critical,
         AppTypes', HostTypes', lastDone' \in Release \cup {NoRelease}, LastDeployKept',
         pc' \in [Creators -> Label], loc' \in [Creators -> Locals], UNCHANGED lock,
         \A p \in Creators \ {q} : pc'[p] = pc[p] /\ loc'[p] = loc[p],
         loc'[q].opt = loc[q].opt,
         DeployOf(q)', ServeOf(q)', SnapOf(q)'
  PROVE  IInv'
<1>1. UndoOf(q)'
  BY DEF UndoOf, Undoing, Critical, AfterActivation
<1>2. pc[q] # "idle"
  BY DEF Critical, AfterActivation
<1>3. loc[q].opt \in Option
  BY DEF IInv, LockInv
<1> QED BY <1>1, <1>2, <1>3, StepKept DEF Own

\* What is known of a command under the lock.
LEMMA AtWork ==
  ASSUME IInv, NEW q \in Creators
  PROVE  /\ AppTypes /\ HostTypes /\ ProcessTypes /\ LastDeployKept
         /\ loc[q] \in Locals /\ DeployOf(q) /\ ServeOf(q) /\ UndoOf(q) /\ SnapOf(q)
         /\ lastDone \in Release \cup {NoRelease}
BY DEF IInv, Types, ProcessTypes, Own

\* The application is registered, with what was recorded.
LEMMA InitializeKept ==
  ASSUME IInv, NEW q \in Creators, Initialize(q)
  PROVE  IInv'
<1>1. /\ pc[q] = "init" /\ pc' = [pc EXCEPT ![q] = AfterInit(loc[q].opt)] /\ root' = TRUE
      /\ meta' = [registered |-> TRUE, lastDeploy |-> meta.lastDeploy]
      /\ UNCHANGED <<releases, manifests, current, clock, host, lock, loc, lastDone>>
  BY DEF Initialize, Goto
<1>2. AfterInit(loc[q].opt) \in {"provision", "prepare", "end"}
  BY DEF AfterInit
<1>3. AfterInit(loc[q].opt) \in Label
  BY <1>2 DEF Label, Critical
<1>4. /\ pc' \in [Creators -> Label] /\ pc'[q] \in {"provision", "prepare", "end"}
      /\ loc' \in [Creators -> Locals] /\ loc'[q] = loc[q]
      /\ \A p \in Creators \ {q} : pc'[p] = pc[p] /\ loc'[p] = loc[p]
  BY <1>1, <1>2, <1>3, MovedOn, AtWork
<1>5. AppTypes' /\ HostTypes' /\ LastDeployKept' /\ lastDone' \in Release \cup {NoRelease}
  BY <1>1, AtWork DEF AppTypes, HostTypes, LastDeployKept, MetaFile, host
<1>6. DeployOf(q)'
  BY <1>1, <1>4 DEF DeployOf, AfterActivation
<1>7. ServeOf(q)'
  BY <1>1, <1>4, AtWork DEF ServeOf, Enabled, Undoing
<1>8. SnapOf(q)'
  BY <1>1, <1>4, AtWork DEF SnapOf, host
<1>9. pc[q] \in Critical /\ pc'[q] \in Critical
  BY <1>1, <1>4 DEF Critical
<1> QED BY <1>1, <1>4, <1>5, <1>6, <1>7, <1>8, <1>9, WorkKept

\* The database is created or adopted.
LEMMA ProvisionKept ==
  ASSUME IInv, NEW q \in Creators, Provision(q)
  PROVE  IInv'
<1> DEFINE new == [loc[q] EXCEPT !.provisioned = TRUE]
<1>1. /\ pc[q] = "provision" /\ pc' = [pc EXCEPT ![q] = "recorddb"] /\ loc' = [loc EXCEPT ![q] = new]
      /\ database' = TRUE /\ UNCHANGED <<app, nginx, runtime, cert, lock, lastDone>>
  BY DEF Provision, Goto
<1>2. /\ new \in Locals /\ new.opt = loc[q].opt /\ new.enabled = loc[q].enabled
      /\ new.snap = loc[q].snap /\ new.hadDb = loc[q].hadDb
  <2>1. loc[q] \in Locals
    BY AtWork
  <2>2. ASSUME NEW b \in BOOLEAN, NEW l, l = [loc[q] EXCEPT !.provisioned = b]
        PROVE  /\ l \in Locals /\ l.opt = loc[q].opt /\ l.enabled = loc[q].enabled
               /\ l.snap = loc[q].snap /\ l.hadDb = loc[q].hadDb
    BY <2>1, <2>2 DEF Locals
  <2> QED BY <2>2
<1> HIDE DEF new
<1>3. "recorddb" \in Label /\ "recorddb" \in Critical /\ pc[q] \in Critical
  BY <1>1 DEF Label, Critical
<1>4. /\ pc' \in [Creators -> Label] /\ pc'[q] = "recorddb"
      /\ loc' \in [Creators -> Locals] /\ loc'[q] = new
      /\ \A p \in Creators \ {q} : pc'[p] = pc[p] /\ loc'[p] = loc[p]
  BY <1>1, <1>2, <1>3, Moved, AtWork
<1>5. AppTypes' /\ HostTypes' /\ LastDeployKept' /\ lastDone' \in Release \cup {NoRelease}
  BY <1>1, AtWork DEF AppTypes, HostTypes, LastDeployKept, app
<1>6. DeployOf(q)'
  BY <1>1, <1>3, <1>4, AtWork DEF DeployOf, AfterActivation, app
<1>7. ServeOf(q)'
  BY <1>1, <1>2, <1>4, AtWork DEF ServeOf, Enabled, Undoing
<1>8. SnapOf(q)'
  BY <1>1, <1>2, <1>4, AtWork DEF SnapOf, app
<1> QED BY <1>1, <1>2, <1>3, <1>4, <1>5, <1>6, <1>7, <1>8, WorkKept

\* The database is recorded.
LEMMA RecordDbKept ==
  ASSUME IInv, NEW q \in Creators, RecordDb(q)
  PROVE  IInv'
<1>1. /\ pc[q] = "recorddb" /\ pc' = [pc EXCEPT ![q] = AfterDb(loc[q].opt)]
      /\ UNCHANGED <<app, host, lock, loc, lastDone>>
  BY DEF RecordDb, Goto
<1>2. AfterDb(loc[q].opt) \in {"prepare", "end"}
  BY DEF AfterDb
<1>3. AfterDb(loc[q].opt) \in Label
  BY <1>2 DEF Label, Critical
<1>4. /\ pc' \in [Creators -> Label] /\ pc'[q] \in {"prepare", "end"}
      /\ loc' \in [Creators -> Locals] /\ loc'[q] = loc[q]
      /\ \A p \in Creators \ {q} : pc'[p] = pc[p] /\ loc'[p] = loc[p]
  BY <1>1, <1>2, <1>3, MovedOn, AtWork
<1>5. AppTypes' /\ HostTypes' /\ LastDeployKept' /\ lastDone' \in Release \cup {NoRelease}
  BY <1>1, AtWork DEF AppTypes, HostTypes, LastDeployKept, app, host
<1>6. pc[q] \in Critical /\ pc'[q] \in Critical
  BY <1>1, <1>4 DEF Critical
<1>7. DeployOf(q)'
  BY <1>1, <1>4, <1>6, AtWork DEF DeployOf, AfterActivation, app
<1>8. ServeOf(q)'
  BY <1>1, <1>4, AtWork DEF ServeOf, Enabled, Undoing
<1>9. SnapOf(q)'
  BY <1>1, <1>4, AtWork DEF SnapOf, app, host
<1> QED BY <1>1, <1>4, <1>5, <1>6, <1>7, <1>8, <1>9, WorkKept

\* A new release gets an id that no release had.
LEMMA PrepareKept ==
  ASSUME IInv, NEW q \in Creators, Prepare(q)
  PROVE  IInv'
<1> DEFINE new == [loc[q] EXCEPT !.cand = clock]
<1>1. /\ pc[q] = "prepare" /\ pc' = [pc EXCEPT ![q] = "build"] /\ loc' = [loc EXCEPT ![q] = new]
      /\ clock <= MaxRelease /\ root' = TRUE /\ releases' = releases \cup {clock} /\ clock' = clock + 1
      /\ UNCHANGED <<manifests, current, meta, host, lock, lastDone>>
  BY DEF Prepare, Goto
<1>2. clock \in Release /\ clock \in Nat
  BY <1>1, AtWork DEF AppTypes, Release
<1>3. /\ new \in Locals /\ new.opt = loc[q].opt /\ new.enabled = loc[q].enabled
      /\ new.snap = loc[q].snap /\ new.hadDb = loc[q].hadDb
  BY <1>2, AtWork DEF Locals
<1> HIDE DEF new
<1>4. "build" \in Label /\ "build" \in Critical /\ pc[q] \in Critical
  BY <1>1 DEF Label, Critical
<1>5. /\ pc' \in [Creators -> Label] /\ pc'[q] = "build"
      /\ loc' \in [Creators -> Locals] /\ loc'[q] = new
      /\ \A p \in Creators \ {q} : pc'[p] = pc[p] /\ loc'[p] = loc[p]
  BY <1>1, <1>3, <1>4, Moved, AtWork
<1>6. AppTypes'
  <2>1. \A r \in releases : r \in Nat /\ r < clock
    BY AtWork DEF AppTypes, Release
  <2>2. clock' \in 1..(MaxRelease + 1) /\ \A r \in releases' : r < clock'
    BY <1>1, <1>2, <2>1
  <2> QED BY <1>1, <1>2, <2>2, AtWork DEF AppTypes
<1>7. HostTypes' /\ LastDeployKept' /\ lastDone' \in Release \cup {NoRelease}
  BY <1>1, AtWork DEF HostTypes, LastDeployKept, host
<1>8. DeployOf(q)'
  BY <1>1, <1>4, <1>5, AtWork DEF DeployOf, AfterActivation
<1>9. ServeOf(q)'
  BY <1>1, <1>3, <1>5, AtWork DEF ServeOf, Enabled, Undoing
<1>10. SnapOf(q)'
  BY <1>1, <1>3, <1>5, AtWork DEF SnapOf, host
<1> QED BY <1>1, <1>3, <1>4, <1>5, <1>6, <1>7, <1>8, <1>9, <1>10, WorkKept

\* The release is live.
LEMMA ActivateKept ==
  ASSUME IInv, NEW q \in Creators, Activate(q)
  PROVE  IInv'
<1>1. /\ pc[q] = "build" /\ pc' = [pc EXCEPT ![q] = "gates"] /\ loc[q].cand \in releases /\ current' = loc[q].cand
      /\ UNCHANGED <<root, releases, manifests, meta, clock, host, lock, loc, lastDone>>
  BY DEF Activate, Goto
<1>2. "gates" \in Label /\ "gates" \in Critical /\ pc[q] \in Critical
  BY <1>1 DEF Label, Critical, AfterActivation
<1>3. /\ pc' \in [Creators -> Label] /\ pc'[q] = "gates"
      /\ loc' \in [Creators -> Locals] /\ loc'[q] = loc[q]
      /\ \A p \in Creators \ {q} : pc'[p] = pc[p] /\ loc'[p] = loc[p]
  BY <1>1, <1>2, MovedOn, AtWork
<1>4. AppTypes' /\ HostTypes' /\ LastDeployKept' /\ lastDone' \in Release \cup {NoRelease}
  BY <1>1, AtWork DEF AppTypes, HostTypes, LastDeployKept, host
<1>5. DeployOf(q)'
  BY <1>1, <1>2, <1>3, AtWork DEF DeployOf
<1>6. ServeOf(q)'
  BY <1>1, <1>3, AtWork DEF ServeOf, Enabled, Undoing
<1>7. SnapOf(q)'
  BY <1>1, <1>3, AtWork DEF SnapOf, host
<1> QED BY <1>1, <1>2, <1>3, <1>4, <1>5, <1>6, <1>7, WorkKept

\* What is going to be pruned is not what was just activated.
LEMMA PassGatesKept ==
  ASSUME IInv, NEW q \in Creators, PassGates(q)
  PROVE  IInv'
<1> DEFINE new == [loc[q] EXCEPT !.doomed = PruneSet]
<1>1. /\ pc[q] = "gates" /\ pc' = [pc EXCEPT ![q] = "prune"] /\ loc' = [loc EXCEPT ![q] = new]
      /\ UNCHANGED <<app, host, lock, lastDone>>
  BY DEF PassGates, Goto
<1>2. current = loc[q].cand /\ current \in releases
  BY <1>1, AtWork DEF DeployOf, AfterActivation
<1>3. PruneSet \subseteq Release /\ loc[q].cand \notin PruneSet
  BY <1>2, AtWork DEF PruneSet, GetCurrent, AppTypes
<1>4. /\ new \in Locals /\ new.opt = loc[q].opt /\ new.enabled = loc[q].enabled /\ new.cand = loc[q].cand
      /\ new.snap = loc[q].snap /\ new.hadDb = loc[q].hadDb /\ new.doomed = PruneSet
  BY <1>3, AtWork DEF Locals
<1> HIDE DEF new
<1>5. "prune" \in Label /\ "prune" \in Critical /\ pc[q] \in Critical
  BY <1>1 DEF Label, Critical, AfterActivation
<1>6. /\ pc' \in [Creators -> Label] /\ pc'[q] = "prune"
      /\ loc' \in [Creators -> Locals] /\ loc'[q] = new
      /\ \A p \in Creators \ {q} : pc'[p] = pc[p] /\ loc'[p] = loc[p]
  BY <1>1, <1>4, <1>5, Moved, AtWork
<1>7. AppTypes' /\ HostTypes' /\ LastDeployKept' /\ lastDone' \in Release \cup {NoRelease}
  BY <1>1, AtWork DEF AppTypes, HostTypes, LastDeployKept, app, host
<1>8. DeployOf(q)'
  BY <1>1, <1>2, <1>3, <1>4, <1>5, <1>6, AtWork DEF DeployOf, app
<1>9. ServeOf(q)'
  BY <1>1, <1>4, <1>6, AtWork DEF ServeOf, Enabled, Undoing
<1>10. SnapOf(q)'
  BY <1>1, <1>4, <1>6, AtWork DEF SnapOf, app, host
<1> QED BY <1>1, <1>4, <1>5, <1>6, <1>7, <1>8, <1>9, <1>10, WorkKept

\* rmtree removes one release, or none, and its own manifest or none.
LEMMA RemoveTreeOnly ==
  ASSUME NEW r, RemoveTree(r), manifests \subseteq releases
  PROVE  releases' \in {releases, releases \ {r}} /\ manifests' \in SUBSET releases'
BY DEF RemoveTree

\* One release is pruned.
LEMMA DeleteOldestKept ==
  ASSUME IInv, NEW q \in Creators, DeleteOldest(q)
  PROVE  IInv'
<1>1. PICK r \in loc[q].doomed : RemoveTree(r) /\ loc' = [loc EXCEPT ![q].doomed = @ \ {r}]
  BY DEF DeleteOldest
<1>0. releases' \in {releases, releases \ {r}} /\ manifests' \in SUBSET releases'
  BY <1>1, RemoveTreeOnly, AtWork DEF AppTypes
<1> DEFINE new == [loc[q] EXCEPT !.doomed = @ \ {r}]
<1>2. /\ pc[q] = "prune" /\ UNCHANGED <<root, current, meta, clock, host, lock, pc, lastDone>>
      /\ loc' = [loc EXCEPT ![q] = new] /\ pc' = [pc EXCEPT ![q] = "prune"]
  BY <1>1, AtWork DEF DeleteOldest, ProcessTypes
<1>3. /\ new \in Locals /\ new.opt = loc[q].opt /\ new.enabled = loc[q].enabled /\ new.cand = loc[q].cand
      /\ new.snap = loc[q].snap /\ new.hadDb = loc[q].hadDb /\ new.doomed = loc[q].doomed \ {r}
  BY AtWork DEF Locals
<1> HIDE DEF new
<1>4. "prune" \in Label /\ "prune" \in Critical
  BY DEF Label, Critical, AfterActivation
<1>5. /\ pc' \in [Creators -> Label] /\ pc'[q] = "prune"
      /\ loc' \in [Creators -> Locals] /\ loc'[q] = new
      /\ \A p \in Creators \ {q} : pc'[p] = pc[p] /\ loc'[p] = loc[p]
  BY <1>2, <1>3, <1>4, Moved, AtWork
<1>6. AppTypes' /\ HostTypes' /\ LastDeployKept' /\ lastDone' \in Release \cup {NoRelease}
  BY <1>0, <1>2, AtWork DEF AppTypes, HostTypes, LastDeployKept, host
<1>7. DeployOf(q)'
  BY <1>0, <1>1, <1>2, <1>3, <1>4, <1>5, AtWork DEF DeployOf, AfterActivation
<1>8. ServeOf(q)'
  BY <1>2, <1>3, <1>5, AtWork DEF ServeOf, Enabled, Undoing
<1>9. SnapOf(q)'
  BY <1>2, <1>3, <1>5, AtWork DEF SnapOf, host
<1> QED BY <1>2, <1>3, <1>4, <1>5, <1>6, <1>7, <1>8, <1>9, WorkKept

\* Nothing is left to prune.
LEMMA PrunedKept ==
  ASSUME IInv, NEW q \in Creators, Pruned(q)
  PROVE  IInv'
<1>1. /\ pc[q] = "prune" /\ pc' = [pc EXCEPT ![q] = "nginx"]
      /\ UNCHANGED <<app, host, lock, loc, lastDone>>
  BY DEF Pruned, Goto
<1>2. "nginx" \in Label /\ "nginx" \in Critical /\ pc[q] \in Critical
  BY <1>1 DEF Label, Critical, AfterActivation
<1>3. /\ pc' \in [Creators -> Label] /\ pc'[q] = "nginx"
      /\ loc' \in [Creators -> Locals] /\ loc'[q] = loc[q]
      /\ \A p \in Creators \ {q} : pc'[p] = pc[p] /\ loc'[p] = loc[p]
  BY <1>1, <1>2, MovedOn, AtWork
<1>4. AppTypes' /\ HostTypes' /\ LastDeployKept' /\ lastDone' \in Release \cup {NoRelease}
  BY <1>1, AtWork DEF AppTypes, HostTypes, LastDeployKept, app, host
<1>5. DeployOf(q)'
  BY <1>1, <1>2, <1>3, AtWork DEF DeployOf, AfterActivation, app
<1>6. ServeOf(q)'
  BY <1>1, <1>3, AtWork DEF ServeOf, Enabled, Undoing
<1>7. SnapOf(q)'
  BY <1>1, <1>3, AtWork DEF SnapOf, app, host
<1> QED BY <1>1, <1>2, <1>3, <1>4, <1>5, <1>6, <1>7, WorkKept

\* The virtual host is written.
LEMMA WriteVhostKept ==
  ASSUME IInv, NEW q \in Creators, WriteVhost(q)
  PROVE  IInv'
<1> DEFINE new == [loc[q] EXCEPT !.vhost = nginx.vhost]
           label == IF pc[q] = "nginx" THEN "reload" ELSE "reloadtls"
           vhost == IF pc[q] = "nginxtls" \/ loc[q].https THEN "https" ELSE "http"
<1>1. /\ pc[q] \in {"nginx", "nginxtls"} /\ pc' = [pc EXCEPT ![q] = label] /\ loc' = [loc EXCEPT ![q] = new]
      /\ nginx' = [nginx EXCEPT !.vhost = vhost]
      /\ UNCHANGED <<app, database, runtime, cert, lock, lastDone>>
  BY DEF WriteVhost, Goto
<1>2. /\ label \in {"reload", "reloadtls"} /\ vhost \in {"http", "https"}
      /\ label = "reloadtls" => vhost = "https" /\ pc[q] = "nginxtls"
  BY <1>1
<1> HIDE DEF label, vhost
<1>3. /\ new \in Locals /\ new.opt = loc[q].opt /\ new.enabled = loc[q].enabled /\ new.cand = loc[q].cand
      /\ new.snap = loc[q].snap /\ new.hadDb = loc[q].hadDb
  <2>1. nginx.vhost \in Vhost
    BY AtWork DEF HostTypes
  <2> QED BY <2>1, AtWork DEF Locals
<1> HIDE DEF new
<1>4. label \in Label /\ label \in Critical /\ pc[q] \in Critical
  BY <1>1, <1>2 DEF Label, Critical, AfterActivation
<1>5. /\ pc' \in [Creators -> Label] /\ pc'[q] = label
      /\ loc' \in [Creators -> Locals] /\ loc'[q] = new
      /\ \A p \in Creators \ {q} : pc'[p] = pc[p] /\ loc'[p] = loc[p]
  BY <1>1, <1>3, <1>4, Moved, AtWork
<1>6. nginx' \in [vhost : Vhost, loaded : Vhost] /\ nginx'.vhost = vhost
  BY <1>1, <1>2, AtWork DEF HostTypes, Vhost
<1>7. AppTypes' /\ HostTypes' /\ LastDeployKept' /\ lastDone' \in Release \cup {NoRelease}
  BY <1>1, <1>6, AtWork DEF AppTypes, HostTypes, LastDeployKept, app
<1>8. DeployOf(q)'
  BY <1>1, <1>2, <1>3, <1>4, <1>5, AtWork DEF DeployOf, AfterActivation, app
<1>9. ServeOf(q)'
  <2>1. ServeOf(q)
    BY AtWork
  <2>2. loc[q].enabled # {} => label = "reloadtls"
    BY <1>1, <1>2, <2>1 DEF ServeOf, Enabled, Undoing, label
  <2>3. label = "reloadtls" => loc[q].opt.plan \subseteq runtime.spec \cap runtime.unit
    BY <1>2, <2>1 DEF ServeOf, Enabled
  <2>4. pc'[q] \in {"reload", "reloadtls"} /\ nginx'.vhost \in {"http", "https"}
    BY <1>2, <1>5, <1>6
  <2>5. pc'[q] = "reloadtls" => nginx'.vhost = "https"
    BY <1>2, <1>5, <1>6
  <2>6. pc'[q] \in Enabled => pc'[q] = "reloadtls"
    BY <2>4 DEF Enabled
  <2>7. loc'[q].enabled # {} => pc'[q] \in Enabled
    BY <1>3, <1>5, <2>2 DEF Enabled
  <2>8. pc'[q] \in Enabled => loc'[q].opt.plan \subseteq runtime'.spec \cap runtime'.unit
    BY <1>1, <1>3, <1>5, <2>3, <2>6
  <2> QED BY <2>4, <2>5, <2>7, <2>8 DEF ServeOf
<1>10. SnapOf(q)'
  BY <1>1, <1>2, <1>3, <1>5, AtWork DEF SnapOf, app
<1> QED BY <1>1, <1>3, <1>4, <1>5, <1>7, <1>8, <1>9, <1>10, WorkKept

\* nginx runs what is on disk; the runtime processes of the plan come next, if there are any.
LEMMA ReloadKept ==
  ASSUME IInv, NEW q \in Creators, Reload(q)
  PROVE  IInv'
<1> DEFINE todo == IF pc[q] = "reload" THEN loc[q].opt.plan ELSE loc[q].todo
           new == [loc[q] EXCEPT !.todo = todo]
           label == AfterReload(q)
<1>1. /\ pc[q] \in {"reload", "reloadtls"} /\ pc' = [pc EXCEPT ![q] = label] /\ loc' = [loc EXCEPT ![q] = new]
      /\ Loadable(nginx.vhost) /\ nginx' = [nginx EXCEPT !.loaded = nginx.vhost]
      /\ UNCHANGED <<app, database, runtime, cert, lock, lastDone>>
  BY DEF Reload, Goto
<1>2. /\ label \in {"runtimes", "issue", "save"}
      /\ label = "runtimes" => pc[q] = "reload" /\ loc[q].opt.plan # {}
      /\ label # "runtimes" /\ pc[q] = "reload" => loc[q].opt.plan = {}
      /\ label = "save" => ~loc[q].opt.tls \/ pc[q] = "reloadtls"
  BY <1>1 DEF AfterReload, AfterNginx
<1> HIDE DEF label
<1>3. /\ new \in Locals /\ new.opt = loc[q].opt /\ new.enabled = loc[q].enabled /\ new.cand = loc[q].cand
      /\ new.snap = loc[q].snap /\ new.hadDb = loc[q].hadDb /\ new.todo = todo
  <2>1. todo \subseteq Runtime
    BY AtWork DEF Locals, AnyOption
  <2> HIDE DEF todo
  <2> QED BY <2>1, AtWork DEF Locals
<1> HIDE DEF new
<1>4. label \in Label /\ label \in Critical /\ pc[q] \in Critical
  BY <1>1, <1>2 DEF Label, Critical, AfterActivation
<1>5. /\ pc' \in [Creators -> Label] /\ pc'[q] = label
      /\ loc' \in [Creators -> Locals] /\ loc'[q] = new
      /\ \A p \in Creators \ {q} : pc'[p] = pc[p] /\ loc'[p] = loc[p]
  BY <1>1, <1>3, <1>4, Moved, AtWork
<1>6. nginx' \in [vhost : Vhost, loaded : Vhost] /\ nginx'.vhost = nginx.vhost /\ nginx'.loaded = nginx.vhost
  BY <1>1, AtWork DEF HostTypes
<1>7. AppTypes' /\ HostTypes' /\ LastDeployKept' /\ lastDone' \in Release \cup {NoRelease}
  BY <1>1, <1>6, AtWork DEF AppTypes, HostTypes, LastDeployKept, app
<1>8. DeployOf(q)'
  BY <1>1, <1>2, <1>3, <1>4, <1>5, AtWork DEF DeployOf, AfterActivation, app
<1>9. ServeOf(q)'
  <2>1. ServeOf(q)
    BY AtWork
  <2>2. nginx.vhost \in {"http", "https"} /\ (pc[q] = "reloadtls" => nginx.vhost = "https")
    BY <1>1, <2>1 DEF ServeOf
  <2>3. label = "save" /\ loc[q].opt.tls => nginx.vhost = "https"
    BY <1>2, <2>2
  <2>4. label = "runtimes" => todo # {} /\ todo \subseteq loc[q].opt.plan /\ loc[q].opt.plan \ todo = {}
    BY <1>2
  <2>5. label # "runtimes" => loc[q].opt.plan \subseteq runtime.spec \cap runtime.unit
    BY <1>1, <1>2, <2>1 DEF ServeOf, Enabled
  <2>6. loc[q].enabled # {} => pc[q] = "reloadtls" /\ label # "runtimes"
    BY <1>1, <1>2, <2>1 DEF ServeOf, Enabled, Undoing
  <2>7. Loadable(nginx.vhost)'
    BY <1>1, <1>6 DEF Loadable
  <2>8. loc'[q].enabled # {} => pc'[q] \in Enabled \cup Undoing
    BY <1>2, <1>3, <1>5, <2>6 DEF Enabled
  <2>9. pc'[q] \in Enabled => loc'[q].opt.plan \subseteq runtime'.spec \cap runtime'.unit
    BY <1>1, <1>3, <1>5, <2>5 DEF Enabled
  <2>10. pc'[q] = "runtimes" => /\ loc'[q].todo # {} /\ loc'[q].todo \subseteq loc'[q].opt.plan
                                /\ loc'[q].opt.plan \ loc'[q].todo \subseteq runtime'.spec \cap runtime'.unit
    BY <1>3, <1>5, <2>4
  <2> QED BY <1>2, <1>3, <1>5, <1>6, <2>2, <2>3, <2>7, <2>8, <2>9, <2>10 DEF ServeOf
<1>10. SnapOf(q)'
  BY <1>1, <1>2, <1>3, <1>5, AtWork DEF SnapOf, app
<1> QED BY <1>1, <1>3, <1>4, <1>5, <1>7, <1>8, <1>9, <1>10, WorkKept

\* There is a first of the runtime processes that are left.
LEMMA FirstOfType ==
  ASSUME NEW todo \in SUBSET Runtime, todo # {}
  PROVE  FirstOf(todo) \in todo
<1>1. \E t \in todo : \A u \in todo : Turn[t] <= Turn[u]
  <2>1. Turn["worker"] = 1 /\ Turn["scheduler"] = 2 /\ Turn["horizon"] = 3
    BY DEF Turn
  <2>2. \A u \in todo : u \in {"worker", "scheduler", "horizon"}
    BY DEF Runtime
  <2> HIDE DEF Turn
  <2>3. CASE "worker" \in todo
    BY <2>1, <2>2, <2>3
  <2>4. CASE "worker" \notin todo /\ "scheduler" \in todo
    BY <2>1, <2>2, <2>4
  <2>5. CASE "worker" \notin todo /\ "scheduler" \notin todo
    <3>1. "horizon" \in todo /\ \A u \in todo : u = "horizon"
      BY <2>2, <2>5
    <3> QED BY <2>1, <3>1
  <2> QED BY <2>3, <2>4, <2>5
<1> QED BY <1>1 DEF FirstOf

\* One runtime process is enabled; after the last the compensation would know of them.
LEMMA EnableNextKept ==
  ASSUME IInv, NEW q \in Creators, EnableNext(q)
  PROVE  IInv'
<1> DEFINE t == FirstOf(loc[q].todo)
           last == loc[q].todo = {t}
           label == IF last THEN AfterRuntimes(loc[q].opt) ELSE "runtimes"
           enabled == IF last THEN loc[q].opt.plan ELSE loc[q].enabled
           todo == loc[q].todo \ {t}
           new == [loc[q] EXCEPT !.todo = todo, !.enabled = enabled]
<1>1. /\ pc[q] = "runtimes" /\ pc' = [pc EXCEPT ![q] = label] /\ loc' = [loc EXCEPT ![q] = new]
      /\ runtime' = [dir |-> TRUE, spec |-> runtime.spec \cup {t}, unit |-> runtime.unit \cup {t}]
      /\ UNCHANGED <<app, database, nginx, cert, lock, lastDone>>
  BY DEF EnableNext, Goto
<1>2. /\ loc[q].todo # {} /\ loc[q].todo \subseteq loc[q].opt.plan /\ loc[q].enabled = {}
      /\ loc[q].opt.plan \ loc[q].todo \subseteq runtime.spec \cap runtime.unit
      /\ loc[q].opt.plan \subseteq Runtime /\ loc[q].todo \subseteq Runtime
  BY <1>1, AtWork DEF ServeOf, Enabled, Undoing, Locals, AnyOption
<1>3. t \in loc[q].todo /\ t \in Runtime
  BY <1>2, FirstOfType
<1>4. /\ label \in {"runtimes", "issue", "save"} /\ (label = "runtimes" <=> ~last)
      /\ label = "save" => ~loc[q].opt.tls
  BY DEF AfterRuntimes
<1>5. /\ enabled \subseteq Runtime /\ (enabled # {} => label # "runtimes")
      /\ todo \subseteq Runtime /\ todo \subseteq loc[q].opt.plan /\ (label = "runtimes" => todo # {})
      /\ label # "runtimes" => loc[q].opt.plan \ {t} \subseteq runtime.spec \cap runtime.unit
      /\ loc[q].opt.plan \ todo \subseteq (runtime.spec \cap runtime.unit) \cup {t}
  <2> HIDE DEF t, label
  <2> QED BY <1>2, <1>3, <1>4
<1> HIDE DEF t, last, label, enabled, todo
<1>6. /\ new \in Locals /\ new.opt = loc[q].opt /\ new.enabled = enabled /\ new.cand = loc[q].cand
      /\ new.snap = loc[q].snap /\ new.hadDb = loc[q].hadDb /\ new.todo = todo
  <2>1. loc[q] \in Locals
    BY AtWork
  <2>2. new \in Locals
    BY <1>5, <2>1 DEF Locals
  <2> QED BY <2>1, <2>2 DEF Locals
<1> HIDE DEF new
<1>7. label \in Label /\ label \in Critical /\ pc[q] \in Critical
  BY <1>1, <1>4 DEF Label, Critical, AfterActivation
<1>8. /\ pc' \in [Creators -> Label] /\ pc'[q] = label
      /\ loc' \in [Creators -> Locals] /\ loc'[q] = new
      /\ \A p \in Creators \ {q} : pc'[p] = pc[p] /\ loc'[p] = loc[p]
  BY <1>1, <1>6, <1>7, Moved, AtWork
<1>9. /\ runtime' \in [dir : BOOLEAN, spec : SUBSET Runtime, unit : SUBSET Runtime] /\ runtime'.dir
      /\ runtime'.spec = runtime.spec \cup {t} /\ runtime'.unit = runtime.unit \cup {t}
  BY <1>1, <1>3, AtWork DEF HostTypes
<1>10. AppTypes' /\ HostTypes' /\ LastDeployKept' /\ lastDone' \in Release \cup {NoRelease}
  BY <1>1, <1>9, AtWork DEF AppTypes, HostTypes, LastDeployKept, app
<1>11. DeployOf(q)'
  BY <1>1, <1>4, <1>6, <1>7, <1>8, AtWork DEF DeployOf, AfterActivation, app
<1>12. ServeOf(q)'
  <2>1. nginx.loaded = nginx.vhost /\ nginx.vhost \in {"http", "https"} /\ Loadable(nginx.vhost)
    BY <1>1, AtWork DEF ServeOf
  <2>2. Loadable(nginx.vhost)'
    BY <1>1, <2>1 DEF Loadable
  <2>3. pc'[q] = "runtimes" => /\ loc'[q].todo # {} /\ loc'[q].todo \subseteq loc'[q].opt.plan
                               /\ loc'[q].opt.plan \ loc'[q].todo \subseteq runtime'.spec \cap runtime'.unit
    BY <1>5, <1>6, <1>8, <1>9
  <2>4. pc'[q] \in Enabled => loc'[q].opt.plan \subseteq runtime'.spec \cap runtime'.unit
    BY <1>4, <1>5, <1>6, <1>8, <1>9 DEF Enabled
  <2>5. loc'[q].enabled # {} => pc'[q] \in Enabled \cup Undoing
    BY <1>4, <1>5, <1>6, <1>8 DEF Enabled
  <2> QED BY <1>1, <1>4, <1>6, <1>8, <2>1, <2>2, <2>3, <2>4, <2>5 DEF ServeOf
<1>13. SnapOf(q)'
  BY <1>1, <1>4, <1>6, <1>8, AtWork DEF SnapOf, app
<1> QED BY <1>1, <1>6, <1>7, <1>8, <1>10, <1>11, <1>12, <1>13, WorkKept

\* The certificate is issued.
LEMMA IssueKept ==
  ASSUME IInv, NEW q \in Creators, Issue(q)
  PROVE  IInv'
<1>1. /\ pc[q] = "issue" /\ pc' = [pc EXCEPT ![q] = "nginxtls"] /\ cert' = TRUE
      /\ UNCHANGED <<app, database, nginx, runtime, lock, loc, lastDone>>
  BY DEF Issue, Goto
<1>2. "nginxtls" \in Label /\ "nginxtls" \in Critical /\ pc[q] \in Critical
  BY <1>1 DEF Label, Critical, AfterActivation
<1>3. /\ pc' \in [Creators -> Label] /\ pc'[q] = "nginxtls"
      /\ loc' \in [Creators -> Locals] /\ loc'[q] = loc[q]
      /\ \A p \in Creators \ {q} : pc'[p] = pc[p] /\ loc'[p] = loc[p]
  BY <1>1, <1>2, MovedOn, AtWork
<1>4. AppTypes' /\ HostTypes' /\ LastDeployKept' /\ lastDone' \in Release \cup {NoRelease}
  BY <1>1, AtWork DEF AppTypes, HostTypes, LastDeployKept, app
<1>5. DeployOf(q)'
  BY <1>1, <1>2, <1>3, AtWork DEF DeployOf, AfterActivation, app
<1>6. ServeOf(q)'
  <2>1. Loadable(nginx.vhost)'
    BY <1>1 DEF Loadable
  <2> QED BY <1>1, <1>3, <2>1, AtWork DEF ServeOf, Enabled, Undoing
<1>7. SnapOf(q)'
  BY <1>1, <1>3, AtWork DEF SnapOf, app
<1> QED BY <1>1, <1>2, <1>3, <1>4, <1>5, <1>6, <1>7, WorkKept

\* The deploy is recorded.
LEMMA SaveDeployKept ==
  ASSUME IInv, NEW q \in Creators, SaveDeploy(q)
  PROVE  IInv'
<1>1. /\ pc[q] = "save" /\ pc' = [pc EXCEPT ![q] = "manifest"] /\ meta.registered
      /\ meta' = [meta EXCEPT !.lastDeploy = loc[q].cand] /\ lastDone' = loc[q].cand
      /\ UNCHANGED <<root, releases, manifests, current, clock, host, lock, loc>>
  BY DEF SaveDeploy, Goto
<1>2. "manifest" \in Label /\ "manifest" \in Critical /\ pc[q] \in Critical
  BY <1>1 DEF Label, Critical, AfterActivation
<1>3. /\ pc' \in [Creators -> Label] /\ pc'[q] = "manifest"
      /\ loc' \in [Creators -> Locals] /\ loc'[q] = loc[q]
      /\ \A p \in Creators \ {q} : pc'[p] = pc[p] /\ loc'[p] = loc[p]
  BY <1>1, <1>2, MovedOn, AtWork
<1>4. loc[q].cand \in Release \cup {NoRelease} /\ meta \in MetaFile
  BY AtWork DEF Locals, AppTypes
<1>5. meta' \in MetaFile /\ meta'.registered /\ meta'.lastDeploy = loc[q].cand
  BY <1>1, <1>4 DEF MetaFile
<1>6. AppTypes' /\ HostTypes' /\ LastDeployKept' /\ lastDone' \in Release \cup {NoRelease}
  BY <1>1, <1>4, <1>5, AtWork DEF AppTypes, HostTypes, LastDeployKept, host
<1>7. DeployOf(q)'
  BY <1>1, <1>2, <1>3, <1>5, AtWork DEF DeployOf, AfterActivation
<1>8. ServeOf(q)'
  BY <1>1, <1>3, AtWork DEF ServeOf, Enabled, Undoing, Loadable, host
<1>9. SnapOf(q)'
  BY <1>1, <1>3, AtWork DEF SnapOf, host
<1> QED BY <1>1, <1>2, <1>3, <1>6, <1>7, <1>8, <1>9, WorkKept

-----------------------------------------------------------------------------
(* The steps that end a command or its work *)

\* The manifest is written and the create is over.
LEMMA WriteManifestKept ==
  ASSUME IInv, NEW q \in Creators, WriteManifest(q)
  PROVE  IInv'
<1>1. /\ pc[q] = "manifest" /\ Finish(q) /\ manifests' = manifests \cup ({loc[q].cand} \cap releases)
      /\ UNCHANGED <<root, releases, current, meta, clock, host, lastDone>>
  BY DEF WriteManifest
<1>2. AppTypes' /\ HostTypes'
  BY <1>1, AtWork DEF AppTypes, HostTypes, host
<1>3. pc[q] \in Critical /\ pc[q] # "idle"
  BY <1>1 DEF Critical, AfterActivation
<1> QED BY <1>1, <1>2, <1>3, FinishKept

\* A command ends and changes nothing else: it is complete, refused, killed, or compensated.
LEMMA EndKept ==
  ASSUME IInv, NEW q \in Creators, Complete(q) \/ Refused(q) \/ Crash(q) \/ ReportFailure(q)
  PROVE  IInv'
<1>1. Finish(q) /\ pc[q] # "idle" /\ UNCHANGED <<app, host, lastDone>>
  BY DEF Complete, Refused, Crash, ReportFailure
<1>2. AppTypes' /\ HostTypes' /\ UNCHANGED <<meta, lastDone>> /\ UNCHANGED <<app, host>>
  BY <1>1, AtWork DEF AppTypes, HostTypes, app, host
<1> QED BY <1>1, <1>2, FinishKept

\* The database server fails, with or without the database.
LEMMA ProvisionFailsKept ==
  ASSUME IInv, NEW q \in Creators, ProvisionFails(q)
  PROVE  IInv'
<1>1. /\ pc[q] = "provision" /\ Raise(q) /\ database' \in {database, TRUE}
      /\ UNCHANGED <<app, nginx, runtime, cert, lastDone>>
  BY DEF ProvisionFails
<1>2. database \in BOOLEAN
  BY AtWork DEF HostTypes
<1>3. database' \in BOOLEAN /\ (database => database')
  <2>1. CASE database' = database
    BY <1>2, <2>1
  <2>2. CASE database' = TRUE
    BY <2>2
  <2> QED BY <1>1, <2>1, <2>2
<1>4. HostTypes'
  BY <1>1, <1>3, AtWork DEF HostTypes
<1>5. pc[q] \in Critical \ {"manifest"}
  BY <1>1 DEF Critical
<1> QED BY <1>1, <1>3, <1>4, <1>5, RaiseKept

\* nginx refuses: the virtual host that was there is put back.
LEMMA ReloadFailsKept ==
  ASSUME IInv, NEW q \in Creators, ReloadFails(q)
  PROVE  IInv'
<1>1. /\ pc[q] \in {"reload", "reloadtls"} /\ Raise(q) /\ nginx' = [nginx EXCEPT !.vhost = loc[q].vhost]
      /\ UNCHANGED <<app, database, runtime, cert, lastDone>>
  BY DEF ReloadFails
<1>2. loc[q].vhost \in Vhost
  BY AtWork DEF Locals
<1>3. HostTypes'
  BY <1>1, <1>2, AtWork DEF HostTypes
<1>4. pc[q] \in Critical \ {"manifest"}
  BY <1>1 DEF Critical, AfterActivation
<1> QED BY <1>1, <1>3, <1>4, RaiseKept

\* A runtime process is not enabled, but its spec is written.
LEMMA EnableFailsKept ==
  ASSUME IInv, NEW q \in Creators, EnableFails(q)
  PROVE  IInv'
<1>1. /\ pc[q] = "runtimes" /\ Raise(q)
      /\ runtime' = [runtime EXCEPT !.dir = TRUE, !.spec = @ \cup {FirstOf(loc[q].todo)}]
      /\ UNCHANGED <<app, database, nginx, cert, lastDone>>
  BY DEF EnableFails
<1>2. loc[q].todo \in SUBSET Runtime /\ loc[q].todo # {}
  BY <1>1, AtWork DEF Locals, ServeOf
<1>3. FirstOf(loc[q].todo) \in Runtime
  BY <1>2, FirstOfType
<1>4. runtime' \in [dir : BOOLEAN, spec : SUBSET Runtime, unit : SUBSET Runtime] /\ runtime'.dir
  <2>1. runtime \in [dir : BOOLEAN, spec : SUBSET Runtime, unit : SUBSET Runtime]
    BY AtWork DEF HostTypes
  <2>2. PICK t \in Runtime : t = FirstOf(loc[q].todo)
    BY <1>3
  <2>3. runtime' = [runtime EXCEPT !.dir = TRUE, !.spec = @ \cup {t}]
    BY <1>1, <2>2
  <2>4. runtime' = [dir |-> TRUE, spec |-> runtime.spec \cup {t}, unit |-> runtime.unit]
    BY <2>1, <2>3
  <2>5. runtime.spec \cup {t} \in SUBSET Runtime /\ runtime.unit \in SUBSET Runtime
    BY <2>1
  <2> QED BY <2>4, <2>5
<1>5. HostTypes'
  BY <1>1, <1>4, AtWork DEF HostTypes
<1>6. pc[q] \in Critical \ {"manifest"}
  BY <1>1 DEF Critical, AfterActivation
<1> QED BY <1>1, <1>5, <1>6, RaiseKept

\* A phase fails.
LEMMA PhaseErrorKept ==
  ASSUME IInv, NEW q \in Creators, PhaseError(q)
  PROVE  IInv'
<1>1. /\ pc[q] \in {"init", "build", "gates", "issue", "prepare", "nginx", "recorddb", "runtimes", "save"}
      /\ Raise(q) /\ UNCHANGED <<app, host, lastDone>>
  BY DEF PhaseError
<1>2. HostTypes' /\ UNCHANGED <<app, lastDone>> /\ UNCHANGED database
  BY <1>1, AtWork DEF HostTypes, host
<1>3. pc[q] \in Critical \ {"manifest"}
  BY <1>1 DEF Critical, AfterActivation
<1> QED BY <1>1, <1>2, <1>3, RaiseKept

-----------------------------------------------------------------------------
(* The compensation *)

\* A step of the compensation goes on with the compensation, without the lock.
LEMMA UndoKept ==
  ASSUME IInv, NEW q \in Creators, pc[q] \in Undoing, pc'[q] \in Undoing,
         AppTypes', HostTypes', UNCHANGED <<lock, lastDone>>, LastDeployKept',
         pc' \in [Creators -> Label], loc' \in [Creators -> Locals],
         \A p \in Creators \ {q} : pc'[p] = pc[p] /\ loc'[p] = loc[p],
         loc'[q].opt = loc[q].opt,
         UndoOf(q)', SnapOf(q)'
  PROVE  IInv'
<1>1. pc[q] \notin Critical /\ pc'[q] \notin Critical /\ pc[q] # "idle"
  BY DEF Undoing, Critical, AfterActivation
<1>2. DeployOf(q)'
  BY <1>1 DEF DeployOf, Undoing, Critical, AfterActivation
<1>3. ServeOf(q)'
  BY DEF ServeOf, Undoing, Enabled
<1>4. lastDone' \in Release \cup {NoRelease}
  BY AtWork
<1> QED BY <1>1, <1>2, <1>3, <1>4, StepKept DEF Own

\* A step of the compensation that only changes its label.
LEMMA UndoMoved ==
  ASSUME IInv, NEW q \in Creators, NEW label \in Undoing,
         pc' = [pc EXCEPT ![q] = label], UNCHANGED loc
  PROVE  /\ pc' \in [Creators -> Label] /\ pc'[q] = label
         /\ loc' \in [Creators -> Locals] /\ loc'[q] = loc[q]
         /\ \A p \in Creators \ {q} : pc'[p] = pc[p] /\ loc'[p] = loc[p]
BY MovedOn, AtWork DEF Label

\* A runtime process is disabled, or goes on unheard; the metadata that this needs are still there.
LEMMA UndoRuntimeKept ==
  ASSUME IInv, NEW q \in Creators, UndoRuntime(q)
  PROVE  IInv'
<1>1. PICK t \in {FirstOf(loc[q].todo)}, stopped \in BOOLEAN :
        LET running == IF stopped \/ ~meta.registered THEN {} ELSE {t}
        IN  /\ runtime' = IF meta.registered
                          THEN [runtime EXCEPT !.spec = @ \ {t}, !.unit = (@ \ {t}) \cup (@ \cap running)]
                          ELSE runtime
            /\ loc' = [loc EXCEPT ![q].todo = @ \ {t}, ![q].stuck = @ \cup running]
  BY DEF UndoRuntime
<1> DEFINE running == IF stopped \/ ~meta.registered THEN {} ELSE {t}
           todo == loc[q].todo \ {t}
           stuck == loc[q].stuck \cup running
           new == [loc[q] EXCEPT !.todo = todo, !.stuck = stuck]
<1>2. /\ pc[q] = "undoruntimes" /\ loc[q].todo # {} /\ loc' = [loc EXCEPT ![q] = new]
      /\ UNCHANGED <<app, database, nginx, cert, lock, pc, lastDone>>
  BY <1>1, AtWork DEF UndoRuntime, ProcessTypes
<1>3. /\ loc[q].opt.atomic /\ loc[q].todo \subseteq loc[q].enabled /\ loc[q].todo \subseteq Runtime
      /\ loc[q].enabled = {} \/ meta.registered
      /\ (loc[q].enabled \ loc[q].todo) \cap runtime.spec = {}
      /\ (loc[q].enabled \ loc[q].todo) \cap runtime.unit \subseteq loc[q].stuck
  BY <1>2, AtWork DEF UndoOf, Undoing, Locals
<1>4. t \in loc[q].todo /\ t \in Runtime /\ meta.registered /\ running \subseteq {t}
  BY <1>2, <1>3, FirstOfType
<1>5. /\ runtime' \in [dir : BOOLEAN, spec : SUBSET Runtime, unit : SUBSET Runtime] /\ runtime'.dir = runtime.dir
      /\ runtime'.spec = runtime.spec \ {t}
      /\ runtime'.unit \subseteq runtime.unit /\ runtime'.unit \cap {t} \subseteq running
  BY <1>1, <1>4, AtWork DEF HostTypes
<1> HIDE DEF running
<1>6. /\ todo \subseteq Runtime /\ todo \subseteq loc[q].enabled
      /\ loc[q].enabled \ todo \subseteq (loc[q].enabled \ loc[q].todo) \cup {t}
      /\ stuck \in SUBSET ({"release", "root", "dir"} \cup Runtime) /\ loc[q].stuck \subseteq stuck /\ running \subseteq stuck
  BY <1>3, <1>4, AtWork DEF Locals
<1> HIDE DEF todo, stuck
<1>7. /\ new \in Locals /\ new.opt = loc[q].opt /\ new.enabled = loc[q].enabled /\ new.cand = loc[q].cand
      /\ new.snap = loc[q].snap /\ new.hadDb = loc[q].hadDb /\ new.todo = todo /\ new.stuck = stuck
  BY <1>6, AtWork DEF Locals
<1> HIDE DEF new
<1>8. "undoruntimes" \in Label /\ "undoruntimes" \in Undoing /\ pc' = [pc EXCEPT ![q] = "undoruntimes"]
  BY <1>2, AtWork DEF Label, Undoing, ProcessTypes
<1>9. /\ pc' \in [Creators -> Label] /\ pc'[q] = "undoruntimes"
      /\ loc' \in [Creators -> Locals] /\ loc'[q] = new
      /\ \A p \in Creators \ {q} : pc'[p] = pc[p] /\ loc'[p] = loc[p]
  BY <1>2, <1>7, <1>8, Moved, AtWork
<1>10. AppTypes' /\ HostTypes' /\ LastDeployKept'
  BY <1>2, <1>5, AtWork DEF AppTypes, HostTypes, LastDeployKept, app
<1>11. UndoOf(q)'
  <2>1. (loc[q].enabled \ todo) \cap runtime'.spec = {}
    BY <1>3, <1>5, <1>6
  <2>2. (loc[q].enabled \ todo) \cap runtime'.unit \subseteq stuck
    BY <1>3, <1>5, <1>6
  <2> QED BY <1>2, <1>3, <1>6, <1>7, <1>9, <2>1, <2>2 DEF UndoOf, Undoing, app
<1>12. SnapOf(q)'
  BY <1>2, <1>7, <1>9, AtWork DEF SnapOf, app
<1> QED BY <1>2, <1>7, <1>8, <1>9, <1>10, <1>11, <1>12, UndoKept

\* The release of the create is removed, or stays unheard.
LEMMA UndoReleaseKept ==
  ASSUME IInv, NEW q \in Creators, UndoRelease(q)
  PROVE  IInv'
<1> DEFINE stuck == IF loc[q].cand \in releases' THEN loc[q].stuck \cup {"release"} ELSE loc[q].stuck
           new == [loc[q] EXCEPT !.stuck = stuck]
<1>1. /\ pc[q] = "undoruntimes" /\ pc' = [pc EXCEPT ![q] = "undocurrent"] /\ loc[q].todo = {}
      /\ RemoveTree(loc[q].cand) /\ loc' = [loc EXCEPT ![q] = new]
      /\ UNCHANGED <<root, current, meta, clock, host, lock, lastDone>>
  BY AtWork DEF UndoRelease, Goto, ProcessTypes
<1>2. "undocurrent" \in Undoing /\ pc[q] \in Undoing /\ "undocurrent" \in Label
  BY <1>1 DEF Undoing, Label
<1>3. releases' \subseteq releases /\ manifests' \subseteq releases'
  BY <1>1, RemoveTreeOnly, AtWork DEF AppTypes
<1>4. /\ stuck \in SUBSET ({"release", "root", "dir"} \cup Runtime) /\ loc[q].stuck \subseteq stuck
      /\ loc[q].cand \in releases' => "release" \in stuck
  BY AtWork DEF Locals
<1> HIDE DEF stuck
<1>5. /\ new \in Locals /\ new.opt = loc[q].opt /\ new.enabled = loc[q].enabled /\ new.cand = loc[q].cand
      /\ new.snap = loc[q].snap /\ new.hadDb = loc[q].hadDb /\ new.stuck = stuck
  BY <1>4, AtWork DEF Locals
<1> HIDE DEF new
<1>6. /\ pc' \in [Creators -> Label] /\ pc'[q] = "undocurrent"
      /\ loc' \in [Creators -> Locals] /\ loc'[q] = new
      /\ \A p \in Creators \ {q} : pc'[p] = pc[p] /\ loc'[p] = loc[p]
  BY <1>1, <1>2, <1>5, Moved, AtWork
<1>7. AppTypes' /\ HostTypes' /\ LastDeployKept'
  BY <1>1, <1>3, AtWork DEF AppTypes, HostTypes, LastDeployKept, host
<1>8. UndoOf(q)'
  <2>1. /\ loc[q].opt.atomic
        /\ loc[q].enabled \cap runtime.spec = {} /\ loc[q].enabled \cap runtime.unit \subseteq loc[q].stuck
    BY <1>1, <1>2, AtWork DEF UndoOf
  <2> QED BY <1>1, <1>4, <1>5, <1>6, <2>1 DEF UndoOf, host
<1>9. SnapOf(q)'
  BY <1>1, <1>5, <1>6, AtWork DEF SnapOf, host
<1> QED BY <1>1, <1>2, <1>5, <1>6, <1>7, <1>8, <1>9, UndoKept

\* The symlink points at the release it pointed at, if that is still there.
LEMMA UndoCurrentKept ==
  ASSUME IInv, NEW q \in Creators, UndoCurrent(q)
  PROVE  IInv'
<1>1. /\ pc[q] = "undocurrent" /\ pc' = [pc EXCEPT ![q] = "undometa"]
      /\ current' = IF loc[q].snap.current = NoRelease THEN NoRelease
                    ELSE IF loc[q].snap.current \in releases THEN loc[q].snap.current ELSE current
      /\ UNCHANGED <<root, releases, manifests, meta, clock, host, lock, loc, lastDone>>
  BY DEF UndoCurrent, Goto
<1>2. "undometa" \in Undoing /\ pc[q] \in Undoing
  BY <1>1 DEF Undoing
<1>3. /\ pc' \in [Creators -> Label] /\ pc'[q] = "undometa"
      /\ loc' \in [Creators -> Locals] /\ loc'[q] = loc[q]
      /\ \A p \in Creators \ {q} : pc'[p] = pc[p] /\ loc'[p] = loc[p]
  BY <1>1, <1>2, UndoMoved
<1>4. AppTypes' /\ HostTypes' /\ LastDeployKept'
  BY <1>1, AtWork DEF AppTypes, HostTypes, LastDeployKept, host
<1>5. UndoOf(q)'
  BY <1>1, <1>2, <1>3, AtWork DEF UndoOf, host
<1>6. SnapOf(q)'
  BY <1>1, <1>3, AtWork DEF SnapOf, host
<1> QED BY <1>1, <1>2, <1>3, <1>4, <1>5, <1>6, UndoKept

\* The metadata are those of the snapshot, which hold what was recorded.
LEMMA UndoMetaKept ==
  ASSUME IInv, NEW q \in Creators, UndoMeta(q)
  PROVE  IInv'
<1>1. /\ pc[q] = "undometa" /\ pc' = [pc EXCEPT ![q] = "undodirs"] /\ meta' = loc[q].snap.meta
      /\ UNCHANGED <<root, releases, manifests, current, clock, host, lock, loc, lastDone>>
  BY DEF UndoMeta, Goto
<1>2. "undodirs" \in Undoing /\ pc[q] \in Undoing
  BY <1>1 DEF Undoing
<1>3. /\ pc' \in [Creators -> Label] /\ pc'[q] = "undodirs"
      /\ loc' \in [Creators -> Locals] /\ loc'[q] = loc[q]
      /\ \A p \in Creators \ {q} : pc'[p] = pc[p] /\ loc'[p] = loc[p]
  BY <1>1, <1>2, UndoMoved
<1>4. loc[q].snap.meta \in MetaFile /\ loc[q].opt.atomic
  BY <1>2, AtWork DEF Locals, UndoOf
<1>5. lastDone # NoRelease => loc[q].snap.meta.registered /\ loc[q].snap.meta.lastDeploy = lastDone
  BY <1>1, <1>4, AtWork DEF SnapOf
<1>6. AppTypes' /\ HostTypes' /\ LastDeployKept'
  BY <1>1, <1>4, <1>5, AtWork DEF AppTypes, HostTypes, LastDeployKept, host
<1>7. UndoOf(q)'
  BY <1>1, <1>2, <1>3, AtWork DEF UndoOf, host
<1>8. SnapOf(q)'
  BY <1>1, <1>3, AtWork DEF SnapOf, host
<1> QED BY <1>1, <1>2, <1>3, <1>6, <1>7, <1>8, UndoKept

\* The directories that were not there are removed, wholly or in part.
LEMMA UndoDirsKept ==
  ASSUME IInv, NEW q \in Creators, UndoDirs(q)
  PROVE  IInv'
<1> DEFINE stuck == loc[q].stuck \cup (IF root' /\ ~loc[q].snap.root THEN {"root"} ELSE {})
                                \cup (IF runtime'.dir /\ ~loc[q].snap.dir THEN {"dir"} ELSE {})
           new == [loc[q] EXCEPT !.stuck = stuck]
<1>1. /\ pc[q] = "undodirs" /\ pc' = [pc EXCEPT ![q] = "undotls"] /\ loc' = [loc EXCEPT ![q] = new]
      /\ UNCHANGED <<meta, clock, database, nginx, cert, lock, lastDone>>
  BY AtWork DEF UndoDirs, Goto, ProcessTypes
<1>2. "undotls" \in Undoing /\ pc[q] \in Undoing /\ "undotls" \in Label
  BY <1>1 DEF Undoing, Label
<1>3. /\ root' \in BOOLEAN /\ (releases' # {} => root') /\ releases' \subseteq releases
      /\ manifests' \subseteq releases' /\ current' \in {current, NoRelease}
      /\ loc[q].snap.root => root' = root /\ current' = current /\ releases' = releases
  <2>1. CASE loc[q].snap.root /\ UNCHANGED <<root, releases, manifests, current>>
    BY <2>1, AtWork DEF AppTypes
  <2>2. CASE ~loc[q].snap.root /\ RemoveRoot
    <3>0. root \in BOOLEAN /\ (releases # {} => root) /\ manifests \subseteq releases
      BY AtWork DEF AppTypes
    <3>1. CASE root' = FALSE /\ releases' = {} /\ manifests' = {} /\ current' = NoRelease
      BY <2>2, <3>1
    <3>2. CASE /\ root' = root /\ releases' \in SUBSET releases
               /\ manifests' \in SUBSET (manifests \cap releases') /\ current' \in {current, NoRelease}
      BY <2>2, <3>0, <3>2
    <3> QED BY <2>2, <3>1, <3>2 DEF RemoveRoot
  <2> QED BY <2>1, <2>2 DEF UndoDirs
<1>4. /\ runtime' \in [dir : BOOLEAN, spec : SUBSET Runtime, unit : SUBSET Runtime]
      /\ (runtime'.spec # {} => runtime'.dir)
      /\ runtime'.spec \subseteq runtime.spec /\ runtime'.unit = runtime.unit
  <2>1. runtime \in [dir : BOOLEAN, spec : SUBSET Runtime, unit : SUBSET Runtime] /\ (runtime.spec # {} => runtime.dir)
    BY AtWork DEF HostTypes
  <2>2. CASE UNCHANGED runtime
    BY <2>1, <2>2
  <2>3. CASE RemoveSpecs
    <3>1. PICK dir \in {runtime.dir, FALSE}, spec \in SUBSET runtime.spec :
            (~dir => spec = {}) /\ runtime' = [runtime EXCEPT !.dir = dir, !.spec = spec]
      BY <2>3 DEF RemoveSpecs
    <3> QED BY <2>1, <3>1
  <2> QED BY <2>2, <2>3 DEF UndoDirs
<1>5. /\ stuck \in SUBSET ({"release", "root", "dir"} \cup Runtime) /\ loc[q].stuck \subseteq stuck
      /\ root' /\ ~loc[q].snap.root => "root" \in stuck
      /\ runtime'.dir /\ ~loc[q].snap.dir => "dir" \in stuck
  BY AtWork DEF Locals
<1> HIDE DEF stuck
<1>6. /\ new \in Locals /\ new.opt = loc[q].opt /\ new.enabled = loc[q].enabled /\ new.cand = loc[q].cand
      /\ new.snap = loc[q].snap /\ new.hadDb = loc[q].hadDb /\ new.stuck = stuck
  BY <1>5, AtWork DEF Locals
<1> HIDE DEF new
<1>7. /\ pc' \in [Creators -> Label] /\ pc'[q] = "undotls"
      /\ loc' \in [Creators -> Locals] /\ loc'[q] = new
      /\ \A p \in Creators \ {q} : pc'[p] = pc[p] /\ loc'[p] = loc[p]
  BY <1>1, <1>2, <1>6, Moved, AtWork
<1>8. AppTypes'
  BY <1>1, <1>3, AtWork DEF AppTypes
<1>9. HostTypes' /\ LastDeployKept'
  BY <1>1, <1>4, AtWork DEF HostTypes, LastDeployKept
<1>10. loc[q].opt.atomic /\ (loc[q].snap.root => root) /\ loc[q].snap.root \in BOOLEAN /\ root \in BOOLEAN
       /\ loc[q].snap.dir \in BOOLEAN /\ runtime'.dir \in BOOLEAN
  BY <1>1, <1>2, <1>4, AtWork DEF UndoOf, SnapOf, Locals, AppTypes
<1>11. UndoOf(q)'
  <2>0. /\ loc[q].cand \in releases => "release" \in loc[q].stuck
        /\ loc[q].enabled \cap runtime.spec = {} /\ loc[q].enabled \cap runtime.unit \subseteq loc[q].stuck
        /\ loc[q].snap.current \in releases \cup {NoRelease} => current = loc[q].snap.current
        /\ meta = loc[q].snap.meta
    BY <1>1, <1>2, AtWork DEF UndoOf
  <2>1. /\ loc[q].cand \in releases' => "release" \in stuck
        /\ loc[q].enabled \cap runtime'.spec = {} /\ loc[q].enabled \cap runtime'.unit \subseteq stuck
    BY <2>0, <1>3, <1>4, <1>5
  <2>2. ~loc[q].snap.root => loc[q].snap.current = NoRelease
    BY <1>1, <1>10, AtWork DEF SnapOf
  <2>3. loc[q].snap.current \in releases' \cup {NoRelease} => current' = loc[q].snap.current
    BY <2>0, <2>2, <1>3, <1>10
  <2>4. /\ root' # loc[q].snap.root => root' /\ "root" \in stuck
        /\ runtime'.dir => loc[q].snap.dir \/ "dir" \in stuck
    BY <1>3, <1>5, <1>10
  <2>5. meta' = loc[q].snap.meta
    BY <1>1, <2>0
  <2> QED BY <1>6, <1>7, <1>10, <2>1, <2>3, <2>4, <2>5 DEF UndoOf
<1>12. SnapOf(q)'
  <2>1. loc[q].snap.root => root'
    BY <1>3, <1>10
  <2> QED BY <1>1, <1>6, <1>7, <2>1, AtWork DEF SnapOf
<1> QED BY <1>1, <1>2, <1>6, <1>7, <1>8, <1>9, <1>11, <1>12, UndoKept

\* The certificate is deleted, or not.
LEMMA UndoTlsKept ==
  ASSUME IInv, NEW q \in Creators, UndoTls(q)
  PROVE  IInv'
<1>1. /\ pc[q] = "undotls" /\ pc' = [pc EXCEPT ![q] = "undovhost"] /\ cert' \in {cert, FALSE}
      /\ UNCHANGED <<app, database, nginx, runtime, lock, loc, lastDone>>
  BY DEF UndoTls, Goto
<1>2. "undovhost" \in Undoing /\ pc[q] \in Undoing
  BY <1>1 DEF Undoing
<1>3. /\ pc' \in [Creators -> Label] /\ pc'[q] = "undovhost"
      /\ loc' \in [Creators -> Locals] /\ loc'[q] = loc[q]
      /\ \A p \in Creators \ {q} : pc'[p] = pc[p] /\ loc'[p] = loc[p]
  BY <1>1, <1>2, UndoMoved
<1>4. cert' \in BOOLEAN
  <2>1. cert \in BOOLEAN
    BY AtWork DEF HostTypes
  <2> QED BY <1>1, <2>1
<1>5. AppTypes' /\ HostTypes' /\ LastDeployKept'
  BY <1>1, <1>4, AtWork DEF AppTypes, HostTypes, LastDeployKept, app
<1>6. UndoOf(q)'
  BY <1>1, <1>2, <1>3, AtWork DEF UndoOf, app
<1>7. SnapOf(q)'
  BY <1>1, <1>3, AtWork DEF SnapOf, app
<1> QED BY <1>1, <1>2, <1>3, <1>5, <1>6, <1>7, UndoKept

\* The virtual host of the snapshot is put back, if the create deployed.
LEMMA UndoVhostKept ==
  ASSUME IInv, NEW q \in Creators, UndoVhost(q)
  PROVE  IInv'
<1>1. /\ pc[q] = "undovhost" /\ pc' = [pc EXCEPT ![q] = "undodb"]
      /\ UNCHANGED <<app, database, runtime, cert, lock, loc, lastDone>>
  BY DEF UndoVhost, Goto
<1>2. "undodb" \in Undoing /\ pc[q] \in Undoing
  BY <1>1 DEF Undoing
<1>3. /\ pc' \in [Creators -> Label] /\ pc'[q] = "undodb"
      /\ loc' \in [Creators -> Locals] /\ loc'[q] = loc[q]
      /\ \A p \in Creators \ {q} : pc'[p] = pc[p] /\ loc'[p] = loc[p]
  BY <1>1, <1>2, UndoMoved
<1>4. nginx' \in [vhost : Vhost, loaded : Vhost] /\ (loc[q].opt.deploy => nginx'.vhost = loc[q].snap.vhost)
  <2>1. nginx \in [vhost : Vhost, loaded : Vhost] /\ loc[q].snap.vhost \in Vhost
    BY AtWork DEF HostTypes, Locals
  <2>2. CASE loc[q].opt.deploy
    <3>1. \E loaded \in {loc[q].snap.vhost, nginx.loaded} : nginx' = [vhost |-> loc[q].snap.vhost, loaded |-> loaded]
      BY <2>2 DEF UndoVhost
    <3> QED BY <2>1, <3>1
  <2>3. CASE ~loc[q].opt.deploy
    BY <2>1, <2>3 DEF UndoVhost
  <2> QED BY <2>2, <2>3
<1>5. AppTypes' /\ HostTypes' /\ LastDeployKept'
  BY <1>1, <1>4, AtWork DEF AppTypes, HostTypes, LastDeployKept, app
<1>6. UndoOf(q)'
  BY <1>1, <1>2, <1>3, <1>4, AtWork DEF UndoOf, app
<1>7. SnapOf(q)'
  BY <1>1, <1>3, AtWork DEF SnapOf, app
<1> QED BY <1>1, <1>2, <1>3, <1>5, <1>6, <1>7, UndoKept

\* The database is dropped if the create provisioned it.
LEMMA UndoDbKept ==
  ASSUME IInv, NEW q \in Creators, UndoDb(q)
  PROVE  IInv'
<1>1. /\ pc[q] = "undodb" /\ pc' = [pc EXCEPT ![q] = "undone"]
      /\ database' = database \/ (database' = FALSE /\ loc[q].provisioned)
      /\ UNCHANGED <<app, nginx, runtime, cert, lock, loc, lastDone>>
  BY DEF UndoDb, Goto
<1>2. "undone" \in Undoing /\ pc[q] \in Undoing
  BY <1>1 DEF Undoing
<1>3. /\ pc' \in [Creators -> Label] /\ pc'[q] = "undone"
      /\ loc' \in [Creators -> Locals] /\ loc'[q] = loc[q]
      /\ \A p \in Creators \ {q} : pc'[p] = pc[p] /\ loc'[p] = loc[p]
  BY <1>1, <1>2, UndoMoved
<1>4. database' \in BOOLEAN
  BY <1>1, AtWork DEF HostTypes
<1>5. AppTypes' /\ HostTypes' /\ LastDeployKept'
  BY <1>1, <1>4, AtWork DEF AppTypes, HostTypes, LastDeployKept, app
<1>6. UndoOf(q)'
  BY <1>1, <1>2, <1>3, AtWork DEF UndoOf, app
<1>7. SnapOf(q)'
  BY <1>1, <1>3, AtWork DEF SnapOf, app
<1> QED BY <1>1, <1>2, <1>3, <1>5, <1>6, <1>7, UndoKept

-----------------------------------------------------------------------------
(* The theorems *)

LEMMA InitIInv ==
  ASSUME Init
  PROVE  IInv
<1>1. AppTypes
  <2>1. clock \in 1..(MaxRelease + 1)
    BY DEF Init
  <2>2. meta \in MetaFile
    BY DEF Init, MetaFile, Unregistered
  <2> QED BY <2>1, <2>2 DEF Init, AppTypes
<1>2. HostTypes
  <2>1. runtime \in [dir : BOOLEAN, spec : SUBSET Runtime, unit : SUBSET Runtime] /\ runtime.spec = {}
    BY DEF Init
  <2>2. nginx \in [vhost : Vhost, loaded : Vhost]
    BY DEF Init, Vhost
  <2> QED BY <2>1, <2>2 DEF Init, HostTypes
<1>3. ProcessTypes
  BY NoLocalsType DEF Init, ProcessTypes, Label
<1>4. LockInv /\ Alone /\ LastDeployKept
  BY DEF Init, LockInv, Alone, LastDeployKept, Critical, AfterActivation
<1>5. ASSUME NEW p \in Creators PROVE Own(p)
  <2>1. pc[p] = "idle" /\ loc[p] = NoLocals
    BY DEF Init
  <2>2. DeployOf(p) /\ ServeOf(p) /\ UndoOf(p) /\ SnapOf(p)
    BY <2>1, NoLocalsType DEF DeployOf, ServeOf, UndoOf, SnapOf, Critical, AfterActivation, Enabled, Undoing
  <2> QED BY <2>2 DEF Own
<1> QED BY <1>1, <1>2, <1>3, <1>4, <1>5 DEF IInv, Types

LEMMA NextIInv ==
  ASSUME IInv, [Next]_vars, "atomic" \notin Overlap
  PROVE  IInv'
<1>1. CASE UNCHANGED vars
  <2>1. AppTypes' /\ HostTypes' /\ ProcessTypes'
    BY <1>1 DEF IInv, Types, AppTypes, HostTypes, ProcessTypes, vars
  <2>2. LockInv' /\ Alone' /\ LastDeployKept'
    BY <1>1 DEF IInv, LockInv, Alone, LastDeployKept, vars
  <2>3. ASSUME NEW p \in Creators PROVE Own(p)'
    BY <1>1 DEF IInv, Own, DeployOf, ServeOf, UndoOf, SnapOf, Loadable, vars
  <2> QED BY <2>1, <2>2, <2>3 DEF IInv, Types
<1>2. CASE \E r \in Release : Rollback(r)
  BY <1>2, RollbackKept
<1>3. ASSUME NEW q \in Creators, (\E atomic \in Atomics : Begin(q, atomic)) \/ Crash(q)
      PROVE  IInv'
  BY <1>3, BeginKept, EndKept
<1>4. ASSUME NEW q \in Creators, Continue(q)
      PROVE  IInv'
  <2>1. CASE Capture(q) \/ (\E o \in Option : Lock(q, o)) \/ Refused(q)
    BY <2>1, CaptureKept, LockKept, EndKept
  <2>2. CASE Initialize(q) \/ Provision(q) \/ ProvisionFails(q) \/ RecordDb(q)
    BY <2>2, InitializeKept, ProvisionKept, ProvisionFailsKept, RecordDbKept
  <2>3. CASE Prepare(q) \/ Activate(q) \/ PassGates(q) \/ DeleteOldest(q) \/ Pruned(q)
    BY <2>3, PrepareKept, ActivateKept, PassGatesKept, DeleteOldestKept, PrunedKept
  <2>4. CASE WriteVhost(q) \/ Reload(q) \/ ReloadFails(q) \/ EnableNext(q) \/ EnableFails(q)
    BY <2>4, WriteVhostKept, ReloadKept, ReloadFailsKept, EnableNextKept, EnableFailsKept
  <2>5. CASE Issue(q) \/ SaveDeploy(q) \/ WriteManifest(q) \/ Complete(q) \/ PhaseError(q)
    BY <2>5, IssueKept, SaveDeployKept, WriteManifestKept, EndKept, PhaseErrorKept
  <2>6. CASE UndoRuntime(q) \/ UndoRelease(q) \/ UndoCurrent(q) \/ UndoMeta(q) \/ UndoDirs(q)
    BY <2>6, UndoRuntimeKept, UndoReleaseKept, UndoCurrentKept, UndoMetaKept, UndoDirsKept
  <2>7. CASE UndoTls(q) \/ UndoVhost(q) \/ UndoDb(q) \/ ReportFailure(q)
    BY <2>7, UndoTlsKept, UndoVhostKept, UndoDbKept, EndKept
  <2> QED BY <1>4, <2>1, <2>2, <2>3, <2>4, <2>5, <2>6, <2>7 DEF Continue
<1> QED BY <1>1, <1>2, <1>3, <1>4 DEF Next

\* As long as no create with --atomic runs beside another one, the inductive
\* invariant holds: the lock, the application, the host and what each command
\* remembers belong together in every phase.
THEOREM Invariant ==
  ASSUME "atomic" \notin Overlap
  PROVE  Spec => []IInv
<1>1. Init => IInv
  BY InitIInv
<1>2. IInv /\ [Next]_vars => IInv'
  BY NextIInv
<1> QED BY <1>1, <1>2, PTL DEF Spec

\* Every variable keeps its type, and the lock create-site-<domain> is held in
\* the locked phases and in no other.
THEOREM TypesKept ==
  ASSUME "atomic" \notin Overlap
  PROVE  Spec => []TypeOK
<1>1. IInv => TypeOK
  BY DEF IInv, Types, AppTypes, HostTypes, ProcessTypes, LockInv, TypeOK, MetaFile, Label
<1> QED BY <1>1, Invariant, PTL

\* A create that makes its last write leaves a whole site: its release live and
\* recorded, nginx running what is on disk, the certificate and the runtime
\* processes that were asked for.
THEOREM CompletesWhole ==
  ASSUME "atomic" \notin Overlap
  PROVE  Spec => []CompletedServes
<1>1. IInv => CompletedServes
  <2> SUFFICES ASSUME IInv, NEW p \in Creators, pc[p] = "manifest"
               PROVE  /\ current = loc[p].cand /\ current \in releases
                      /\ meta = [registered |-> TRUE, lastDeploy |-> loc[p].cand]
                      /\ nginx.loaded = nginx.vhost /\ nginx.vhost \in {"http", "https"} /\ Loadable(nginx.vhost)
                      /\ loc[p].opt.tls => nginx.vhost = "https"
                      /\ loc[p].opt.plan \subseteq runtime.spec \cap runtime.unit
    BY DEF CompletedServes
  <2>1. current = loc[p].cand /\ current \in releases /\ meta.registered /\ meta.lastDeploy = loc[p].cand
    BY AtWork DEF DeployOf, AfterActivation, Critical
  <2>2. meta = [registered |-> TRUE, lastDeploy |-> loc[p].cand]
    <3>1. meta \in MetaFile
      BY AtWork DEF AppTypes
    <3>2. meta = [registered |-> meta.registered, lastDeploy |-> meta.lastDeploy] /\ meta.registered \in BOOLEAN
      BY <3>1 DEF MetaFile
    <3> QED BY <2>1, <3>2
  <2> QED BY <2>1, <2>2, AtWork DEF ServeOf, Enabled
<1> QED BY <1>1, Invariant, PTL

\* What the last create that was recorded wrote is what apps/<domain>.json
\* says, whatever later creates do: fail, die, be forced or be compensated.
THEOREM RecordKept ==
  ASSUME "atomic" \notin Overlap
  PROVE  Spec => []LastDeployKept
<1>1. IInv => LastDeployKept
  BY DEF IInv
<1> QED BY <1>1, Invariant, PTL

\* A compensation that is over has undone what the completed steps of its
\* create did, wherever the create failed, but for what a rmtree or a systemctl
\* disable left behind unheard.
THEOREM UndoesAll ==
  ASSUME "atomic" \notin Overlap
  PROVE  Spec => []UndoRestores
<1>1. IInv => UndoRestores
  <2> SUFFICES ASSUME IInv, NEW p \in Creators, pc[p] = "undone"
               PROVE  /\ meta = loc[p].snap.meta
                      /\ root # loc[p].snap.root => root /\ "root" \in loc[p].stuck
                      /\ runtime.dir => loc[p].snap.dir \/ "dir" \in loc[p].stuck
                      /\ loc[p].opt.deploy => nginx.vhost = loc[p].snap.vhost
                      /\ loc[p].cand \in releases => "release" \in loc[p].stuck
                      /\ loc[p].snap.current = NoRelease \/ loc[p].snap.current \in releases
                           => current = loc[p].snap.current
                      /\ loc[p].enabled \cap runtime.spec = {}
                      /\ loc[p].enabled \cap runtime.unit \subseteq loc[p].stuck
                      /\ loc[p].provisioned \/ ~loc[p].hadDb \/ database
    BY DEF UndoRestores
  <2>1. UndoOf(p) /\ SnapOf(p)
    BY AtWork
  <2>2. loc[p].opt.atomic
    BY <2>1 DEF UndoOf, Undoing
  <2>3. loc[p].hadDb => database \/ loc[p].provisioned
    BY <2>1, <2>2 DEF SnapOf
  <2> QED BY <2>1, <2>3 DEF UndoOf, Undoing
<1> QED BY <1>1, Invariant, PTL

==============================================================================
