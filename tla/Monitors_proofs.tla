---------------------------- MODULE Monitors_proofs ----------------------------
(***************************************************************************)
(* What the monitors promise, for any number of processes, lines, files    *)
(* and faults: restarts of the watchdog keep apart, what the state files   *)
(* hold was told, the scan counts each line once, the baseline holds       *)
(* nothing unseen, and a command for a timer that was alone has left what  *)
(* it says.  The first rests on the lock, under which a run knows what the *)
(* file says; the next three do not: they hold whatever runs overlap,      *)
(* since each news has a run that owes it until it is told, and what a run *)
(* of the scan has read stays true of the log as long as the log grows.    *)
(* For the timers, the calls a command has left tell what it has behind    *)
(* it.  That the files of nginx load is taken from NginxConfig_proofs.     *)
(***************************************************************************)
EXTENDS Monitors, NginxConfig_proofs, SequenceTheorems, WellFoundedInduction, TLAPS

-----------------------------------------------------------------------------
(* Steps of one process *)

\* The shape of what the processes share.
Shape ==
  /\ DOMAIN pc = Processes /\ DOMAIN loc = Processes
  /\ lock \in [Lock -> Processes \cup {NoProcess}]

\* A step of p leaves what the others remember, and takes no lock from them.
Others(p) ==
  /\ Shape'
  /\ \A q \in Processes \ {p} : pc'[q] = pc[q] /\ loc'[q] = loc[q]
  /\ \A q \in Processes \ {p} : lock["run"] = q => lock'["run"] = q

\* What a command does when it takes its lock.
LEMMA TakeOthers ==
  ASSUME Shape, NEW p \in Processes, NEW s, NEW l \in Lock, NEW label, NEW locals,
         Take(p, s, l, label, locals)
  PROVE  /\ Others(p)
         /\ pc[p] = "idle" /\ pc'[p] = label /\ loc'[p] = locals
         /\ lock'[l] = p
         /\ subject = s /\ subject' = subject /\ clock' = clock
BY HostAssumption DEF Shape, Take, Goto, Others, Lock

\* What Continue does.
LEMMA ContinueOthers ==
  ASSUME Shape, NEW p \in Processes, NEW label, NEW locals, Continue(p, label, locals)
  PROVE  /\ Others(p)
         /\ pc'[p] = label /\ loc'[p] = locals
         /\ lock' = lock /\ subject' = subject
BY DEF Shape, Continue, Goto, Others

\* What a process keeps when it gives back its locks.
LEMMA GiveBackOthers ==
  ASSUME Shape, NEW p \in Processes, GiveBack(p)
  PROVE  /\ lock' \in [Lock -> Processes \cup {NoProcess}]
         /\ \A q \in Processes \ {p} : lock["run"] = q => lock'["run"] = q
BY DEF Shape, GiveBack, Lock

\* What Unlock does.
LEMMA UnlockOthers ==
  ASSUME Shape, NEW p \in Processes, NEW label, NEW locals, Unlock(p, label, locals)
  PROVE  /\ Others(p)
         /\ pc'[p] = label /\ loc'[p] = locals
         /\ subject' = subject
BY GiveBackOthers DEF Shape, Unlock, Goto, Others

\* What the end of a command does.
LEMMA StopOthers ==
  ASSUME Shape, NEW p \in Processes, Stop(p)
  PROVE  Others(p) /\ pc'[p] = "idle" /\ loc'[p] = NoLocals
BY GiveBackOthers DEF Shape, Stop, Goto, Others

-----------------------------------------------------------------------------
(* The application monitor *)

\* AlertTold is inductive by itself.
AppInv == Shape /\ AlertTold

\* Every step about the application keeps AlertTold: SaveApp owes the alert, EmitApp pays it, and
\* a kill in between is lostNews.
LEMMA AppStep ==
  ASSUME AppInv, subject = "app", AppNext
  PROVE  AppInv'
<1>1. CASE HealthChanges \/ RemoveBadApp
  BY <1>1 DEF HealthChanges, RemoveBadApp, hostVars, AppInv, Shape, AlertTold
<1>2. ASSUME NEW p \in Processes, LockApp(p) \/ CheckApp(p) PROVE AppInv'
  <2>1. Others(p) /\ pc[p] # "emit" /\ UNCHANGED appVars
    BY <1>2, TakeOthers, ContinueOthers DEF AppInv, LockApp, CheckApp, Lock
  <2> QED BY <2>1 DEF Others, AppInv, AlertTold, appVars
<1>3. ASSUME NEW p \in Processes, SaveApp(p) PROVE AppInv'
  <2>1. CASE appState = "invalid"
    <3>1. Others(p) /\ UNCHANGED appVars
      BY <1>3, <2>1, StopOthers DEF AppInv, SaveApp, End
    <3> QED BY <2>1, <3>1 DEF Others, AppInv, AlertTold, appVars
  <2>2. CASE appState # "invalid"
    <3>1. /\ Others(p) /\ pc[p] = "compare" /\ pc'[p] = "emit"
          /\ loc'[p] = [status |-> loc[p].status, transition |-> Transition(appState, loc[p].status)]
          /\ appState' = loc[p].status
          /\ told' = (told /\ appState = loc[p].status)
          /\ lostNews' = lostNews
      BY <1>3, <2>2, UnlockOthers DEF AppInv, SaveApp
    <3>2. CASE appState = appState'
      BY <3>1, <3>2 DEF Others, AppInv, AlertTold
    <3>3. ASSUME appState # appState', appState' \in {"warn", "error"}
          PROVE  loc'[p].transition = "alert" /\ loc'[p].status = appState'
      BY <3>1, <3>3 DEF Transition
    <3> QED BY <3>1, <3>2, <3>3 DEF Others, AppInv, AlertTold
  <2> QED BY <2>1, <2>2
<1>4. ASSUME NEW p \in Processes, EmitApp(p) PROVE AppInv'
  <2>1. /\ Others(p) /\ appState' = appState /\ lostNews' = lostNews
        /\ told' = (told \/ (loc[p].transition = "alert" /\ loc[p].status = appState))
    BY <1>4, StopOthers DEF AppInv, EmitApp, End
  <2> QED BY <2>1 DEF Others, AppInv, AlertTold
<1>5. ASSUME NEW p \in Processes, KillApp(p) PROVE AppInv'
  <2>1. /\ Others(p) /\ told' = told
        /\ appState' = appState \/ appState' = "invalid"
        /\ lostNews' = (lostNews \/ pc[p] = "emit")
    BY <1>5, StopOthers DEF AppInv, KillApp, Break
  <2> QED BY <2>1 DEF Others, AppInv, AlertTold
<1> QED BY <1>1, <1>2, <1>3, <1>4, <1>5 DEF AppNext

-----------------------------------------------------------------------------
(* The file integrity monitor *)

\* What an init took or an event told, or a run that has updated the baseline owes.
Vouched(f, c) ==
  \/ c \in known[f] \/ untold
  \/ \E q \in Processes :
       pc[q] = "emit" /\ loc[q].update /\ f \in loc[q].tell /\ loc[q].snapshot[f] = c

\* A run knows of what the baseline said when it began, and after it has compared it owes
\* whatever it cannot vouch for otherwise.
Runs(c, r) ==
  /\ c = "snapshot" =>
       /\ DOMAIN r = {"init", "update", "old", "snapshot", "left"}
       /\ r.init \/ \A f \in Files : Vouched(f, r.old[f])
       /\ r.init => r.update
  /\ c \in {"save", "unlock", "emit"} => DOMAIN r = {"init", "update", "snapshot", "tell"}
  /\ c = "save" =>
       /\ r.update
       /\ \A f \in Files : r.init \/ f \in r.tell \/ Vouched(f, r.snapshot[f])

FimInv ==
  /\ Shape /\ DOMAIN known = Files
  /\ \A q \in Processes : Runs(pc[q], loc[q])
  /\ baseline.status = "written" => \A f \in Files : Vouched(f, baseline.files[f])

\* A step of p that keeps what is vouched for keeps what the others know.
LEMMA VouchedOthers ==
  ASSUME FimInv, NEW p \in Processes, Others(p),
         \A f \in Files : \A c : Vouched(f, c) => Vouched(f, c)'
  PROVE  \A q \in Processes \ {p} : Runs(pc[q], loc[q])'
BY DEF FimInv, Runs, Others

\* What was vouched for stays so in a step of p which does not drop what it owes.
LEMMA StaysVouched ==
  ASSUME NEW p \in Processes, Others(p), DOMAIN known = Files,
         untold => untold', \A f \in Files : known[f] \subseteq known'[f],
         \A f \in Files :
           pc[p] = "emit" /\ loc[p].update /\ f \in loc[p].tell =>
             \/ untold' \/ loc[p].snapshot[f] \in known'[f]
             \/ /\ pc'[p] = "emit" /\ loc'[p].update /\ f \in loc'[p].tell
                /\ loc'[p].snapshot[f] = loc[p].snapshot[f]
  PROVE  \A f \in Files : \A c : Vouched(f, c) => Vouched(f, c)'
<1> SUFFICES ASSUME NEW f \in Files, NEW c, Vouched(f, c), ~untold', c \notin known'[f]
             PROVE  Vouched(f, c)'
  BY DEF Vouched
<1>1. PICK q \in Processes :
        pc[q] = "emit" /\ loc[q].update /\ f \in loc[q].tell /\ loc[q].snapshot[f] = c
  BY DEF Vouched
<1>2. CASE q = p
  BY <1>1, <1>2 DEF Vouched
<1>3. CASE q # p
  BY <1>1, <1>3 DEF Vouched, Others
<1> QED BY <1>2, <1>3

\* FimInv after a step of p in which what is vouched for stays so.
LEMMA FimKept ==
  ASSUME FimInv, NEW p \in Processes, Others(p), DOMAIN known' = Files,
         untold => untold', \A f \in Files : known[f] \subseteq known'[f],
         \A f \in Files :
           pc[p] = "emit" /\ loc[p].update /\ f \in loc[p].tell =>
             \/ untold' \/ loc[p].snapshot[f] \in known'[f]
             \/ /\ pc'[p] = "emit" /\ loc'[p].update /\ f \in loc'[p].tell
                /\ loc'[p].snapshot[f] = loc[p].snapshot[f],
         (\A f \in Files : \A c : Vouched(f, c) => Vouched(f, c)') => Runs(pc[p], loc[p])',
         \/ baseline' = baseline
         \/ baseline'.status # "written"
         \/ \A f \in Files : Vouched(f, baseline.files[f])'
  PROVE  FimInv'
<1>1. \A f \in Files : \A c : Vouched(f, c) => Vouched(f, c)'
  BY StaysVouched DEF FimInv
<1>2. \A q \in Processes : Runs(pc[q], loc[q])'
  BY <1>1, VouchedOthers
<1>3. baseline'.status = "written" => \A f \in Files : Vouched(f, baseline.files[f])'
  BY <1>1 DEF FimInv
<1> QED BY <1>2, <1>3 DEF FimInv, Others

\* Every step about the watched files keeps FimInv.
LEMMA FimStep ==
  ASSUME FimInv, subject = "fim", FimNext
  PROVE  FimInv'
<1>1. CASE FileChanges
  BY <1>1 DEF FileChanges, hostVars, FimInv, Shape, Runs, Vouched
<1>2. ASSUME NEW p \in Processes, LockInit(p) PROVE FimInv'
  <2> DEFINE r == [init |-> TRUE, update |-> TRUE, old |-> AllMissing, snapshot |-> AllMissing,
                   left |-> Files]
  <2>1. /\ DOMAIN r = {"init", "update", "old", "snapshot", "left"}
        /\ r.init /\ r.update
    OBVIOUS
  <2>2. Take(p, "fim", "init", "snapshot", r) /\ UNCHANGED fimVars
    BY <1>2 DEF LockInit
  <2> HIDE DEF r
  <2>3. Others(p) /\ pc[p] = "idle" /\ pc'[p] = "snapshot" /\ loc'[p] = r
    <3>1. Shape /\ "init" \in Lock
      BY DEF FimInv, Lock
    <3> QED BY <2>2, <3>1, TakeOthers
  <2>4. Runs(pc[p], loc[p])'
    BY <2>1, <2>3 DEF Runs
  <2> QED BY <2>2, <2>3, <2>4, FimKept DEF FimInv, fimVars
<1>3. ASSUME NEW p \in Processes, NEW update \in Updates, LockRun(p, update) PROVE FimInv'
  <2>1. /\ Others(p) /\ pc[p] = "idle" /\ pc'[p] = "snapshot" /\ UNCHANGED fimVars
        /\ baseline.status = "written"
        /\ loc'[p] = [init |-> FALSE, update |-> update, old |-> baseline.files, snapshot |-> AllMissing, left |-> Files]
    BY <1>3, TakeOthers DEF FimInv, LockRun, Lock
  <2>2. ASSUME \A f \in Files : \A c : Vouched(f, c) => Vouched(f, c)' PROVE Runs(pc[p], loc[p])'
    <3>1. \A f \in Files : Vouched(f, baseline.files[f])'
      BY <2>1, <2>2 DEF FimInv, fimVars
    <3>2. DOMAIN loc'[p] = {"init", "update", "old", "snapshot", "left"} /\ ~loc'[p].init
      BY <2>1
    <3>3. \A f \in Files : Vouched(f, loc[p].old[f])'
      BY <2>1, <3>1 DEF fimVars
    <3> QED BY <2>1, <3>2, <3>3 DEF Runs
  <2> QED BY <2>1, <2>2, FimKept DEF FimInv, fimVars
<1>4. ASSUME NEW p \in Processes, HashNext(p) PROVE FimInv'
  <2> DEFINE g == CHOOSE f \in loc[p].left : \A h \in loc[p].left : f <= h
  <2>1. /\ Others(p) /\ pc[p] = "snapshot" /\ pc'[p] = "snapshot" /\ UNCHANGED fimVars
        /\ loc'[p] = [loc[p] EXCEPT !.snapshot[g] = file[g], !.left = @ \ {g}]
    BY <1>4, ContinueOthers DEF FimInv, HashNext
  <2>2. DOMAIN loc[p] = {"init", "update", "old", "snapshot", "left"}
    BY <2>1 DEF FimInv, Runs
  <2>3. /\ DOMAIN loc'[p] = {"init", "update", "old", "snapshot", "left"}
        /\ loc'[p].init = loc[p].init /\ loc'[p].update = loc[p].update /\ loc'[p].old = loc[p].old
    BY <2>1, <2>2
  <2>4. ASSUME \A f \in Files : \A c : Vouched(f, c) => Vouched(f, c)' PROVE Runs(pc[p], loc[p])'
    BY <2>1, <2>3, <2>4 DEF FimInv, Runs
  <2> QED BY <2>1, <2>4, FimKept DEF FimInv, fimVars
<1>5. ASSUME NEW p \in Processes, Compare(p) PROVE FimInv'
  <2>1. /\ Others(p) /\ pc[p] = "snapshot" /\ UNCHANGED fimVars
        /\ pc'[p] = (IF loc[p].update THEN "save" ELSE "unlock")
        /\ loc'[p] = [init |-> loc[p].init, update |-> loc[p].update, snapshot |-> loc[p].snapshot,
                      tell |-> IF loc[p].init THEN {} ELSE Changed(loc[p])]
    BY <1>5, ContinueOthers DEF FimInv, Compare
  <2>2. ASSUME \A f \in Files : \A c : Vouched(f, c) => Vouched(f, c)' PROVE Runs(pc[p], loc[p])'
    <3>1. DOMAIN loc'[p] = {"init", "update", "snapshot", "tell"} /\ (pc'[p] = "save" => loc'[p].update)
      BY <2>1
    <3>2. ASSUME NEW f \in Files, ~loc[p].init, loc[p].snapshot[f] = loc[p].old[f]
          PROVE  Vouched(f, loc[p].snapshot[f])'
      BY <2>1, <2>2, <3>2 DEF FimInv, Runs
    <3>3. \A f \in Files : loc'[p].init \/ f \in loc'[p].tell \/ Vouched(f, loc[p].snapshot[f])'
      BY <2>1, <3>2 DEF Changed
    <3>4. loc'[p].snapshot = loc[p].snapshot
      BY <2>1
    <3>5. \A f \in Files : loc[p].init' \/ f \in loc[p].tell' \/ Vouched(f, loc[p].snapshot[f])'
      BY <3>3, <3>4 DEF Vouched
    <3> QED BY <2>1, <3>1, <3>5 DEF Runs
  <2> QED BY <2>1, <2>2, FimKept DEF FimInv, fimVars
<1>6. ASSUME NEW p \in Processes, SaveBaseline(p) PROVE FimInv'
  <2>1. /\ Others(p) /\ pc[p] = "save" /\ pc'[p] = "emit" /\ loc'[p] = loc[p]
        /\ baseline' = [status |-> "written", files |-> loc[p].snapshot]
        /\ known' = IF loc[p].init THEN [f \in Files |-> known[f] \cup {loc[p].snapshot[f]}] ELSE known
        /\ untold' = untold
    BY <1>6, UnlockOthers DEF FimInv, SaveBaseline
  <2>2. DOMAIN known' = Files /\ \A f \in Files : known[f] \subseteq known'[f]
    BY <2>1 DEF FimInv
  <2>3. Runs(pc[p], loc[p])'
    BY <2>1 DEF FimInv, Runs
  <2>4. ASSUME NEW f \in Files PROVE Vouched(f, baseline.files[f])'
    <3>1. CASE loc[p].init
      BY <2>1, <3>1 DEF Vouched
    <3>2. CASE f \in loc[p].tell
      BY <2>1, <3>2 DEF FimInv, Runs, Vouched
    <3>3. CASE ~loc[p].init /\ f \notin loc[p].tell
      <4>1. Vouched(f, loc[p].snapshot[f])
        BY <2>1, <3>3 DEF FimInv, Runs
      <4>2. Vouched(f, loc[p].snapshot[f])'
        BY <4>1, <2>1, <2>2, StaysVouched DEF FimInv
      <4> QED BY <4>2, <2>1
    <3> QED BY <3>1, <3>2, <3>3
  <2> QED BY <2>1, <2>2, <2>3, <2>4, FimKept
<1>7. ASSUME NEW p \in Processes, UnlockRun(p) PROVE FimInv'
  <2>1. /\ Others(p) /\ pc[p] = "unlock" /\ pc'[p] = "emit" /\ loc'[p] = loc[p] /\ UNCHANGED fimVars
    BY <1>7, UnlockOthers DEF FimInv, UnlockRun
  <2>2. Runs(pc[p], loc[p])'
    BY <2>1 DEF FimInv, Runs
  <2> QED BY <2>1, <2>2, FimKept DEF FimInv, fimVars
<1>8. ASSUME NEW p \in Processes, EmitChange(p) PROVE FimInv'
  <2>1. PICK g \in loc[p].tell :
          /\ known' = [known EXCEPT ![g] = @ \cup {loc[p].snapshot[g]}]
          /\ Continue(p, "emit", [loc[p] EXCEPT !.tell = @ \ {g}])
    BY <1>8 DEF EmitChange
  <2>2. /\ Others(p) /\ pc[p] = "emit" /\ pc'[p] = "emit"
        /\ loc'[p] = [loc[p] EXCEPT !.tell = @ \ {g}]
        /\ UNCHANGED <<baseline, untold>>
    BY <1>8, <2>1, ContinueOthers DEF FimInv, EmitChange
  <2>3. DOMAIN loc[p] = {"init", "update", "snapshot", "tell"}
    BY <2>2 DEF FimInv, Runs
  <2>4. /\ DOMAIN loc'[p] = {"init", "update", "snapshot", "tell"}
        /\ loc'[p].update = loc[p].update /\ loc'[p].snapshot = loc[p].snapshot
        /\ loc'[p].tell = loc[p].tell \ {g}
    BY <2>2, <2>3
  <2>5. Runs(pc[p], loc[p])'
    BY <2>2, <2>4 DEF Runs
  <2>6. /\ DOMAIN known' = Files /\ \A f \in Files : known[f] \subseteq known'[f]
        /\ g \in Files => loc[p].snapshot[g] \in known'[g]
    BY <2>1 DEF FimInv
  <2> QED BY <2>2, <2>4, <2>5, <2>6, FimKept
<1>9. ASSUME NEW p \in Processes, EndFim(p) PROVE FimInv'
  <2>1. /\ Others(p) /\ pc[p] = "emit" /\ loc[p].tell = {} /\ pc'[p] = "idle" /\ UNCHANGED fimVars
    BY <1>9, StopOthers DEF FimInv, EndFim, End
  <2>2. Runs(pc[p], loc[p])'
    BY <2>1 DEF Runs
  <2> QED BY <2>1, <2>2, FimKept DEF FimInv, fimVars
<1>10. ASSUME NEW p \in Processes, KillFim(p) PROVE FimInv'
  <2>1. /\ Others(p) /\ pc'[p] = "idle" /\ known' = known
        /\ baseline' = baseline \/ baseline'.status = "invalid"
        /\ untold' = (untold \/ (pc[p] = "emit" /\ loc[p].update /\ loc[p].tell # {}))
    BY <1>10, StopOthers DEF FimInv, KillFim, Break
  <2>2. Runs(pc[p], loc[p])'
    BY <2>1 DEF Runs
  <2> QED BY <2>1, <2>2, FimKept DEF FimInv
<1> QED BY <1>1, <1>2, <1>3, <1>4, <1>5, <1>6, <1>7, <1>8, <1>9, <1>10 DEF FimNext

-----------------------------------------------------------------------------
(* The watchdog *)

\* The phases in which a run works on what it read of the state file.
Running == {"probe", "restart", "probe again", "save"}

\* A run owes an event for a service that it found down, unless it was known to be down, or it
\* was not seen active.
Owes(r) ==
  r.after \notin Healthy =>
    \/ r.transition \in {"down", "restart_failed"}
    \/ r.transition = "steady" /\ r.previous.active # "active"

\* What a run knows in a phase c: the state file is as it read it, and it remembers the restart
\* that it has made.
Knows(c, r) ==
  /\ c \in Running => r.previous = watch /\ watch # BadWatch
  /\ c = "restart" => ~CoolingDown(r)
  /\ c = "probe again" => forgotten \/ r.now = lastAttempt
  /\ c = "save" => /\ forgotten \/ r.attempt = lastAttempt
                   /\ r.after \in Units /\ Owes(r)

\* The state file has the last restart while no run is about to save one.
Recorded ==
  \/ forgotten
  \/ \E q \in Processes : pc[q] \in {"probe again", "save"}
  \/ lastAttempt = watch.attempt

WatchInv ==
  /\ Shape /\ unit \in Units
  /\ watch.active \in Units \cup {"none"} \/ (watch = BadWatch /\ forgotten)
  /\ \A q \in Processes : pc[q] \in Running => lock["run"] = q
  /\ \A q \in Processes : Knows(pc[q], loc[q])
  /\ Recorded
  /\ RestartsApart
  /\ DownTold

\* While one run works there is no other.
LEMMA OneRun ==
  ASSUME WatchInv, NEW p \in Processes, NEW q \in Processes, pc[p] \in Running, pc[q] \in Running
  PROVE  q = p
BY DEF WatchInv

\* A step of p that leaves the state file alone, or of the run that has the lock: p decides.
LEMMA WatchKept ==
  ASSUME WatchInv, NEW p \in Processes, Others(p), unit' \in Units,
         watch' = watch \/ pc[p] \in Running,
         watch'.active \in Units \cup {"none"} \/ (watch' = BadWatch /\ forgotten'),
         pc'[p] \in Running => lock'["run"] = p,
         lastAttempt' = lastAttempt \/ pc[p] \in Running,
         forgotten => forgotten',
         Knows(pc[p], loc[p])', Recorded', RestartsApart', DownTold'
  PROVE  WatchInv'
<1>1. ASSUME NEW q \in Processes \ {p} PROVE Knows(pc[q], loc[q])'
  <2>1. CASE pc[p] \in Running
    <3>1. pc[q] \notin Running
      BY <2>1, OneRun
    <3> QED BY <3>1 DEF Knows, Running, Others
  <2>2. CASE pc[p] \notin Running
    BY <2>2 DEF Knows, Others, WatchInv, CoolingDown, Owes
  <2> QED BY <2>1, <2>2
<1>2. \A q \in Processes : pc'[q] \in Running => lock'["run"] = q
  BY DEF WatchInv, Others
<1> QED BY <1>1, <1>2 DEF WatchInv, Others

\* What is still owed when p did not owe it.
LEMMA StillPending ==
  ASSUME NEW p \in Processes, Others(p), pc[p] # "emit", DownPending
  PROVE  DownPending'
BY DEF DownPending, Others

\* Every step about the service keeps WatchInv.
LEMMA WatchStepKept ==
  ASSUME WatchInv, subject = "service", subject' = subject, WatchNext
  PROVE  WatchInv'
<1>1. CASE ServiceChanges
  BY <1>1 DEF ServiceChanges, hostVars, WatchInv, Shape, Knows, CoolingDown, Owes, Recorded,
              RestartsApart, DownTold, DownPending
<1>2. CASE RemoveBadWatch
  <2>1. watch = BadWatch /\ watch' = NoWatch
        /\ UNCHANGED <<hostVars, unit, lastAttempt, tooSoon, forgotten, toldDown, lostDown, overlooked>>
    BY <1>2 DEF RemoveBadWatch
  <2>2. forgotten /\ watch'.active = "none"
    BY <2>1 DEF WatchInv, BadWatch, NoWatch, Units
  <2>3. \A q \in Processes : pc[q] \notin Running
    BY <2>1 DEF WatchInv, Knows
  <2>4. \A q \in Processes : Knows(pc[q], loc[q])'
    BY <2>1, <2>3 DEF Knows, Running, hostVars
  <2>5. Recorded' /\ RestartsApart' /\ DownTold'
    BY <2>1, <2>2 DEF Recorded, RestartsApart, DownTold
  <2> QED BY <2>1, <2>2, <2>4, <2>5 DEF hostVars, WatchInv, Shape
<1>3. ASSUME NEW p \in Processes, NEW restart \in RestartDown, LoadWatch(p, restart) PROVE WatchInv'
  <2>1. /\ Others(p) /\ pc[p] = "idle" /\ pc'[p] = "probe" /\ lock'["run"] = p
        /\ loc'[p] = [now |-> clock, restart |-> restart, previous |-> watch]
        /\ watch # BadWatch /\ UNCHANGED watchVars
    <3>1. Shape /\ "run" \in Lock
      BY DEF WatchInv, Lock
    <3>2. /\ watch # BadWatch /\ UNCHANGED watchVars
          /\ Take(p, "service", "run", "probe", [now |-> clock, restart |-> restart, previous |-> watch])
      BY <1>3 DEF LoadWatch
    <3> QED BY <3>1, <3>2, TakeOthers
  <2>2. Knows(pc[p], loc[p])'
    BY <2>1 DEF Knows, watchVars
  <2>3. Recorded'
    BY <2>1 DEF WatchInv, Recorded, Others, watchVars
  <2>4. DownTold'
    BY <2>1, StillPending DEF WatchInv, DownTold, watchVars
  <2> QED BY <2>1, <2>2, <2>3, <2>4, WatchKept DEF WatchInv, RestartsApart, watchVars
<1>4. ASSUME NEW p \in Processes, ProbeService(p) PROVE WatchInv'
  <2> DEFINE change ==
        IF unit \in Healthy
        THEN IF loc[p].previous.active \notin Healthy \cup {"none"} THEN "recovered" ELSE "steady"
        ELSE IF loc[p].previous.active = "active" THEN "down" ELSE "steady"
  <2>1. /\ Others(p) /\ pc[p] = "probe" /\ lock' = lock /\ UNCHANGED watchVars
        /\ \/ /\ pc'[p] = "restart" /\ loc'[p] = loc[p] /\ ~CoolingDown(loc[p])
           \/ /\ pc'[p] = "save"
              /\ loc'[p] = [previous |-> loc[p].previous, after |-> unit, transition |-> change,
                            attempt |-> loc[p].previous.attempt]
    BY <1>4, ContinueOthers DEF WatchInv, ProbeService
  <2>2. /\ loc[p].previous = watch /\ watch # BadWatch /\ lock["run"] = p
        /\ forgotten \/ lastAttempt = watch.attempt
    <3>1. \A q \in Processes : pc[q] \notin {"probe again", "save"}
      BY <2>1, OneRun DEF Running
    <3> QED BY <3>1, <2>1 DEF WatchInv, Knows, Running, Recorded
  <2>3. Knows(pc[p], loc[p])'
    <3>1. CASE pc'[p] = "restart" /\ loc'[p] = loc[p] /\ ~CoolingDown(loc[p])
      BY <3>1, <2>1, <2>2 DEF Knows, CoolingDown, watchVars
    <3>2. CASE pc'[p] = "save" /\ loc'[p] = [previous |-> loc[p].previous, after |-> unit,
                                             transition |-> change, attempt |-> loc[p].previous.attempt]
      <4>1. /\ loc'[p].previous = watch /\ loc'[p].after = unit
            /\ loc'[p].transition = change /\ loc'[p].attempt = watch.attempt
        BY <3>2, <2>2
      <4>2. Owes(loc'[p])
        BY <4>1, <2>2 DEF Owes
      <4>3. unit \in Units
        BY DEF WatchInv
      <4> HIDE DEF change
      <4> QED BY <3>2, <4>1, <4>2, <4>3, <2>1, <2>2 DEF Knows, Owes, watchVars
    <3> QED BY <3>1, <3>2, <2>1
  <2>4. Recorded'
    BY <2>1, <2>2 DEF Recorded, watchVars
  <2>5. DownTold'
    BY <2>1, StillPending DEF WatchInv, DownTold, watchVars
  <2> HIDE DEF change
  <2> QED BY <2>1, <2>2, <2>3, <2>4, <2>5, WatchKept DEF WatchInv, RestartsApart, watchVars
<1>5. ASSUME NEW p \in Processes, RestartService(p) PROVE WatchInv'
  <2>1. /\ Others(p) /\ pc[p] = "restart" /\ pc'[p] = "probe again" /\ loc'[p] = loc[p] /\ lock' = lock
        /\ unit' \in Units /\ lastAttempt' = loc[p].now
        /\ tooSoon' = (tooSoon \/ (lastAttempt # 0 /\ loc[p].now - lastAttempt < RestartCooldown))
        /\ UNCHANGED <<watch, forgotten, toldDown, lostDown, overlooked>>
    <3>1. Continue(p, "probe again", loc[p])
      BY <1>5 DEF RestartService
    <3>2. Others(p) /\ pc'[p] = "probe again" /\ loc'[p] = loc[p] /\ lock' = lock
      BY <3>1, ContinueOthers DEF WatchInv
    <3> QED BY <1>5, <3>2 DEF RestartService
  <2>2. /\ loc[p].previous = watch /\ watch # BadWatch /\ lock["run"] = p /\ ~CoolingDown(loc[p])
        /\ forgotten \/ lastAttempt = watch.attempt
    <3>1. \A q \in Processes : pc[q] \notin {"probe again", "save"}
      BY <2>1, OneRun DEF Running
    <3> QED BY <3>1, <2>1 DEF WatchInv, Knows, Running, Recorded
  <2>3. Knows(pc[p], loc[p])'
    BY <2>1, <2>2 DEF Knows
  <2>4. RestartsApart'
    BY <2>1, <2>2 DEF WatchInv, RestartsApart, CoolingDown
  <2>5. Recorded'
    BY <2>1 DEF Recorded
  <2>6. DownTold'
    BY <2>1, StillPending DEF WatchInv, DownTold
  <2> QED BY <2>1, <2>2, <2>3, <2>4, <2>5, <2>6, WatchKept DEF WatchInv, Running
<1>6. ASSUME NEW p \in Processes, ProbeAgain(p) PROVE WatchInv'
  <2> DEFINE change == IF unit \in Healthy THEN "restarted" ELSE "restart_failed"
  <2>1. /\ Others(p) /\ pc[p] = "probe again" /\ pc'[p] = "save" /\ lock' = lock /\ UNCHANGED watchVars
        /\ loc'[p] = [previous |-> loc[p].previous, after |-> unit, attempt |-> loc[p].now,
                      transition |-> change]
    BY <1>6, ContinueOthers DEF WatchInv, ProbeAgain
  <2>2. /\ loc[p].previous = watch /\ watch # BadWatch /\ lock["run"] = p
        /\ forgotten \/ loc[p].now = lastAttempt
    BY <2>1 DEF WatchInv, Knows, Running
  <2>3. Knows(pc[p], loc[p])'
    <3>0. unit \notin Healthy => change = "restart_failed"
      OBVIOUS
    <3> HIDE DEF change
    <3>1. /\ loc'[p].previous = loc[p].previous /\ loc'[p].after = unit
          /\ loc'[p].transition = change /\ loc'[p].attempt = loc[p].now
      <4>1. loc'[p] = [previous |-> loc[p].previous, after |-> unit, attempt |-> loc[p].now,
                       transition |-> change]
        BY <2>1
      <4> QED BY <4>1
    <3>2. Owes(loc'[p])
      BY <3>0, <3>1 DEF Owes
    <3> QED BY <3>1, <3>2, <2>1, <2>2 DEF WatchInv, Knows, Owes, watchVars
  <2>4. Recorded'
    BY <2>1 DEF Recorded
  <2>5. DownTold'
    BY <2>1, StillPending DEF WatchInv, DownTold, watchVars
  <2> HIDE DEF change
  <2> QED BY <2>1, <2>2, <2>3, <2>4, <2>5, WatchKept DEF WatchInv, RestartsApart, watchVars
<1>7. ASSUME NEW p \in Processes, SaveWatch(p) PROVE WatchInv'
  <2>1. /\ Others(p) /\ pc[p] = "save" /\ pc'[p] = "emit" /\ loc'[p] = loc[p]
        /\ watch' = [active |-> loc[p].after, attempt |-> loc[p].attempt]
        /\ toldDown' = (toldDown /\ loc[p].after \notin Healthy)
        /\ lostDown' = (lostDown /\ loc[p].after \notin Healthy)
        /\ overlooked' = (loc[p].after \notin Healthy /\ (overlooked \/ Overlooks(loc[p])))
        /\ UNCHANGED <<unit, lastAttempt, tooSoon, forgotten>>
    BY <1>7, UnlockOthers DEF WatchInv, SaveWatch
  <2>2. /\ loc[p].previous = watch /\ watch # BadWatch
        /\ forgotten \/ loc[p].attempt = lastAttempt
        /\ loc[p].after \in Units /\ Owes(loc[p])
    BY <2>1 DEF WatchInv, Knows, Running
  <2>3. Knows(pc[p], loc[p])' /\ Recorded'
    BY <2>1, <2>2 DEF Knows, Running, Recorded
  <2>4. DownTold'
    <3> SUFFICES ASSUME watch'.active = "failed" PROVE toldDown' \/ DownPending' \/ lostDown' \/ overlooked'
      BY DEF DownTold
    <3>1. loc[p].after \notin Healthy
      BY <2>1 DEF Healthy
    <3>2. CASE loc[p].transition \in {"down", "restart_failed"}
      BY <3>2, <2>1 DEF DownPending
    <3>3. CASE loc[p].transition = "steady" /\ watch.active = "failed"
      BY <3>1, <3>3, <2>1, StillPending DEF WatchInv, DownTold
    <3>4. CASE loc[p].transition = "steady" /\ watch.active \in {"none", "activating"}
      BY <3>1, <3>4, <2>1, <2>2 DEF Overlooks
    <3> QED BY <3>1, <3>2, <3>3, <3>4, <2>2 DEF Owes, WatchInv, Units
  <2> QED BY <2>1, <2>2, <2>3, <2>4, WatchKept DEF WatchInv, Running, RestartsApart
<1>8. ASSUME NEW p \in Processes, EmitWatch(p) PROVE WatchInv'
  <2>1. /\ Others(p) /\ pc[p] = "emit" /\ pc'[p] = "idle"
        /\ toldDown' = (toldDown \/ loc[p].transition \in {"down", "restart_failed"})
        /\ UNCHANGED <<unit, watch, lastAttempt, tooSoon, forgotten, lostDown, overlooked>>
    BY <1>8, StopOthers DEF WatchInv, EmitWatch, End
  <2>2. Knows(pc[p], loc[p])'
    BY <2>1 DEF Knows, Running
  <2>3. Recorded'
    BY <2>1 DEF WatchInv, Recorded, Others
  <2>4. DownTold'
    BY <2>1 DEF WatchInv, DownTold, DownPending, Others
  <2> QED BY <2>1, <2>2, <2>3, <2>4, WatchKept DEF WatchInv, Running, RestartsApart
<1>9. ASSUME NEW p \in Processes, KillWatch(p) PROVE WatchInv'
  <2>1. /\ Others(p) /\ pc'[p] = "idle"
        /\ watch' = watch \/ (pc[p] = "save" /\ watch' = BadWatch)
        /\ forgotten' = (forgotten \/ pc[p] = "probe again" \/ watch' # watch
                         \/ (pc[p] = "save" /\ loc[p].attempt # loc[p].previous.attempt))
        /\ lostDown' = (lostDown \/ (pc[p] = "emit" /\ loc[p].transition \in {"down", "restart_failed"}))
        /\ UNCHANGED <<unit, lastAttempt, tooSoon, toldDown, overlooked>>
    <3>1. Others(p) /\ pc'[p] = "idle"
      BY <1>9, StopOthers DEF WatchInv, KillWatch, Break
    <3> QED BY <1>9, <3>1 DEF KillWatch
  <2>2. Knows(pc[p], loc[p])'
    BY <2>1 DEF Knows, Running
  <2>3. watch' # BadWatch \/ forgotten'
    <3>1. watch = BadWatch => forgotten
      BY DEF WatchInv, BadWatch, Units
    <3> QED BY <3>1, <2>1
  <2>4. Recorded'
    <3> SUFFICES ASSUME ~forgotten', \A q \in Processes : pc'[q] \notin {"probe again", "save"}
                 PROVE  lastAttempt = watch.attempt /\ watch' = watch
      BY <2>1 DEF Recorded
    <3>1. CASE pc[p] = "save"
      BY <3>1, <2>1 DEF WatchInv, Knows, Running
    <3>2. CASE pc[p] # "save"
      BY <3>2, <2>1 DEF WatchInv, Recorded, Others
    <3> QED BY <3>1, <3>2
  <2>5. DownTold'
    <3>1. BadWatch.active = "invalid"
      BY DEF BadWatch
    <3>2. watch' = watch \/ watch'.active = "invalid"
      BY <2>1, <3>1
    <3> QED BY <2>1, <3>2 DEF WatchInv, DownTold, DownPending, Others
  <2> QED BY <2>1, <2>2, <2>3, <2>4, <2>5, WatchKept DEF WatchInv, Running, RestartsApart
<1> QED BY <1>1, <1>2, <1>3, <1>4, <1>5, <1>6, <1>7, <1>8, <1>9 DEF WatchNext, WatchStep

-----------------------------------------------------------------------------
(* The timers and the daemon: the calls that a command has left *)

\* What is left of an enable.
InstallDaemon == <<"writeService", "relabel", "reload", "enable">>
FromTimer == <<"writeTimer", "relabel", "reload", "enable">>
FromRelabel == <<"relabel", "reload", "enable">>
FromReload == <<"reload", "enable">>
FromEnable == <<"enable">>

\* What is left of a disable, without and with --remove-units.
TryDisable == <<"tryDisable">>
AskDisable == <<"known", "disable">>
JustDisable == <<"disable">>
TryRemove == <<"tryDisable", "unlinkService", "unlinkTimer">>
AskRemove == <<"known", "disable", "unlinkService", "unlinkTimer">>
JustRemove == <<"disable", "unlinkService", "unlinkTimer">>
Unlink == <<"unlinkService", "unlinkTimer">>
UnlinkLast == <<"unlinkTimer">>
UnlinkReload == <<"unlinkTimer", "tryReload">>
LastReload == <<"tryReload">>

OnlyRestart == <<"restart">>

AfterFiles == {FromRelabel, FromReload, FromEnable, <<>>}
AfterService == {FromTimer} \cup AfterFiles
EnableTodo == {InstallTimer, InstallDaemon} \cup AfterService

TimerGone == {LastReload, <<>>}
ServiceGone == {UnlinkLast, UnlinkReload} \cup TimerGone
Stopped == {Unlink} \cup ServiceGone
KeepTodo == {TryDisable, AskDisable, JustDisable, <<>>}
RemoveTodo == {TryRemove, AskRemove, JustRemove} \cup Stopped

\* The next call, and what is left after it.
Goes(t, call, rest) == t # <<>> /\ Head(t) = call /\ Tail(t) = rest

\* The calls of an enable, one by one.
LEMMA EnableGoes ==
  /\ Goes(InstallTimer, "writeService", FromTimer) /\ Goes(InstallDaemon, "writeService", FromRelabel)
  /\ Goes(FromTimer, "writeTimer", FromRelabel) /\ Goes(FromRelabel, "relabel", FromReload)
  /\ Goes(FromReload, "reload", FromEnable) /\ Goes(FromEnable, "enable", <<>>)
<1>1. Goes(InstallTimer, "writeService", FromTimer)
  BY DEF Goes, InstallTimer, FromTimer
<1>2. Goes(InstallDaemon, "writeService", FromRelabel)
  BY DEF Goes, InstallDaemon, FromRelabel
<1>3. Goes(FromTimer, "writeTimer", FromRelabel)
  BY DEF Goes, FromTimer, FromRelabel
<1>4. Goes(FromRelabel, "relabel", FromReload)
  BY DEF Goes, FromRelabel, FromReload
<1>5. Goes(FromReload, "reload", FromEnable)
  BY DEF Goes, FromReload, FromEnable
<1>6. Goes(FromEnable, "enable", <<>>)
  BY DEF Goes, FromEnable
<1> QED BY <1>1, <1>2, <1>3, <1>4, <1>5, <1>6

\* The calls of a disable, one by one.
LEMMA DisableGoes ==
  /\ Goes(TryDisable, "tryDisable", <<>>) /\ Goes(AskDisable, "known", JustDisable)
  /\ Goes(JustDisable, "disable", <<>>)
  /\ Goes(TryRemove, "tryDisable", Unlink) /\ Goes(AskRemove, "known", JustRemove)
  /\ Goes(JustRemove, "disable", Unlink)
  /\ Goes(Unlink, "unlinkService", UnlinkLast) /\ Goes(UnlinkLast, "unlinkTimer", <<>>)
  /\ Goes(UnlinkReload, "unlinkTimer", LastReload) /\ Goes(LastReload, "tryReload", <<>>)
<1>1. Goes(TryDisable, "tryDisable", <<>>)
  BY DEF Goes, TryDisable
<1>2. Goes(AskDisable, "known", JustDisable)
  BY DEF Goes, AskDisable, JustDisable
<1>3. Goes(JustDisable, "disable", <<>>)
  BY DEF Goes, JustDisable
<1>4. Goes(TryRemove, "tryDisable", Unlink)
  BY DEF Goes, TryRemove, Unlink
<1>5. Goes(AskRemove, "known", JustRemove)
  BY DEF Goes, AskRemove, JustRemove
<1>6. Goes(JustRemove, "disable", Unlink)
  BY DEF Goes, JustRemove, Unlink
<1>7. Goes(Unlink, "unlinkService", UnlinkLast)
  BY DEF Goes, Unlink, UnlinkLast
<1>8. Goes(UnlinkLast, "unlinkTimer", <<>>)
  BY DEF Goes, UnlinkLast
<1>9. Goes(UnlinkReload, "unlinkTimer", LastReload)
  BY DEF Goes, UnlinkReload, LastReload
<1>10. Goes(LastReload, "tryReload", <<>>)
  BY DEF Goes, LastReload
<1> QED BY <1>1, <1>2, <1>3, <1>4, <1>5, <1>6, <1>7, <1>8, <1>9, <1>10

\* What is left of an enable after its next call.
LEMMA EnableTails ==
  ASSUME NEW t \in EnableTodo, t # <<>>
  PROVE  /\ Tail(t) \in AfterService
         /\ Head(t) \in {"writeService", "writeTimer", "relabel", "reload", "enable"}
         /\ Head(t) = "writeService" <=> t \notin AfterService
         /\ Tail(t) \in AfterFiles \/ (t = InstallTimer /\ Head(t) = "writeService")
         /\ t \in AfterFiles <=> Head(t) \notin {"writeService", "writeTimer"}
         /\ Tail(t) = <<>> <=> Head(t) = "enable"
         /\ t = InstallTimer => Tail(t) \notin AfterFiles
         /\ Head(t) = "writeService" => t \in {InstallTimer, InstallDaemon}
         /\ Tail(t) # InstallDaemon
BY EnableGoes DEF Goes, EnableTodo, AfterService, AfterFiles

\* What is left of a disable before the unit is stopped.
LEMMA StopTails ==
  ASSUME NEW todo \in {KeepTodo, RemoveTodo}, NEW t \in todo, t \notin Stopped
  PROVE  /\ t # <<>> /\ Head(t) \in {"known", "disable", "tryDisable"} /\ Tail(t) \in todo
         /\ Head(t) = "known" =>
              /\ Tail(t) \notin Stopped /\ Tail(Tail(t)) \in Stopped /\ Tail(Tail(t)) \in todo
              /\ todo = RemoveTodo => Tail(Tail(t)) \notin ServiceGone
         /\ Head(t) # "known" =>
              /\ Tail(t) \in Stopped
              /\ todo = RemoveTodo => Tail(t) \notin ServiceGone
<1>1. <<>> \in Stopped /\ <<>> \in KeepTodo /\ Unlink \in Stopped \ ServiceGone /\ Unlink \in RemoveTodo
  BY DisableGoes DEF Goes, Stopped, ServiceGone, TimerGone, RemoveTodo, KeepTodo
<1>2. JustDisable \notin Stopped /\ JustRemove \notin Stopped /\ JustDisable \in KeepTodo /\ JustRemove \in RemoveTodo
  BY DisableGoes DEF Goes, Stopped, ServiceGone, TimerGone, RemoveTodo, KeepTodo
<1>3. Unlink \notin KeepTodo
  BY DisableGoes DEF Goes, KeepTodo
<1>4. CASE todo = KeepTodo
  <2>1. t \in {TryDisable, AskDisable, JustDisable}
    BY <1>1, <1>4 DEF KeepTodo
  <2>3. KeepTodo # RemoveTodo
    BY <1>1, <1>3
  <2> QED BY <1>1, <1>2, <1>4, <2>1, <2>3, DisableGoes DEF Goes
<1>5. CASE todo = RemoveTodo
  <2>1. t \in {TryRemove, AskRemove, JustRemove}
    BY <1>5 DEF RemoveTodo
  <2> QED BY <1>1, <1>2, <1>5, <2>1, DisableGoes DEF Goes
<1> QED BY <1>4, <1>5

\* What is put behind a sequence.
LEMMA PutBehind ==
  ASSUME NEW T, NEW a \in Seq(T), NEW c \in T
  PROVE  /\ Append(a, c) \in Seq(T) /\ Len(Append(a, c)) = Len(a) + 1
         /\ \A i \in 1..Len(a) : Append(a, c)[i] = a[i]
         /\ Append(a, c)[Len(a) + 1] = c
BY AppendProperties

\* A reload is put behind the second unlink, or is all that is left.
LEMMA ReloadBehind ==
  Append(UnlinkLast, "tryReload") = UnlinkReload /\ Append(<<>>, "tryReload") = LastReload
<1> DEFINE s == Append(UnlinkLast, "tryReload")
           T == {"unlinkTimer", "tryReload"}
<1>1. UnlinkLast \in Seq(T)
  BY DEF UnlinkLast
<1>0. "tryReload" \in T
  OBVIOUS
<1>2. Len(UnlinkLast) = 1 /\ UnlinkLast[1] = "unlinkTimer"
  BY DEF UnlinkLast
<1> HIDE DEF T
<1>3. s \in Seq(T) /\ Len(s) = Len(UnlinkLast) + 1 /\ (\A i \in 1..Len(UnlinkLast) : s[i] = UnlinkLast[i])
      /\ s[Len(UnlinkLast) + 1] = "tryReload"
  BY <1>0, <1>1, PutBehind
<1> HIDE DEF s
<1>4. Len(s) = 2 /\ s[2] = "tryReload" /\ 1 \in 1..Len(UnlinkLast)
  BY <1>2, <1>3
<1>5. s[1] = "unlinkTimer"
  BY <1>2, <1>3, <1>4
<1>6. s = <<s[1], s[2]>>
  BY <1>3, <1>4
<1>7. s = UnlinkReload
  BY <1>4, <1>5, <1>6 DEF UnlinkReload
<1>8. Append(<<>>, "tryReload") = LastReload
  BY DEF LastReload
<1> QED BY <1>7, <1>8 DEF s

\* What is left after the unit is stopped.
LEMMA UnlinkTails ==
  ASSUME NEW t \in Stopped, t # <<>>
  PROVE  /\ Head(t) \in {"unlinkService", "unlinkTimer", "tryReload"}
         /\ Head(t) = "unlinkService" =>
              /\ t \notin ServiceGone /\ Tail(t) \in ServiceGone \ TimerGone
              /\ Append(Tail(t), "tryReload") \in ServiceGone \ TimerGone
         /\ Head(t) = "unlinkTimer" =>
              /\ t \in ServiceGone \ TimerGone /\ Tail(t) \in TimerGone
              /\ t[Len(t)] # "tryReload" => Append(Tail(t), "tryReload") \in TimerGone
         /\ Head(t) = "tryReload" => t \in TimerGone /\ Tail(t) = <<>>
<1>1. UnlinkReload[Len(UnlinkReload)] = "tryReload"
  BY DEF UnlinkReload
<1>2. {UnlinkLast, UnlinkReload} \subseteq ServiceGone \ TimerGone /\ Unlink \notin ServiceGone
  BY DisableGoes DEF Goes, ServiceGone, TimerGone
<1>3. CASE t = Unlink
  BY <1>2, <1>3, DisableGoes, ReloadBehind DEF Goes
<1>4. CASE t = UnlinkLast
  BY <1>2, <1>4, DisableGoes, ReloadBehind DEF Goes, TimerGone
<1>5. CASE t = UnlinkReload
  BY <1>1, <1>2, <1>5, DisableGoes DEF Goes, TimerGone
<1>6. CASE t = LastReload
  BY <1>2, <1>6, DisableGoes DEF Goes, TimerGone
<1> QED BY <1>3, <1>4, <1>5, <1>6 DEF Stopped, ServiceGone, TimerGone

\* How the parts of a disable lie in one another.
LEMMA DisableParts ==
  /\ TimerGone \subseteq ServiceGone /\ ServiceGone \subseteq Stopped /\ <<>> \in TimerGone
  /\ \A t \in KeepTodo : t \in Stopped => t = <<>>
BY DisableGoes DEF Goes, KeepTodo, Stopped, ServiceGone, TimerGone

\* Both kinds of units.
LEMMA FamilyKinds ==
  ASSUME family \in Families
  PROVE  \/ /\ family # TelegramDaemon /\ family.main = "timer" /\ family.files = {"service", "timer"}
            /\ family.enable = InstallTimer /\ family.disable \in {TryDisable, AskDisable}
            /\ family.remove = RemoveTimer
         \/ /\ family = TelegramDaemon /\ family.main = "service" /\ family.files = {"service"}
            /\ family.enable = InstallDaemon /\ family.disable = AskDisable /\ family.remove = <<>>
<1>1. ASSUME NEW u, NEW d
      PROVE  /\ Timer(u, d).main = "timer" /\ Timer(u, d).files = {"service", "timer"}
             /\ Timer(u, d).enable = InstallTimer /\ Timer(u, d).disable = d /\ Timer(u, d).remove = RemoveTimer
  BY DEF Timer
<1>2. TelegramDaemon.main = "service" /\ TelegramDaemon.files = {"service"}
  BY DEF TelegramDaemon
<1>3. TelegramDaemon.enable = InstallDaemon /\ TelegramDaemon.disable = AskDisable /\ TelegramDaemon.remove = <<>>
  BY DEF TelegramDaemon, InstallDaemon, AskDisable
<1>4. family = TelegramDaemon \/ \E u : family = Timer(u, TryDisable) \/ family = Timer(u, AskDisable)
  BY DEF Families, ScanTimer, FimTimer, ServiceTimer, AppTimer, BackupTimer, MetricsTimer, RenewTimer,
         TryDisable, AskDisable
<1> QED BY <1>1, <1>2, <1>3, <1>4

\* A sequence is that of its elements.
LEMMA OfThree ==
  ASSUME NEW T, NEW s \in Seq(T), Len(s) = 3
  PROVE  s = <<s[1], s[2], s[3]>>
OBVIOUS

\* Likewise with four.
LEMMA OfFour ==
  ASSUME NEW T, NEW s \in Seq(T), Len(s) = 4
  PROVE  s = <<s[1], s[2], s[3], s[4]>>
OBVIOUS

\* What a disable with --remove-units has to do.
LEMMA RemovePlans == TryDisable \o RemoveTimer = TryRemove /\ AskDisable \o RemoveTimer = AskRemove
<1> DEFINE T == {"tryDisable", "known", "disable", "unlinkService", "unlinkTimer"}
<1>1. TryDisable \in Seq(T)
  BY DEF TryDisable
<1>2. AskDisable \in Seq(T)
  BY DEF AskDisable
<1>3. RemoveTimer \in Seq(T)
  BY DEF RemoveTimer
<1>4. Len(TryDisable) = 1 /\ Len(AskDisable) = 2 /\ Len(RemoveTimer) = 2
  BY DEF TryDisable, AskDisable, RemoveTimer
<1>5. RemoveTimer[1] = "unlinkService" /\ RemoveTimer[2] = "unlinkTimer"
  BY DEF RemoveTimer
<1> HIDE DEF T
<1>6. TryDisable \o RemoveTimer = TryRemove
  <2> DEFINE s == TryDisable \o RemoveTimer
  <2>1. /\ s \in Seq(T) /\ Len(s) = Len(TryDisable) + Len(RemoveTimer)
        /\ \A i \in 1..Len(TryDisable) + Len(RemoveTimer) :
             s[i] = IF i <= Len(TryDisable) THEN TryDisable[i] ELSE RemoveTimer[i - Len(TryDisable)]
    BY <1>1, <1>3, ConcatProperties
  <2> HIDE DEF s
  <2>2. Len(s) = 3 /\ \A i \in 1..3 : s[i] = IF i <= 1 THEN TryDisable[i] ELSE RemoveTimer[i - 1]
    BY <1>4, <2>1
  <2>3. s[1] = TryDisable[1] /\ s[2] = "unlinkService" /\ s[3] = "unlinkTimer"
    BY <1>5, <2>2
  <2>4. TryDisable[1] = "tryDisable"
    BY DEF TryDisable
  <2>5. s = <<s[1], s[2], s[3]>>
    BY <2>1, <2>2, OfThree
  <2>6. s = TryRemove
    BY <2>3, <2>4, <2>5 DEF TryRemove
  <2> QED BY <2>6 DEF s
<1>7. AskDisable \o RemoveTimer = AskRemove
  <2> DEFINE s == AskDisable \o RemoveTimer
  <2>1. /\ s \in Seq(T) /\ Len(s) = Len(AskDisable) + Len(RemoveTimer)
        /\ \A i \in 1..Len(AskDisable) + Len(RemoveTimer) :
             s[i] = IF i <= Len(AskDisable) THEN AskDisable[i] ELSE RemoveTimer[i - Len(AskDisable)]
    BY <1>2, <1>3, ConcatProperties
  <2> HIDE DEF s
  <2>2. Len(s) = 4 /\ \A i \in 1..4 : s[i] = IF i <= 2 THEN AskDisable[i] ELSE RemoveTimer[i - 2]
    BY <1>4, <2>1
  <2>3. s[1] = AskDisable[1] /\ s[2] = AskDisable[2] /\ s[3] = "unlinkService" /\ s[4] = "unlinkTimer"
    BY <1>5, <2>2
  <2>4. AskDisable[1] = "known" /\ AskDisable[2] = "disable"
    BY DEF AskDisable
  <2>5. s = <<s[1], s[2], s[3], s[4]>>
    BY <2>1, <2>2, OfFour
  <2>6. s = AskRemove
    BY <2>3, <2>4, <2>5 DEF AskRemove
  <2> QED BY <2>6 DEF s
<1> QED BY <1>6, <1>7

\* What a command of each kind has before it.
Enables(l) ==
  /\ l.goal \in [state : {"on"}, options : Options, kept : BOOLEAN]
  /\ l.todo \in EnableTodo /\ (l.todo = InstallDaemon => family = TelegramDaemon)

DisablesUnit(l) ==
  /\ l.goal \in [state : {"off"}, removed : BOOLEAN]
  /\ l.todo \in (IF l.goal.removed THEN RemoveTodo ELSE KeepTodo)
  /\ l.goal.removed => family # TelegramDaemon

Restarts(l) == l.goal = Unsure /\ l.todo \in {OnlyRestart, <<>>}

\* What it has behind it, when it is alone and looked at every failure.
EnableDone(l) ==
  /\ l.todo \in AfterService => disk["service"] = l.goal.options
  /\ l.todo \in AfterFiles /\ family # TelegramDaemon => disk["timer"] = l.goal.options
  /\ l.todo = <<>> =>
       /\ enabled /\ loaded = disk
       /\ started = l.goal.options \/ (family = TelegramDaemon /\ l.goal.kept /\ started # "none")

DisableDone(l) ==
  /\ l.todo \in Stopped => ~enabled /\ started = "none"
  /\ l.goal.removed /\ l.todo \in ServiceGone => disk["service"] = "none"
  /\ l.goal.removed /\ l.todo \in TimerGone => disk["timer"] = "none"

Done(l) ==
  /\ l.goal.state = "on" => EnableDone(l)
  /\ l.goal.state = "off" => DisableDone(l)

Command(c, l) ==
  c # "idle" =>
    /\ c = "call" /\ DOMAIN l = {"todo", "unseen", "goal"}
    /\ Enables(l) \/ DisablesUnit(l) \/ Restarts(l)

TimerInv ==
  /\ Shape /\ family \in Families /\ DOMAIN disk = {"service", "timer"}
  /\ \A q \in Processes : Command(pc[q], loc[q])
  /\ \A q, r \in Processes : q # r /\ pc[q] # "idle" /\ pc[r] # "idle" => q \in overlapped
  /\ \A q \in Processes : pc[q] # "idle" /\ q \notin overlapped /\ ~loc[q].unseen => Done(loc[q])
  /\ settled.state # "unsure" => \A q \in Processes : pc[q] = "idle"
  /\ TimerSettled

\* A step of p, which is at work: whoever else works has p beside it.
LEMMA TimerKept ==
  ASSUME TimerInv, NEW p \in Processes, pc[p] # "idle", Others(p),
         UNCHANGED <<family, settled, overlapped>>, DOMAIN disk' = {"service", "timer"},
         Command(pc[p], loc[p])',
         pc'[p] # "idle" /\ p \notin overlapped /\ ~loc'[p].unseen => Done(loc[p])'
  PROVE  TimerInv'
<1>1. settled.state = "unsure"
  BY DEF TimerInv
<1>2. TimerSettled'
  BY <1>1 DEF TimerSettled
<1>3. ASSUME NEW q \in Processes, q # p
      PROVE  /\ Command(pc[q], loc[q])'
             /\ pc'[q] # "idle" => q \in overlapped
  BY <1>3 DEF TimerInv, Others, Command, Enables, DisablesUnit, Restarts
<1>4. \A q, r \in Processes : q # r /\ pc'[q] # "idle" /\ pc'[r] # "idle" => q \in overlapped
  BY <1>3 DEF TimerInv, Others
<1> QED BY <1>1, <1>2, <1>3, <1>4 DEF TimerInv, Others

\* A command ends or is killed.
LEMMA TimerEnded ==
  ASSUME TimerInv, NEW p \in Processes, pc[p] # "idle", Stop(p),
         UNCHANGED <<family, settled, overlapped>>, DOMAIN disk' = {"service", "timer"}
  PROVE  TimerInv'
<1>1. Others(p) /\ pc'[p] = "idle"
  BY StopOthers DEF TimerInv
<1>2. Command(pc[p], loc[p])'
  BY <1>1 DEF Command
<1> QED BY <1>1, <1>2, TimerKept

\* A command goes on to its next call.
LEMMA ProceedLoc ==
  ASSUME TimerInv, NEW p \in Processes, pc[p] # "idle", Proceed(p)
  PROVE  /\ Others(p) /\ pc'[p] = "call" /\ DOMAIN loc'[p] = {"todo", "unseen", "goal"}
         /\ loc'[p].todo = Tail(loc[p].todo) /\ loc'[p].unseen = loc[p].unseen /\ loc'[p].goal = loc[p].goal
<1>1. DOMAIN loc[p] = {"todo", "unseen", "goal"}
  BY DEF TimerInv, Command
<1>2. Others(p) /\ pc'[p] = "call" /\ loc'[p] = [loc[p] EXCEPT !.todo = Tail(@)]
  BY ContinueOthers DEF TimerInv, Proceed
<1> QED BY <1>1, <1>2

\* Likewise when the call has failed and nobody looks.
LEMMA ProceedUnseenLoc ==
  ASSUME TimerInv, NEW p \in Processes, pc[p] # "idle", ProceedUnseen(p)
  PROVE  /\ Others(p) /\ pc'[p] = "call" /\ DOMAIN loc'[p] = {"todo", "unseen", "goal"}
         /\ loc'[p].todo = Tail(loc[p].todo) /\ loc'[p].unseen /\ loc'[p].goal = loc[p].goal
<1>1. DOMAIN loc[p] = {"todo", "unseen", "goal"} /\ DOMAIN loc = Processes
  BY DEF TimerInv, Command, Shape
<1>2. Others(p) /\ pc'[p] = "call"
  BY DEF TimerInv, Shape, ProceedUnseen, Goto, Others
<1>3. loc'[p].todo = Tail(loc[p].todo) /\ loc'[p].unseen /\ loc'[p].goal = loc[p].goal
      /\ DOMAIN loc'[p] = {"todo", "unseen", "goal"}
  BY <1>1 DEF ProceedUnseen
<1> QED BY <1>2, <1>3

\* Which calls a command makes.
LEMMA CallsOf ==
  ASSUME TimerInv, NEW p \in Processes, NEW call, Calls(p, call)
  PROVE  /\ pc[p] = "call" /\ loc[p].todo # <<>> /\ Head(loc[p].todo) = call
         /\ DOMAIN loc[p] = {"todo", "unseen", "goal"}
         /\ \/ Enables(loc[p]) /\ call \in {"writeService", "writeTimer", "relabel", "reload", "enable"}
            \/ /\ DisablesUnit(loc[p])
               /\ call \in {"known", "disable", "tryDisable", "unlinkService", "unlinkTimer", "tryReload"}
            \/ Restarts(loc[p]) /\ call = "restart"
<1>1. /\ pc[p] = "call" /\ loc[p].todo # <<>> /\ Head(loc[p].todo) = call
      /\ DOMAIN loc[p] = {"todo", "unseen", "goal"}
      /\ Enables(loc[p]) \/ DisablesUnit(loc[p]) \/ Restarts(loc[p])
  BY DEF TimerInv, Command, Calls
<1>2. CASE Enables(loc[p])
  BY <1>1, <1>2, EnableTails DEF Enables
<1>3. CASE DisablesUnit(loc[p])
  <2>1. loc[p].todo \in KeepTodo \/ loc[p].todo \in RemoveTodo
    BY <1>3 DEF DisablesUnit
  <2>2. CASE loc[p].todo \in Stopped
    BY <1>1, <1>3, <2>2, UnlinkTails
  <2>3. CASE loc[p].todo \notin Stopped
    BY <1>1, <1>3, <2>1, <2>3, StopTails
  <2> QED BY <2>2, <2>3
<1>4. CASE Restarts(loc[p])
  BY <1>1, <1>4 DEF Restarts, OnlyRestart
<1> QED BY <1>1, <1>2, <1>3, <1>4

\* What is left after a call is again what such a command has left.
LEMMA CommandGoesOn ==
  ASSUME TimerInv, NEW p \in Processes, NEW call, Calls(p, call), UNCHANGED family,
         pc'[p] = "call", DOMAIN loc'[p] = {"todo", "unseen", "goal"}, loc'[p].goal = loc[p].goal,
         loc'[p].todo = Tail(loc[p].todo)
  PROVE  /\ Command(pc[p], loc[p])'
         /\ Enables(loc[p]) => Enables(loc[p])'
         /\ DisablesUnit(loc[p]) => DisablesUnit(loc[p])'
<1>1. loc[p].todo # <<>>
  BY CallsOf
<1>2. ASSUME Enables(loc[p]) PROVE Enables(loc[p])'
  BY <1>1, <1>2, EnableTails DEF Enables, EnableTodo
<1>3. ASSUME DisablesUnit(loc[p]) PROVE DisablesUnit(loc[p])'
  <2>2. CASE loc[p].todo \in Stopped
    <3>1. Tail(loc[p].todo) \in Stopped
      BY <1>1, <2>2, UnlinkTails, DisableParts
    <3>2. loc[p].goal.removed
      BY <1>1, <1>3, <2>2, DisableParts DEF DisablesUnit
    <3> QED BY <1>3, <3>1, <3>2 DEF DisablesUnit, RemoveTodo
  <2>3. CASE loc[p].todo \notin Stopped
    BY <1>3, <2>3, StopTails DEF DisablesUnit
  <2> QED BY <2>2, <2>3
<1>4. ASSUME Restarts(loc[p]) PROVE Restarts(loc[p])'
  <2>1. Tail(OnlyRestart) = <<>>
    BY DEF OnlyRestart
  <2> QED BY <1>1, <1>4, <2>1 DEF Restarts
<1> QED BY <1>2, <1>3, <1>4, CallsOf DEF Command

\* Nothing is done yet.
Fresh(l) ==
  /\ l.goal.state = "on" => l.todo \notin AfterService
  /\ l.goal.state = "off" => l.todo \notin Stopped

\* Commands begin: whoever is at work has one beside it from then on.
LEMMA BeginKept ==
  ASSUME TimerInv, NEW p \in Processes, NEW command, NEW locals, Begin(p, command, locals),
         family.locked => command \in Lock, Command("call", locals), Fresh(locals)
  PROVE  TimerInv'
<1>1. Others(p) /\ pc[p] = "idle" /\ pc'[p] = "call" /\ loc'[p] = locals
  <2>1. CASE family.locked
    BY <2>1, TakeOthers DEF TimerInv, Begin
  <2>2. CASE ~family.locked
    BY <2>2, ContinueOthers DEF TimerInv, Begin
  <2> QED BY <2>1, <2>2
<1>2. /\ overlapped' = IF Busy = {} THEN overlapped \ {p} ELSE overlapped \cup Busy \cup {p}
      /\ settled' = Unsure /\ UNCHANGED <<family, disk, loaded, enabled, started>>
  BY DEF Begin
<1>3. settled'.state = "unsure" /\ TimerSettled'
  BY <1>2 DEF Unsure, TimerSettled
<1>4. ASSUME NEW q \in Processes, q # p
      PROVE  Command(pc[q], loc[q])' /\ (pc'[q] # "idle" => q \in overlapped' /\ p \in overlapped')
  BY <1>1, <1>2, <1>4 DEF TimerInv, Others, Command, Enables, DisablesUnit, Restarts, Busy
<1>5. Command(pc[p], loc[p])'
  BY <1>1, <1>2 DEF Command, Enables, DisablesUnit, Restarts
<1>6. Done(loc[p])'
  <2>1. AfterFiles \subseteq AfterService /\ <<>> \in AfterService
    BY DEF AfterService, AfterFiles
  <2> QED BY <1>1, <2>1, DisableParts DEF Done, EnableDone, DisableDone, Fresh
<1>7. \A q, r \in Processes : q # r /\ pc'[q] # "idle" /\ pc'[r] # "idle" => q \in overlapped'
  BY <1>4
<1> QED BY <1>1, <1>2, <1>3, <1>4, <1>5, <1>6, <1>7 DEF TimerInv, Others

\* An enable begins, with everything to do.
LEMMA BeginEnableKept ==
  ASSUME TimerInv, NEW p \in Processes, NEW options \in Options, BeginEnable(p, options)
  PROVE  TimerInv'
<1> DEFINE g == [state |-> "on", options |-> options, kept |-> FALSE]
           l == [todo |-> family.enable, unseen |-> FALSE, goal |-> g]
<1>1. g \in [state : {"on"}, options : Options, kept : BOOLEAN] /\ g.state = "on"
  OBVIOUS
<1>2. l.todo = family.enable /\ l.goal = g /\ DOMAIN l = {"todo", "unseen", "goal"}
  OBVIOUS
<1>3. Begin(p, "enable", l)
  BY DEF BeginEnable
<1> HIDE DEF g, l
<1>4. l.todo \in {InstallTimer, InstallDaemon} /\ (l.todo = InstallDaemon => family = TelegramDaemon)
  <2>1. InstallTimer # InstallDaemon
    BY EnableGoes DEF Goes, FromTimer, FromRelabel
  <2> QED BY <1>2, <2>1, FamilyKinds DEF TimerInv
<1>5. Command("call", l)
  BY <1>1, <1>2, <1>4 DEF Command, Enables, EnableTodo
<1>7. Fresh(l)
  <2>1. l.todo \notin AfterService
    BY <1>4, EnableTails, EnableGoes DEF Goes, EnableTodo
  <2> QED BY <1>1, <1>2, <2>1 DEF Fresh
<1> QED BY <1>3, <1>5, <1>7, BeginKept DEF Lock

\* A disable begins.
LEMMA BeginDisableKept ==
  ASSUME TimerInv, NEW p \in Processes, NEW remove \in BOOLEAN, BeginDisable(p, remove)
  PROVE  TimerInv'
<1> DEFINE g == [state |-> "off", removed |-> remove]
           todo == family.disable \o (IF remove THEN family.remove ELSE <<>>)
           l == [todo |-> todo, unseen |-> FALSE, goal |-> g]
<1>1. g \in [state : {"off"}, removed : BOOLEAN] /\ g.state = "off" /\ g.removed = remove
  OBVIOUS
<1>2. l.todo = todo /\ l.goal = g /\ DOMAIN l = {"todo", "unseen", "goal"}
  OBVIOUS
<1>3. Begin(p, "disable", l) /\ (remove => family.remove # <<>>)
  BY DEF BeginDisable
<1>4. /\ remove => family # TelegramDaemon /\ todo \in {TryRemove, AskRemove}
      /\ ~remove => todo \in {TryDisable, AskDisable}
  <2>1. CASE remove
    <3>1. /\ family # TelegramDaemon /\ family.disable \in {TryDisable, AskDisable}
          /\ family.remove = RemoveTimer /\ todo = family.disable \o family.remove
      BY <1>3, <2>1, FamilyKinds DEF TimerInv
    <3> QED BY <2>1, <3>1, RemovePlans
  <2>2. CASE ~remove
    <3>1. family.disable \in {TryDisable, AskDisable}
      BY FamilyKinds DEF TimerInv
    <3>2. TryDisable \o <<>> = TryDisable /\ AskDisable \o <<>> = AskDisable
      BY DEF TryDisable, AskDisable
    <3> QED BY <2>2, <3>1, <3>2
  <2> QED BY <2>1, <2>2
<1> HIDE DEF g, l, todo
<1>5. l.todo \in (IF remove THEN RemoveTodo ELSE KeepTodo)
  BY <1>2, <1>4 DEF RemoveTodo, KeepTodo
<1>6. Command("call", l)
  BY <1>1, <1>2, <1>4, <1>5 DEF Command, DisablesUnit
<1>7. l.todo \notin Stopped
  <2>1. Head(l.todo) \in {"tryDisable", "known"} /\ l.todo # <<>>
    BY <1>2, <1>4, DisableGoes DEF Goes
  <2> QED BY <2>1, UnlinkTails
<1>8. Fresh(l)
  BY <1>1, <1>2, <1>7 DEF Fresh
<1> QED BY <1>3, <1>6, <1>8, BeginKept DEF Lock

\* A restart of the daemon begins, or ends.
LEMMA BeginRestartKept ==
  ASSUME TimerInv, NEW p \in Processes, BeginRestart(p)
  PROVE  TimerInv'
<1> DEFINE l == [todo |-> OnlyRestart, unseen |-> FALSE, goal |-> Unsure]
<1>1. l.todo = OnlyRestart /\ l.goal = Unsure /\ DOMAIN l = {"todo", "unseen", "goal"}
  OBVIOUS
<1>2. Begin(p, "restart", l) /\ family = TelegramDaemon
  BY DEF BeginRestart, OnlyRestart
<1> HIDE DEF l
<1>3. Command("call", l) /\ Fresh(l)
  BY <1>1 DEF Command, Restarts, Fresh, Unsure
<1>4. ~family.locked
  BY <1>2 DEF TelegramDaemon
<1> QED BY <1>2, <1>3, <1>4, BeginKept

\* A unit file is written, by an enable.
LEMMA WriteUnitKept ==
  ASSUME TimerInv, NEW p \in Processes, NEW f \in {"service", "timer"}, WriteUnit(p, f)
  PROVE  TimerInv'
<1> DEFINE call == IF f = "service" THEN "writeService" ELSE "writeTimer"
<1>1. /\ Calls(p, call) /\ Proceed(p) /\ disk' = [disk EXCEPT ![f] = loc[p].goal.options]
      /\ UNCHANGED <<family, loaded, enabled, started, settled, overlapped>>
  BY DEF WriteUnit
<1>2. /\ pc[p] = "call" /\ Enables(loc[p]) /\ loc[p].todo # <<>> /\ Head(loc[p].todo) = call
  BY <1>1, CallsOf
<1>3. /\ Others(p) /\ pc'[p] = "call" /\ DOMAIN loc'[p] = {"todo", "unseen", "goal"}
      /\ loc'[p].todo = Tail(loc[p].todo) /\ loc'[p].unseen = loc[p].unseen /\ loc'[p].goal = loc[p].goal
  BY <1>1, <1>2, ProceedLoc
<1>4. Command(pc[p], loc[p])'
  BY <1>1, <1>3, CommandGoesOn
<1>5. DOMAIN disk' = {"service", "timer"} /\ disk'[f] = loc[p].goal.options
      /\ \A e \in {"service", "timer"} : e # f => disk'[e] = disk[e]
  BY <1>1 DEF TimerInv
<1>6. loc[p].goal.state = "on" /\ Tail(loc[p].todo) # <<>>
  BY <1>2, EnableTails DEF Enables
<1>7. ASSUME p \notin overlapped, ~loc'[p].unseen PROVE Done(loc[p])'
  <2>1. EnableDone(loc[p])
    BY <1>2, <1>3, <1>6, <1>7 DEF TimerInv, Done
  <2>2. CASE f = "service"
    <3>1. Tail(loc[p].todo) \in AfterFiles => family = TelegramDaemon
      BY <1>2, <2>2, EnableTails DEF Enables
    <3>2. disk'["service"] = loc[p].goal.options
      BY <1>5, <2>2
    <3> QED BY <1>1, <1>3, <1>6, <3>1, <3>2 DEF Done, EnableDone
  <2>3. CASE f = "timer"
    <3>1. loc[p].todo \in AfterService
      BY <1>2, <2>3, EnableTails DEF Enables
    <3>2. disk'["service"] = loc[p].goal.options /\ disk'["timer"] = loc[p].goal.options
      BY <1>5, <2>1, <2>3, <3>1 DEF EnableDone
    <3> QED BY <1>1, <1>3, <1>6, <3>2 DEF Done, EnableDone
  <2> QED BY <2>2, <2>3
<1> QED BY <1>1, <1>2, <1>3, <1>4, <1>5, <1>7, TimerKept

\* A unit file is removed, by a disable.
LEMMA UnlinkUnitKept ==
  ASSUME TimerInv, NEW p \in Processes, NEW f \in {"service", "timer"}, UnlinkUnit(p, f)
  PROVE  TimerInv'
<1> DEFINE call == IF f = "service" THEN "unlinkService" ELSE "unlinkTimer"
           t == loc[p].todo
           behind == Append(Tail(t), "tryReload")
<1>1. /\ Calls(p, call) /\ disk' = [disk EXCEPT ![f] = "none"]
      /\ UNCHANGED <<family, loaded, enabled, started, settled, overlapped>>
      /\ \/ Proceed(p)
         \/ /\ t[Len(t)] # "tryReload"
            /\ Continue(p, "call", [loc[p] EXCEPT !.todo = behind])
  BY DEF UnlinkUnit
<1>2. /\ pc[p] = "call" /\ DisablesUnit(loc[p]) /\ t # <<>> /\ Head(t) = call
      /\ DOMAIN loc[p] = {"todo", "unseen", "goal"}
  BY <1>1, CallsOf
<1>3. /\ Others(p) /\ pc'[p] = "call" /\ DOMAIN loc'[p] = {"todo", "unseen", "goal"}
      /\ loc'[p].unseen = loc[p].unseen /\ loc'[p].goal = loc[p].goal
      /\ loc'[p].todo = Tail(t) \/ (t[Len(t)] # "tryReload" /\ loc'[p].todo = behind)
  <2>1. CASE Proceed(p)
    BY <1>2, <2>1, ProceedLoc
  <2>2. CASE t[Len(t)] # "tryReload" /\ Continue(p, "call", [loc[p] EXCEPT !.todo = behind])
    <3>1. Others(p) /\ pc'[p] = "call" /\ loc'[p] = [loc[p] EXCEPT !.todo = behind]
      BY <2>2, ContinueOthers DEF TimerInv
    <3> HIDE DEF behind
    <3> QED BY <1>2, <2>2, <3>1
  <2> QED BY <1>1, <2>1, <2>2
<1> HIDE DEF behind
<1>4. t \in Stopped
  BY <1>2, StopTails DEF DisablesUnit
<1>5. loc[p].goal.state = "off" /\ loc[p].goal.removed
  BY <1>2, <1>4, DisableParts DEF DisablesUnit
<1>6. IF f = "service" THEN loc'[p].todo \in ServiceGone \ TimerGone
      ELSE t \in ServiceGone /\ loc'[p].todo \in TimerGone
  BY <1>2, <1>3, <1>4, UnlinkTails DEF behind
<1>7. loc'[p].todo \in Stopped
  BY <1>6, DisableParts
<1>8. Command(pc[p], loc[p])'
  BY <1>1, <1>2, <1>3, <1>5, <1>7 DEF Command, DisablesUnit, RemoveTodo
<1>9. DOMAIN disk' = {"service", "timer"} /\ disk'[f] = "none"
      /\ \A e \in {"service", "timer"} : e # f => disk'[e] = disk[e]
  BY <1>1 DEF TimerInv
<1>10. ASSUME p \notin overlapped, ~loc'[p].unseen PROVE Done(loc[p])'
  <2>1. DisableDone(loc[p])
    BY <1>2, <1>3, <1>5, <1>10 DEF TimerInv, Done
  <2> QED BY <1>1, <1>3, <1>4, <1>5, <1>6, <1>9, <2>1 DEF Done, DisableDone
<1> QED BY <1>1, <1>2, <1>3, <1>8, <1>9, <1>10, TimerKept

\* A call between the files and the enable leaves the files alone.
LEMMA BetweenKept ==
  ASSUME TimerInv, NEW p \in Processes, NEW call \in {"relabel", "reload"}, Calls(p, call), Proceed(p),
         UNCHANGED <<family, disk, settled, overlapped>>
  PROVE  TimerInv'
<1>1. pc[p] = "call" /\ Enables(loc[p]) /\ loc[p].todo # <<>> /\ Head(loc[p].todo) = call
  BY CallsOf
<1>2. /\ Others(p) /\ pc'[p] = "call" /\ DOMAIN loc'[p] = {"todo", "unseen", "goal"}
      /\ loc'[p].todo = Tail(loc[p].todo) /\ loc'[p].unseen = loc[p].unseen /\ loc'[p].goal = loc[p].goal
  BY <1>1, ProceedLoc
<1>3. Command(pc[p], loc[p])'
  BY <1>2, CommandGoesOn
<1>4. loc[p].todo \in AfterFiles /\ Tail(loc[p].todo) # <<>> /\ loc[p].goal.state = "on"
  BY <1>1, EnableTails DEF Enables
<1>5. ASSUME p \notin overlapped, ~loc'[p].unseen PROVE Done(loc[p])'
  <2>1. EnableDone(loc[p])
    BY <1>1, <1>2, <1>4, <1>5 DEF TimerInv, Done
  <2>2. loc[p].todo \in AfterService
    BY <1>4 DEF AfterService
  <2> QED BY <1>2, <1>4, <2>1, <2>2 DEF Done, EnableDone
<1> QED BY <1>1, <1>2, <1>3, <1>5, TimerKept DEF TimerInv

\* systemd reads the unit files again.
LEMMA ReloadKept ==
  ASSUME TimerInv, NEW p \in Processes, Reload(p)
  PROVE  TimerInv'
<1>1. /\ Proceed(p) /\ started' = Reloaded
      /\ UNCHANGED <<family, disk, enabled, settled, overlapped>>
  BY DEF Reload
<1>2. CASE Calls(p, "reload")
  BY <1>1, <1>2, BetweenKept
<1>3. CASE Calls(p, "tryReload")
  <2>1. /\ pc[p] = "call" /\ DisablesUnit(loc[p]) /\ loc[p].todo # <<>> /\ Head(loc[p].todo) = "tryReload"
    BY <1>3, CallsOf
  <2>2. /\ Others(p) /\ pc'[p] = "call" /\ DOMAIN loc'[p] = {"todo", "unseen", "goal"}
        /\ loc'[p].todo = Tail(loc[p].todo) /\ loc'[p].unseen = loc[p].unseen /\ loc'[p].goal = loc[p].goal
    BY <1>1, <2>1, ProceedLoc
  <2>3. Command(pc[p], loc[p])'
    BY <1>1, <1>3, <2>2, CommandGoesOn
  <2>4. loc[p].todo \in Stopped
    BY <2>1, StopTails DEF DisablesUnit
  <2>5. loc[p].todo \in TimerGone /\ Tail(loc[p].todo) = <<>>
    BY <2>1, <2>4, UnlinkTails
  <2>6. loc[p].goal.state = "off"
    BY <2>1 DEF DisablesUnit
  <2>7. ASSUME p \notin overlapped, ~loc'[p].unseen PROVE Done(loc[p])'
    <3>1. DisableDone(loc[p])
      BY <2>1, <2>2, <2>6, <2>7 DEF TimerInv, Done
    <3>2. ~enabled /\ started = "none" /\ (loc[p].goal.removed => disk["service"] = "none" /\ disk["timer"] = "none")
      BY <2>4, <2>5, <3>1, DisableParts DEF DisableDone
    <3>3. started' = "none"
      BY <1>1, <3>2 DEF Reloaded
    <3> QED BY <1>1, <2>2, <2>6, <3>2, <3>3 DEF Done, DisableDone
  <2> QED BY <1>1, <2>1, <2>2, <2>3, <2>7, TimerKept DEF TimerInv
<1> QED BY <1>2, <1>3 DEF Reload

\* A call fails and nobody looks.
LEMMA UnseenKept ==
  ASSUME TimerInv, NEW p \in Processes, NEW call, Calls(p, call), ProceedUnseen(p),
         UNCHANGED <<family, disk, settled, overlapped>>
  PROVE  TimerInv'
<1>1. pc[p] # "idle"
  BY CallsOf
<1>2. /\ Others(p) /\ pc'[p] = "call" /\ DOMAIN loc'[p] = {"todo", "unseen", "goal"}
      /\ loc'[p].todo = Tail(loc[p].todo) /\ loc'[p].unseen /\ loc'[p].goal = loc[p].goal
  BY <1>1, ProceedUnseenLoc
<1>3. Command(pc[p], loc[p])'
  BY <1>2, CommandGoesOn
<1> QED BY <1>1, <1>2, <1>3, TimerKept DEF TimerInv

\* The unit is linked, and started if it does not run.
LEMMA EnableNowKept ==
  ASSUME TimerInv, NEW p \in Processes, EnableNow(p)
  PROVE  TimerInv'
<1>1. /\ Calls(p, "enable") /\ enabled' = TRUE /\ loaded' = disk
      /\ started' = IF started = "none" THEN disk[family.main] ELSE Reloaded
      /\ Continue(p, "call", [loc[p] EXCEPT !.todo = Tail(@), !.goal.kept = started # "none"])
      /\ UNCHANGED <<family, disk, settled, overlapped>>
  BY DEF EnableNow
<1>2. /\ pc[p] = "call" /\ Enables(loc[p]) /\ loc[p].todo # <<>> /\ Head(loc[p].todo) = "enable"
      /\ DOMAIN loc[p] = {"todo", "unseen", "goal"}
  BY <1>1, CallsOf
<1>3. loc[p].goal \in [state : {"on"}, options : Options, kept : BOOLEAN]
  BY <1>2 DEF Enables
<1>4. Others(p) /\ pc'[p] = "call"
      /\ loc'[p] = [loc[p] EXCEPT !.todo = Tail(@), !.goal.kept = started # "none"]
  BY <1>1, ContinueOthers DEF TimerInv
<1>5. Tail(loc[p].todo) = <<>> /\ loc[p].todo \in AfterFiles
  BY <1>2, EnableTails DEF Enables
<1>6. /\ DOMAIN loc'[p] = {"todo", "unseen", "goal"}
      /\ loc'[p].todo = <<>> /\ loc'[p].unseen = loc[p].unseen
      /\ loc'[p].goal = [loc[p].goal EXCEPT !.kept = started # "none"]
  BY <1>2, <1>4, <1>5
<1>7. /\ loc'[p].goal \in [state : {"on"}, options : Options, kept : BOOLEAN]
      /\ loc'[p].goal.state = "on" /\ loc'[p].goal.options = loc[p].goal.options
      /\ loc'[p].goal.kept = (started # "none")
  BY <1>3, <1>6
<1>8. Command(pc[p], loc[p])'
  <2>1. <<>> \in EnableTodo /\ <<>> # InstallDaemon
    BY EnableGoes DEF Goes, EnableTodo, AfterService, AfterFiles
  <2> QED BY <1>1, <1>4, <1>6, <1>7, <2>1 DEF Command, Enables
<1>9. ASSUME p \notin overlapped, ~loc'[p].unseen PROVE Done(loc[p])'
  <2>1. EnableDone(loc[p])
    BY <1>2, <1>3, <1>6, <1>9 DEF TimerInv, Done
  <2>2. loc[p].todo \in AfterService
    BY <1>5 DEF AfterService
  <2>3. /\ disk["service"] = loc[p].goal.options
        /\ family # TelegramDaemon => disk["timer"] = loc[p].goal.options
    BY <1>5, <2>1, <2>2 DEF EnableDone
  <2>4. started' = loc[p].goal.options \/ (family = TelegramDaemon /\ started # "none" /\ started' # "none")
    BY <1>1, <2>3, FamilyKinds DEF TimerInv, Reloaded
  <2> QED BY <1>1, <1>6, <1>7, <2>3, <2>4 DEF Done, EnableDone
<1> QED BY <1>1, <1>2, <1>4, <1>8, <1>9, TimerKept DEF TimerInv

\* systemd is asked whether it knows the unit.
LEMMA AskKnownKept ==
  ASSUME TimerInv, NEW p \in Processes, AskKnown(p)
  PROVE  TimerInv'
<1> DEFINE t == loc[p].todo
<1>1. /\ Calls(p, "known") /\ UNCHANGED timerVars
      /\ \/ Proceed(p)
         \/ /\ ~enabled /\ started = "none"
            /\ Continue(p, "call", [loc[p] EXCEPT !.todo = Tail(Tail(@))])
  BY DEF AskKnown
<1>2. /\ pc[p] = "call" /\ DisablesUnit(loc[p]) /\ t # <<>> /\ Head(t) = "known"
      /\ DOMAIN loc[p] = {"todo", "unseen", "goal"}
  BY <1>1, CallsOf
<1>3. /\ Others(p) /\ pc'[p] = "call" /\ DOMAIN loc'[p] = {"todo", "unseen", "goal"}
      /\ loc'[p].unseen = loc[p].unseen /\ loc'[p].goal = loc[p].goal
      /\ \/ loc'[p].todo = Tail(t)
         \/ loc'[p].todo = Tail(Tail(t)) /\ ~enabled /\ started = "none"
  <2>1. CASE Proceed(p)
    BY <1>2, <2>1, ProceedLoc
  <2>2. CASE ~enabled /\ started = "none" /\ Continue(p, "call", [loc[p] EXCEPT !.todo = Tail(Tail(@))])
    <3>1. Others(p) /\ pc'[p] = "call" /\ loc'[p] = [loc[p] EXCEPT !.todo = Tail(Tail(@))]
      BY <2>2, ContinueOthers DEF TimerInv
    <3> QED BY <1>2, <2>2, <3>1
  <2> QED BY <1>1, <2>1, <2>2
<1> DEFINE todo == IF loc[p].goal.removed THEN RemoveTodo ELSE KeepTodo
<1>4. t \notin Stopped
  BY <1>2, UnlinkTails
<1>5. t \in todo /\ todo \in {KeepTodo, RemoveTodo} /\ loc[p].goal.state = "off"
      /\ (loc[p].goal.removed => todo = RemoveTodo)
  BY <1>2 DEF DisablesUnit
<1> HIDE DEF todo
<1>6. /\ Tail(t) \in todo /\ Tail(t) \notin Stopped /\ Tail(Tail(t)) \in todo
      /\ loc[p].goal.removed => Tail(Tail(t)) \notin ServiceGone
  BY <1>2, <1>4, <1>5, StopTails
<1>7. Command(pc[p], loc[p])'
  <2>1. loc'[p].todo \in todo
    BY <1>3, <1>6
  <2> QED BY <1>1, <1>2, <1>3, <2>1 DEF Command, DisablesUnit, timerVars, todo
<1>8. Done(loc[p])'
  BY <1>1, <1>3, <1>5, <1>6, DisableParts DEF Done, DisableDone, timerVars
<1> QED BY <1>1, <1>2, <1>3, <1>7, <1>8, TimerKept DEF TimerInv, timerVars

\* The unit is stopped.
LEMMA DisableNowKept ==
  ASSUME TimerInv, NEW p \in Processes, DisableNow(p)
  PROVE  TimerInv'
<1>1. PICK call \in {"disable", "tryDisable"} :
        /\ Calls(p, call) /\ Proceed(p) /\ enabled' = FALSE /\ started' = "none"
        /\ UNCHANGED <<family, disk, loaded, settled, overlapped>>
  BY DEF DisableNow, Disables
<1>2. /\ pc[p] = "call" /\ DisablesUnit(loc[p]) /\ loc[p].todo # <<>> /\ Head(loc[p].todo) = call
  BY <1>1, CallsOf
<1>3. /\ Others(p) /\ pc'[p] = "call" /\ DOMAIN loc'[p] = {"todo", "unseen", "goal"}
      /\ loc'[p].todo = Tail(loc[p].todo) /\ loc'[p].unseen = loc[p].unseen /\ loc'[p].goal = loc[p].goal
  BY <1>1, <1>2, ProceedLoc
<1>4. Command(pc[p], loc[p])'
  BY <1>1, <1>3, CommandGoesOn
<1>5. loc[p].todo \notin Stopped
  BY <1>1, <1>2, UnlinkTails
<1>6. loc[p].goal.state = "off" /\ (loc[p].goal.removed => Tail(loc[p].todo) \notin ServiceGone)
  BY <1>1, <1>2, <1>5, StopTails DEF DisablesUnit
<1>7. Done(loc[p])'
  BY <1>1, <1>3, <1>6, DisableParts DEF Done, DisableDone
<1> QED BY <1>1, <1>2, <1>3, <1>4, <1>7, TimerKept DEF TimerInv

\* The unit is not stopped, and the command goes on or ends.
LEMMA DisableFailsKept ==
  ASSUME TimerInv, NEW p \in Processes, DisableFails(p)
  PROVE  TimerInv'
<1>1. /\ Disables(p) /\ UNCHANGED <<family, disk, loaded, started, settled, overlapped>>
      /\ Stop(p) \/ ProceedUnseen(p)
  BY DEF DisableFails
<1>2. PICK call \in {"disable", "tryDisable"} : Calls(p, call)
  BY <1>1 DEF Disables
<1>3. pc[p] # "idle"
  BY <1>2, CallsOf
<1>4. CASE Stop(p)
  BY <1>1, <1>3, <1>4, TimerEnded DEF TimerInv
<1>5. CASE ProceedUnseen(p)
  BY <1>1, <1>2, <1>5, UnseenKept
<1> QED BY <1>1, <1>4, <1>5

\* The daemon is restarted: of that a restart says nothing.
LEMMA RestartDaemonKept ==
  ASSUME TimerInv, NEW p \in Processes, RestartDaemon(p)
  PROVE  TimerInv'
<1>1. /\ Calls(p, "restart") /\ Proceed(p)
      /\ UNCHANGED <<family, disk, loaded, enabled, settled, overlapped>>
  BY DEF RestartDaemon
<1>2. pc[p] = "call" /\ Restarts(loc[p])
  BY <1>1, CallsOf
<1>3. /\ Others(p) /\ pc'[p] = "call" /\ DOMAIN loc'[p] = {"todo", "unseen", "goal"}
      /\ loc'[p].todo = Tail(loc[p].todo) /\ loc'[p].goal = loc[p].goal
  BY <1>1, <1>2, ProceedLoc
<1>4. Command(pc[p], loc[p])'
  BY <1>1, <1>2, <1>3, ProceedLoc, CommandGoesOn
<1>5. Done(loc[p])'
  BY <1>2, <1>3 DEF Done, Restarts, Unsure
<1> QED BY <1>1, <1>2, <1>3, <1>4, <1>5, TimerKept DEF TimerInv

\* A command with nothing left to do ends: what it says is what it has behind it, if nobody was
\* beside it.
LEMMA EndTimerKept ==
  ASSUME TimerInv, NEW p \in Processes, EndTimer(p)
  PROVE  TimerInv'
<1>1. /\ pc[p] = "call" /\ loc[p].todo = <<>> /\ Stop(p)
      /\ settled' = IF p \in overlapped \/ Busy # {p} \/ loc[p].unseen THEN Unsure ELSE loc[p].goal
      /\ UNCHANGED <<family, disk, loaded, enabled, started, overlapped>>
  BY DEF EndTimer, End
<1>2. Others(p) /\ pc'[p] = "idle"
  BY <1>1, StopOthers DEF TimerInv
<1>3. \A q \in Processes : Command(pc[q], loc[q])'
  BY <1>1, <1>2 DEF TimerInv, Others, Command, Enables, DisablesUnit, Restarts
<1>4. \A q, r \in Processes : q # r /\ pc'[q] # "idle" /\ pc'[r] # "idle" => q \in overlapped'
  BY <1>1, <1>2 DEF TimerInv, Others
<1>5. ASSUME NEW q \in Processes, pc'[q] # "idle", q \notin overlapped', ~loc'[q].unseen
      PROVE  Done(loc[q])'
  <2>1. q # p /\ pc[q] # "idle" /\ p # q
    BY <1>2, <1>5 DEF Others
  <2> QED BY <1>1, <1>5, <2>1 DEF TimerInv
<1>6. ASSUME settled'.state # "unsure"
      PROVE  /\ \A q \in Processes : pc'[q] = "idle"
             /\ settled' = loc[p].goal /\ Done(loc[p])
  <2>1. p \notin overlapped /\ Busy = {p} /\ ~loc[p].unseen /\ settled' = loc[p].goal
    BY <1>1, <1>6 DEF Unsure
  <2> QED BY <1>1, <1>2, <2>1 DEF TimerInv, Others, Busy
<1>7. TimerSettled'
  <2>1. CASE settled'.state = "on"
    <3>1. settled' = loc[p].goal /\ EnableDone(loc[p])
      BY <1>6, <2>1 DEF Done
    <3>2. <<>> \in AfterFiles /\ <<>> \in AfterService
      BY DEF AfterFiles, AfterService
    <3>3. /\ disk["service"] = settled'.options
          /\ family # TelegramDaemon => disk["timer"] = settled'.options
          /\ enabled /\ loaded = disk
          /\ started = settled'.options \/ (family = TelegramDaemon /\ settled'.kept /\ started # "none")
      BY <1>1, <3>1, <3>2 DEF EnableDone
    <3>4. \A f \in family.files : disk[f] = settled'.options
      BY <3>3, FamilyKinds DEF TimerInv
    <3> QED BY <1>1, <2>1, <3>3, <3>4 DEF TimerSettled
  <2>2. CASE settled'.state = "off"
    <3>1. settled' = loc[p].goal /\ DisableDone(loc[p])
      BY <1>6, <2>2 DEF Done
    <3>2. <<>> \in Stopped /\ <<>> \in ServiceGone /\ <<>> \in TimerGone
      BY DisableParts
    <3>3. /\ ~enabled /\ started = "none"
          /\ settled'.removed => disk["service"] = "none" /\ disk["timer"] = "none"
      BY <1>1, <3>1, <3>2 DEF DisableDone
    <3>4. settled'.removed => \A f \in family.files : disk[f] = "none"
      BY <3>3, FamilyKinds DEF TimerInv
    <3> QED BY <1>1, <2>2, <3>3, <3>4 DEF TimerSettled
  <2> QED BY <2>1, <2>2 DEF TimerSettled
<1> QED BY <1>1, <1>2, <1>3, <1>4, <1>5, <1>6, <1>7 DEF TimerInv, Others

\* Every step of a command for a unit keeps TimerInv.
LEMMA TimerStepKept ==
  ASSUME TimerInv, TimerNext
  PROVE  TimerInv'
<1>1. PICK p \in Processes : TimerStep(p)
  BY DEF TimerNext
<1>2. CASE \/ \E options \in Options : BeginEnable(p, options)
           \/ \E remove \in BOOLEAN : BeginDisable(p, remove)
           \/ BeginRestart(p)
  BY <1>2, BeginEnableKept, BeginDisableKept, BeginRestartKept
<1>3. CASE \E f \in {"service", "timer"} : WriteUnit(p, f) \/ UnlinkUnit(p, f)
  BY <1>3, WriteUnitKept, UnlinkUnitKept
<1>4. CASE Relabel(p)
  BY <1>4, BetweenKept DEF Relabel, timerVars
<1>5. CASE ReloadFails(p)
  BY <1>5, UnseenKept DEF ReloadFails, timerVars
<1>6. CASE EnableNothing(p) \/ RestartNothing(p)
  <2>1. pc[p] # "idle" /\ Stop(p) /\ UNCHANGED timerVars
    BY <1>6, CallsOf DEF EnableNothing, RestartNothing, End
  <2> QED BY <2>1, TimerEnded DEF timerVars, TimerInv
<1>7. CASE KillTimer(p)
  <2>1. /\ pc[p] # "idle" /\ Stop(p) /\ UNCHANGED <<family, settled, overlapped>>
        /\ disk' = disk \/ \E f : disk' = [disk EXCEPT ![f] = "cut"]
    BY <1>7 DEF KillTimer, Break
  <2> QED BY <2>1, TimerEnded DEF TimerInv
<1> QED BY <1>1, <1>2, <1>3, <1>4, <1>5, <1>6, <1>7, ReloadKept, EnableNowKept, AskKnownKept,
           DisableNowKept, DisableFailsKept, RestartDaemonKept, EndTimerKept DEF TimerStep

-----------------------------------------------------------------------------
(* Induction over the natural numbers, by the least one that is left *)

\* The order of the numbers, as a relation.
LEMMA PairOfOrder ==
  ASSUME NEW m \in Nat, NEW n \in Nat, m < n PROVE <<m, n>> \in OpToRel(<, Nat)
<1>1. <<m, n>> \in Nat \X Nat /\ <<m, n>>[1] < <<m, n>>[2]
  OBVIOUS
<1>2. <<m, n>> \in {pair \in Nat \X Nat : pair[1] < pair[2]}
  BY <1>1
<1> QED
  BY <1>2, Zenon DEF OpToRel

\* A set of numbers has a least one.
LEMMA LeastNumber ==
  ASSUME NEW S \in SUBSET Nat, S # {} PROVE \E n \in S : \A m \in S : n <= m
<1>1. \E n \in S : \A m \in S : ~(<<m, n>> \in OpToRel(<, Nat))
  BY NatLessThanWellFounded, WFMin
<1>2. PICK n \in S : \A m \in S : ~(<<m, n>> \in OpToRel(<, Nat))
  BY <1>1, Zenon
<1>3. ASSUME NEW m \in S PROVE n <= m
  <2>1. ~(m < n)
    <3>1. SUFFICES ASSUME m < n PROVE FALSE
      OBVIOUS
    <3>2. m \in Nat /\ n \in Nat
      OBVIOUS
    <3>3. <<m, n>> \in OpToRel(<, Nat)
      BY <3>1, <3>2, PairOfOrder, Zenon
    <3> QED
      BY <1>2, <3>3, Zenon
  <2> QED
    BY <2>1
<1> QED
  BY <1>3

\* What holds of 0 and goes on from each number to the next, to the last one, holds up to there.
LEMMA UpTo ==
  ASSUME NEW N \in Nat, NEW S \in SUBSET (0..N), 0 \in S, \A n \in 1..N : n - 1 \in S => n \in S
  PROVE  S = 0..N
<1> DEFINE Rest == (0..N) \ S
<1>1. CASE Rest = {}
  BY <1>1
<1>2. CASE Rest # {}
  <2>1. Rest \in SUBSET Nat
    OBVIOUS
  <2>2. PICK n \in Rest : \A m \in Rest : n <= m
    <3> HIDE DEF Rest
    <3> QED BY <1>2, <2>1, LeastNumber
  <2>3. n \in 1..N /\ n - 1 \notin Rest
    BY <2>2
  <2> QED
    BY <2>2, <2>3
<1> QED
  BY <1>1, <1>2

-----------------------------------------------------------------------------
(* The recent hits *)

\* The steps of Recent.
RecentSteps(kept, m, hits, cutoff) ==
  kept = [n \in 0..m |->
            IF n = 0 THEN <<>>
            ELSE IF times[hits[n]] >= cutoff THEN Append(kept[n - 1], hits[n]) ELSE kept[n - 1]]

\* Recent takes those steps: they can be taken for any list.
LEMMA RecentDefined ==
  ASSUME NEW hits, Len(hits) \in Nat, NEW cutoff
  PROVE  \E kept : RecentSteps(kept, Len(hits), hits, cutoff) /\ Recent(hits, cutoff) = kept[Len(hits)]
<1> DEFINE N == Len(hits)
           Taken == {m \in 0..N : \E kept : RecentSteps(kept, m, hits, cutoff)}
<1>1. 0 \in Taken
  <2>1. RecentSteps([n \in 0..0 |-> <<>>], 0, hits, cutoff)
    BY DEF RecentSteps
  <2> QED BY <2>1
<1>2. ASSUME NEW m \in 1..N, m - 1 \in Taken PROVE m \in Taken
  <2>1. PICK f : RecentSteps(f, m - 1, hits, cutoff)
    BY <1>2
  <2> DEFINE last == IF times[hits[m]] >= cutoff THEN Append(f[m - 1], hits[m]) ELSE f[m - 1]
             g == [n \in 0..m |-> IF n = m THEN last ELSE f[n]]
  <2>2. \A n \in 0..(m - 1) : f[n] = IF n = 0 THEN <<>>
            ELSE IF times[hits[n]] >= cutoff THEN Append(f[n - 1], hits[n]) ELSE f[n - 1]
    BY <2>1 DEF RecentSteps
  <2> DEFINE h == [n \in 0..m |->
            IF n = 0 THEN <<>>
            ELSE IF times[hits[n]] >= cutoff THEN Append(g[n - 1], hits[n]) ELSE g[n - 1]]
  <2>3. ASSUME NEW n \in 0..m PROVE g[n] = h[n]
    <3>1. CASE n = 0
      BY <2>2, <3>1
    <3>2. CASE n \in 1..m
      <4>1. g[n-1] = f[n-1]
        BY <3>2
      <4>2. n-1 \in 0..m /\ n # 0
        BY <3>2
      <4>3. CASE n = m
        BY <4>1, <4>2, <4>3
      <4>4. CASE n # m
        <5>1. n \in 0..(m-1)
          BY <4>4
        <5>2. g[n] = f[n]
          BY <4>4
        <5> HIDE DEF g
        <5> QED
          BY <2>2, <5>1, <5>2, <4>1, <4>2
      <4> QED BY <4>3, <4>4
    <3> QED
      BY <3>1, <3>2
  <2>4. g = h
    BY <2>3
  <2>5. RecentSteps(g, m, hits, cutoff)
    BY <2>4 DEF RecentSteps
  <2> QED
    BY <2>5
<1>3. N \in Taken
  <2>1. Taken \in SUBSET (0..N) /\ N \in Nat
    OBVIOUS
  <2> HIDE DEF Taken, N
  <2>2. Taken = 0..N
    BY <1>1, <1>2, <2>1, UpTo
  <2> QED BY <2>1, <2>2
<1>4. PICK f : RecentSteps(f, N, hits, cutoff)
  BY <1>3
<1> DEFINE kept == CHOOSE g : RecentSteps(g, N, hits, cutoff)
<1>5. RecentSteps(kept, N, hits, cutoff)
  BY <1>4, Zenon
<1>6. Recent(hits, cutoff) = kept[N]
  BY DEF Recent, RecentSteps
<1> QED
  BY <1>5, <1>6

\* What is kept of a list are its recent elements, in its order: each is found at its place in the
\* list or later.
KeptOf(r, hits, m, cutoff) ==
  /\ \A j \in 1..Len(r) : \E i \in 1..m : i >= j /\ r[j] = hits[i]
  /\ \A i \in 1..m : times[hits[i]] >= cutoff => \E j \in 1..Len(r) : r[j] = hits[i]
  /\ (\A i, k \in 1..m : i < k => hits[i] < hits[k]) => \A i, k \in 1..Len(r) : i < k => r[i] < r[k]

\* So Recent keeps what is recent.
LEMMA RecentKept ==
  ASSUME NEW T, NEW hits \in Seq(T), NEW cutoff
  PROVE  Recent(hits, cutoff) \in Seq(T) /\ KeptOf(Recent(hits, cutoff), hits, Len(hits), cutoff)
<1>1. Len(hits) \in Nat /\ \A i \in 1..Len(hits) : hits[i] \in T
  OBVIOUS
<1>2. PICK kept : RecentSteps(kept, Len(hits), hits, cutoff) /\ Recent(hits, cutoff) = kept[Len(hits)]
  BY <1>1, RecentDefined
<1> DEFINE N == Len(hits)
           Right == {m \in 0..N : kept[m] \in Seq(T) /\ Len(kept[m]) <= m /\ KeptOf(kept[m], hits, m, cutoff)}
<1> HIDE DEF N
<1>3. N \in Nat /\ \A i \in 1..N : hits[i] \in T
  BY <1>1 DEF N
<1>4. \A n \in 0..N : kept[n] = IF n = 0 THEN <<>>
            ELSE IF times[hits[n]] >= cutoff THEN Append(kept[n - 1], hits[n]) ELSE kept[n - 1]
  BY <1>2 DEF RecentSteps, N
<1>5. 0 \in Right
  <2>1. kept[0] = <<>>
    BY <1>3, <1>4
  <2>2. kept[0] \in Seq(T) /\ Len(kept[0]) = 0
    BY <2>1
  <2>3. 1..Len(kept[0]) = {} /\ 1..0 = {}
    BY <2>2
  <2>4. KeptOf(kept[0], hits, 0, cutoff)
    BY <2>3, Zenon DEF KeptOf
  <2> QED
    BY <1>3, <2>2, <2>4
<1>6. ASSUME NEW m \in 1..N, m - 1 \in Right PROVE m \in Right
  <2>1. PICK r : r = kept[m - 1]
    OBVIOUS
  <2>2. r \in Seq(T) /\ Len(r) <= m - 1 /\ KeptOf(r, hits, m - 1, cutoff)
    BY <1>6, <2>1
  <2>3. hits[m] \in T /\ m \in 0..N
    BY <1>3
  <2>4. CASE times[hits[m]] >= cutoff
    <3>1. PICK s : s = Append(r, hits[m])
      OBVIOUS
    <3>2. kept[m] = s
      <4>1. m \in 0..N /\ m # 0
        BY <1>3
      <4> QED
        BY <1>4, <2>1, <2>4, <3>1, <4>1
    <3>3. s \in Seq(T) /\ Len(s) = Len(r) + 1 /\ s[Len(r) + 1] = hits[m]
          /\ \A j \in 1..Len(r) : s[j] = r[j]
      BY <2>2, <2>3, <3>1
    <3>4. Len(r) \in Nat
      BY <2>2
    <3>5. \A j \in 1..Len(s) : j \in 1..Len(r) \/ j = Len(r) + 1
      BY <3>3, <3>4
    <3>6. ASSUME NEW j \in 1..Len(s) PROVE \E i \in 1..m : i >= j /\ s[j] = hits[i]
      <4>1. CASE j \in 1..Len(r)
        BY <2>2, <3>3, <4>1, <1>3 DEF KeptOf
      <4>2. CASE j = Len(r) + 1
        BY <2>2, <3>3, <3>4, <4>2, <1>3
      <4> QED BY <3>5, <4>1, <4>2
    <3>7. ASSUME NEW i \in 1..m, times[hits[i]] >= cutoff PROVE \E j \in 1..Len(s) : s[j] = hits[i]
      <4>1. CASE i = m
        BY <3>3, <3>4, <4>1
      <4>2. CASE i # m
        <5>1. i \in 1..(m - 1)
          BY <4>2, <1>3
        <5>2. PICK j \in 1..Len(r) : r[j] = hits[i]
          BY <2>2, <3>7, <5>1 DEF KeptOf
        <5> QED
          BY <3>3, <3>4, <5>2
      <4> QED BY <4>1, <4>2
    <3>8. ASSUME \A i, k \in 1..m : i < k => hits[i] < hits[k], NEW i \in 1..Len(s), NEW k \in 1..Len(s), i < k
          PROVE  s[i] < s[k]
      <4>1. CASE k \in 1..Len(r)
        <5>1. i \in 1..Len(r)
          BY <3>8, <4>1, <3>4
        <5>2. \A x, y \in 1..(m - 1) : x < y => hits[x] < hits[y]
          BY <3>8, <1>3
        <5> QED
          BY <2>2, <3>3, <3>8, <4>1, <5>1, <5>2 DEF KeptOf
      <4>2. CASE k = Len(r) + 1
        <5>1. i \in 1..Len(r)
          BY <3>8, <4>2, <3>4, <3>3
        <5>2. PICK x \in 1..(m - 1) : r[i] = hits[x]
          BY <2>2, <5>1 DEF KeptOf
        <5>3. x \in 1..m /\ m \in 1..m /\ x < m
          BY <1>3
        <5> QED
          BY <3>3, <3>8, <4>2, <5>1, <5>2, <5>3
      <4> QED BY <3>5, <4>1, <4>2
    <3>9. KeptOf(s, hits, m, cutoff)
      BY <3>6, <3>7, <3>8 DEF KeptOf
    <3> QED
      BY <2>2, <2>3, <3>2, <3>3, <3>4, <3>9, <1>3
  <2>5. CASE ~(times[hits[m]] >= cutoff)
    <3>1. kept[m] = r
      BY <1>3, <1>4, <2>1, <2>5
    <3>2. KeptOf(r, hits, m, cutoff)
      <4>1. 1..(m - 1) \subseteq 1..m /\ \A i \in 1..m : i \in 1..(m - 1) \/ i = m
        BY <1>3
      <4>2. \A j \in 1..Len(r) : \E i \in 1..m : i >= j /\ r[j] = hits[i]
        BY <2>2, <4>1 DEF KeptOf
      <4>3. \A i \in 1..m : times[hits[i]] >= cutoff => \E j \in 1..Len(r) : r[j] = hits[i]
        BY <2>2, <2>5, <4>1 DEF KeptOf
      <4>4. (\A i, k \in 1..m : i < k => hits[i] < hits[k]) => \A i, k \in 1..Len(r) : i < k => r[i] < r[k]
        BY <2>2, <4>1 DEF KeptOf
      <4> QED
        BY <4>2, <4>3, <4>4 DEF KeptOf
    <3>3. Len(r) <= m
      BY <2>2, <1>3
    <3> QED
      BY <2>2, <2>3, <3>1, <3>2, <3>3
  <2> QED BY <2>4, <2>5
<1>7. Right = 0..N
  <2>1. Right \in SUBSET (0..N)
    OBVIOUS
  <2> HIDE DEF Right
  <2> QED
    BY <1>3, <1>5, <1>6, <2>1, UpTo
<1>8. N \in Right
  BY <1>3, <1>7
<1> QED
  BY <1>2, <1>8 DEF N

-----------------------------------------------------------------------------
(* The scan of the log *)

ScanFields == {"inode", "offset", "hits", "cutoff", "read", "before"}

\* Times, and lines that the log has or had.
LogShape ==
  /\ clock \in 1..(MaxClock + 1) /\ times \in Seq(1..(MaxClock + 1)) /\ Len(times) <= MaxLines
  /\ log \in [there : BOOLEAN, inode : 1..MaxFiles, before : 0..Len(times)]
  /\ ~log.there => log.inode < MaxFiles
  /\ alerted \in 0..Len(times) /\ {unalerted, swapped} \subseteq BOOLEAN

\* What is known of a file up to an offset: the hits are lines that were written.  As long as no
\* file was taken for another they are in order, none is after the offset, and none is of the log
\* that is there if the offset is not into it.  Every line that was read and is in the window is a
\* hit.  If the offset is into the log, and that was not truncated, every line before it was read.
Counted(hits, inode, offset, cutoff, seen, first) ==
  /\ hits \in Seq(Nat \ {0}) /\ offset \in 0..Len(times) /\ inode \in 0..log.inode
  /\ seen \subseteq 1..Len(times) /\ first \in 0..log.before
  /\ \A j \in 1..Len(hits) : hits[j] <= Len(times)
  /\ ~swapped =>
       /\ \A i, j \in 1..Len(hits) : i < j => hits[i] < hits[j]
       /\ \/ \A j \in 1..Len(hits) : hits[j] <= log.before
          \/ /\ inode = log.inode /\ offset <= Size(log)
             /\ \A j \in 1..Len(hits) : hits[j] <= log.before + offset
  /\ \A k \in seen :
       /\ cutoff + Window <= clock
       /\ times[k] >= cutoff => \E j \in 1..Len(hits) : hits[j] = k
  /\ inode = log.inode /\ first = log.before =>
       offset <= Size(log) /\ \A i \in 1..offset : log.before + i \in seen

\* An alert counted the line h, or is about to.
Covered(h) ==
  \/ alerted >= h \/ unalerted
  \/ \E p \in Processes : pc[p] = "emit" /\ loc[p].alert /\ loc[p].last >= h

Alerts(hits) == \A j \in 1..Len(hits) : j >= Threshold => Covered(hits[j])

\* What a run knows, and what it owes: an alert for what it will save.
ScanRun(c, r) ==
  /\ c = "stat" =>
       /\ DOMAIN r.saved = ScanFields /\ r.cutoff \in Int /\ r.cutoff + Window <= clock
       /\ Counted(r.hits, r.saved.inode, r.saved.offset, r.cutoff, r.saved.read, r.saved.before) /\ Alerts(r.hits)
  /\ c = "read" =>
       /\ r.cutoff \in Int /\ r.cutoff + Window <= clock
       /\ Counted(r.hits, r.inode, r.offset, r.cutoff, r.read, r.before) /\ Alerts(r.hits)
  /\ c = "save" =>
       /\ DOMAIN r.state = ScanFields /\ r.state.cutoff \in Int
       /\ Counted(r.state.hits, r.state.inode, r.state.offset, r.state.cutoff, r.state.read, r.state.before)
       /\ \A j \in 1..Len(r.state.hits) : j >= Threshold =>
            \/ Covered(r.state.hits[j])
            \/ r.batch # <<>> /\ r.state.hits[j] <= LastOf(r.state.hits)
  /\ c = "emit" => r.alert \in BOOLEAN /\ r.last \in 0..Len(times)

\* So does the state file, if it is one.
ScanFile ==
  /\ DOMAIN scan = ScanFields /\ scan.cutoff \in Int
  /\ scan # BadScan => Counted(scan.hits, scan.inode, scan.offset, scan.cutoff, scan.read, scan.before) /\ Alerts(scan.hits)

ScanInv == Shape /\ LogShape /\ ScanFile /\ \A q \in Processes : ScanRun(pc[q], loc[q])

\* The time of a line that was written is a number.
LEMMA TimesAre ==
  ASSUME LogShape, NEW k \in 1..Len(times)
  PROVE  times[k] \in Int
<1> DEFINE S == 1..(MaxClock + 1)
<1>1. times \in Seq(S)
  BY DEF LogShape
<1>2. \A n \in S : n \in Int
  OBVIOUS
<1> HIDE DEF S
<1>3. times[k] \in S
  BY <1>1, ElementOfSeq
<1> QED
  BY <1>2, <1>3

\* What is known stays so while the log is the same and grows.
LEMMA CountedStays ==
  ASSUME LogShape, times' = times \/ times' = Append(times, clock), clock' \in Int, clock <= clock',
         log'.inode = log.inode, log'.before = log.before, swapped => swapped'
  PROVE  \A h, i, o, c, seen, first : c \in Int /\ Counted(h, i, o, c, seen, first) => Counted(h, i, o, c, seen, first)'
<1> SUFFICES ASSUME NEW h, NEW i, NEW o, NEW c \in Int, NEW seen, NEW first, Counted(h, i, o, c, seen, first) PROVE Counted(h, i, o, c, seen, first)'
  OBVIOUS
<1>1. /\ Len(times) \in Nat /\ Len(times') \in Nat /\ Len(times) <= Len(times')
      /\ \A k \in 1..Len(times) : times'[k] = times[k]
  <2>1. times \in Seq(1..(MaxClock + 1)) /\ clock \in 1..(MaxClock + 1)
    BY DEF LogShape
  <2>2. CASE times' = times
    BY <2>1, <2>2
  <2>3. CASE times' = Append(times, clock)
    <3>1. Len(times') = Len(times) + 1 /\ \A k \in 1..Len(times) : times'[k] = times[k]
      BY <2>1, <2>3
    <3> QED
      BY <2>1, <3>1
  <2> QED
    BY <2>2, <2>3
<1>2. log.before \in 0..Len(times) /\ log.inode \in Nat /\ clock \in Int /\ Window \in Nat
  BY ScanAssumption DEF LogShape
<1>3. Size(log) = Len(times) - log.before /\ Size(log)' = Len(times') - log.before
  BY DEF Size
<1>4. Len(h) \in Nat /\ \A j \in 1..Len(h) : h[j] \in Nat
  BY DEF Counted
<1>5. /\ h \in Seq(Nat \ {0}) /\ o \in 0..Len(times') /\ i \in 0..log'.inode
      /\ \A j \in 1..Len(h) : h[j] <= Len(times')
  BY <1>1, <1>2, <1>4 DEF Counted
<1>6. ASSUME ~swapped'
      PROVE  /\ \A k, j \in 1..Len(h) : k < j => h[k] < h[j]
             /\ \/ \A j \in 1..Len(h) : h[j] <= log'.before
                \/ /\ i = log'.inode /\ o <= Size(log)'
                   /\ \A j \in 1..Len(h) : h[j] <= log'.before + o
  <2>1. /\ \A k, j \in 1..Len(h) : k < j => h[k] < h[j]
        /\ \/ \A j \in 1..Len(h) : h[j] <= log.before
           \/ /\ i = log.inode /\ o <= Size(log)
              /\ \A j \in 1..Len(h) : h[j] <= log.before + o
    BY <1>6 DEF Counted
  <2>2. o <= Size(log) => o <= Size(log)'
    BY <1>1, <1>2, <1>3, <1>5
  <2> QED
    BY <2>1, <2>2
<1>7. /\ seen \subseteq 1..Len(times) /\ seen \subseteq 1..Len(times') /\ first \in 0..log'.before
      /\ Len(times) \in Nat
  <2>1. seen \subseteq 1..Len(times) /\ first \in 0..log.before
    BY DEF Counted
  <2> QED
    BY <1>1, <2>1
<1>8. ASSUME NEW k \in seen
      PROVE  /\ c + Window <= clock'
             /\ times'[k] >= c => \E j \in 1..Len(h) : h[j] = k
  <2>1. c + Window <= clock /\ (times[k] >= c => \E j \in 1..Len(h) : h[j] = k)
    BY <1>8 DEF Counted
  <2>2. times'[k] = times[k]
    BY <1>1, <1>7
  <2> QED
    BY <1>2, <2>1, <2>2
<1>9. ASSUME i = log'.inode /\ first = log'.before
      PROVE  o <= Size(log)' /\ \A k \in 1..o : log'.before + k \in seen
  <2>1. o <= Size(log) /\ \A k \in 1..o : log.before + k \in seen
    BY <1>9 DEF Counted
  <2> QED
    BY <2>1, <1>1, <1>2, <1>3, <1>5
<1> QED
  BY <1>5, <1>6, <1>7, <1>8, <1>9 DEF Counted

\* What was known of the file that is no longer there is known of no offset into the next one.
LEMMA CountedBefore ==
  ASSUME LogShape, UNCHANGED <<clock, times, swapped>>, log'.before = Len(times), log'.inode \in Nat,
         log'.inode > log.inode \/ (log'.inode = log.inode /\ log.before < Len(times))
  PROVE  \A h, i, o, c, seen, first : Counted(h, i, o, c, seen, first) => Counted(h, i, o, c, seen, first)'
<1> SUFFICES ASSUME NEW h, NEW i, NEW o, NEW c, NEW seen, NEW first, Counted(h, i, o, c, seen, first) PROVE Counted(h, i, o, c, seen, first)'
  OBVIOUS
<1>1. Len(times) \in Nat /\ log.inode \in Nat /\ log.before \in 0..Len(times)
  BY DEF LogShape
<1>2. i \in 0..log'.inode /\ first \in 0..log'.before /\ ~(i = log'.inode /\ first = log'.before)
  BY <1>1 DEF Counted
<1>3. \A j \in 1..Len(h) : h[j] <= log'.before
  BY DEF Counted
<1> QED
  BY <1>2, <1>3 DEF Counted

\* What an alert counted stays so, in a step of p which tells or stays about to tell what it owes.
LEMMA CoveredStays ==
  ASSUME ScanInv, NEW p \in Processes, Others(p), alerted' \in Int, alerted <= alerted', unalerted => unalerted',
         pc[p] = "emit" /\ loc[p].alert => unalerted' \/ loc[p].last <= alerted'
  PROVE  \A h \in Int : Covered(h) => Covered(h)'
<1> SUFFICES ASSUME NEW h \in Int, Covered(h), ~unalerted', ~(alerted' >= h) PROVE Covered(h)'
  BY DEF Covered
<1>1. alerted \in Int /\ Len(times) \in Nat
  BY DEF ScanInv, LogShape
<1>2. PICK q \in Processes : pc[q] = "emit" /\ loc[q].alert /\ loc[q].last >= h
  BY <1>1 DEF Covered
<1>3. loc[q].last \in Int
  BY <1>1, <1>2 DEF ScanInv, ScanRun
<1>4. CASE q = p
  BY <1>1, <1>2, <1>3, <1>4
<1>5. CASE q # p
  BY <1>2, <1>5 DEF Covered, Others
<1> QED
  BY <1>4, <1>5

\* Of what is known the recent hits are enough.
LEMMA RecentCounted ==
  ASSUME LogShape, NEW h, NEW i, NEW o, NEW c \in Int, NEW seen, NEW first, Counted(h, i, o, c, seen, first), Alerts(h)
  PROVE  /\ Counted(Recent(h, clock - Window), i, o, clock - Window, seen, first)
         /\ Alerts(Recent(h, clock - Window))
<1>1. PICK d \in Int : d = clock - Window
  BY ScanAssumption DEF LogShape
<1>2. PICK r : r = Recent(h, d)
  OBVIOUS
<1>3. h \in Seq(Nat \ {0}) /\ Len(h) \in Nat
  BY DEF Counted
<1>4. r \in Seq(Nat \ {0}) /\ KeptOf(r, h, Len(h), d)
  BY <1>2, <1>3, RecentKept
<1>5. \A j \in 1..Len(r) : \E k \in 1..Len(h) : k >= j /\ r[j] = h[k]
  BY <1>4 DEF KeptOf
<1>6. Len(r) \in Nat /\ Window \in Nat \ {0} /\ clock \in Int /\ d + Window = clock
  BY <1>1, <1>4, ScanAssumption DEF LogShape
<1>7. \A j \in 1..Len(r) : r[j] <= Len(times)
  BY <1>5 DEF Counted
<1>8. ASSUME ~swapped
      PROVE  /\ \A j, k \in 1..Len(r) : j < k => r[j] < r[k]
             /\ \/ \A j \in 1..Len(r) : r[j] <= log.before
                \/ /\ i = log.inode /\ o <= Size(log)
                   /\ \A j \in 1..Len(r) : r[j] <= log.before + o
  <2>1. \A j, k \in 1..Len(h) : j < k => h[j] < h[k]
    BY <1>8 DEF Counted
  <2>2. \A j, k \in 1..Len(r) : j < k => r[j] < r[k]
    BY <1>4, <2>1 DEF KeptOf
  <2>3. \/ \A j \in 1..Len(h) : h[j] <= log.before
        \/ /\ i = log.inode /\ o <= Size(log)
           /\ \A j \in 1..Len(h) : h[j] <= log.before + o
    BY <1>8 DEF Counted
  <2> QED
    BY <1>5, <2>2, <2>3
<1>9. ASSUME NEW k \in seen
      PROVE  /\ d + Window <= clock
             /\ times[k] >= d => \E j \in 1..Len(r) : r[j] = k
  <2>1. c + Window <= clock /\ (times[k] >= c => \E j \in 1..Len(h) : h[j] = k)
    BY <1>9 DEF Counted
  <2>2. ASSUME times[k] >= d PROVE \E j \in 1..Len(r) : r[j] = k
    <3>1. times[k] \in Int
      <4>1. k \in 1..Len(times)
        BY DEF Counted
      <4> QED
        BY <4>1, TimesAre
    <3>2. times[k] >= c
      BY <1>6, <2>1, <2>2, <3>1
    <3>3. PICK j \in 1..Len(h) : h[j] = k
      BY <2>1, <3>2
    <3>4. times[h[j]] >= d
      BY <2>2, <3>3
    <3> QED
      BY <1>4, <3>3, <3>4 DEF KeptOf
  <2> QED
    BY <1>6, <2>2
<1>10. Counted(r, i, o, d, seen, first)
  BY <1>4, <1>7, <1>8, <1>9 DEF Counted
<1>11. Alerts(r)
  <2> SUFFICES ASSUME NEW j \in 1..Len(r), j >= Threshold PROVE Covered(r[j])
    BY DEF Alerts
  <2>1. PICK k \in 1..Len(h) : k >= j /\ r[j] = h[k]
    BY <1>5
  <2>2. k >= Threshold
    BY <2>1, <1>3, <1>6, ScanAssumption
  <2> QED
    BY <2>1, <2>2 DEF Alerts
<1> QED
  BY <1>1, <1>2, <1>10, <1>11

\* The lines of a batch are those after the offset, none if the file is shorter.
LEMMA BatchLinesAre ==
  ASSUME LogShape, NEW o \in Nat
  PROVE  /\ Batch(o) \in Seq(Nat \ {0}) /\ Len(Batch(o)) \in Nat
         /\ \A k \in 1..Len(Batch(o)) : Batch(o)[k] = log.before + o + k
         /\ o > Size(log) => Len(Batch(o)) = 0
         /\ o <= Size(log) => o + Len(Batch(o)) <= Size(log)
<1>1. BatchLines \in Nat \ {0} /\ log.before \in Nat /\ Size(log) \in Nat
  BY ScanAssumption DEF LogShape, Size
<1> DEFINE n == IF o > Size(log) THEN 0
                ELSE IF o + BatchLines < Size(log) THEN BatchLines ELSE Size(log) - o
           b == [k \in 1..n |-> log.before + o + k]
<1>2. n \in Nat /\ (o > Size(log) => n = 0) /\ (o <= Size(log) => o + n <= Size(log))
  BY <1>1
<1>3. Batch(o) = b
  <2>1. (IF o > Size(log) THEN o
         ELSE IF o + BatchLines < Size(log) THEN o + BatchLines ELSE Size(log)) - o = n
    BY <1>1
  <2> QED
    BY <2>1 DEF Batch
<1> HIDE DEF n
<1>4. b \in Seq(Nat \ {0}) /\ Len(b) = n
  BY <1>1, <1>2
<1> QED
  BY <1>2, <1>3, <1>4

\* What was read when the lines from the offset o to e have been.
ReadTo(now, seen, o, e) ==
  /\ seen \subseteq now
  /\ \A k \in (o + 1)..e : log.before + k \in now
  /\ \A x \in now : x \in seen \/ \E k \in (o + 1)..e : x = log.before + k

\* What a run knows when it has read a batch: the hits before it and the recent ones in it.
LEMMA ReadCounted ==
  ASSUME LogShape, NEW h, NEW i, NEW o, NEW c \in Int, NEW seen, NEW first, Counted(h, i, o, c, seen, first), c + Window <= clock,
         NEW b, b = Recent(Batch(o), c), NEW e, e = o + Len(Batch(o)),
         NEW now, ReadTo(now, seen, o, e),
         NEW start, start = IF o = 0 THEN log.before ELSE first,
         UNCHANGED <<clock, times, log>>, swapped' = (swapped \/ log.inode # i)
  PROVE  /\ Counted(h \o b, i, e, c, now, start)'
         /\ b \in Seq(Nat \ {0}) /\ h \in Seq(Nat \ {0})
         /\ \A j, k \in 1..Len(b) : j < k => b[j] < b[k]
<1>1. /\ Len(times) \in Nat /\ log.before \in Nat /\ o \in Nat /\ Size(log) = Len(times) - log.before
      /\ o <= Len(times) /\ log.before <= Len(times)
  BY DEF LogShape, Size, Counted
<1>0. Window \in Nat \ {0} /\ i \in 0..log.inode /\ h \in Seq(Nat \ {0})
  BY ScanAssumption DEF Counted
<1>2. PICK a, n : a = Batch(o) /\ n = Len(a)
  OBVIOUS
<1>3. /\ a \in Seq(Nat \ {0}) /\ n \in Nat
      /\ \A k \in 1..n : a[k] = log.before + o + k
      /\ o > Size(log) => n = 0
      /\ o <= Size(log) => o + n <= Size(log)
  BY <1>1, <1>2, BatchLinesAre
<1>4. b \in Seq(Nat \ {0}) /\ KeptOf(b, a, n, c)
  BY <1>2, <1>3, RecentKept
<1>5. \A j \in 1..Len(b) : \E k \in 1..n : b[j] = log.before + o + k
  BY <1>3, <1>4 DEF KeptOf
<1>6. \A j, k \in 1..Len(b) : j < k => b[j] < b[k]
  <2>1. \A j, k \in 1..n : j < k => a[j] < a[k]
    BY <1>1, <1>3
  <2> QED
    BY <1>4, <2>1 DEF KeptOf
<1> DEFINE s == h \o b
<1>8. Len(h) \in Nat /\ Len(b) \in Nat
  BY <1>0, <1>4
<1>9. /\ s \in Seq(Nat \ {0}) /\ Len(s) = Len(h) + Len(b)
      /\ \A j \in 1..Len(h) : s[j] = h[j]
      /\ \A j \in 1..Len(b) : s[Len(h) + j] = b[j]
  <2>1. s \in Seq(Nat \ {0})
    BY <1>0, <1>4, ConcatProperties
  <2> QED
    BY <2>1, <1>0, <1>4, <1>8, ConcatProperties
<1> HIDE DEF s
<1>10. \A j \in 1..Len(s) : j \in 1..Len(h) \/ \E k \in 1..Len(b) : j = Len(h) + k
  <2> SUFFICES ASSUME NEW j \in 1..Len(s), j \notin 1..Len(h) PROVE \E k \in 1..Len(b) : j = Len(h) + k
    OBVIOUS
  <2>1. j - Len(h) \in 1..Len(b) /\ j = Len(h) + (j - Len(h))
    BY <1>8, <1>9
  <2> QED
    BY <2>1
<1>11. o + n \in 0..Len(times)
  BY <1>1, <1>3
<1>12. \A j \in 1..Len(s) : s[j] <= Len(times)
  <2> SUFFICES ASSUME NEW j \in 1..Len(s) PROVE s[j] <= Len(times)
    OBVIOUS
  <2>1. CASE j \in 1..Len(h)
    BY <1>9, <2>1 DEF Counted
  <2>2. ASSUME NEW k \in 1..Len(b), j = Len(h) + k PROVE s[j] <= Len(times)
    <3>1. PICK l \in 1..n : b[k] = log.before + o + l
      BY <1>5
    <3>2. s[j] = b[k]
      BY <1>9, <2>2
    <3>3. l \in Nat /\ l <= n /\ n # 0 /\ n \in Nat
      BY <1>3
    <3>4. o <= Size(log) => o + n <= Size(log)
      BY <1>3
    <3>5. o > Size(log) => n = 0
      BY <1>3
    <3>6. log.before + o + l <= Len(times)
      BY <1>1, <3>3, <3>4, <3>5
    <3> QED
      BY <3>1, <3>2, <3>6
  <2> QED
    BY <1>10, <2>1, <2>2
<1>13. ASSUME ~swapped, log.inode = i
       PROVE  /\ \A j, k \in 1..Len(s) : j < k => s[j] < s[k]
              /\ \/ \A j \in 1..Len(s) : s[j] <= log.before
                 \/ /\ i = log.inode /\ o + n <= Size(log)
                    /\ \A j \in 1..Len(s) : s[j] <= log.before + (o + n)
  <2>1. /\ \A j, k \in 1..Len(h) : j < k => h[j] < h[k]
        /\ \/ \A j \in 1..Len(h) : h[j] <= log.before
           \/ o <= Size(log) /\ \A j \in 1..Len(h) : h[j] <= log.before + o
    BY <1>13 DEF Counted
  <2>2. \A j \in 1..Len(h) : h[j] \in Nat /\ h[j] <= log.before + o
    BY <1>0, <1>1, <2>1
  <2>3. ASSUME NEW j \in 1..Len(s), NEW k \in 1..Len(s), j < k PROVE s[j] < s[k]
    <3>1. CASE k \in 1..Len(h)
      <4>1. j \in 1..Len(h)
        BY <1>8, <2>3, <3>1
      <4> QED
        BY <1>9, <2>1, <2>3, <3>1, <4>1
    <3>2. ASSUME NEW l \in 1..Len(b), k = Len(h) + l PROVE s[j] < s[k]
      <4>1. s[k] = b[l]
        BY <1>9, <3>2
      <4>2. CASE j \in 1..Len(h)
        <5>1. PICK m \in 1..n : b[l] = log.before + o + m
          BY <1>5
        <5>2. s[j] = h[j] /\ h[j] \in Nat /\ h[j] <= log.before + o /\ m \in Nat \ {0}
          BY <1>3, <1>9, <2>2, <4>2
        <5>3. s[k] = log.before + o + m
          BY <4>1, <5>1
        <5>4. \A w \in Nat : w <= log.before + o => w < log.before + o + m
          <6>1. log.before \in Nat /\ o \in Nat /\ m \in Nat \ {0}
            BY <1>1, <5>2
          <6> QED
            BY <6>1
        <5> QED
          BY <5>2, <5>3, <5>4
      <4>3. ASSUME NEW m \in 1..Len(b), j = Len(h) + m PROVE s[j] < s[k]
        <5>1. m < l
          BY <1>8, <2>3, <3>2, <4>3
        <5> QED
          BY <1>6, <1>9, <4>1, <4>3, <5>1
      <4> QED
        BY <1>10, <4>2, <4>3
    <3> QED
      BY <1>10, <3>1, <3>2
  <2>4. CASE n = 0
    <3>1. Len(b) = 0
      BY <1>5, <1>8, <2>4
    <3>2. \A j \in 1..Len(s) : j \in 1..Len(h)
      BY <1>8, <1>9, <3>1
    <3>3. o + n = o
      BY <1>1, <2>4
    <3>4. \/ \A j \in 1..Len(s) : s[j] <= log.before
          \/ o <= Size(log) /\ \A j \in 1..Len(s) : s[j] <= log.before + o
      BY <1>9, <2>1, <3>2
    <3> QED
      BY <1>13, <2>3, <3>3, <3>4
  <2>5. CASE n # 0
    <3>1. o + n <= Size(log)
      BY <1>1, <1>3, <2>5
    <3>2. ASSUME NEW j \in 1..Len(s) PROVE s[j] <= log.before + (o + n)
      <4>1. CASE j \in 1..Len(h)
        <5>1. s[j] = h[j] /\ h[j] \in Nat /\ h[j] <= log.before + o
          BY <1>9, <2>2, <4>1
        <5>2. n \in Nat
          BY <1>3
        <5>3. \A w \in Nat : w <= log.before + o => w <= log.before + (o + n)
          BY <1>1, <5>2
        <5> QED
          BY <5>1, <5>3
      <4>2. ASSUME NEW k \in 1..Len(b), j = Len(h) + k PROVE s[j] <= log.before + (o + n)
        <5>1. PICK l \in 1..n : b[k] = log.before + o + l
          BY <1>5
        <5>2. s[j] = b[k]
          BY <1>9, <4>2
        <5>3. l \in Nat /\ l <= n /\ n \in Nat
          BY <1>3
        <5>4. log.before + o + l <= log.before + (o + n)
          BY <1>1, <5>3
        <5> QED
          BY <5>1, <5>2, <5>4
      <4> QED
        BY <1>10, <4>1, <4>2
    <3> QED
      BY <1>13, <2>3, <3>1, <3>2
  <2> QED
    BY <2>4, <2>5
<1>14. ASSUME NEW k \in now
       PROVE  /\ k \in 1..Len(times)
              /\ times[k] >= c => \E j \in 1..Len(s) : s[j] = k
  <2>1. CASE k \in seen
    <3>1. k \in 1..Len(times) /\ (times[k] >= c => \E j \in 1..Len(h) : h[j] = k)
      BY <2>1 DEF Counted
    <3>2. \A j \in 1..Len(h) : j \in 1..Len(s) /\ s[j] = h[j]
      BY <1>8, <1>9
    <3> QED
      BY <3>1, <3>2
  <2>2. ASSUME NEW l \in (o + 1)..(o + n), k = log.before + l
        PROVE  k \in 1..Len(times) /\ (times[k] >= c => \E j \in 1..Len(s) : s[j] = k)
    <3>1. l - o \in 1..n /\ log.before + o + (l - o) = k /\ n # 0
      <4>1. l \in Nat /\ l >= o + 1 /\ l <= o + n /\ o \in Nat /\ n \in Nat
        BY <1>1, <1>3
      <4>2. l - o \in 1..n /\ n # 0
        BY <4>1
      <4>3. \A w \in Nat : w + o + (l - o) = w + l
        BY <4>1
      <4> QED
        BY <1>1, <2>2, <4>2, <4>3
    <3>2. a[l - o] = k
      BY <1>3, <3>1
    <3>3. o + n <= Size(log)
      BY <1>1, <1>3, <3>1
    <3>4. k \in 1..Len(times)
      <4>1. l \in Nat /\ l >= 1 /\ l <= Size(log)
        BY <1>1, <1>3, <3>3
      <4>2. \A w \in Nat : l <= Len(times) - w => w + l \in 1..Len(times)
        BY <1>1, <4>1
      <4> QED
        BY <1>1, <2>2, <4>1, <4>2
    <3>5. ASSUME times[k] >= c PROVE \E j \in 1..Len(s) : s[j] = k
      <4>1. PICK j \in 1..Len(b) : b[j] = k
        BY <1>4, <3>1, <3>2, <3>5 DEF KeptOf
      <4>2. Len(h) + j \in 1..Len(s) /\ s[Len(h) + j] = k
        BY <1>8, <1>9, <4>1
      <4> QED
        BY <4>2
    <3> QED
      BY <3>4, <3>5
  <2> QED
    BY <1>2, <2>1, <2>2 DEF ReadTo
<1>16. ASSUME i = log.inode, start = log.before
       PROVE  o + n <= Size(log) /\ \A k \in 1..(o + n) : log.before + k \in now
  <2>1. o <= Size(log) /\ \A k \in 1..o : log.before + k \in seen
    <3>1. CASE o = 0
      BY <1>1, <3>1
    <3>2. CASE o # 0
      BY <1>16, <3>2 DEF Counted
    <3> QED
      BY <3>1, <3>2
  <2>2. \A k \in 1..(o + n) : k \in 1..o \/ k \in (o + 1)..(o + n)
    BY <1>1, <1>3
  <2>4. \A k \in 1..(o + n) : log.before + k \in now
    BY <1>2, <2>1, <2>2 DEF ReadTo
  <2> QED
    BY <1>3, <2>1, <2>4
<1>15. Counted(s, i, o + n, c, now, start)'
  <2>1. Size(log)' = Size(log)
    BY DEF Size
  <2>2. s \in Seq(Nat \ {0}) /\ o + n \in 0..Len(times') /\ i \in 0..log'.inode
        /\ \A j \in 1..Len(s) : s[j] <= Len(times')
    BY <1>0, <1>1, <1>9, <1>11, <1>12
  <2>3. now \subseteq 1..Len(times') /\ start \in 0..log'.before
    <3>1. first \in 0..log.before
      BY DEF Counted
    <3> QED
      BY <1>1, <1>14, <3>1
  <2> QED
    BY <1>13, <1>14, <1>16, <2>1, <2>2, <2>3 DEF Counted
<1> QED
  BY <1>0, <1>2, <1>4, <1>6, <1>15 DEF s


\* What a run knows stays so in the steps of the others.
LEMMA RunStays ==
  ASSUME LogShape, LogShape', Len(times) <= Len(times'), clock <= clock',
         \A h, i, o, c, seen, first : c \in Int /\ Counted(h, i, o, c, seen, first) => Counted(h, i, o, c, seen, first)',
         \A h \in Int : Covered(h) => Covered(h)'
  PROVE  \A k, r : ScanRun(k, r) => ScanRun(k, r)'
<1> SUFFICES ASSUME NEW k, NEW r, ScanRun(k, r) PROVE ScanRun(k, r)'
  OBVIOUS
<1>1. clock \in Int /\ clock' \in Int /\ Window \in Nat /\ Len(times) \in Nat /\ Len(times') \in Nat
  BY ScanAssumption DEF LogShape
<1>2. CASE k = "stat"
  <2>1. /\ DOMAIN r.saved = ScanFields /\ r.cutoff \in Int /\ r.cutoff + Window <= clock
        /\ Counted(r.hits, r.saved.inode, r.saved.offset, r.cutoff, r.saved.read, r.saved.before) /\ Alerts(r.hits)
    BY <1>2 DEF ScanRun
  <2>2. Counted(r.hits, r.saved.inode, r.saved.offset, r.cutoff, r.saved.read, r.saved.before)'
    BY <2>1
  <2>3. \A j \in 1..Len(r.hits) : r.hits[j] \in Int
    BY <2>1 DEF Counted
  <2>4. \A j \in 1..Len(r.hits) : j >= Threshold => Covered(r.hits[j])
    BY <2>1 DEF Alerts
  <2>5. \A j \in 1..Len(r.hits) : j >= Threshold => Covered(r.hits[j])'
    BY <2>3, <2>4
  <2>6. Alerts(r.hits)'
    BY <2>5 DEF Alerts
  <2>7. r.cutoff + Window <= clock'
    BY <1>1, <2>1
  <2> QED
    BY <1>2, <2>1, <2>2, <2>6, <2>7 DEF ScanRun
<1>3. CASE k = "read"
  <2>1. /\ r.cutoff \in Int /\ r.cutoff + Window <= clock
        /\ Counted(r.hits, r.inode, r.offset, r.cutoff, r.read, r.before) /\ Alerts(r.hits)
    BY <1>3 DEF ScanRun
  <2>2. Counted(r.hits, r.inode, r.offset, r.cutoff, r.read, r.before)'
    BY <2>1
  <2>3. \A j \in 1..Len(r.hits) : r.hits[j] \in Int
    BY <2>1 DEF Counted
  <2>4. \A j \in 1..Len(r.hits) : j >= Threshold => Covered(r.hits[j])
    BY <2>1 DEF Alerts
  <2>5. \A j \in 1..Len(r.hits) : j >= Threshold => Covered(r.hits[j])'
    BY <2>3, <2>4
  <2>6. Alerts(r.hits)'
    BY <2>5 DEF Alerts
  <2>7. r.cutoff + Window <= clock'
    BY <1>1, <2>1
  <2> QED
    BY <1>3, <2>1, <2>2, <2>6, <2>7 DEF ScanRun
<1>4. CASE k = "save"
  <2> DEFINE s == r.state
  <2>1. /\ DOMAIN s = ScanFields /\ s.cutoff \in Int /\ Counted(s.hits, s.inode, s.offset, s.cutoff, s.read, s.before)
        /\ \A j \in 1..Len(s.hits) : j >= Threshold =>
             \/ Covered(s.hits[j])
             \/ r.batch # <<>> /\ s.hits[j] <= LastOf(s.hits)
    BY <1>4, Zenon DEF ScanRun
  <2>2. Counted(s.hits, s.inode, s.offset, s.cutoff, s.read, s.before)'
    BY <2>1
  <2>3. \A j \in 1..Len(s.hits) : s.hits[j] \in Int
    BY <2>1 DEF Counted
  <2>4. \A j \in 1..Len(s.hits) : j >= Threshold =>
          \/ Covered(s.hits[j])'
          \/ r.batch # <<>> /\ s.hits[j] <= LastOf(s.hits)
    <3> SUFFICES ASSUME NEW j \in 1..Len(s.hits), Covered(s.hits[j]) PROVE Covered(s.hits[j])'
      BY <2>1, Zenon
    <3> QED
      BY <2>3
  <2>5. LastOf(s.hits)' = LastOf(s.hits)
    BY DEF LastOf
  <2> QED
    BY <1>4, <2>1, <2>2, <2>4, <2>5 DEF ScanRun
<1>5. CASE k = "emit"
  <2>1. r.alert \in BOOLEAN /\ r.last \in 0..Len(times)
    BY <1>5 DEF ScanRun
  <2> QED
    BY <1>1, <1>5, <2>1 DEF ScanRun
<1> QED
  BY <1>2, <1>3, <1>4, <1>5 DEF ScanRun

\* What the state file says stays so.
LEMMA FileStays ==
  ASSUME ScanFile, scan' = scan,
         \A h, i, o, c, seen, first : c \in Int /\ Counted(h, i, o, c, seen, first) => Counted(h, i, o, c, seen, first)',
         \A h \in Int : Covered(h) => Covered(h)'
  PROVE  ScanFile'
<1>1. DOMAIN scan = ScanFields /\ scan.cutoff \in Int
  BY DEF ScanFile
<1>2. ASSUME scan # BadScan
      PROVE  Counted(scan.hits, scan.inode, scan.offset, scan.cutoff, scan.read, scan.before)' /\ Alerts(scan.hits)'
  <2>1. Counted(scan.hits, scan.inode, scan.offset, scan.cutoff, scan.read, scan.before) /\ Alerts(scan.hits)
    BY <1>2 DEF ScanFile
  <2>2. Counted(scan.hits, scan.inode, scan.offset, scan.cutoff, scan.read, scan.before)'
    BY <1>1, <2>1
  <2>3. \A j \in 1..Len(scan.hits) : scan.hits[j] \in Int
    BY <2>1 DEF Counted
  <2>4. \A j \in 1..Len(scan.hits) : j >= Threshold => Covered(scan.hits[j])'
    BY <2>1, <2>3 DEF Alerts
  <2>5. Alerts(scan.hits)'
    BY <2>4 DEF Alerts
  <2> QED
    BY <2>2, <2>5
<1>3. BadScan' = BadScan
  BY DEF BadScan, NoScan
<1> QED
  BY <1>1, <1>2, <1>3 DEF ScanFile

\* The steps of nginx and logrotate, and the time, disturb no run.
LEMMA ScanStays ==
  ASSUME ScanInv, LogShape', Len(times) <= Len(times'), clock <= clock',
         \A h, i, o, c, seen, first : c \in Int /\ Counted(h, i, o, c, seen, first) => Counted(h, i, o, c, seen, first)',
         UNCHANGED <<lock, pc, loc, scan, alerted, unalerted>>
  PROVE  ScanInv'
<1>1. \A h \in Int : Covered(h) => Covered(h)'
  BY DEF Covered
<1>2. Shape' /\ ScanFile'
  BY <1>1, FileStays DEF ScanInv, Shape
<1>3. \A q \in Processes : ScanRun(pc[q], loc[q])'
  BY <1>1, RunStays DEF ScanInv
<1> QED
  BY <1>2, <1>3 DEF ScanInv

\* What a step of p has to show: its own part of it.
LEMMA ScanStep ==
  ASSUME ScanInv, NEW p \in Processes, Others(p), UNCHANGED <<clock, times, log>>,
         swapped \in BOOLEAN => swapped' \in BOOLEAN, swapped => swapped',
         alerted' \in 0..Len(times), alerted <= alerted', unalerted' \in BOOLEAN, unalerted => unalerted',
         pc[p] = "emit" /\ loc[p].alert => unalerted' \/ loc[p].last <= alerted'
  PROVE  /\ LogShape /\ LogShape' /\ ScanRun(pc[p], loc[p])
         /\ \A h, i, o, c, seen, first : c \in Int /\ Counted(h, i, o, c, seen, first) => Counted(h, i, o, c, seen, first)'
         /\ \A h \in Int : Covered(h) => Covered(h)'
         /\ (scan' = scan \/ ScanFile') /\ ScanRun(pc[p], loc[p])' => ScanInv'
<1>1. LogShape /\ LogShape' /\ ScanRun(pc[p], loc[p]) /\ clock \in Int /\ alerted' \in Int /\ Len(times) \in Nat
  BY DEF ScanInv, LogShape
<1>2. \A h, i, o, c, seen, first : c \in Int /\ Counted(h, i, o, c, seen, first) => Counted(h, i, o, c, seen, first)'
  BY <1>1, CountedStays
<1>3. \A h \in Int : Covered(h) => Covered(h)'
  BY <1>1, CoveredStays
<1>4. ASSUME NEW q \in Processes \ {p} PROVE ScanRun(pc[q], loc[q])'
  <2>1. pc'[q] = pc[q] /\ loc'[q] = loc[q] /\ ScanRun(pc[q], loc[q]) /\ Len(times) <= Len(times') /\ clock <= clock'
    BY <1>1 DEF Others, ScanInv
  <2> QED
    BY <1>1, <1>2, <1>3, <2>1, RunStays
<1>5. scan' = scan => ScanFile'
  BY <1>2, <1>3, FileStays DEF ScanInv
<1> QED
  BY <1>1, <1>2, <1>3, <1>4, <1>5 DEF ScanInv, Others

\* A step of a run that changes nothing but what the run remembers.
LEMMA QuietStep ==
  ASSUME ScanInv, NEW p \in Processes, Others(p), pc[p] # "emit",
         UNCHANGED <<clock, times, log, scan, alerted, unalerted, swapped>>,
         NEW k, NEW l, pc'[p] = k, loc'[p] = l, ScanRun(k, l)
  PROVE  ScanInv'
<1>1. alerted' \in 0..Len(times) /\ alerted <= alerted' /\ unalerted' \in BOOLEAN /\ swapped' \in BOOLEAN
  BY DEF ScanInv, LogShape
<1>2. /\ LogShape /\ LogShape'
      /\ \A h, i, o, c, seen, first : c \in Int /\ Counted(h, i, o, c, seen, first) => Counted(h, i, o, c, seen, first)'
      /\ \A h \in Int : Covered(h) => Covered(h)'
      /\ ScanRun(pc[p], loc[p])' => ScanInv'
  BY <1>1, ScanStep
<1>3. Len(times) <= Len(times') /\ clock <= clock'
  BY <1>2 DEF LogShape
<1>4. ScanRun(k, l)'
  BY <1>2, <1>3, RunStays
<1> QED
  BY <1>2, <1>4

\* Two sequences, one after the other.
LEMMA Joined ==
  ASSUME NEW S, NEW x \in Seq(S), NEW y \in Seq(S), NEW z, z = x \o y
  PROVE  /\ Len(x) \in Nat /\ Len(y) \in Nat /\ Len(z) = Len(x) + Len(y)
         /\ \A j \in 1..Len(x) : z[j] = x[j]
         /\ \A j \in 1..Len(y) : z[Len(x) + j] = y[j]
BY ConcatProperties

\* nginx writes a line, and logrotate moves the file or empties it; and the time.
LEMMA LogStepKept ==
  ASSUME ScanInv, WriteLine \/ Rename \/ CreateLog \/ Truncate
  PROVE  ScanInv'
<1>1. LogShape /\ Len(times) \in Nat /\ clock \in 1..(MaxClock + 1) /\ times \in Seq(1..(MaxClock + 1))
  BY DEF ScanInv, LogShape
<1>2. log \in [there : BOOLEAN, inode : 1..MaxFiles, before : 0..Len(times)] /\ clock <= clock
  BY <1>1 DEF LogShape
<1>3. CASE WriteLine
  <2>1. UNCHANGED <<clock, lock, pc, loc, log, scan, alerted, unalerted, swapped>>
    BY <1>3 DEF WriteLine, hostVars
  <2>2. times' = Append(times, clock) /\ Len(times) < MaxLines
    BY <1>3 DEF WriteLine
  <2>3. times' \in Seq(1..(MaxClock + 1)) /\ Len(times') = Len(times) + 1
    BY <1>1, <2>2, AppendProperties
  <2>4. log' \in [there : BOOLEAN, inode : 1..MaxFiles, before : 0..Len(times')]
    BY <1>1, <1>2, <2>1, <2>3
  <2>5. MaxLines \in Nat /\ Len(times') <= MaxLines /\ Len(times) <= Len(times')
    BY <1>1, <2>2, <2>3, ScanAssumption
  <2>6. alerted' \in 0..Len(times')
    BY <1>1, <2>1, <2>3 DEF LogShape
  <2>7. LogShape'
    BY <1>1, <2>1, <2>3, <2>4, <2>5, <2>6 DEF LogShape
  <2>8. \A h, i, o, c, seen, first : c \in Int /\ Counted(h, i, o, c, seen, first) => Counted(h, i, o, c, seen, first)'
    BY <1>1, <2>1, <2>2, CountedStays
  <2> QED
    BY <1>1, <2>1, <2>5, <2>7, <2>8, ScanStays
<1>4. CASE Rename
  <2>1. UNCHANGED <<clock, lock, pc, loc, times, scan, alerted, unalerted, swapped>>
    BY <1>4 DEF Rename, hostVars
  <2>2. log' = [log EXCEPT !.there = FALSE]
    BY <1>4 DEF Rename
  <2>3. /\ log'.inode = log.inode /\ log'.before = log.before
        /\ log' \in [there : BOOLEAN, inode : 1..MaxFiles, before : 0..Len(times)]
    BY <1>2, <2>2
  <2>4. LogShape'
    BY <1>1, <1>4, <2>1, <2>3 DEF LogShape, Rename
  <2>5. \A h, i, o, c, seen, first : c \in Int /\ Counted(h, i, o, c, seen, first) => Counted(h, i, o, c, seen, first)'
    BY <1>1, <1>2, <2>1, <2>3, CountedStays
  <2> QED
    BY <1>1, <2>1, <2>4, <2>5, ScanStays
<1>5. CASE CreateLog
  <2>1. UNCHANGED <<clock, lock, pc, loc, times, scan, alerted, unalerted, swapped>>
    BY <1>5 DEF CreateLog, hostVars
  <2>2. log' = [there |-> TRUE, inode |-> log.inode + 1, before |-> Len(times)] /\ log.inode \in Nat
    BY <1>2, <1>5 DEF CreateLog
  <2>3. log'.inode > log.inode /\ log'.before = Len(times) /\ log'.inode \in Nat
    BY <2>2
  <2>4. log.inode + 1 \in 1..MaxFiles /\ Len(times) \in 0..Len(times)
    <3>1. MaxFiles \in Nat
      BY ScanAssumption
    <3>2. log.inode \in 1..MaxFiles /\ log.inode < MaxFiles
      <4>1. log.inode < MaxFiles
        BY <1>1, <1>5 DEF CreateLog, LogShape
      <4> QED
        BY <1>2, <4>1
    <3> QED
      BY <1>1, <3>1, <3>2
  <2>6. log' \in [there : BOOLEAN, inode : 1..MaxFiles, before : 0..Len(times)]
    BY <2>2, <2>4
  <2>7. LogShape'
    BY <1>1, <2>1, <2>2, <2>6 DEF LogShape
  <2>8. \A h, i, o, c, seen, first : Counted(h, i, o, c, seen, first) => Counted(h, i, o, c, seen, first)'
    BY <1>1, <2>1, <2>3, CountedBefore
  <2> QED
    BY <1>1, <2>1, <2>7, <2>8, ScanStays
<1>6. CASE Truncate
  <2>1. UNCHANGED <<clock, lock, pc, loc, times, scan, alerted, unalerted, swapped>>
    BY <1>6 DEF Truncate, hostVars
  <2>2. log' = [log EXCEPT !.before = Len(times)]
    BY <1>6 DEF Truncate
  <2>3. /\ log'.inode = log.inode /\ log'.before = Len(times) /\ log'.inode \in Nat
        /\ log' \in [there : BOOLEAN, inode : 1..MaxFiles, before : 0..Len(times)] /\ log'.there = log.there
        /\ log.before < Len(times)
    <3>1. Len(times) - log.before > 0 /\ log.before \in Nat
      BY <1>2, <1>6 DEF Truncate, Size
    <3> QED
      BY <1>1, <1>2, <2>2, <3>1
  <2>4. LogShape'
    BY <1>1, <2>1, <2>3 DEF LogShape
  <2>5. \A h, i, o, c, seen, first : Counted(h, i, o, c, seen, first) => Counted(h, i, o, c, seen, first)'
    BY <1>1, <2>1, <2>3, CountedBefore
  <2> QED
    BY <1>1, <2>1, <2>4, <2>5, ScanStays
<1> QED
  BY <1>3, <1>4, <1>5, <1>6

\* The steps of a run; a step that saves nothing changes nothing of what the file says.
LEMMA LoadScanKept ==
  ASSUME ScanInv, NEW p \in Processes, LoadScan(p)
  PROVE  ScanInv'
<1> DEFINE saved == IF scan = BadScan THEN NoScan ELSE scan
           locals == [saved |-> saved, cutoff |-> clock - Window, hits |-> Recent(saved.hits, clock - Window)]
<1>1. LogShape /\ Shape /\ ScanFile
  BY DEF ScanInv
<1>2. Take(p, "scan", "run", "stat", locals) /\ UNCHANGED scanVars
  BY DEF LoadScan
<1>3. DOMAIN saved = ScanFields /\ saved.cutoff \in Int
  BY <1>1 DEF ScanFile, NoScan, ScanFields
<1>4. Counted(saved.hits, saved.inode, saved.offset, saved.cutoff, saved.read, saved.before) /\ Alerts(saved.hits)
  <2>1. CASE scan = BadScan
    <3>1. saved.hits = <<>> /\ saved.inode = 0 /\ saved.offset = 0 /\ saved.read = {} /\ saved.before = 0
      BY <2>1 DEF NoScan
    <3>2. <<>> \in Seq(Nat \ {0}) /\ Len(<<>>) = 0 /\ 0 \in 0..Len(times) /\ 0 \in 0..log.inode /\ log.inode # 0
      BY <1>1 DEF LogShape
    <3>3. Counted(<<>>, 0, 0, saved.cutoff, {}, 0)
      BY <1>1, <3>2 DEF Counted, LogShape
    <3>4. Alerts(<<>>)
      BY DEF Alerts
    <3> HIDE DEF saved
    <3> QED
      BY <3>1, <3>3, <3>4
  <2>2. CASE scan # BadScan
    BY <1>1, <2>2 DEF ScanFile
  <2> QED
    BY <2>1, <2>2
<1> HIDE DEF saved
<1>5. clock - Window \in Int /\ clock - Window + Window <= clock
  BY <1>1, ScanAssumption DEF LogShape
<1>6. /\ Counted(Recent(saved.hits, clock - Window), saved.inode, saved.offset, clock - Window,
                 saved.read, saved.before)
      /\ Alerts(Recent(saved.hits, clock - Window))
  BY <1>1, <1>3, <1>4, RecentCounted
<1>7. PICK l : l = locals
  OBVIOUS
<1>8. ScanRun("stat", l)
  BY <1>3, <1>5, <1>6, <1>7 DEF ScanRun
<1>9. Others(p) /\ pc[p] = "idle" /\ pc'[p] = "stat" /\ loc'[p] = l /\ clock' = clock
  <2>1. Take(p, "scan", "run", "stat", l) /\ "run" \in Lock
    BY <1>2, <1>7 DEF Lock
  <2> QED
    BY <1>1, <2>1, TakeOthers
<1>10. UNCHANGED <<times, log, scan, alerted, unalerted, swapped>>
  BY <1>2 DEF scanVars
<1> QED
  BY <1>8, <1>9, <1>10, QuietStep

LEMMA StatLogKept ==
  ASSUME ScanInv, NEW p \in Processes, StatLog(p)
  PROVE  ScanInv'
<1>1. LogShape /\ Shape /\ pc[p] = "stat" /\ UNCHANGED scanVars /\ ScanRun(pc[p], loc[p])
  BY DEF ScanInv, StatLog
<1>2. PICK r : r = loc[p]
  OBVIOUS
<1>3. /\ DOMAIN r.saved = ScanFields /\ r.cutoff \in Int /\ r.cutoff + Window <= clock
      /\ Counted(r.hits, r.saved.inode, r.saved.offset, r.cutoff, r.saved.read, r.saved.before) /\ Alerts(r.hits)
  BY <1>1, <1>2 DEF ScanRun
<1>4. UNCHANGED <<times, log, scan, alerted, unalerted, swapped>>
  BY <1>1 DEF scanVars
<1>5. CASE ~log.there
  <2> DEFINE state == [r.saved EXCEPT !.hits = r.hits, !.cutoff = r.cutoff]
  <2>1. PICK l : l = [batch |-> <<>>, state |-> state]
    OBVIOUS
  <2>2. Continue(p, "save", l)
    BY <1>2, <1>5, <2>1 DEF StatLog
  <2>3. /\ DOMAIN state = ScanFields /\ state.hits = r.hits /\ state.cutoff = r.cutoff
        /\ state.inode = r.saved.inode /\ state.offset = r.saved.offset
        /\ state.read = r.saved.read /\ state.before = r.saved.before
    BY <1>3 DEF ScanFields
  <2>4. l.state = state
    BY <2>1
  <2> HIDE DEF state
  <2>5. ScanRun("save", l)
    BY <1>3, <2>3, <2>4 DEF ScanRun, Alerts
  <2>6. Others(p) /\ pc'[p] = "save" /\ loc'[p] = l
    BY <1>1, <2>2, ContinueOthers
  <2>7. clock' = clock
    BY <2>2 DEF Continue
  <2> QED
    BY <1>1, <1>4, <2>5, <2>6, <2>7, QuietStep
<1>6. CASE log.there
  <2> DEFINE offset == IF r.saved.inode # log.inode \/ r.saved.offset > Size(log) THEN 0 ELSE r.saved.offset
  <2>1. PICK l : l = [cutoff |-> r.cutoff, hits |-> r.hits, inode |-> log.inode, size |-> Size(log),
                    read |-> r.saved.read, before |-> r.saved.before, offset |-> offset]
    OBVIOUS
  <2>2. Continue(p, "read", l)
    BY <1>2, <1>6, <2>1 DEF StatLog
  <2>3. Counted(r.hits, log.inode, offset, r.cutoff, r.saved.read, r.saved.before)
    <3>1. CASE r.saved.inode = log.inode /\ ~(r.saved.offset > Size(log))
      BY <1>3, <3>1
    <3>2. CASE r.saved.inode # log.inode \/ r.saved.offset > Size(log)
      <4>1. offset = 0
        BY <3>2
      <4>2. Size(log) \in Nat /\ log.inode \in 0..log.inode /\ 0 \in 0..Len(times)
        BY <1>1 DEF LogShape, Size
      <4>3. r.saved.offset \in Nat
        BY <1>3 DEF Counted
      <4>4. ~(r.saved.inode = log.inode /\ r.saved.offset <= Size(log))
        BY <3>2, <4>2, <4>3
      <4>5. 0 <= Size(log) /\ \A k \in 1..0 : FALSE
        BY <4>2
      <4> QED
        BY <1>3, <4>1, <4>2, <4>4, <4>5 DEF Counted
    <3> QED
      BY <3>1, <3>2
  <2> HIDE DEF offset
  <2>4. ScanRun("read", l)
    BY <1>3, <2>1, <2>3 DEF ScanRun
  <2>5. Others(p) /\ pc'[p] = "read" /\ loc'[p] = l
    BY <1>1, <2>2, ContinueOthers
  <2>6. clock' = clock
    BY <2>2 DEF Continue
  <2> QED
    BY <1>1, <1>4, <2>4, <2>5, <2>6, QuietStep
<1> QED
  BY <1>5, <1>6

LEMMA ReadLogKept ==
  ASSUME ScanInv, NEW p \in Processes, ReadLog(p)
  PROVE  ScanInv'
<1>1. LogShape /\ Shape /\ pc[p] = "read" /\ ScanRun(pc[p], loc[p]) /\ swapped \in BOOLEAN
  BY DEF ScanInv, ReadLog, LogShape
<1>2. PICK r, b, e : r = loc[p] /\ b = Recent(Batch(r.offset), r.cutoff) /\ e = r.offset + Len(Batch(r.offset))
  OBVIOUS
<1>3. PICK state : state = [inode |-> r.inode, cutoff |-> r.cutoff, hits |-> r.hits \o b, offset |-> e,
                            read |-> ReadBy(r), before |-> BeforeOf(r)]
  OBVIOUS
<1>4. PICK l : l = [batch |-> b, state |-> state]
  OBVIOUS
<1>5. /\ Continue(p, "save", l) /\ swapped' = (swapped \/ log.inode # r.inode)
      /\ UNCHANGED <<times, log, scan, alerted, unalerted>>
  BY <1>2, <1>3, <1>4 DEF ReadLog
<1>6. /\ Others(p) /\ pc'[p] = "save" /\ loc'[p] = l
      /\ UNCHANGED <<clock, times, log, scan, alerted, unalerted>>
  <2>1. clock' = clock
    BY <1>5 DEF Continue
  <2> QED
    BY <1>1, <1>5, <2>1, ContinueOthers
<1>7. /\ r.cutoff \in Int /\ r.cutoff + Window <= clock
      /\ Counted(r.hits, r.inode, r.offset, r.cutoff, r.read, r.before) /\ Alerts(r.hits)
  BY <1>1, <1>2 DEF ScanRun
<1>8. /\ Counted(r.hits \o b, r.inode, e, r.cutoff, state.read, state.before)'
      /\ b \in Seq(Nat \ {0}) /\ r.hits \in Seq(Nat \ {0})
      /\ \A j, k \in 1..Len(b) : j < k => b[j] < b[k]
  <2>1. PICK seen, first : seen = r.read /\ first = r.before
    OBVIOUS
  <2>2. PICK now, start : now = state.read /\ start = state.before
    OBVIOUS
  <2>3. ReadTo(now, seen, r.offset, e)
    BY <1>2, <1>3, <2>1, <2>2 DEF ReadBy, ReadTo
  <2>4. start = IF r.offset = 0 THEN log.before ELSE first
    BY <1>3, <2>1, <2>2 DEF BeforeOf
  <2>5. UNCHANGED <<clock, times, log>> /\ swapped' = (swapped \/ log.inode # r.inode)
    BY <1>5, <1>6
  <2>6. Counted(r.hits, r.inode, r.offset, r.cutoff, seen, first)
    BY <1>7, <2>1
  <2>7. /\ Counted(r.hits \o b, r.inode, e, r.cutoff, now, start)'
        /\ b \in Seq(Nat \ {0}) /\ r.hits \in Seq(Nat \ {0})
        /\ \A j, k \in 1..Len(b) : j < k => b[j] < b[k]
    <3>1. PICK h, i, o, c : h = r.hits /\ i = r.inode /\ o = r.offset /\ c = r.cutoff
      OBVIOUS
    <3>2. /\ LogShape /\ c \in Int /\ Counted(h, i, o, c, seen, first) /\ c + Window <= clock
          /\ b = Recent(Batch(o), c) /\ e = o + Len(Batch(o)) /\ ReadTo(now, seen, o, e)
          /\ start = (IF o = 0 THEN log.before ELSE first)
          /\ UNCHANGED <<clock, times, log>> /\ swapped' = (swapped \/ log.inode # i)
      BY <1>1, <1>2, <1>7, <2>3, <2>4, <2>5, <2>6, <3>1
    <3>3. /\ Counted(h \o b, i, e, c, now, start)'
          /\ b \in Seq(Nat \ {0}) /\ h \in Seq(Nat \ {0})
          /\ \A j, k \in 1..Len(b) : j < k => b[j] < b[k]
      BY <3>2, ReadCounted
    <3> QED
      BY <3>1, <3>3
  <2> QED
    BY <2>2, <2>7
<1>9. alerted' \in 0..Len(times) /\ alerted <= alerted' /\ unalerted' \in BOOLEAN /\ swapped' \in BOOLEAN
  BY <1>1, <1>5 DEF LogShape
<1>10. /\ \A h \in Int : Covered(h) => Covered(h)'
       /\ ScanRun(pc[p], loc[p])' => ScanInv'
  BY <1>1, <1>5, <1>6, <1>9, ScanStep
<1> PICK s : s = r.hits \o b
  OBVIOUS
<1>11. /\ Len(r.hits) \in Nat /\ Len(b) \in Nat /\ Len(s) = Len(r.hits) + Len(b)
       /\ \A j \in 1..Len(r.hits) : s[j] = r.hits[j]
       /\ \A j \in 1..Len(b) : s[Len(r.hits) + j] = b[j]
  BY <1>8, Joined
<1>12. ASSUME NEW j \in 1..Len(s), j >= Threshold
       PROVE  Covered(s[j])' \/ (b # <<>> /\ s[j] <= LastOf(s))
  <2>1. CASE j \in 1..Len(r.hits)
    <3>1. Covered(r.hits[j]) /\ r.hits[j] \in Int /\ s[j] = r.hits[j]
      BY <1>7, <1>8, <1>11, <1>12, <2>1 DEF Alerts
    <3>2. Covered(s[j]) /\ s[j] \in Int
      BY <3>1
    <3>3. Covered(s[j])'
      BY <1>10, <3>2
    <3> QED
      BY <3>3
  <2>2. CASE j \notin 1..Len(r.hits)
    <3>1. PICK k : k = j - Len(r.hits)
      OBVIOUS
    <3>2. k \in 1..Len(b) /\ j = Len(r.hits) + k /\ Len(b) # 0 /\ Len(b) \in 1..Len(b)
      BY <1>11, <2>2, <3>1
    <3>3. s[j] = b[k] /\ s[Len(s)] = b[Len(b)] /\ Len(s) # 0
      BY <1>11, <3>2
    <3>4. b[k] <= b[Len(b)]
      <4>1. b[k] \in Nat /\ b[Len(b)] \in Nat
        BY <1>8, <3>2
      <4>2. CASE k = Len(b)
        BY <4>1, <4>2
      <4>3. CASE k < Len(b)
        <5>1. b[k] < b[Len(b)]
          BY <1>8, <3>2, <4>3
        <5> QED
          BY <4>1, <5>1
      <4> QED
        BY <1>11, <3>2, <4>2, <4>3
    <3>5. s # <<>> /\ b # <<>>
      BY <3>2, <3>3
    <3>6. LastOf(s) = s[Len(s)]
      BY <3>5 DEF LastOf
    <3> QED
      BY <3>3, <3>4, <3>5, <3>6
  <2> QED
    BY <2>1, <2>2
<1>13. ScanRun("save", l)'
  <2>1. /\ DOMAIN state = ScanFields /\ state.cutoff = r.cutoff /\ state.inode = r.inode /\ state.offset = e
        /\ state.hits = s
    BY <1>3 DEF ScanFields
  <2>2. l.state = state /\ l.batch = b
    BY <1>4
  <2>3. Counted(s, state.inode, state.offset, state.cutoff, state.read, state.before)'
    BY <1>8, <2>1
  <2> QED
    BY <1>7, <1>12, <2>1, <2>2, <2>3 DEF ScanRun
<1> QED
  BY <1>6, <1>10, <1>13

LEMMA SaveScanKept ==
  ASSUME ScanInv, NEW p \in Processes, SaveScan(p)
  PROVE  ScanInv'
<1>1. LogShape /\ Shape /\ pc[p] = "save" /\ ScanRun(pc[p], loc[p])
  BY DEF ScanInv, SaveScan
<1>2. PICK s, b : s = loc[p].state /\ b = loc[p].batch
  OBVIOUS
<1> DEFINE alert == b # <<>> /\ Len(s.hits) >= Threshold
<1>3. PICK l : l = [alert |-> alert, last |-> IF alert THEN LastOf(s.hits) ELSE 0]
  OBVIOUS
<1>4. /\ scan' = s /\ Unlock(p, "emit", l)
      /\ UNCHANGED <<times, log, alerted, unalerted, swapped>>
  BY <1>2, <1>3 DEF SaveScan
<1>5. Others(p) /\ pc'[p] = "emit" /\ loc'[p] = l /\ clock' = clock
  <2>1. clock' = clock
    BY <1>4 DEF Unlock
  <2> QED
    BY <1>1, <1>4, <2>1, UnlockOthers
<1>6. /\ DOMAIN s = ScanFields /\ s.cutoff \in Int
      /\ Counted(s.hits, s.inode, s.offset, s.cutoff, s.read, s.before)
      /\ \A j \in 1..Len(s.hits) : j >= Threshold =>
           \/ Covered(s.hits[j])
           \/ b # <<>> /\ s.hits[j] <= LastOf(s.hits)
  BY <1>1, <1>2, Zenon DEF ScanRun
<1>7. alerted' \in 0..Len(times) /\ alerted <= alerted' /\ unalerted' \in BOOLEAN /\ swapped' \in BOOLEAN
  BY <1>1, <1>4 DEF LogShape
<1>8. /\ \A h, i, o, c, seen, first : c \in Int /\ Counted(h, i, o, c, seen, first) => Counted(h, i, o, c, seen, first)'
      /\ \A h \in Int : Covered(h) => Covered(h)'
      /\ ScanFile' /\ ScanRun(pc[p], loc[p])' => ScanInv'
  BY <1>1, <1>4, <1>5, <1>7, ScanStep
<1>9. Len(s.hits) \in Nat /\ \A j \in 1..Len(s.hits) : s.hits[j] \in Nat /\ s.hits[j] <= Len(times)
  BY <1>6 DEF Counted
<1>10. LastOf(s.hits) \in 0..Len(times)
  <2>1. Len(times) \in Nat
    BY <1>1 DEF LogShape
  <2>2. CASE s.hits = <<>>
    BY <2>1, <2>2 DEF LastOf
  <2>3. CASE s.hits # <<>>
    <3>1. Len(s.hits) \in 1..Len(s.hits)
      BY <1>6, <1>9, <2>3 DEF Counted
    <3> QED
      BY <1>9, <2>1, <2>3, <3>1 DEF LastOf
  <2> QED
    BY <2>2, <2>3
<1>11. l.alert \in BOOLEAN /\ l.last \in 0..Len(times) /\ (alert => l.alert /\ l.last = LastOf(s.hits))
  <2>1. l.alert = alert /\ l.last = IF alert THEN LastOf(s.hits) ELSE 0
    BY <1>3
  <2>2. alert \in BOOLEAN /\ Len(times) \in Nat
    BY <1>1 DEF LogShape
  <2> HIDE DEF alert
  <2> QED
    BY <1>10, <2>1, <2>2
<1>12. ScanRun("emit", l)'
  BY <1>4, <1>11 DEF ScanRun
<1>13. ASSUME NEW j \in 1..Len(s.hits), j >= Threshold
       PROVE  Covered(s.hits[j])'
  <2>1. CASE Covered(s.hits[j])
    BY <1>8, <1>9, <2>1
  <2>2. CASE b # <<>> /\ s.hits[j] <= LastOf(s.hits)
    <3>1. Threshold \in Nat
      BY ScanAssumption
    <3>2. alert
      BY <1>9, <1>13, <2>2, <3>1
    <3>3. l.alert /\ l.last >= s.hits[j]
      BY <1>9, <1>10, <1>11, <2>2, <3>2
    <3> QED
      BY <1>5, <3>3 DEF Covered
  <2> QED
    BY <1>6, <1>13, <2>1, <2>2
<1>14. ScanFile'
  <2>1. Counted(s.hits, s.inode, s.offset, s.cutoff, s.read, s.before)'
    BY <1>6, <1>8
  <2>2. Alerts(s.hits)'
    BY <1>13 DEF Alerts
  <2> QED
    BY <1>4, <1>6, <2>1, <2>2 DEF ScanFile
<1> QED
  BY <1>5, <1>8, <1>12, <1>14

LEMMA EmitScanKept ==
  ASSUME ScanInv, NEW p \in Processes, EmitScan(p)
  PROVE  ScanInv'
<1>1. LogShape /\ Shape /\ pc[p] = "emit" /\ ScanRun(pc[p], loc[p])
  BY DEF ScanInv, EmitScan
<1>2. /\ End(p) /\ UNCHANGED <<times, log, scan, unalerted, swapped>>
      /\ alerted' = IF loc[p].alert /\ loc[p].last > alerted THEN loc[p].last ELSE alerted
  BY DEF EmitScan
<1>3. Others(p) /\ pc'[p] = "idle" /\ clock' = clock
  <2>1. Stop(p) /\ clock' = clock
    BY <1>2 DEF End
  <2> QED
    BY <1>1, <2>1, StopOthers
<1>4. loc[p].last \in 0..Len(times) /\ alerted \in 0..Len(times) /\ Len(times) \in Nat
  BY <1>1 DEF ScanRun, LogShape
<1>5. /\ alerted' \in 0..Len(times) /\ alerted <= alerted'
      /\ (loc[p].alert => loc[p].last <= alerted')
  BY <1>2, <1>4
<1>6. unalerted' \in BOOLEAN /\ swapped' \in BOOLEAN
  BY <1>1, <1>2 DEF LogShape
<1>7. ScanRun(pc[p], loc[p])' => ScanInv'
  BY <1>2, <1>3, <1>5, <1>6, ScanStep
<1> QED
  BY <1>3, <1>7 DEF ScanRun

\* A run that ends early, by itself or not.
LEMMA BrokenScanKept ==
  ASSUME ScanInv, NEW p \in Processes, OpenFails(p) \/ KillScan(p)
  PROVE  ScanInv'
<1>1. LogShape /\ Shape /\ ScanRun(pc[p], loc[p])
  BY DEF ScanInv
<1>2. Stop(p) /\ UNCHANGED <<clock, times, log, alerted, swapped>>
  BY DEF OpenFails, KillScan, End, Break, scanVars
<1>3. Others(p) /\ pc'[p] = "idle"
  BY <1>1, <1>2, StopOthers
<1>4. /\ unalerted' = unalerted \/ unalerted' = (unalerted \/ (pc[p] = "emit" /\ loc[p].alert))
      /\ pc[p] = "emit" /\ loc[p].alert => unalerted'
  BY DEF OpenFails, KillScan, scanVars
<1>5. unalerted' \in BOOLEAN /\ swapped' \in BOOLEAN /\ alerted' \in 0..Len(times) /\ alerted <= alerted'
  <2>1. unalerted \in BOOLEAN /\ swapped \in BOOLEAN /\ alerted \in 0..Len(times)
    BY <1>1 DEF LogShape
  <2>2. unalerted' \in BOOLEAN
    BY <1>4, <2>1, Zenon
  <2> QED
    BY <1>2, <2>1, <2>2
<1>6. (scan' = scan \/ ScanFile') /\ ScanRun(pc[p], loc[p])' => ScanInv'
  BY <1>2, <1>3, <1>4, <1>5, ScanStep
<1>7. scan' = scan \/ scan' = BadScan
  BY DEF OpenFails, KillScan, scanVars
<1>8. scan' = BadScan => ScanFile'
  BY DEF ScanFile, BadScan, NoScan, ScanFields
<1> QED
  BY <1>3, <1>6, <1>7, <1>8 DEF ScanRun

\* So a step keeps it, and time that passes does.
LEMMA ScanStepKept ==
  ASSUME ScanInv, ScanNext
  PROVE  ScanInv'
BY LogStepKept, LoadScanKept, StatLogKept, ReadLogKept, BrokenScanKept, SaveScanKept, EmitScanKept
   DEF ScanNext

LEMMA ScanTimeKept ==
  ASSUME ScanInv, Tick \/ UNCHANGED hostVars, UNCHANGED scanVars
  PROVE  ScanInv'
<1>1. LogShape /\ UNCHANGED <<lock, pc, loc, times, log, scan, alerted, unalerted, swapped>>
  BY DEF ScanInv, Tick, hostVars, scanVars
<1>2. /\ clock \in 1..(MaxClock + 1) /\ MaxClock \in Nat /\ Len(times) \in Nat
      /\ (clock < MaxClock /\ clock' = clock + 1) \/ clock' = clock
  BY <1>1, HostAssumption DEF Tick, LogShape, hostVars
<1>3. clock' \in 1..(MaxClock + 1) /\ clock' \in Int /\ clock <= clock' /\ Len(times) <= Len(times')
  BY <1>1, <1>2
<1>4. LogShape'
  BY <1>1, <1>3 DEF LogShape
<1>5. \A h, i, o, c, seen, first : c \in Int /\ Counted(h, i, o, c, seen, first) => Counted(h, i, o, c, seen, first)'
  BY <1>1, <1>3, CountedStays
<1> QED
  BY <1>1, <1>3, <1>4, <1>5, ScanStays

\* What is not the file of a run is the same for all the subjects at the start.
LEMMA InitScanInv ==
  ASSUME HostInit, ScanInit
  PROVE  ScanInv
<1>1. Shape
  BY DEF HostInit, Shape
<1>2. LogShape
  <2>1. clock \in 1..(MaxClock + 1) /\ 1 \in 1..MaxFiles /\ 0 <= MaxLines
    BY HostAssumption, ScanAssumption DEF HostInit
  <2>2. times \in Seq(1..(MaxClock + 1)) /\ Len(times) = 0
    BY DEF ScanInit
  <2>3. log = [there |-> TRUE, inode |-> 1, before |-> 0] /\ log.there /\ 0 \in 0..Len(times)
    BY <2>2 DEF ScanInit
  <2>4. log \in [there : BOOLEAN, inode : 1..MaxFiles, before : 0..Len(times)]
    BY <2>1, <2>3
  <2> QED
    BY <2>1, <2>2, <2>3, <2>4 DEF ScanInit, LogShape
<1>3. ScanFile
  <2>1. Counted(<<>>, 0, 0, 0, {}, 0)
    <3>1. /\ <<>> \in Seq(Nat \ {0}) /\ Len(<<>>) = 0 /\ 0 \in 0..Len(times) /\ 0 \in 0..log.inode
          /\ log.inode # 0 /\ 0 \in 0..log.before
      BY <1>2 DEF LogShape
    <3> QED
      BY <3>1 DEF Counted
  <2>2. Alerts(<<>>)
    BY DEF Alerts
  <2> QED
    BY <2>1, <2>2 DEF ScanInit, NoScan, ScanFile, ScanFields
<1> QED
  BY <1>1, <1>2, <1>3 DEF HostInit, ScanInv, ScanRun

\* What the file says is what was promised.
LEMMA ScanInvExact ==
  ASSUME ScanInv
  PROVE  CountedOnce /\ CountedAll /\ AllRead /\ ThresholdAlerts
<1>1. LogShape /\ ScanFile
  BY DEF ScanInv
<1>2. CASE scan = BadScan
  <2>1. /\ scan.hits = <<>> /\ Len(scan.hits) = 0 /\ DOMAIN scan.hits = {}
        /\ scan.read = {} /\ scan.inode = 0
    BY <1>2 DEF BadScan, NoScan
  <2>2. Threshold \in Nat \ {0} /\ log.inode # 0
    BY <1>1, ScanAssumption DEF LogShape
  <2> QED
    BY <1>2, <2>1, <2>2 DEF CountedOnce, CountedAll, AllRead, ThresholdAlerts
<1>3. CASE scan # BadScan
  <2>1. Counted(scan.hits, scan.inode, scan.offset, scan.cutoff, scan.read, scan.before) /\ Alerts(scan.hits)
    BY <1>1, <1>3 DEF ScanFile
  <2>2. DOMAIN scan.hits = 1..Len(scan.hits) /\ Len(scan.hits) \in Nat /\ scan.hits \in Seq(Nat \ {0})
    BY <2>1 DEF Counted
  <2>3. CountedOnce
    BY <2>1, <2>2 DEF Counted, CountedOnce
  <2>4. CountedAll
    BY <2>1, <2>2 DEF Counted, CountedAll
  <2>6. AllRead
    BY <2>1 DEF Counted, AllRead
  <2>5. ThresholdAlerts
    <3>1. Threshold \in Nat \ {0}
      BY ScanAssumption
    <3> SUFFICES ASSUME Len(scan.hits) >= Threshold PROVE Covered(LastOf(scan.hits))
      BY DEF ThresholdAlerts, Covered
    <3>2. Len(scan.hits) \in 1..Len(scan.hits) /\ scan.hits # <<>>
      BY <2>2, <3>1
    <3> QED
      BY <2>1, <3>2 DEF Alerts, LastOf
  <2> QED
    BY <2>3, <2>4, <2>5, <2>6
<1> QED
  BY <1>2, <1>3

-----------------------------------------------------------------------------
(* All monitors *)

\* What a behaviour is about stays.
LEMMA SubjectStays ==
  ASSUME [Next]_vars
  PROVE  subject' = subject
<1> USE DEF Take, Continue, Unlock, End, Break, hostVars
<1>1. CASE WatchNext
  BY <1>1 DEF WatchNext, WatchStep, ServiceChanges, RemoveBadWatch, LoadWatch, ProbeService, RestartService,
              ProbeAgain, SaveWatch, EmitWatch, KillWatch
<1>2. CASE AppNext
  BY <1>2 DEF AppNext, HealthChanges, RemoveBadApp, LockApp, CheckApp, SaveApp, EmitApp, KillApp
<1>3. CASE ScanNext
  BY <1>3 DEF ScanNext, WriteLine, Rename, CreateLog, Truncate, LoadScan, StatLog, ReadLog, OpenFails,
              SaveScan, EmitScan, KillScan
<1>4. CASE FimNext
  BY <1>4 DEF FimNext, FileChanges, LockInit, LockRun, HashNext, Compare, SaveBaseline, UnlockRun,
              EmitChange, EndFim, KillFim
<1>5. CASE TimerNext
  <2>1. ASSUME NEW p \in Processes, NEW command, NEW locals, Begin(p, command, locals)
        PROVE  subject' = subject
    BY <2>1 DEF Begin
  <2>2. ASSUME NEW p \in Processes,
               (\E options \in Options : BeginEnable(p, options))
               \/ (\E remove \in BOOLEAN : BeginDisable(p, remove)) \/ BeginRestart(p)
        PROVE  subject' = subject
    BY <2>1, <2>2 DEF BeginEnable, BeginDisable, BeginRestart
  <2>3. ASSUME NEW p \in Processes,
               (\E f \in {"service", "timer"} : WriteUnit(p, f) \/ UnlinkUnit(p, f))
               \/ Relabel(p) \/ Reload(p) \/ ReloadFails(p) \/ EnableNow(p) \/ EnableNothing(p) \/ AskKnown(p)
        PROVE  subject' = subject
    BY <2>3 DEF WriteUnit, UnlinkUnit, Relabel, Reload, ReloadFails, EnableNow, EnableNothing, AskKnown,
                Proceed, ProceedUnseen
  <2>4. ASSUME NEW p \in Processes,
               DisableNow(p) \/ DisableFails(p) \/ RestartDaemon(p) \/ RestartNothing(p)
               \/ EndTimer(p) \/ KillTimer(p)
        PROVE  subject' = subject
    BY <2>4 DEF DisableNow, DisableFails, RestartDaemon, RestartNothing, EndTimer, KillTimer, Proceed,
                ProceedUnseen
  <2> QED BY <1>5, <2>2, <2>3, <2>4 DEF TimerNext, TimerStep
<1>6. CASE NginxNext
  BY <1>6 DEF NginxNext, BeginSecure, BeginDeploy, BeginCreate, BeginIssue, SaveFiles, SecureWrites, WriteHttp,
              WriteSnippet, InjectInclude, TestLimits, ReloadLimits, LimitsFail, RestoreHttp, RestoreSnippet,
              RestoreServer, Issue, Capture, Render, WriteServer, TestConfig, ReloadConfig, ConfigFails,
              RestoreSite, KillConfig
<1>7. CASE TimePasses
  BY <1>7 DEF TimePasses, Tick
<1>8. CASE UNCHANGED vars
  BY <1>8 DEF vars
<1> QED BY <1>1, <1>2, <1>3, <1>4, <1>5, <1>6, <1>7, <1>8 DEF Next

\* What the monitors know, each when the behaviour is about it.
MonitorsInv ==
  /\ subject = "service" => WatchInv
  /\ subject = "app" => AppInv
  /\ subject = "scan" => ScanInv
  /\ subject = "fim" => FimInv
  /\ subject = "timer" => TimerInv
  /\ RestartsApart /\ TimerSettled

\* At the start nobody works and nothing was told.
LEMMA InitMonitorsInv ==
  ASSUME Init
  PROVE  MonitorsInv
<1>1. Shape /\ \A q \in Processes : pc[q] = "idle"
  BY DEF Init, HostInit, Shape
<1>2. WatchInv /\ RestartsApart
  <2>1. unit \in Units /\ watch = NoWatch /\ lastAttempt = 0 /\ tooSoon = FALSE
    BY DEF Init, WatchInit
  <2>2. watch.active = "none" /\ watch.attempt = 0
    BY <2>1 DEF NoWatch
  <2>3. \A q \in Processes : pc[q] \notin Running /\ Knows(pc[q], loc[q])
    BY <1>1 DEF Running, Knows
  <2>4. Recorded /\ RestartsApart /\ DownTold
    BY <2>1, <2>2 DEF Recorded, RestartsApart, DownTold
  <2> QED BY <1>1, <2>1, <2>2, <2>3, <2>4 DEF WatchInv
<1>3. AppInv
  BY <1>1 DEF Init, AppInit, AppInv, AlertTold
<1>4. FimInv
  <2>1. baseline.status # "written" /\ DOMAIN known = Files
    BY DEF Init, FimInit
  <2>2. \A q \in Processes : Runs(pc[q], loc[q])
    BY <1>1 DEF Runs
  <2> QED BY <1>1, <2>1, <2>2 DEF FimInv
<1>5. TimerInv
  <2>1. /\ family \in Families /\ DOMAIN disk = {"service", "timer"}
        /\ settled.state = "unsure"
    BY DEF Init, TimerInit, Unsure
  <2>2. \A q \in Processes : Command(pc[q], loc[q])
    BY <1>1 DEF Command
  <2>3. TimerSettled
    BY <2>1 DEF TimerSettled
  <2> QED BY <1>1, <2>1, <2>2, <2>3 DEF TimerInv
<1>6. ScanInv
  BY InitScanInv DEF Init
<1> QED BY <1>2, <1>3, <1>4, <1>5, <1>6 DEF MonitorsInv, TimerInv

\* When what the invariants are about stays the same they hold on.
LEMMA SameMonitorsInv ==
  ASSUME MonitorsInv, subject = "scan" => ScanInv', UNCHANGED <<subject, lock, pc, loc, watchVars, appVars, fimVars, timerVars>>
  PROVE  MonitorsInv'
<1>1. Shape => Shape'
  BY DEF Shape
<1>2. ASSUME WatchInv PROVE WatchInv'
  <2>1. \A q \in Processes : Knows(pc[q], loc[q]) => Knows(pc[q], loc[q])'
    BY DEF Knows, CoolingDown, Owes, watchVars
  <2>2. (Recorded => Recorded') /\ (DownTold => DownTold') /\ (RestartsApart => RestartsApart')
    BY DEF Recorded, DownTold, DownPending, RestartsApart, watchVars
  <2> QED BY <1>1, <1>2, <2>1, <2>2 DEF WatchInv, watchVars
<1>3. ASSUME AppInv PROVE AppInv'
  BY <1>1, <1>3 DEF AppInv, AlertTold, appVars
<1>4. ASSUME FimInv PROVE FimInv'
  <2>1. \A f \in Files : \A c : Vouched(f, c) => Vouched(f, c)'
    BY DEF Vouched, fimVars
  <2>2. \A q \in Processes : Runs(pc[q], loc[q])'
    BY <1>4, <2>1 DEF FimInv, Runs
  <2> QED BY <1>1, <1>4, <2>1, <2>2 DEF FimInv, fimVars
<1>5. RestartsApart'
  BY DEF MonitorsInv, RestartsApart, watchVars
<1>6. TimerSettled'
  BY DEF MonitorsInv, TimerSettled, timerVars
<1>7. ASSUME TimerInv PROVE TimerInv'
  <2>1. \A q \in Processes : Command(pc[q], loc[q])' /\ (Done(loc[q]) => Done(loc[q])')
    BY <1>7 DEF TimerInv, Command, Enables, DisablesUnit, Restarts, Done, EnableDone, DisableDone, timerVars
  <2> QED BY <1>1, <1>6, <1>7, <2>1 DEF TimerInv, timerVars
<1> QED BY <1>2, <1>3, <1>4, <1>5, <1>6, <1>7 DEF MonitorsInv

\* Every step keeps MonitorsInv.
LEMMA NextMonitorsInv ==
  ASSUME MonitorsInv, [Next]_vars
  PROVE  MonitorsInv'
<1>1. subject' = subject
  BY SubjectStays
<1>2. CASE UNCHANGED vars
  <2>1. subject = "scan" => ScanInv'
    BY <1>2, ScanTimeKept DEF MonitorsInv, vars
  <2> QED BY <1>2, <2>1, SameMonitorsInv DEF vars, hostVars
<1>3. CASE TimePasses
  <2>1. subject = "scan" => ScanInv'
    BY <1>3, ScanTimeKept DEF MonitorsInv, TimePasses
  <2> QED BY <1>3, <2>1, SameMonitorsInv DEF TimePasses, Tick
<1>4. CASE Next /\ ~TimePasses
  <2>1. CASE subject = "service"
    <3>1. WatchNext
      BY <1>4, <2>1 DEF Next
    <3>2. WatchInv'
      BY <3>1, <2>1, <1>1, WatchStepKept DEF MonitorsInv
    <3>3. UNCHANGED timerVars
      BY <1>4, <2>1 DEF Next
    <3>4. TimerSettled'
      BY <3>3 DEF MonitorsInv, TimerSettled, timerVars
    <3> QED BY <3>2, <3>4, <2>1, <1>1 DEF MonitorsInv, WatchInv
  <2>2. CASE subject # "service"
    <3>1. UNCHANGED watchVars
      BY <1>4, <2>2 DEF Next
    <3>2. RestartsApart'
      BY <3>1 DEF MonitorsInv, RestartsApart, watchVars
    <3>3. subject = "app" => AppInv'
      BY <1>4, AppStep DEF Next, MonitorsInv
    <3>4. subject = "scan" => ScanInv'
      BY <1>4, ScanStepKept DEF Next, MonitorsInv
    <3>5. subject = "fim" => FimInv'
      BY <1>4, FimStep DEF Next, MonitorsInv
    <3>6. subject = "timer" => TimerInv'
      BY <1>4, TimerStepKept DEF Next, MonitorsInv
    <3>7. TimerSettled'
      <4>1. CASE subject = "timer"
        BY <3>6, <4>1 DEF TimerInv
      <4>2. CASE subject # "timer"
        <5>1. UNCHANGED timerVars
          BY <1>4, <4>2 DEF Next
        <5> QED BY <5>1 DEF MonitorsInv, TimerSettled, timerVars
      <4> QED BY <4>1, <4>2
    <3> QED BY <3>2, <3>3, <3>4, <3>5, <3>6, <3>7, <2>2, <1>1 DEF MonitorsInv
  <2> QED BY <2>1, <2>2
<1> QED BY <1>2, <1>3, <1>4

\* MonitorsInv holds in every state.
THEOREM MonitorsInvariant == Spec => []MonitorsInv
BY InitMonitorsInv, NextMonitorsInv, PTL DEF Spec

\* Runs of the watchdog which began less than the cooldown apart do not both restart the service,
\* unless one was killed before it could save that it had: whoever works has the lock, and the
\* state file is as it read it.
THEOREM CooldownHolds == Spec => []RestartsApart
<1>1. MonitorsInv => RestartsApart
  BY DEF MonitorsInv
<1> QED BY <1>1, MonitorsInvariant, PTL

\* What the state files of the watchdog and of the application monitor hold was told, or a run
\* owes it, although the lock is given back before the events: unless the run that owed it was
\* killed, or the watchdog overlooked the failure (down when first seen, or failed after it was
\* seen activating, and not restarted).
THEOREM NewsTold == Spec => []SavedTold
<1>1. MonitorsInv => SavedTold
  BY DEF MonitorsInv, WatchInv, AppInv, SavedTold, DownTold, AlertTold
<1> QED BY <1>1, MonitorsInvariant, PTL

\* The state file of the scan counts every line in the window that was read since it was last lost,
\* none of them twice unless the log was swapped while a run opened it; every line before its
\* offset was read, unless the log was truncated since; and there is an alert whenever its hits
\* reach the threshold, unless the run was killed before it: through rotations and overlap.
THEOREM HitsCounted == Spec => []HitsExact
<1>1. MonitorsInv => HitsExact
  BY ScanInvExact DEF MonitorsInv, HitsExact
<1> QED BY <1>1, MonitorsInvariant, PTL

\* The baseline of the file integrity monitor holds nothing that no init took and no event told or
\* is about to tell, although init and run do not keep each other out.
THEOREM NothingUnseen == Spec => []BaselineKnown
<1>1. MonitorsInv => BaselineKnown
  BY DEF MonitorsInv, FimInv, Vouched, BaselineKnown
<1> QED BY <1>1, MonitorsInvariant, PTL

\* A command for a timer or the daemon which ended well, with none beside it and no failure that it
\* did not look at, has left what it says, although enable and disable hold different locks and
\* whatever half of an earlier command it began with.
THEOREM TimersSettle == Spec => []TimerSettled
<1>1. MonitorsInv => TimerSettled
  BY DEF MonitorsInv
<1> QED BY <1>1, MonitorsInvariant, PTL

-----------------------------------------------------------------------------
(* Types *)

\* The monitors whose runs share one lock.
Exclusive == {"service", "app", "scan"}

\* Labels that the provers need not look up again.
LEMMA PhasesAre ==
  {"idle", "emit", "probe", "restart", "save", "check", "compare", "stat", "read", "snapshot", "unlock",
   "call", "http", "snippet", "inject", "issue", "capture", "render", "write", "test", "reload",
   "restore"} \subseteq Phases
BY Zenon DEF Phases

\* Who is between the lock and the events of such a run has the lock.
Held ==
  subject \in Exclusive => \A p \in Processes : pc[p] \notin {"idle", "emit"} => lock["run"] = p

\* What the host has to show of a step of p: who is idle has given everything back.
LEMMA HostKept ==
  ASSUME HostTypeOK, Held, NEW p \in Processes, UNCHANGED <<subject, clock>>, mishaps' \in 0..MaxMishaps,
         NEW label \in Phases, Goto(p, label), Others(p),
         \A q \in Processes \ {p} : \A l \in Lock : lock'[l] = q => lock[l] = q,
         label = "idle" => loc'[p] = NoLocals /\ \A l \in Lock : lock'[l] # p,
         subject \in Exclusive => label \in {"idle", "emit"} \/ lock'["run"] = p
  PROVE  HostTypeOK' /\ Held'
<1>1. Shape' /\ pc' \in [Processes -> Phases] /\ pc'[p] = label
  BY DEF HostTypeOK, Goto, Others
<1>2. ASSUME NEW q \in Processes, pc'[q] = "idle" PROVE loc'[q] = NoLocals /\ \A l \in Lock : lock'[l] # q
  <2>1. CASE q = p
    BY <1>1, <1>2, <2>1
  <2>2. CASE q # p
    BY <1>2, <2>2 DEF HostTypeOK, Others
  <2> QED
    BY <2>1, <2>2
<1>3. HostTypeOK'
  BY <1>1, <1>2 DEF HostTypeOK, Shape
<1>4. Held'
  BY <1>1 DEF Held, Others
<1> QED
  BY <1>3, <1>4

\* A command begins.
LEMMA TakeHost ==
  ASSUME HostTypeOK, Held, NEW p \in Processes, NEW s, NEW l \in Lock, NEW label \in Phases, NEW locals,
         Take(p, s, l, label, locals), label # "idle", s \in Exclusive => l = "run"
  PROVE  HostTypeOK' /\ Held' /\ pc[p] = "idle" /\ pc'[p] = label /\ loc'[p] = locals /\ Others(p)
<1>1. Shape /\ Goto(p, label) /\ UNCHANGED <<subject, clock, mishaps>> /\ lock' = [lock EXCEPT ![l] = p]
  BY DEF HostTypeOK, Shape, Take
<1>2. Others(p) /\ pc[p] = "idle" /\ pc'[p] = label /\ loc'[p] = locals /\ lock'[l] = p /\ subject = s
  BY <1>1, TakeOthers
<1>3. \A q \in Processes \ {p} : \A k \in Lock : lock'[k] = q => lock[k] = q
  BY <1>1 DEF Shape
<1>4. mishaps' \in 0..MaxMishaps
  BY <1>1 DEF HostTypeOK
<1> QED
  BY <1>1, <1>2, <1>3, <1>4, HostKept

\* It goes on.
LEMMA MoveHost ==
  ASSUME HostTypeOK, Held, NEW p \in Processes, NEW label \in Phases, NEW locals,
         Goto(p, label), UNCHANGED <<subject, clock, lock>>,
         DOMAIN loc' = Processes, loc'[p] = locals, \A q \in Processes \ {p} : loc'[q] = loc[q],
         mishaps' \in 0..MaxMishaps, label # "idle",
         subject \in Exclusive => pc[p] \notin {"idle", "emit"}
  PROVE  HostTypeOK' /\ Held' /\ pc'[p] = label /\ loc'[p] = locals /\ Others(p)
<1>1. Shape'
  BY DEF HostTypeOK, Shape, Goto
<1>2. Others(p) /\ pc'[p] = label /\ loc'[p] = locals
  BY <1>1 DEF HostTypeOK, Goto, Others
<1>3. subject \in Exclusive => lock'["run"] = p
  BY DEF Held
<1> QED
  BY <1>2, <1>3, HostKept

LEMMA ContinueHost ==
  ASSUME HostTypeOK, Held, NEW p \in Processes, NEW label \in Phases, NEW locals,
         Continue(p, label, locals), label # "idle",
         subject \in Exclusive => pc[p] \notin {"idle", "emit"}
  PROVE  HostTypeOK' /\ Held' /\ pc'[p] = label /\ loc'[p] = locals /\ Others(p)
<1>1. mishaps' \in 0..MaxMishaps
  BY DEF Continue, HostTypeOK
<1>2. Goto(p, label) /\ loc' = [loc EXCEPT ![p] = locals] /\ UNCHANGED <<subject, clock, lock>>
      /\ DOMAIN loc' = Processes /\ loc'[p] = locals /\ \A q \in Processes \ {p} : loc'[q] = loc[q]
  BY DEF Continue, HostTypeOK
<1> QED
  BY <1>1, <1>2, MoveHost

\* It gives its lock back, the events are still to come.
LEMMA UnlockHost ==
  ASSUME HostTypeOK, Held, NEW p \in Processes, NEW locals, Unlock(p, "emit", locals)
  PROVE  HostTypeOK' /\ Held' /\ pc'[p] = "emit" /\ loc'[p] = locals /\ Others(p)
<1>1. Shape /\ Goto(p, "emit") /\ "emit" \in Phases /\ UNCHANGED <<subject, clock, mishaps>> /\ GiveBack(p)
  BY PhasesAre DEF HostTypeOK, Shape, Unlock
<1>2. Others(p) /\ pc'[p] = "emit" /\ loc'[p] = locals
  BY <1>1, UnlockOthers
<1>3. \A q \in Processes \ {p} : \A k \in Lock : lock'[k] = q => lock[k] = q
  BY <1>1, HostAssumption DEF GiveBack
<1>4. mishaps' \in 0..MaxMishaps
  BY <1>1 DEF HostTypeOK
<1> QED
  BY <1>1, <1>2, <1>3, <1>4, HostKept

\* It ends.
LEMMA StopHost ==
  ASSUME HostTypeOK, Held, NEW p \in Processes, Stop(p), UNCHANGED <<subject, clock>>, mishaps' \in 0..MaxMishaps
  PROVE  HostTypeOK' /\ Held' /\ pc'[p] = "idle" /\ Others(p)
<1>1. Shape /\ Goto(p, "idle") /\ "idle" \in Phases /\ GiveBack(p)
  BY PhasesAre DEF HostTypeOK, Shape, Stop
<1>2. Others(p) /\ pc'[p] = "idle" /\ loc'[p] = NoLocals
  BY <1>1, StopOthers
<1>3. \A q \in Processes \ {p} : \A k \in Lock : lock'[k] = q => lock[k] = q
  BY <1>1, HostAssumption DEF GiveBack
<1>4. \A k \in Lock : lock'[k] # p
  BY <1>1, HostAssumption DEF GiveBack
<1> QED
  BY <1>1, <1>2, <1>3, <1>4, HostKept

LEMMA EndHost ==
  ASSUME HostTypeOK, Held, NEW p \in Processes, End(p)
  PROVE  HostTypeOK' /\ Held' /\ pc'[p] = "idle" /\ Others(p)
<1>1. Stop(p) /\ UNCHANGED <<subject, clock>> /\ mishaps' \in 0..MaxMishaps
  BY DEF End, HostTypeOK
<1> QED
  BY <1>1, StopHost

\* A fault that is one too many does not happen.
LEMMA MishapHost ==
  ASSUME HostTypeOK, Mishap
  PROVE  mishaps' \in 0..MaxMishaps
BY HostAssumption DEF HostTypeOK, Mishap

LEMMA BreakHost ==
  ASSUME HostTypeOK, Held, NEW p \in Processes, Break(p)
  PROVE  HostTypeOK' /\ Held' /\ pc'[p] = "idle" /\ Others(p)
<1>1. Stop(p) /\ UNCHANGED <<subject, clock>> /\ mishaps' \in 0..MaxMishaps
  BY MishapHost DEF Break
<1> QED
  BY <1>1, StopHost

\* What happens outside of the commands.
LEMMA SameHost ==
  ASSUME HostTypeOK, Held, UNCHANGED hostVars
  PROVE  HostTypeOK' /\ Held'
BY DEF HostTypeOK, Held, hostVars

\* What a run of the watchdog remembers.
WatchLocal(c, l) ==
  /\ c \in {"probe", "restart", "probe again"} =>
       /\ l.now \in 0..(MaxClock + 1)
       /\ l.previous \in [active : Units \cup {"none", "invalid"}, attempt : 0..(MaxClock + 1)]
  /\ c = "save" => l.after \in Units /\ l.attempt \in 0..(MaxClock + 1)

\* A step of p: the others remember what they did.
LEMMA WatchLocals ==
  ASSUME NEW p \in Processes, Others(p), \A q \in Processes : WatchLocal(pc[q], loc[q]),
         WatchLocal(pc'[p], loc'[p])
  PROVE  \A q \in Processes : WatchLocal(pc[q], loc[q])'
BY DEF Others, WatchLocal

\* The watchdog keeps the types.
LEMMA WatchTypes ==
  ASSUME HostTypeOK, Held, WatchTypeOK, \A q \in Processes : WatchLocal(pc[q], loc[q]),
         subject = "service", WatchNext
  PROVE  HostTypeOK' /\ Held' /\ WatchTypeOK' /\ \A q \in Processes : WatchLocal(pc[q], loc[q])'
<1> USE PhasesAre
<1>1. CASE ServiceChanges \/ RemoveBadWatch
  <2>1. UNCHANGED hostVars
    BY <1>1 DEF ServiceChanges, RemoveBadWatch
  <2>2. HostTypeOK' /\ Held' /\ \A q \in Processes : WatchLocal(pc[q], loc[q])'
    BY <2>1, SameHost DEF hostVars, WatchLocal
  <2>3. WatchTypeOK'
    BY <1>1, HostAssumption DEF ServiceChanges, RemoveBadWatch, WatchTypeOK, NoWatch
  <2> QED
    BY <2>2, <2>3
<1>2. ASSUME NEW p \in Processes, NEW restart, LoadWatch(p, restart)
      PROVE  HostTypeOK' /\ Held' /\ WatchTypeOK' /\ \A q \in Processes : WatchLocal(pc[q], loc[q])'
  <2>1. "run" \in Lock /\ "probe" \in Phases /\ UNCHANGED watchVars
        /\ Take(p, "service", "run", "probe", [now |-> clock, restart |-> restart, previous |-> watch])
    BY <1>2 DEF LoadWatch, Lock
  <2>2. HostTypeOK' /\ Held' /\ pc'[p] = "probe" /\ Others(p)
        /\ loc'[p] = [now |-> clock, restart |-> restart, previous |-> watch]
    BY <2>1, TakeHost
  <2>3. WatchLocal(pc'[p], loc'[p])
    <3>1. clock \in 0..(MaxClock + 1)
      BY HostAssumption DEF HostTypeOK
    <3>2. loc'[p].now = clock /\ loc'[p].previous = watch
      BY <2>2
    <3>3. watch \in [active : Units \cup {"none", "invalid"}, attempt : 0..(MaxClock + 1)]
      BY DEF WatchTypeOK
    <3> QED
      BY <2>2, <3>1, <3>2, <3>3, Zenon DEF WatchLocal
  <2> QED
    BY <2>1, <2>2, <2>3, WatchLocals DEF watchVars, WatchTypeOK
<1>3. ASSUME NEW p \in Processes, ProbeService(p)
      PROVE  HostTypeOK' /\ Held' /\ WatchTypeOK' /\ \A q \in Processes : WatchLocal(pc[q], loc[q])'
  <2>1. pc[p] = "probe" /\ UNCHANGED watchVars /\ WatchLocal(pc[p], loc[p]) /\ unit \in Units
    BY <1>3 DEF ProbeService, WatchTypeOK
  <2>2. CASE Continue(p, "restart", loc[p])
    <3>1. HostTypeOK' /\ Held' /\ pc'[p] = "restart" /\ Others(p) /\ loc'[p] = loc[p]
      BY <2>1, <2>2, ContinueHost
    <3>2. WatchLocal(pc'[p], loc'[p])
      BY <2>1, <3>1 DEF WatchLocal
    <3> QED
      BY <2>1, <3>1, <3>2, WatchLocals DEF watchVars, WatchTypeOK
  <2>3. CASE ~Continue(p, "restart", loc[p])
    <3>1. PICK change : Continue(p, "save", [previous |-> loc[p].previous, after |-> unit, transition |-> change,
                                             attempt |-> loc[p].previous.attempt])
      BY <1>3, <2>3 DEF ProbeService
    <3>2. HostTypeOK' /\ Held' /\ pc'[p] = "save" /\ Others(p)
          /\ loc'[p] = [previous |-> loc[p].previous, after |-> unit, transition |-> change,
                        attempt |-> loc[p].previous.attempt]
      BY <2>1, <3>1, ContinueHost
    <3>3. WatchLocal(pc'[p], loc'[p])
      <4>1. loc[p].previous \in [active : Units \cup {"none", "invalid"}, attempt : 0..(MaxClock + 1)]
        BY <2>1, Zenon DEF WatchLocal
      <4>2. loc'[p].after = unit /\ loc'[p].attempt = loc[p].previous.attempt
        BY <3>2
      <4>3. loc[p].previous.attempt \in 0..(MaxClock + 1)
        BY <4>1
      <4> QED
        BY <2>1, <3>2, <4>2, <4>3, Zenon DEF WatchLocal
    <3> QED
      BY <2>1, <3>2, <3>3, WatchLocals DEF watchVars, WatchTypeOK
  <2> QED
    BY <2>2, <2>3
<1>4. ASSUME NEW p \in Processes, RestartService(p)
      PROVE  HostTypeOK' /\ Held' /\ WatchTypeOK' /\ \A q \in Processes : WatchLocal(pc[q], loc[q])'
  <2>1. pc[p] = "restart" /\ Continue(p, "probe again", loc[p]) /\ WatchLocal(pc[p], loc[p])
    BY <1>4 DEF RestartService
  <2>2. HostTypeOK' /\ Held' /\ pc'[p] = "probe again" /\ Others(p) /\ loc'[p] = loc[p]
    <3>1. "probe again" \in Phases /\ "probe again" # "idle" /\ pc[p] \notin {"idle", "emit"}
      BY <2>1, Zenon DEF Phases
    <3> QED
      BY <2>1, <3>1, ContinueHost, Zenon
  <2>3. WatchLocal(pc'[p], loc'[p])
    BY <2>1, <2>2 DEF WatchLocal
  <2>4. WatchTypeOK'
    BY <1>4, <2>1 DEF RestartService, WatchTypeOK, WatchLocal
  <2> QED
    BY <2>2, <2>3, <2>4, WatchLocals
<1>5. ASSUME NEW p \in Processes, ProbeAgain(p)
      PROVE  HostTypeOK' /\ Held' /\ WatchTypeOK' /\ \A q \in Processes : WatchLocal(pc[q], loc[q])'
  <2> DEFINE change == IF unit \in Healthy THEN "restarted" ELSE "restart_failed"
             l == [previous |-> loc[p].previous, after |-> unit, attempt |-> loc[p].now, transition |-> change]
  <2>1. pc[p] = "probe again" /\ Continue(p, "save", l) /\ WatchLocal(pc[p], loc[p]) /\ UNCHANGED watchVars
    BY <1>5 DEF ProbeAgain
  <2>2. HostTypeOK' /\ Held' /\ pc'[p] = "save" /\ Others(p) /\ loc'[p] = l
    BY <2>1, ContinueHost
  <2>3. WatchLocal(pc'[p], loc'[p])
    <3>1. loc'[p].after = unit /\ loc'[p].attempt = loc[p].now
      BY <2>2
    <3>2. unit \in Units
      BY DEF WatchTypeOK
    <3> QED
      BY <2>1, <2>2, <3>1, <3>2, Zenon DEF WatchLocal
  <2> QED
    BY <2>1, <2>2, <2>3, WatchLocals DEF watchVars, WatchTypeOK
<1>6. ASSUME NEW p \in Processes, SaveWatch(p)
      PROVE  HostTypeOK' /\ Held' /\ WatchTypeOK' /\ \A q \in Processes : WatchLocal(pc[q], loc[q])'
  <2>1. pc[p] = "save" /\ Unlock(p, "emit", loc[p]) /\ WatchLocal(pc[p], loc[p])
        /\ UNCHANGED <<unit, lastAttempt, tooSoon, forgotten>>
    BY <1>6 DEF SaveWatch
  <2>2. HostTypeOK' /\ Held' /\ pc'[p] = "emit" /\ Others(p)
    BY <2>1, UnlockHost
  <2>3. WatchLocal(pc'[p], loc'[p])
    BY <2>2 DEF WatchLocal
  <2>4. watch' \in [active : Units \cup {"none", "invalid"}, attempt : 0..(MaxClock + 1)]
    BY <1>6, <2>1 DEF SaveWatch, WatchLocal
  <2>5. toldDown' \in BOOLEAN /\ lostDown' \in BOOLEAN /\ overlooked' \in BOOLEAN
    BY <1>6 DEF SaveWatch, WatchTypeOK
  <2> QED
    BY <2>1, <2>2, <2>3, <2>4, <2>5, WatchLocals DEF WatchTypeOK
<1>7. ASSUME NEW p \in Processes, EmitWatch(p)
      PROVE  HostTypeOK' /\ Held' /\ WatchTypeOK' /\ \A q \in Processes : WatchLocal(pc[q], loc[q])'
  <2>1. HostTypeOK' /\ Held' /\ pc'[p] = "idle" /\ Others(p)
    BY <1>7, EndHost DEF EmitWatch
  <2>2. WatchLocal(pc'[p], loc'[p])
    BY <2>1 DEF WatchLocal
  <2>3. WatchTypeOK'
    BY <1>7 DEF EmitWatch, WatchTypeOK
  <2> QED
    BY <2>1, <2>2, <2>3, WatchLocals
<1>8. ASSUME NEW p \in Processes, KillWatch(p)
      PROVE  HostTypeOK' /\ Held' /\ WatchTypeOK' /\ \A q \in Processes : WatchLocal(pc[q], loc[q])'
  <2>1. HostTypeOK' /\ Held' /\ pc'[p] = "idle" /\ Others(p)
    BY <1>8, BreakHost DEF KillWatch
  <2>2. WatchLocal(pc'[p], loc'[p])
    BY <2>1 DEF WatchLocal
  <2>3. watch' = watch \/ watch' = BadWatch
    BY <1>8 DEF KillWatch
  <2>4. watch' \in [active : Units \cup {"none", "invalid"}, attempt : 0..(MaxClock + 1)]
    BY <2>3, HostAssumption DEF WatchTypeOK, BadWatch
  <2>5. forgotten' \in BOOLEAN /\ lostDown' \in BOOLEAN /\ UNCHANGED <<unit, lastAttempt, tooSoon, toldDown, overlooked>>
    BY <1>8 DEF KillWatch, WatchTypeOK
  <2> QED
    BY <2>1, <2>2, <2>4, <2>5, WatchLocals DEF WatchTypeOK
<1> QED
  BY <1>1, <1>2, <1>3, <1>4, <1>5, <1>6, <1>7, <1>8 DEF WatchNext, WatchStep

\* What a run of the application monitor remembers.
AppLocal(c, l) == c = "compare" => l.status \in Status

LEMMA AppLocals ==
  ASSUME NEW p \in Processes, Others(p), \A q \in Processes : AppLocal(pc[q], loc[q]),
         AppLocal(pc'[p], loc'[p])
  PROVE  \A q \in Processes : AppLocal(pc[q], loc[q])'
BY DEF Others, AppLocal

\* The application monitor keeps the types.
LEMMA AppTypes ==
  ASSUME HostTypeOK, Held, AppTypeOK, \A q \in Processes : AppLocal(pc[q], loc[q]),
         subject = "app", AppNext
  PROVE  HostTypeOK' /\ Held' /\ AppTypeOK' /\ \A q \in Processes : AppLocal(pc[q], loc[q])'
<1> USE PhasesAre
<1>1. CASE HealthChanges \/ RemoveBadApp
  <2>1. UNCHANGED hostVars /\ AppTypeOK'
    BY <1>1 DEF HealthChanges, RemoveBadApp, AppTypeOK
  <2> QED
    BY <2>1, SameHost DEF hostVars, AppLocal
<1>2. ASSUME NEW p \in Processes, LockApp(p)
      PROVE  HostTypeOK' /\ Held' /\ AppTypeOK' /\ \A q \in Processes : AppLocal(pc[q], loc[q])'
  <2>1. "run" \in Lock /\ "check" \in Phases /\ UNCHANGED appVars /\ Take(p, "app", "run", "check", NoLocals)
    BY <1>2 DEF LockApp, Lock
  <2>2. HostTypeOK' /\ Held' /\ pc'[p] = "check" /\ Others(p)
    BY <2>1, TakeHost
  <2>3. AppLocal(pc'[p], loc'[p])
    BY <2>2 DEF AppLocal
  <2> QED
    BY <2>1, <2>2, <2>3, AppLocals DEF appVars, AppTypeOK
<1>3. ASSUME NEW p \in Processes, CheckApp(p)
      PROVE  HostTypeOK' /\ Held' /\ AppTypeOK' /\ \A q \in Processes : AppLocal(pc[q], loc[q])'
  <2>1. pc[p] = "check" /\ Continue(p, "compare", [status |-> health]) /\ UNCHANGED appVars
    BY <1>3 DEF CheckApp
  <2>2. HostTypeOK' /\ Held' /\ pc'[p] = "compare" /\ Others(p) /\ loc'[p] = [status |-> health]
    BY <2>1, ContinueHost
  <2>3. AppLocal(pc'[p], loc'[p])
    BY <2>2 DEF AppLocal, AppTypeOK
  <2> QED
    BY <2>1, <2>2, <2>3, AppLocals DEF appVars, AppTypeOK
<1>4. ASSUME NEW p \in Processes, SaveApp(p)
      PROVE  HostTypeOK' /\ Held' /\ AppTypeOK' /\ \A q \in Processes : AppLocal(pc[q], loc[q])'
  <2>1. CASE appState = "invalid"
    <3>1. HostTypeOK' /\ Held' /\ pc'[p] = "idle" /\ Others(p) /\ UNCHANGED appVars
      BY <1>4, <2>1, EndHost DEF SaveApp
    <3>2. AppLocal(pc'[p], loc'[p])
      BY <3>1 DEF AppLocal
    <3> QED
      BY <3>1, <3>2, AppLocals DEF appVars, AppTypeOK
  <2>2. CASE appState # "invalid"
    <3>1. PICK l : Unlock(p, "emit", l)
      BY <1>4, <2>2 DEF SaveApp
    <3>2. HostTypeOK' /\ Held' /\ pc'[p] = "emit" /\ Others(p)
      BY <3>1, UnlockHost
    <3>3. AppLocal(pc'[p], loc'[p])
      BY <3>2 DEF AppLocal
    <3>4. AppTypeOK'
      BY <1>4, <2>2 DEF SaveApp, AppLocal, AppTypeOK
    <3> QED
      BY <3>2, <3>3, <3>4, AppLocals
  <2> QED
    BY <2>1, <2>2
<1>5. ASSUME NEW p \in Processes, EmitApp(p) \/ KillApp(p)
      PROVE  HostTypeOK' /\ Held' /\ AppTypeOK' /\ \A q \in Processes : AppLocal(pc[q], loc[q])'
  <2>1. HostTypeOK' /\ Held' /\ pc'[p] = "idle" /\ Others(p)
    BY <1>5, EndHost, BreakHost DEF EmitApp, KillApp
  <2>2. AppLocal(pc'[p], loc'[p])
    BY <2>1 DEF AppLocal
  <2>3. AppTypeOK'
    BY <1>5 DEF EmitApp, KillApp, AppTypeOK
  <2> QED
    BY <2>1, <2>2, <2>3, AppLocals
<1> QED
  BY <1>1, <1>2, <1>3, <1>4, <1>5 DEF AppNext

\* What a run of the file integrity monitor remembers.
FimLocal(c, l) ==
  /\ c = "snapshot" =>
       l \in [init : BOOLEAN, update : BOOLEAN, old : [Files -> Hash], snapshot : [Files -> Hash],
              left : SUBSET Files]
  /\ c \in {"save", "unlock", "emit"} =>
       l \in [init : BOOLEAN, update : BOOLEAN, snapshot : [Files -> Hash], tell : SUBSET Files]

LEMMA FimLocals ==
  ASSUME NEW p \in Processes, Others(p), \A q \in Processes : FimLocal(pc[q], loc[q]),
         FimLocal(pc'[p], loc'[p])
  PROVE  \A q \in Processes : FimLocal(pc[q], loc[q])'
BY DEF Others, FimLocal

\* The file integrity monitor keeps the types.
LEMMA FimTypes ==
  ASSUME HostTypeOK, Held, FimTypeOK, \A q \in Processes : FimLocal(pc[q], loc[q]),
         subject = "fim", FimNext
  PROVE  HostTypeOK' /\ Held' /\ FimTypeOK' /\ \A q \in Processes : FimLocal(pc[q], loc[q])'
<1> USE PhasesAre DEF Exclusive
<1>0. AllMissing \in [Files -> Hash]
  BY DEF AllMissing, Hash
<1>1. CASE FileChanges
  <2>1. UNCHANGED <<hostVars, baseline, known, untold>> /\ file' \in [Files -> Hash]
    BY <1>1 DEF FileChanges, FimTypeOK
  <2> QED
    BY <2>1, SameHost DEF hostVars, FimLocal, FimTypeOK
<1>2. ASSUME NEW p \in Processes, LockInit(p)
      PROVE  HostTypeOK' /\ Held' /\ FimTypeOK' /\ \A q \in Processes : FimLocal(pc[q], loc[q])'
  <2> DEFINE l == [init |-> TRUE, update |-> TRUE, old |-> AllMissing, snapshot |-> AllMissing, left |-> Files]
  <2>1. "init" \in Lock /\ "snapshot" \in Phases /\ UNCHANGED fimVars /\ Take(p, "fim", "init", "snapshot", l)
    BY <1>2 DEF LockInit, Lock
  <2>2. HostTypeOK' /\ Held' /\ pc'[p] = "snapshot" /\ Others(p) /\ loc'[p] = l
    BY <2>1, TakeHost
  <2>3. FimLocal(pc'[p], loc'[p])
    BY <1>0, <2>2 DEF FimLocal
  <2> QED
    BY <2>1, <2>2, <2>3, FimLocals DEF fimVars, FimTypeOK
<1>3. ASSUME NEW p \in Processes, NEW update \in Updates, LockRun(p, update)
      PROVE  HostTypeOK' /\ Held' /\ FimTypeOK' /\ \A q \in Processes : FimLocal(pc[q], loc[q])'
  <2> DEFINE l == [init |-> FALSE, update |-> update, old |-> baseline.files, snapshot |-> AllMissing,
                   left |-> Files]
  <2>1. "run" \in Lock /\ "snapshot" \in Phases /\ UNCHANGED fimVars /\ Take(p, "fim", "run", "snapshot", l)
    BY <1>3 DEF LockRun, Lock
  <2>2. HostTypeOK' /\ Held' /\ pc'[p] = "snapshot" /\ Others(p) /\ loc'[p] = l
    BY <2>1, TakeHost
  <2>3. FimLocal(pc'[p], loc'[p])
    BY <1>0, <2>2, FimAssumption DEF FimLocal, FimTypeOK
  <2> QED
    BY <2>1, <2>2, <2>3, FimLocals DEF fimVars, FimTypeOK
<1>4. ASSUME NEW p \in Processes, HashNext(p)
      PROVE  HostTypeOK' /\ Held' /\ FimTypeOK' /\ \A q \in Processes : FimLocal(pc[q], loc[q])'
  <2>1. PICK f : /\ pc[p] = "snapshot" /\ UNCHANGED fimVars
                 /\ Continue(p, "snapshot", [loc[p] EXCEPT !.snapshot[f] = file[f], !.left = @ \ {f}])
    BY <1>4 DEF HashNext
  <2>2. HostTypeOK' /\ Held' /\ pc'[p] = "snapshot" /\ Others(p)
        /\ loc'[p] = [loc[p] EXCEPT !.snapshot[f] = file[f], !.left = @ \ {f}]
    BY <2>1, ContinueHost
  <2>3. loc[p] \in [init : BOOLEAN, update : BOOLEAN, old : [Files -> Hash], snapshot : [Files -> Hash],
                    left : SUBSET Files]
    BY <2>1 DEF FimLocal
  <2>4. [loc[p].snapshot EXCEPT ![f] = file[f]] \in [Files -> Hash]
    BY <2>3 DEF FimTypeOK
  <2>5. loc'[p] \in [init : BOOLEAN, update : BOOLEAN, old : [Files -> Hash], snapshot : [Files -> Hash],
                     left : SUBSET Files]
    BY <2>2, <2>3, <2>4
  <2>6. FimLocal(pc'[p], loc'[p])
    BY <2>2, <2>5 DEF FimLocal
  <2> QED
    BY <2>1, <2>2, <2>6, FimLocals DEF fimVars, FimTypeOK
<1>5. ASSUME NEW p \in Processes, Compare(p)
      PROVE  HostTypeOK' /\ Held' /\ FimTypeOK' /\ \A q \in Processes : FimLocal(pc[q], loc[q])'
  <2> DEFINE c == IF loc[p].update THEN "save" ELSE "unlock"
             l == [init |-> loc[p].init, update |-> loc[p].update, snapshot |-> loc[p].snapshot,
                   tell |-> IF loc[p].init THEN {} ELSE Changed(loc[p])]
  <2>1. pc[p] = "snapshot" /\ UNCHANGED fimVars /\ Continue(p, c, l) /\ c \in Phases /\ c # "idle"
    BY <1>5 DEF Compare
  <2>2. HostTypeOK' /\ Held' /\ pc'[p] = c /\ Others(p) /\ loc'[p] = l
    <3> HIDE DEF c, l
    <3> QED
      BY <2>1, ContinueHost
  <2>3. l \in [init : BOOLEAN, update : BOOLEAN, snapshot : [Files -> Hash], tell : SUBSET Files]
    BY <2>1 DEF FimLocal, Changed
  <2>4. FimLocal(pc'[p], loc'[p])
    <3>1. c \in {"save", "unlock"}
      OBVIOUS
    <3> HIDE DEF c, l
    <3> QED
      BY <2>2, <2>3, <3>1 DEF FimLocal
  <2> QED
    BY <2>1, <2>2, <2>4, FimLocals DEF fimVars, FimTypeOK
<1>6. ASSUME NEW p \in Processes, SaveBaseline(p) \/ UnlockRun(p)
      PROVE  HostTypeOK' /\ Held' /\ FimTypeOK' /\ \A q \in Processes : FimLocal(pc[q], loc[q])'
  <2>1. /\ pc[p] \in {"save", "unlock"} /\ Unlock(p, "emit", loc[p])
        /\ loc[p] \in [init : BOOLEAN, update : BOOLEAN, snapshot : [Files -> Hash], tell : SUBSET Files]
    BY <1>6 DEF SaveBaseline, UnlockRun, FimLocal
  <2>2. HostTypeOK' /\ Held' /\ pc'[p] = "emit" /\ Others(p) /\ loc'[p] = loc[p]
    BY <2>1, UnlockHost
  <2>3. FimLocal(pc'[p], loc'[p])
    BY <2>1, <2>2 DEF FimLocal
  <2>4. CASE SaveBaseline(p)
    <3>1. baseline' = [status |-> "written", files |-> loc[p].snapshot] /\ UNCHANGED <<file, untold>>
          /\ known' = IF loc[p].init THEN [f \in Files |-> known[f] \cup {loc[p].snapshot[f]}] ELSE known
      BY <2>4 DEF SaveBaseline
    <3>2. known' \in [Files -> SUBSET Hash]
      BY <2>1, <3>1 DEF FimTypeOK
    <3>3. FimTypeOK'
      BY <2>1, <3>1, <3>2 DEF FimTypeOK
    <3> QED
      BY <2>2, <2>3, <3>3, FimLocals
  <2>5. CASE UnlockRun(p)
    BY <2>2, <2>3, <2>5, FimLocals DEF UnlockRun, fimVars, FimTypeOK
  <2> QED
    BY <1>6, <2>4, <2>5
<1>7. ASSUME NEW p \in Processes, EmitChange(p)
      PROVE  HostTypeOK' /\ Held' /\ FimTypeOK' /\ \A q \in Processes : FimLocal(pc[q], loc[q])'
  <2>1. PICK f \in loc[p].tell :
          /\ known' = [known EXCEPT ![f] = @ \cup {loc[p].snapshot[f]}]
          /\ Continue(p, "emit", [loc[p] EXCEPT !.tell = @ \ {f}])
    BY <1>7 DEF EmitChange
  <2>2. pc[p] = "emit" /\ UNCHANGED <<file, baseline, untold>>
        /\ loc[p] \in [init : BOOLEAN, update : BOOLEAN, snapshot : [Files -> Hash], tell : SUBSET Files]
    BY <1>7 DEF EmitChange, FimLocal
  <2>3. HostTypeOK' /\ Held' /\ pc'[p] = "emit" /\ Others(p) /\ loc'[p] = [loc[p] EXCEPT !.tell = @ \ {f}]
    BY <2>1, ContinueHost
  <2>4. FimLocal(pc'[p], loc'[p])
    BY <2>2, <2>3 DEF FimLocal
  <2>5. known' \in [Files -> SUBSET Hash]
    BY <2>1, <2>2 DEF FimTypeOK
  <2> QED
    BY <2>2, <2>3, <2>4, <2>5, FimLocals DEF FimTypeOK
<1>8. ASSUME NEW p \in Processes, EndFim(p) \/ KillFim(p)
      PROVE  HostTypeOK' /\ Held' /\ FimTypeOK' /\ \A q \in Processes : FimLocal(pc[q], loc[q])'
  <2>1. HostTypeOK' /\ Held' /\ pc'[p] = "idle" /\ Others(p)
    BY <1>8, EndHost, BreakHost DEF EndFim, KillFim
  <2>2. FimLocal(pc'[p], loc'[p])
    BY <2>1 DEF FimLocal
  <2>3. FimTypeOK'
    <3>1. baseline' = baseline \/ baseline' = [status |-> "invalid", files |-> AllMissing]
      BY <1>8 DEF EndFim, KillFim, fimVars
    <3>2. baseline' \in [status : {"none", "written", "invalid"}, files : [Files -> Hash]]
      BY <1>0, <3>1 DEF FimTypeOK
    <3>3. UNCHANGED <<file, known>> /\ untold' \in BOOLEAN
      BY <1>8 DEF EndFim, KillFim, fimVars, FimTypeOK
    <3> QED
      BY <3>2, <3>3 DEF FimTypeOK
  <2> QED
    BY <2>1, <2>2, <2>3, FimLocals
<1> QED
  BY <1>1, <1>2, <1>3, <1>4, <1>5, <1>6, <1>7, <1>8 DEF FimNext

\* The commands for the timers keep the types.
LEMMA TimerTypes ==
  ASSUME HostTypeOK, Held, TimerTypeOK, TimerInv, subject = "timer", TimerNext
  PROVE  HostTypeOK' /\ Held' /\ TimerTypeOK'
<1> USE PhasesAre DEF Exclusive
<1>1. PICK p \in Processes : TimerStep(p)
  BY DEF TimerNext
<1>2. pc[p] # "idle" => /\ pc[p] = "call" /\ DOMAIN loc[p] = {"todo", "unseen", "goal"}
                        /\ Enables(loc[p]) \/ DisablesUnit(loc[p]) \/ Restarts(loc[p])
  BY DEF TimerInv, Command
<1>3. family \in Families /\ (family.main = "timer" \/ family.main = "service")
  BY FamilyKinds DEF TimerInv
<1>4. Options \subseteq Content /\ "none" \in Content /\ "cut" \in Content
  BY DEF Content
<1>5. ASSUME NEW command, NEW locals, Begin(p, command, locals), command \in {"enable", "disable", "restart"},
             family.locked => command # "restart"
      PROVE  HostTypeOK' /\ Held' /\ TimerTypeOK'
  <2>1. UNCHANGED <<family, disk, loaded, enabled, started>> /\ overlapped' \subseteq Processes
        /\ settled'.state \in {"unsure", "on", "off"}
    BY <1>5 DEF Begin, Busy, Unsure, TimerTypeOK
  <2>2. CASE family.locked
    <3>1. command \in Lock /\ "call" \in Phases /\ Take(p, "timer", command, "call", locals)
      BY <1>5, <2>2 DEF Begin, Lock
    <3> QED
      BY <2>1, <3>1, TakeHost DEF TimerTypeOK
  <2>3. CASE ~family.locked
    <3>1. Continue(p, "call", locals)
      BY <1>5, <2>3 DEF Begin
    <3> QED
      BY <2>1, <3>1, ContinueHost DEF TimerTypeOK
  <2> QED
    BY <2>2, <2>3
<1>6. CASE \/ \E options \in Options : BeginEnable(p, options)
           \/ \E remove \in BOOLEAN : BeginDisable(p, remove)
           \/ BeginRestart(p)
  <2>1. ~TelegramDaemon.locked
    BY DEF TelegramDaemon
  <2> QED
    BY <1>5, <1>6, <2>1 DEF BeginEnable, BeginDisable, BeginRestart
<1>7. ASSUME NEW l, Continue(p, "call", l) PROVE HostTypeOK' /\ Held'
  BY <1>7, ContinueHost
<1>8. ASSUME Proceed(p) PROVE HostTypeOK' /\ Held'
  BY <1>7, <1>8 DEF Proceed
<1>9. ASSUME ProceedUnseen(p), mishaps' \in 0..MaxMishaps PROVE HostTypeOK' /\ Held'
  <2>1. DOMAIN loc' = Processes /\ \A q \in Processes \ {p} : loc'[q] = loc[q]
    BY <1>9 DEF ProceedUnseen, HostTypeOK
  <2> QED
    BY <1>9, <2>1, MoveHost DEF ProceedUnseen
<1>10. ASSUME NEW f \in {"service", "timer"}, WriteUnit(p, f) PROVE HostTypeOK' /\ Held' /\ TimerTypeOK'
  <2>1. Calls(p, IF f = "service" THEN "writeService" ELSE "writeTimer") /\ Proceed(p)
        /\ disk' = [disk EXCEPT ![f] = loc[p].goal.options]
        /\ UNCHANGED <<family, loaded, enabled, started, settled, overlapped>>
    BY <1>10 DEF WriteUnit
  <2>2. Enables(loc[p])
    <3> DEFINE call == IF f = "service" THEN "writeService" ELSE "writeTimer"
    <3>1. call \notin {"known", "disable", "tryDisable", "unlinkService", "unlinkTimer", "tryReload", "restart"}
      OBVIOUS
    <3> HIDE DEF call
    <3> QED
      BY <2>1, <3>1, CallsOf
  <2>3. loc[p].goal.options \in Content
    BY <1>4, <2>2 DEF Enables
  <2>4. disk' \in [{"service", "timer"} -> Content]
    BY <2>1, <2>3 DEF TimerTypeOK
  <2> QED
    BY <1>8, <2>1, <2>4 DEF TimerTypeOK
<1>11. ASSUME NEW f \in {"service", "timer"}, UnlinkUnit(p, f) PROVE HostTypeOK' /\ Held' /\ TimerTypeOK'
  <2>1. disk' = [disk EXCEPT ![f] = "none"] /\ UNCHANGED <<family, loaded, enabled, started, settled, overlapped>>
        /\ (Proceed(p) \/ \E l : Continue(p, "call", l))
    BY <1>11 DEF UnlinkUnit
  <2> QED
    BY <1>4, <1>7, <1>8, <2>1 DEF TimerTypeOK
<1>12. Reloaded \in Content /\ disk[family.main] \in Content
  BY <1>3 DEF Reloaded, TimerTypeOK
<1>13. CASE Relabel(p) \/ Reload(p)
  BY <1>8, <1>12, <1>13 DEF Relabel, Reload, timerVars, TimerTypeOK
<1>14. CASE ReloadFails(p)
  BY <1>9, <1>14, MishapHost DEF ReloadFails, timerVars, TimerTypeOK
<1>15. CASE EnableNow(p)
  BY <1>7, <1>12, <1>15 DEF EnableNow, TimerTypeOK
<1>16. CASE EnableNothing(p) \/ RestartNothing(p)
  BY <1>16, EndHost DEF EnableNothing, RestartNothing, timerVars, TimerTypeOK
<1>17. CASE AskKnown(p)
  BY <1>7, <1>8, <1>17 DEF AskKnown, timerVars, TimerTypeOK
<1>18. CASE DisableNow(p)
  BY <1>4, <1>8, <1>18 DEF DisableNow, TimerTypeOK
<1>19. CASE DisableFails(p)
  <2>1. mishaps' \in 0..MaxMishaps /\ enabled' \in BOOLEAN
    <3>1. CASE enabled' = enabled /\ UNCHANGED mishaps
      BY <3>1 DEF HostTypeOK, TimerTypeOK
    <3>2. CASE Mishap /\ enabled' \in {enabled, FALSE}
      BY <3>2, MishapHost DEF TimerTypeOK
    <3> QED
      BY <1>19, <3>1, <3>2 DEF DisableFails
  <2>2. (Stop(p) /\ UNCHANGED <<subject, clock>>) \/ ProceedUnseen(p)
    BY <1>19 DEF DisableFails
  <2>3. HostTypeOK' /\ Held'
    BY <1>9, <2>1, <2>2, StopHost
  <2> QED
    BY <1>19, <2>1, <2>3 DEF DisableFails, TimerTypeOK
<1>20. CASE RestartDaemon(p)
  BY <1>4, <1>8, <1>20 DEF RestartDaemon, TimerTypeOK
<1>21. CASE EndTimer(p)
  <2>1. loc[p].goal.state \in {"unsure", "on", "off"} /\ Unsure.state = "unsure"
    BY <1>2, <1>21 DEF EndTimer, Enables, DisablesUnit, Restarts, Unsure
  <2>2. settled'.state \in {"unsure", "on", "off"}
    BY <1>21, <2>1 DEF EndTimer
  <2> QED
    BY <1>21, <2>2, EndHost DEF EndTimer, TimerTypeOK
<1>22. CASE KillTimer(p)
  <2>1. HostTypeOK' /\ Held'
    BY <1>22, BreakHost DEF KillTimer
  <2>2. enabled' \in BOOLEAN /\ UNCHANGED <<family, loaded, started, settled, overlapped>>
    BY <1>22 DEF KillTimer, TimerTypeOK
  <2>3. disk' = disk \/ \E f \in family.files : disk' = [disk EXCEPT ![f] = "cut"]
    BY <1>22 DEF KillTimer
  <2>4. disk' \in [{"service", "timer"} -> Content]
    BY <1>4, <2>3 DEF TimerTypeOK
  <2> QED
    BY <2>1, <2>2, <2>4 DEF TimerTypeOK
<1> QED
  BY <1>1, <1>6, <1>10, <1>11, <1>13, <1>14, <1>15, <1>16, <1>17, <1>18, <1>19, <1>20, <1>21, <1>22
     DEF TimerStep

\* The virtual host, there or not.
Vhosts == [there : BOOLEAN, include : BOOLEAN, tls : BOOLEAN]

\* What a command that writes for nginx remembers.
NginxLocal(c, l) ==
  /\ c \in {"http"} \cup Hardening \cup PuttingBack => {l.http, l.snippet} \subseteq BOOLEAN /\ l.vhost \in Vhosts
  /\ c \in {"capture"} \cup Captured => l.tls \in BOOLEAN
  /\ c \in Captured => l.vhost \in Vhosts
  /\ c \in Captured \ {"render"} => l.new \in Vhosts

LEMMA NginxLocals ==
  ASSUME NEW p \in Processes, Others(p), \A q \in Processes : NginxLocal(pc[q], loc[q]),
         NginxLocal(pc'[p], loc'[p])
  PROVE  \A q \in Processes : NginxLocal(pc[q], loc[q])'
BY DEF Others, NginxLocal

NginxTyped == HostTypeOK /\ Held /\ NginxTypeOK /\ \A q \in Processes : NginxLocal(pc[q], loc[q])

\* A command for nginx goes on, or ends.
LEMMA NginxContinues ==
  ASSUME NginxTyped, subject = "nginx", NEW p \in Processes, NEW label \in Phases, label # "idle", NEW l,
         \/ Continue(p, label, l)
         \/ \E k \in Lock : Take(p, "nginx", k, label, l),
         NginxLocal(label, l), NginxTypeOK'
  PROVE  NginxTyped'
<1>1. HostTypeOK' /\ Held' /\ pc'[p] = label /\ loc'[p] = l /\ Others(p)
  BY ContinueHost, TakeHost DEF NginxTyped, Exclusive
<1> QED
  BY <1>1, NginxLocals DEF NginxTyped

LEMMA NginxEnds ==
  ASSUME NginxTyped, NEW p \in Processes, End(p) \/ Break(p), NginxTypeOK'
  PROVE  NginxTyped'
<1>1. HostTypeOK' /\ Held' /\ pc'[p] = "idle" /\ Others(p)
  BY EndHost, BreakHost DEF NginxTyped
<1>2. NginxLocal(pc'[p], loc'[p])
  BY <1>1 DEF NginxLocal, Captured, Hardening, PuttingBack
<1> QED
  BY <1>1, <1>2, NginxLocals DEF NginxTyped

\* A call fails, and the command puts back what it saved.
LEMMA NginxFails ==
  ASSUME NginxTyped, subject = "nginx", NEW p \in Processes, NEW label \in Phases, label # "idle",
         Mishap, Goto(p, label), UNCHANGED <<subject, clock, lock, loc, nginxVars>>, NginxLocal(label, loc[p])
  PROVE  NginxTyped'
<1>1. DOMAIN loc' = Processes /\ mishaps' \in 0..MaxMishaps
  BY MishapHost DEF NginxTyped, HostTypeOK
<1>2. HostTypeOK' /\ Held' /\ pc'[p] = label /\ loc'[p] = loc[p] /\ Others(p)
  BY <1>1, MoveHost DEF NginxTyped, Exclusive
<1>3. NginxTypeOK'
  BY DEF NginxTyped, NginxTypeOK, nginxVars
<1> QED
  BY <1>2, <1>3, NginxLocals DEF NginxTyped

\* The commands that write for nginx keep the types.
LEMMA NginxTypes ==
  ASSUME NginxTyped, subject = "nginx", NginxNext
  PROVE  NginxTyped'
<1> USE PhasesAre
<1>1. NginxTypeOK /\ NoVhost \in Vhosts
  BY DEF NginxTyped, NoVhost, Vhosts
<1>2. ASSUME UNCHANGED nginxVars PROVE NginxTypeOK'
  BY <1>1, <1>2 DEF NginxTypeOK, nginxVars
<1>3. ASSUME NEW p \in Processes, NEW flag \in BOOLEAN,
             BeginSecure(p, flag) \/ BeginDeploy(p, flag) \/ BeginCreate(p, flag) \/ BeginIssue(p)
      PROVE  NginxTyped'
  <2> DEFINE Takes(label, k, l) ==
               /\ Take(p, "nginx", k, label, l) /\ UNCHANGED nginxVars
               /\ label = "capture" => l.tls \in BOOLEAN
  <2>1. \E label \in {"save", "capture", "issue"} : \E k \in Lock : \E l : Takes(label, k, l)
    <3>1. "save" \in {"save", "capture", "issue"} /\ "capture" \in {"save", "capture", "issue"}
          /\ "issue" \in {"save", "capture", "issue"} /\ "secure" \in Lock /\ "app" \in Lock /\ "site" \in Lock
          /\ "ssl" \in Lock /\ cert \in BOOLEAN
      BY <1>1 DEF Lock, NginxTypeOK
    <3>2. CASE BeginSecure(p, flag)
      BY <3>1, <3>2 DEF BeginSecure
    <3>3. CASE BeginDeploy(p, flag)
      BY <3>1, <3>3 DEF BeginDeploy
    <3>4. CASE BeginCreate(p, flag)
      BY <3>1, <3>4 DEF BeginCreate
    <3>5. CASE BeginIssue(p)
      BY <3>1, <3>5 DEF BeginIssue
    <3> QED
      BY <1>3, <3>2, <3>3, <3>4, <3>5
  <2>2. PICK label \in {"save", "capture", "issue"} : \E k \in Lock : \E l : Takes(label, k, l)
    BY <2>1
  <2>3. PICK k \in Lock : \E l : Takes(label, k, l)
    BY <2>2
  <2>4. PICK l : Takes(label, k, l)
    BY <2>3
  <2>5. NginxLocal(label, l)
    BY <2>2, <2>4 DEF NginxLocal, Captured, Hardening, PuttingBack
  <2> QED
    BY <1>2, <2>2, <2>4, <2>5, NginxContinues
<1>4. ASSUME NEW p \in Processes, SaveFiles(p) PROVE NginxTyped'
  <2> DEFINE l == [inject |-> loc[p].inject, http |-> http, snippet |-> snippet, vhost |-> vhost]
  <2>1. Continue(p, "http", l) /\ UNCHANGED <<http, snippet, vhost, cert>> /\ misled' \in BOOLEAN
    BY <1>1, <1>4 DEF SaveFiles, NginxTypeOK
  <2>2. NginxLocal("http", l)
    BY <1>1 DEF NginxLocal, Captured, Hardening, PuttingBack, NginxTypeOK, Vhosts
  <2>3. NginxTypeOK'
    BY <1>1, <2>1 DEF NginxTypeOK
  <2> HIDE DEF l
  <2> QED
    BY <2>1, <2>2, <2>3, NginxContinues
<1>5. ASSUME NEW p \in Processes PROVE NginxLocal(pc[p], loc[p])
  BY DEF NginxTyped
<1>6. ASSUME NEW p \in Processes, pc[p] \in {"http"} \cup Hardening \cup PuttingBack
      PROVE  /\ {loc[p].http, loc[p].snippet} \subseteq BOOLEAN /\ loc[p].vhost \in Vhosts
             /\ \A label \in Hardening \cup PuttingBack :
                  label \in Phases /\ label # "idle" /\ NginxLocal(label, loc[p])
  <2>1. {loc[p].http, loc[p].snippet} \subseteq BOOLEAN /\ loc[p].vhost \in Vhosts
    BY <1>5, <1>6, Zenon DEF NginxLocal
  <2>2. \A label \in Hardening \cup PuttingBack :
          label \in Phases /\ label # "idle" /\ label \notin {"capture"} \cup Captured
    BY Zenon DEF Phases, Captured, Hardening, PuttingBack
  <2> QED
    BY <2>1, <2>2, Zenon DEF NginxLocal
<1>7. ASSUME NEW p \in Processes, NEW label \in Hardening \cup PuttingBack,
             pc[p] \in {"http"} \cup Hardening \cup PuttingBack, Continue(p, label, loc[p]), NginxTypeOK'
      PROVE  NginxTyped'
  BY <1>6, <1>7, NginxContinues
<1>8. ASSUME NEW p \in Processes, SecureWrites(p) \/ InjectInclude(p) PROVE NginxTyped'
  <2>1. PICK label \in Hardening \cup PuttingBack : Continue(p, label, loc[p])
    BY <1>8 DEF SecureWrites, WriteHttp, WriteSnippet, InjectInclude, Hardening, PuttingBack
  <2>2. pc[p] \in {"http"} \cup Hardening \cup PuttingBack
    BY <1>8 DEF SecureWrites, WriteHttp, WriteSnippet, InjectInclude, Hardening
  <2>3. NginxTypeOK'
    BY <1>1, <1>8 DEF SecureWrites, WriteHttp, WriteSnippet, InjectInclude, NginxTypeOK
  <2> QED
    BY <1>7, <2>1, <2>2, <2>3
<1>9. ASSUME NEW p \in Processes, TestLimits(p) \/ ReloadLimits(p) PROVE NginxTyped'
  <2>1. End(p) \/ \E label \in Hardening \cup PuttingBack : Continue(p, label, loc[p])
    BY <1>9 DEF TestLimits, ReloadLimits, Hardening, PuttingBack
  <2>2. pc[p] \in {"http"} \cup Hardening \cup PuttingBack /\ NginxTypeOK'
    BY <1>2, <1>9 DEF TestLimits, ReloadLimits, Hardening
  <2> QED
    BY <1>7, <2>1, <2>2, NginxEnds
<1>10. ASSUME NEW p \in Processes, LimitsFail(p) PROVE NginxTyped'
  <2>1. pc[p] \in {"http"} \cup Hardening \cup PuttingBack /\ "restore http" \in Hardening \cup PuttingBack
    BY <1>10 DEF LimitsFail, Hardening, PuttingBack
  <2> QED
    BY <1>6, <1>10, <2>1, NginxFails DEF LimitsFail
<1>11. ASSUME NEW p \in Processes, RestoreHttp(p) \/ RestoreSnippet(p) \/ RestoreServer(p) PROVE NginxTyped'
  <2>1. End(p) \/ \E label \in Hardening \cup PuttingBack : Continue(p, label, loc[p])
    BY <1>11 DEF RestoreHttp, RestoreSnippet, RestoreServer, PuttingBack
  <2>2. pc[p] \in {"http"} \cup Hardening \cup PuttingBack
    BY <1>11 DEF RestoreHttp, RestoreSnippet, RestoreServer, PuttingBack
  <2>3. {loc[p].http, loc[p].snippet} \subseteq BOOLEAN /\ loc[p].vhost \in Vhosts
    BY <1>6, <2>2
  <2>4. NginxTypeOK'
    BY <1>1, <1>11, <2>3 DEF RestoreHttp, RestoreSnippet, RestoreServer, NginxTypeOK, Vhosts
  <2> QED
    BY <1>7, <2>1, <2>2, <2>4, NginxEnds
<1>12. ASSUME NEW p \in Processes, Issue(p) PROVE NginxTyped'
  <2> DEFINE l == [tls |-> TRUE, issue |-> FALSE]
  <2>1. (Continue(p, "capture", l) \/ End(p)) /\ NginxTypeOK'
    BY <1>1, <1>12 DEF Issue, NginxTypeOK
  <2>2. NginxLocal("capture", l)
    BY DEF NginxLocal, Captured, Hardening, PuttingBack
  <2> HIDE DEF l
  <2> QED
    BY <2>1, <2>2, NginxContinues, NginxEnds
<1>13. ASSUME NEW p \in Processes, Capture(p) PROVE NginxTyped'
  <2> DEFINE l == [tls |-> loc[p].tls, issue |-> loc[p].issue, vhost |-> vhost]
  <2>1. Continue(p, "render", l) /\ pc[p] = "capture" /\ NginxTypeOK'
    BY <1>1, <1>13 DEF Capture, NginxTypeOK
  <2>2. NginxLocal("render", l)
    BY <1>1, <1>5, <2>1 DEF NginxLocal, Captured, Hardening, PuttingBack, NginxTypeOK, Vhosts
  <2> HIDE DEF l
  <2> QED
    BY <2>1, <2>2, NginxContinues
<1>14. ASSUME NEW p \in Processes, Render(p) PROVE NginxTyped'
  <2> DEFINE l == [tls |-> loc[p].tls, issue |-> loc[p].issue, vhost |-> loc[p].vhost,
                   new |-> Vhost(snippet, loc[p].tls)]
  <2>1. Continue(p, "write", l) /\ pc[p] = "render" /\ NginxTypeOK'
    BY <1>1, <1>14 DEF Render, NginxTypeOK
  <2>2. loc[p].tls \in BOOLEAN /\ loc[p].vhost \in Vhosts
    BY <1>5, <2>1 DEF NginxLocal, Captured
  <2>3. Vhost(snippet, loc[p].tls) \in Vhosts
    BY <1>1, <2>2 DEF Vhost, Vhosts, NginxTypeOK
  <2>4. NginxLocal("write", l)
    BY <2>2, <2>3 DEF NginxLocal, Captured, Hardening, PuttingBack
  <2> HIDE DEF l
  <2> QED
    BY <2>1, <2>4, NginxContinues
<1>15. ASSUME NEW p \in Processes, pc[p] \in Captured \ {"render"}
       PROVE  /\ loc[p].vhost \in Vhosts /\ loc[p].new \in Vhosts
              /\ \A label \in Captured \cup {"issue"} :
                   label \in Phases /\ label # "idle" /\ NginxLocal(label, loc[p])
  BY <1>5, <1>15 DEF NginxLocal, Captured, Hardening, PuttingBack
<1>16. ASSUME NEW p \in Processes,
              WriteServer(p) \/ TestConfig(p) \/ ReloadConfig(p) \/ RestoreSite(p)
       PROVE  NginxTyped'
  <2>1. pc[p] \in Captured \ {"render"}
    BY <1>16 DEF WriteServer, TestConfig, ReloadConfig, RestoreSite, Captured
  <2>2. NginxTypeOK'
    BY <1>1, <1>2, <1>15, <1>16, <2>1 DEF WriteServer, TestConfig, ReloadConfig, RestoreSite, NginxTypeOK, Vhosts
  <2>3. End(p) \/ \E label \in Captured \cup {"issue"} : Continue(p, label, loc[p])
    BY <1>16 DEF WriteServer, TestConfig, ReloadConfig, RestoreSite, Captured
  <2> QED
    BY <1>15, <2>1, <2>2, <2>3, NginxContinues, NginxEnds
<1>17. ASSUME NEW p \in Processes, ConfigFails(p) PROVE NginxTyped'
  <2>1. pc[p] \in Captured \ {"render"} /\ "restore" \in Captured
    BY <1>17 DEF ConfigFails, Captured
  <2> QED
    BY <1>15, <1>17, <2>1, NginxFails DEF ConfigFails
<1>18. ASSUME NEW p \in Processes, KillConfig(p) PROVE NginxTyped'
  <2>1. Break(p) /\ NginxTypeOK'
    BY <1>1, <1>18 DEF KillConfig, NginxTypeOK
  <2> QED
    BY <2>1, NginxEnds
<1> QED
  BY <1>3, <1>4, <1>8, <1>9, <1>10, <1>11, <1>12, <1>13, <1>14, <1>16, <1>17, <1>18 DEF NginxNext

\* What the scan counts is of the types too.
LEMMA ScanTypes ==
  ASSUME ScanInv
  PROVE  ScanTypeOK
<1>1. LogShape /\ ScanFile
  BY DEF ScanInv
<1>2. CASE scan = BadScan
  <2>1. scan.inode = 0 /\ scan.offset = -1 /\ scan.hits = <<>> /\ scan.read = {} /\ scan.before = 0
    BY <1>2 DEF BadScan, NoScan
  <2> QED
    BY <1>1, <2>1, ScanAssumption DEF LogShape, ScanTypeOK
<1>3. CASE scan # BadScan
  <2>1. Counted(scan.hits, scan.inode, scan.offset, scan.cutoff, scan.read, scan.before)
    BY <1>1, <1>3 DEF ScanFile
  <2>2. scan.offset \in 0..Len(times) /\ scan.inode \in 0..log.inode /\ Len(times) \in Nat
        /\ Len(times) <= MaxLines /\ log.inode \in 1..MaxFiles
    BY <1>1, <2>1 DEF Counted, LogShape
  <2>3. scan.hits \in Seq(Nat \ {0}) /\ \A j \in 1..Len(scan.hits) : scan.hits[j] \in 1..Len(times)
    BY <2>1, <2>2 DEF Counted
  <2>4. scan.hits \in Seq(1..Len(times))
    BY <2>3
  <2>5. scan.read \subseteq 1..Len(times) /\ scan.before \in 0..log.before
    BY <2>1 DEF Counted
  <2> QED
    BY <1>1, <2>2, <2>4, <2>5, ScanAssumption DEF LogShape, ScanTypeOK
<1> QED
  BY <1>2, <1>3

\* The runs of the scan.
LEMMA ScanHost ==
  ASSUME HostTypeOK, Held, subject = "scan", ScanNext
  PROVE  HostTypeOK' /\ Held'
<1>1. CASE WriteLine \/ Rename \/ CreateLog \/ Truncate
  BY <1>1, SameHost DEF WriteLine, Rename, CreateLog, Truncate
<1>2. ASSUME NEW p \in Processes, LoadScan(p) PROVE HostTypeOK' /\ Held'
  <2>1. PICK l : Take(p, "scan", "run", "stat", l)
    BY <1>2 DEF LoadScan
  <2> QED
    BY <2>1, TakeHost, PhasesAre DEF Lock
<1>3. ASSUME NEW p \in Processes, StatLog(p) \/ ReadLog(p) PROVE HostTypeOK' /\ Held'
  <2>1. PICK label \in {"save", "read"} : \E l : Continue(p, label, l)
    BY <1>3 DEF StatLog, ReadLog
  <2>2. pc[p] \notin {"idle", "emit"}
    BY <1>3 DEF StatLog, ReadLog
  <2> QED
    BY <2>1, <2>2, ContinueHost, PhasesAre
<1>4. ASSUME NEW p \in Processes, SaveScan(p) PROVE HostTypeOK' /\ Held'
  <2>1. PICK l : Unlock(p, "emit", l)
    BY <1>4 DEF SaveScan
  <2> QED
    BY <2>1, UnlockHost
<1>5. ASSUME NEW p \in Processes, OpenFails(p) \/ EmitScan(p) \/ KillScan(p) PROVE HostTypeOK' /\ Held'
  BY <1>5, EndHost, BreakHost DEF OpenFails, EmitScan, KillScan
<1> QED
  BY <1>1, <1>2, <1>3, <1>4, <1>5 DEF ScanNext

\* The types, and what the runs remember.
TypesInv ==
  /\ MonitorsTypeOK
  /\ subject = "service" => \A q \in Processes : WatchLocal(pc[q], loc[q])
  /\ subject = "app" => \A q \in Processes : AppLocal(pc[q], loc[q])
  /\ subject = "fim" => \A q \in Processes : FimLocal(pc[q], loc[q])
  /\ subject = "nginx" => \A q \in Processes : NginxLocal(pc[q], loc[q])

LEMMA InitTypesInv ==
  ASSUME Init
  PROVE  TypesInv
<1>1. \A q \in Processes : pc[q] = "idle" /\ loc[q] = NoLocals
  BY DEF Init, HostInit
<1>2. HostTypeOK /\ Held
  <2>1. subject \in Subjects /\ clock \in 1..(MaxClock + 1) /\ mishaps \in 0..MaxMishaps
    BY HostAssumption DEF Init, HostInit
  <2>2. lock \in [Lock -> Processes \cup {NoProcess}] /\ \A p \in Processes : \A l \in Lock : lock[l] # p
    BY HostAssumption DEF Init, HostInit
  <2>3. pc \in [Processes -> Phases] /\ DOMAIN loc = Processes
    BY PhasesAre DEF Init, HostInit
  <2> QED
    BY <1>1, <2>1, <2>2, <2>3 DEF HostTypeOK, Held
<1>3. WatchTypeOK /\ AppTypeOK
  <2>1. 0 \in 0..(MaxClock + 1)
    BY HostAssumption
  <2>2. WatchInit /\ AppInit
    BY DEF Init
  <2>3. WatchTypeOK
    BY <2>1, <2>2 DEF WatchInit, WatchTypeOK, NoWatch
  <2> QED
    BY <2>2, <2>3 DEF AppInit, AppTypeOK
<1>4. ScanTypeOK
  BY InitScanInv, ScanTypes DEF Init
<1>5. FimTypeOK
  <2>1. AllMissing \in [Files -> Hash]
    BY DEF AllMissing, Hash
  <2> QED
    BY <2>1 DEF Init, FimInit, FimTypeOK, Hash
<1>6. TimerTypeOK
  BY DEF Init, TimerInit, TimerTypeOK, Content, Unsure
<1>7. NginxTypeOK
  <2>1. http \in BOOLEAN /\ snippet \in BOOLEAN /\ cert \in BOOLEAN /\ misled \in BOOLEAN
    BY DEF Init, NginxInit
  <2>2. vhost \in {NoVhost, Vhost(FALSE, cert), Vhost(snippet, cert)}
    BY DEF Init, NginxInit
  <2>3. NoVhost \in Vhosts /\ \A i, s \in BOOLEAN : Vhost(i, s) \in Vhosts
    BY DEF NoVhost, Vhost, Vhosts
  <2>4. vhost \in Vhosts
    BY <2>1, <2>2, <2>3
  <2> QED
    BY <2>1, <2>4 DEF NginxTypeOK, Vhosts
<1>8. \A q \in Processes :
        WatchLocal(pc[q], loc[q]) /\ AppLocal(pc[q], loc[q]) /\ FimLocal(pc[q], loc[q]) /\ NginxLocal(pc[q], loc[q])
  BY <1>1 DEF WatchLocal, AppLocal, FimLocal, NginxLocal, Captured, Hardening, PuttingBack
<1> QED
  BY <1>2, <1>3, <1>4, <1>5, <1>6, <1>7, <1>8 DEF TypesInv, MonitorsTypeOK, Held, Exclusive

LEMMA NextTypesInv ==
  ASSUME TypesInv, MonitorsInv, (subject = "scan" => ScanTypeOK)', [Next]_vars
  PROVE  TypesInv'
<1>1. subject' = subject
  BY SubjectStays
<1>2. Held /\ HostTypeOK /\ WatchTypeOK /\ AppTypeOK /\ ScanTypeOK /\ FimTypeOK /\ TimerTypeOK /\ NginxTypeOK
  BY DEF TypesInv, MonitorsTypeOK, Held, Exclusive
<1>3. UNCHANGED watchVars => WatchTypeOK'
  BY <1>2 DEF watchVars, WatchTypeOK
<1>4. UNCHANGED appVars => AppTypeOK'
  BY <1>2 DEF appVars, AppTypeOK
<1>5. UNCHANGED scanVars => ScanTypeOK'
  BY <1>2 DEF scanVars, ScanTypeOK
<1>6. UNCHANGED fimVars => FimTypeOK'
  BY <1>2 DEF fimVars, FimTypeOK
<1>7. UNCHANGED timerVars => TimerTypeOK'
  BY <1>2 DEF timerVars, TimerTypeOK
<1>8. UNCHANGED nginxVars => NginxTypeOK'
  BY <1>2 DEF nginxVars, NginxTypeOK
<1>a. /\ Held' /\ HostTypeOK' /\ WatchTypeOK' /\ AppTypeOK' /\ ScanTypeOK' /\ FimTypeOK'
      /\ TimerTypeOK' /\ NginxTypeOK'
      => MonitorsTypeOK'
  BY DEF MonitorsTypeOK, Held, Exclusive
<1> USE <1>1, <1>2, <1>3, <1>4, <1>5, <1>6, <1>7, <1>8, <1>a
<1>9. CASE UNCHANGED vars \/ TimePasses
  <2>1. UNCHANGED <<watchVars, appVars, scanVars, fimVars, timerVars, nginxVars, lock, pc, loc, mishaps>>
        /\ (clock' = clock \/ (clock < MaxClock /\ clock' = clock + 1))
    BY <1>9 DEF vars, hostVars, TimePasses, Tick
  <2>2. HostTypeOK' /\ Held'
    BY <2>1, HostAssumption DEF HostTypeOK, Held
  <2>3. \A q \in Processes :
          /\ WatchLocal(pc[q], loc[q]) => WatchLocal(pc[q], loc[q])'
          /\ AppLocal(pc[q], loc[q]) => AppLocal(pc[q], loc[q])'
          /\ FimLocal(pc[q], loc[q]) => FimLocal(pc[q], loc[q])'
          /\ NginxLocal(pc[q], loc[q]) => NginxLocal(pc[q], loc[q])'
    BY <2>1 DEF WatchLocal, AppLocal, FimLocal, NginxLocal
  <2> QED
    BY <2>1, <2>2, <2>3 DEF TypesInv
<1>10. CASE subject = "service" /\ WatchNext /\ UNCHANGED <<appVars, scanVars, fimVars, timerVars, nginxVars>>
  BY <1>10, WatchTypes DEF TypesInv
<1>11. CASE subject = "app" /\ AppNext /\ UNCHANGED <<watchVars, scanVars, fimVars, timerVars, nginxVars>>
  BY <1>11, AppTypes DEF TypesInv
<1>12. CASE subject = "scan" /\ ScanNext /\ UNCHANGED <<watchVars, appVars, fimVars, timerVars, nginxVars>>
  <2>1. ScanTypeOK'
    BY <1>12
  <2> QED
    BY <1>12, <2>1, ScanHost DEF TypesInv
<1>13. CASE subject = "fim" /\ FimNext /\ UNCHANGED <<watchVars, appVars, scanVars, timerVars, nginxVars>>
  BY <1>13, FimTypes DEF TypesInv
<1>14. CASE subject = "timer" /\ TimerNext /\ UNCHANGED <<watchVars, appVars, scanVars, fimVars, nginxVars>>
  BY <1>14, TimerTypes DEF TypesInv, MonitorsInv
<1>15. CASE subject = "nginx" /\ NginxNext /\ UNCHANGED <<watchVars, appVars, scanVars, fimVars, timerVars>>
  <2>1. NginxTyped
    BY <1>15 DEF TypesInv, NginxTyped
  <2>2. NginxTyped'
    BY <1>15, <2>1, NginxTypes
  <2> QED
    BY <1>15, <2>2 DEF TypesInv, NginxTyped
<1> QED
  BY <1>9, <1>10, <1>11, <1>12, <1>13, <1>14, <1>15 DEF Next

\* Every variable of the monitors has its type, whoever is idle holds nothing, and of the runs of
\* the watchdog, of the application monitor and of the scan one at a time is between its lock and
\* its events.
THEOREM MonitorsTyped == Spec => []MonitorsTypeOK
<1>1. Init => TypesInv
  BY InitTypesInv
<1>2. TypesInv /\ MonitorsInv /\ (subject = "scan" => ScanTypeOK)' /\ [Next]_vars => TypesInv'
  BY NextTypesInv
<1>3. MonitorsInv => (subject = "scan" => ScanTypeOK)
  BY ScanTypes DEF MonitorsInv
<1>4. TypesInv => MonitorsTypeOK
  BY DEF TypesInv
<1> QED
  BY <1>1, <1>2, <1>3, <1>4, MonitorsInvariant, PTL DEF Spec

-----------------------------------------------------------------------------
(* nginx beside the rest *)

\* The files of nginx, when the behaviour is about them; otherwise nobody writes them.
FilesInv == IF subject = "nginx" THEN NInv ELSE Loads

LEMMA InitFilesInv ==
  ASSUME Init
  PROVE  FilesInv
<1>1. CASE subject = "nginx"
  BY <1>1, InitNInv DEF Init, FilesInv
<1>2. CASE subject # "nginx"
  BY <1>2 DEF Init, FilesInv, Loads
<1> QED
  BY <1>1, <1>2

LEMMA NextFilesInv ==
  ASSUME FilesInv, [Next]_vars
  PROVE  FilesInv'
<1>1. subject' = subject
  BY SubjectStays
<1>2. CASE subject = "nginx"
  <2>1. [NginxNext]_nvars
    BY <1>2 DEF Next, TimePasses, vars, nvars
  <2>2. NInv'
    BY <1>2, <2>1, NextNInv DEF FilesInv
  <2> QED
    BY <1>1, <1>2, <2>2 DEF FilesInv
<1>3. CASE subject # "nginx"
  <2>1. UNCHANGED nginxVars
    BY <1>3 DEF Next, TimePasses, vars
  <2> QED
    BY <1>1, <1>3, <2>1 DEF FilesInv, Loads, nginxVars
<1> QED
  BY <1>2, <1>3

\* Of the whole host: what is on disk for nginx can be loaded at every moment, but while a hardening
\* puts its files back, while a deploy tests a virtual host with a certificate that the site never
\* got, and after a command was misled by one of these.
THEOREM HostLoads == Spec => []ConfigLoads
<1>1. Init => FilesInv
  BY InitFilesInv
<1>2. FilesInv /\ [Next]_vars => FilesInv'
  BY NextFilesInv
<1>3. FilesInv => ConfigLoads
  BY FilesFirm DEF FilesInv, ConfigLoads
<1> QED
  BY <1>1, <1>2, <1>3, PTL DEF Spec

==============================================================================
