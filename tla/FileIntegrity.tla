---------------------------- MODULE FileIntegrity ----------------------------
(***************************************************************************)
(* `larops monitor fim`: hashes of the watched files in a baseline, which  *)
(* `init` writes, under a lock of its own, and `run` compares and, with    *)
(* --update-baseline, replaces.  The files are hashed one after the other, *)
(* while the site writes them.                                             *)
(***************************************************************************)
EXTENDS MonitorHost

CONSTANTS
  Files,       \* the watched paths, in the order they are hashed
  Contents,    \* what a file can hold
  Updates      \* the values of --update-baseline in use

ASSUME FimAssumption ==
  /\ Files \subseteq Nat
  /\ Contents \cap {"missing"} = {}
  /\ Updates \subseteq BOOLEAN

VARIABLES
  file,        \* what is in each file
  baseline,    \* whether the baseline is there, and the hashes it has
  known,       \* history: what of each file an init took or an event told
  untold       \* history: a run with --update-baseline was killed before its last event

fimVars == <<file, baseline, known, untold>>

Hash == Contents \cup {"missing"}

AllMissing == [f \in Files |-> "missing"]

-----------------------------------------------------------------------------

\* A deployment, an operator or an intruder writes or deletes a file.
FileChanges ==
  /\ subject = "fim"
  /\ \E f \in Files : \E c \in Hash \ {file[f]} : file' = [file EXCEPT ![f] = c]
  /\ UNCHANGED <<hostVars, baseline, known, untold>>

LockInit(p) ==
  /\ Take(p, "fim", "init", "snapshot",
          [init |-> TRUE, update |-> TRUE, old |-> AllMissing, snapshot |-> AllMissing, left |-> Files])
  /\ UNCHANGED fimVars

\* The baseline is read before the files; one that is not there, or is no JSON, ends the run.
LockRun(p, update) ==
  /\ baseline.status = "written"
  /\ Take(p, "fim", "run", "snapshot",
          [init |-> FALSE, update |-> update, old |-> baseline.files, snapshot |-> AllMissing, left |-> Files])
  /\ UNCHANGED fimVars

\* build_snapshot hashes the next file; one that is gone since the list was made is missing as
\* well, or ends the run.
HashNext(p) ==
  /\ subject = "fim" /\ pc[p] = "snapshot" /\ loc[p].left # {}
  /\ LET f == CHOOSE f \in loc[p].left : \A g \in loc[p].left : f <= g
     IN  Continue(p, "snapshot", [loc[p] EXCEPT !.snapshot[f] = file[f], !.left = @ \ {f}])
  /\ UNCHANGED fimVars

Changed(r) == {f \in Files : r.snapshot[f] # r.old[f]}

\* Mutant of Compare: the changes are those from the baseline as it is now.
CompareWithSaved(p) ==
  /\ subject = "fim" /\ pc[p] = "snapshot" /\ loc[p].left = {}
  /\ Continue(p, IF loc[p].update THEN "save" ELSE "unlock",
       [init |-> loc[p].init, update |-> loc[p].update, snapshot |-> loc[p].snapshot,
        tell |-> IF loc[p].update THEN {} ELSE Changed(loc[p])])
  /\ UNCHANGED fimVars

\* Created, deleted and changed files.
Compare(p) ==
  /\ subject = "fim" /\ pc[p] = "snapshot" /\ loc[p].left = {}
  /\ Continue(p, IF loc[p].update THEN "save" ELSE "unlock",
       [init |-> loc[p].init, update |-> loc[p].update, snapshot |-> loc[p].snapshot,
        tell |-> IF loc[p].init THEN {} ELSE Changed(loc[p])])
  /\ UNCHANGED fimVars

SaveBaseline(p) ==
  /\ subject = "fim" /\ pc[p] = "save"
  /\ baseline' = [status |-> "written", files |-> loc[p].snapshot]
  /\ known' = IF loc[p].init THEN [f \in Files |-> known[f] \cup {loc[p].snapshot[f]}] ELSE known
  /\ Unlock(p, "emit", loc[p])
  /\ UNCHANGED <<file, untold>>

UnlockRun(p) ==
  /\ subject = "fim" /\ pc[p] = "unlock"
  /\ Unlock(p, "emit", loc[p])
  /\ UNCHANGED fimVars

\* One event for each file.
EmitChange(p) ==
  /\ subject = "fim" /\ pc[p] = "emit" /\ loc[p].tell # {}
  /\ \E f \in loc[p].tell :
       /\ known' = [known EXCEPT ![f] = @ \cup {loc[p].snapshot[f]}]
       /\ Continue(p, "emit", [loc[p] EXCEPT !.tell = @ \ {f}])
  /\ UNCHANGED <<file, baseline, untold>>

EndFim(p) ==
  /\ subject = "fim" /\ pc[p] = "emit" /\ loc[p].tell = {}
  /\ End(p)
  /\ UNCHANGED fimVars

\* A kill, or a file that cannot be read.
KillFim(p) ==
  /\ subject = "fim" /\ pc[p] # "idle"
  /\ Break(p)
  /\ \/ UNCHANGED baseline
     \/ pc[p] = "save" /\ baseline' = [status |-> "invalid", files |-> AllMissing]
  /\ untold' = (untold \/ (pc[p] = "emit" /\ loc[p].update /\ loc[p].tell # {}))
  /\ UNCHANGED <<file, known>>

FimInit ==
  /\ file \in [Files -> Contents]
  /\ baseline = [status |-> "none", files |-> AllMissing]
  /\ known = [f \in Files |-> {}]
  /\ untold = FALSE

FimNext ==
  \/ FileChanges
  \/ \E p \in Processes :
       \/ LockInit(p) \/ \E update \in Updates : LockRun(p, update)
       \/ HashNext(p) \/ Compare(p) \/ SaveBaseline(p) \/ UnlockRun(p) \/ EmitChange(p)
       \/ EndFim(p) \/ KillFim(p)

-----------------------------------------------------------------------------
(* Properties *)

FimTypeOK ==
  /\ file \in [Files -> Hash]
  /\ baseline \in [status : {"none", "written", "invalid"}, files : [Files -> Hash]]
  /\ known \in [Files -> SUBSET Hash]
  /\ untold \in BOOLEAN

\* Whatever the baseline takes as good, an init took it or an event told of it, or is about
\* to: also when an init and a run, which have different locks, overlap and one writes over
\* the baseline of the other, and when a file changes while the others are hashed.  Only a kill
\* between the baseline and the last event leaves a change that nobody is told of.
BaselineKnown ==
  subject = "fim" /\ baseline.status = "written" => \A f \in Files :
    \/ baseline.files[f] \in known[f] \/ untold
    \/ \E p \in Processes : pc[p] = "emit" /\ f \in loc[p].tell /\ loc[p].snapshot[f] = baseline.files[f]

=============================================================================
