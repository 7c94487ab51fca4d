----------------------------- MODULE MonitorHost -----------------------------
(***************************************************************************)
(* What the monitors of LarOps have in common: each `larops monitor ...    *)
(* run` is a process that a timer or an operator starts; it takes the lock *)
(* of its monitor without waiting, works under it, saves its state file,   *)
(* gives the lock back and only then emits its events.  It can be killed   *)
(* at any point.  The monitors share no state: a behaviour is about one of *)
(* them, the subject.                                                      *)
(***************************************************************************)
EXTENDS Integers, FiniteSets, Sequences

CONSTANTS
  Processes, NoProcess,
  Subjects,      \* of "service", "app", "scan", "fim", "timer", "nginx"
  MaxClock,      \* bound: time
  MaxMishaps     \* bound: kills and calls that fail

ASSUME HostAssumption ==
  /\ NoProcess \notin Processes
  /\ Subjects \subseteq {"service", "app", "scan", "fim", "timer", "nginx"}
  /\ MaxClock \in Nat /\ MaxMishaps \in Nat

VARIABLES
  subject,
  clock,
  lock,        \* the holder of each lock
  pc, loc,     \* the phase of each process, and what it remembers
  mishaps      \* faults so far

hostVars == <<subject, clock, lock, pc, loc, mishaps>>

\* The locks of the runs, of the commands for the timers and of those which write for nginx.
Lock == {"run", "init", "enable", "disable", "secure", "app", "site", "ssl"}

\* The phases of a run or a command, of whichever subject.
Phases ==
  {"idle", "emit", "probe", "restart", "probe again", "save", "check", "compare", "stat", "read",
   "snapshot", "unlock", "call", "http", "snippet", "inject", "test limits", "reload limits",
   "restore http", "restore snippet", "restore server", "issue", "capture", "render", "write",
   "test", "reload", "restore"}

NoLocals == [phase |-> "idle"]

Mishap == mishaps < MaxMishaps /\ mishaps' = mishaps + 1

Goto(p, label) == pc' = [pc EXCEPT ![p] = label]

\* Mutant of Take: the lock is taken over from the run that has it.
TakeOver(p, s, l, label, locals) ==
  /\ subject = s
  /\ pc[p] = "idle"
  /\ lock' = [lock EXCEPT ![l] = p]
  /\ loc' = [loc EXCEPT ![p] = locals]
  /\ Goto(p, label)
  /\ UNCHANGED <<subject, clock, mishaps>>

\* CommandLock: a busy lock ends the command, with an event that says so and nothing else.
Take(p, s, l, label, locals) ==
  /\ subject = s
  /\ pc[p] = "idle"
  /\ lock[l] = NoProcess
  /\ lock' = [lock EXCEPT ![l] = p]
  /\ loc' = [loc EXCEPT ![p] = locals]
  /\ Goto(p, label)
  /\ UNCHANGED <<subject, clock, mishaps>>

\* On to the next phase, with what the process remembers by then.
Continue(p, label, locals) ==
  /\ Goto(p, label)
  /\ loc' = [loc EXCEPT ![p] = locals]
  /\ UNCHANGED <<subject, clock, lock, mishaps>>

GiveBack(p) == lock' = [l \in Lock |-> IF lock[l] = p THEN NoProcess ELSE lock[l]]

\* The lock is given back, the events are still to come.
Unlock(p, label, locals) ==
  /\ GiveBack(p)
  /\ Goto(p, label)
  /\ loc' = [loc EXCEPT ![p] = locals]
  /\ UNCHANGED <<subject, clock, mishaps>>

Stop(p) == GiveBack(p) /\ Goto(p, "idle") /\ loc' = [loc EXCEPT ![p] = NoLocals]

End(p) == Stop(p) /\ UNCHANGED <<subject, clock, mishaps>>

\* A kill, or a call that fails and ends the command.
Break(p) == Mishap /\ Stop(p) /\ UNCHANGED <<subject, clock>>

Tick ==
  /\ clock < MaxClock
  /\ clock' = clock + 1
  /\ UNCHANGED <<subject, lock, pc, loc, mishaps>>

HostInit ==
  /\ subject \in Subjects
  /\ clock = 1
  /\ lock = [l \in Lock |-> NoProcess]
  /\ pc = [p \in Processes |-> "idle"]
  /\ loc = [p \in Processes |-> NoLocals]
  /\ mishaps = 0

\* Every variable has its type, and what is idle remembers nothing and holds no lock.
HostTypeOK ==
  /\ subject \in Subjects
  /\ clock \in 1..(MaxClock + 1)
  /\ lock \in [Lock -> Processes \cup {NoProcess}]
  /\ pc \in [Processes -> Phases]
  /\ DOMAIN loc = Processes
  /\ mishaps \in 0..MaxMishaps
  /\ \A p \in Processes : pc[p] = "idle" => loc[p] = NoLocals /\ \A l \in Lock : lock[l] # p

=============================================================================
