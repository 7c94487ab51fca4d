------------------------------- MODULE LogScan -------------------------------
(***************************************************************************)
(* `larops monitor scan run`: suspicious requests in the access log of     *)
(* nginx, read from where the last run stopped and counted per address in a *)
(* window of time.  The lines here are suspicious and of one address; line *)
(* i of all that nginx ever wrote is written at times[i], as a whole.      *)
(***************************************************************************)
EXTENDS MonitorHost

CONSTANTS
  MaxLines,     \* bound: lines written
  MaxFiles,     \* bound: files under the name of the log, one after the other
  BatchLines,   \* --max-lines
  Window,       \* --window-seconds
  Threshold     \* --threshold-hits

ASSUME ScanAssumption == {MaxLines, MaxFiles, BatchLines, Window, Threshold} \subseteq Nat \ {0}

VARIABLES
  times,       \* when each line was written
  log,         \* the file of the log: whether it has its name, its inode, how many lines are not in it
  scan,        \* the state file, with two fields that are history: see NoScan
  alerted,     \* history: the last line that an alert counted
  unalerted,   \* history: a run was killed between the state file and its events
  swapped      \* history: a run asked for the inode of one file and read the next

scanVars == <<times, log, scan, alerted, unalerted, swapped>>

\* History: `read` has the lines that were read since the file was last lost, by the runs
\* which saved it, and `before` is log.before as it was when offset 0 of the file was read.
NoScan == [inode |-> 0, offset |-> 0, hits |-> <<>>, cutoff |-> 0, read |-> {}, before |-> 0]
BadScan == [NoScan EXCEPT !.offset = -1]

Size(file) == Len(times) - file.before

LastOf(hits) == IF hits = <<>> THEN 0 ELSE hits[Len(hits)]

\* _prune_recent_hits
Recent(hits, cutoff) ==
  LET kept[n \in 0..Len(hits)] ==
        IF n = 0 THEN <<>>
        ELSE IF times[hits[n]] >= cutoff THEN Append(kept[n - 1], hits[n]) ELSE kept[n - 1]
  IN  kept[Len(hits)]

-----------------------------------------------------------------------------
(* nginx and logrotate *)

WriteLine ==
  /\ subject = "scan" /\ log.there
  /\ Len(times) < MaxLines
  /\ times' = Append(times, clock)
  /\ UNCHANGED <<hostVars, log, scan, alerted, unalerted, swapped>>

\* The log is renamed; what was not read of it never will be.
Rename ==
  /\ subject = "scan" /\ log.there /\ log.inode < MaxFiles
  /\ log' = [log EXCEPT !.there = FALSE]
  /\ UNCHANGED <<hostVars, times, scan, alerted, unalerted, swapped>>

\* The inode of the renamed file is in use still.
CreateLog ==
  /\ subject = "scan" /\ ~log.there
  /\ log' = [there |-> TRUE, inode |-> log.inode + 1, before |-> Len(times)]
  /\ UNCHANGED <<hostVars, times, scan, alerted, unalerted, swapped>>

\* The log is emptied in place.
Truncate ==
  /\ subject = "scan" /\ log.there /\ Size(log) > 0
  /\ log' = [log EXCEPT !.before = Len(times)]
  /\ UNCHANGED <<hostVars, times, scan, alerted, unalerted, swapped>>

-----------------------------------------------------------------------------
(* The run *)

\* A state file which is no JSON is as good as none.
LoadScan(p) ==
  /\ Take(p, "scan", "run", "stat",
          LET saved == IF scan = BadScan THEN NoScan ELSE scan
          IN  [saved |-> saved, cutoff |-> clock - Window, hits |-> Recent(saved.hits, clock - Window)])
  /\ UNCHANGED scanVars

\* Without a log the hits are pruned and saved, otherwise the offset is good for the file it was
\* saved of, unless that has become shorter.
StatLog(p) ==
  /\ subject = "scan" /\ pc[p] = "stat"
  /\ LET r == loc[p]
     IN  IF ~log.there
         THEN Continue(p, "save", [batch |-> <<>>, state |-> [r.saved EXCEPT !.hits = r.hits, !.cutoff = r.cutoff]])
         ELSE Continue(p, "read",
                [cutoff |-> r.cutoff, hits |-> r.hits, inode |-> log.inode, size |-> Size(log),
                 read |-> r.saved.read, before |-> r.saved.before,
                 offset |-> IF r.saved.inode # log.inode \/ r.saved.offset > Size(log) THEN 0
                            ELSE r.saved.offset])
  /\ UNCHANGED scanVars

\* The lines of the file from the offset on, as many as a run may read: of the file that is
\* there by now.
Batch(offset) ==
  LET end == IF offset > Size(log) THEN offset
             ELSE IF offset + BatchLines < Size(log) THEN offset + BatchLines ELSE Size(log)
  IN  [i \in 1..(end - offset) |-> log.before + offset + i]

\* The history of a run that reads from the offset on.
ReadBy(r) == r.read \cup {log.before + i : i \in (r.offset + 1)..(r.offset + Len(Batch(r.offset)))}
BeforeOf(r) == IF r.offset = 0 THEN log.before ELSE r.before

\* Mutant of ReadLog: the next run starts at the size that was asked for before.
ReadLogTwice(p) ==
  /\ subject = "scan" /\ pc[p] = "read" /\ log.there
  /\ LET r == loc[p]
         batch == Recent(Batch(r.offset), r.cutoff)
     IN  Continue(p, "save", [batch |-> batch,
           state |-> [inode |-> r.inode, cutoff |-> r.cutoff, hits |-> r.hits \o batch, offset |-> r.size,
                      read |-> ReadBy(r), before |-> BeforeOf(r)]])
  /\ swapped' = (swapped \/ log.inode # loc[p].inode)
  /\ UNCHANGED <<times, log, scan, alerted, unalerted>>

\* Lines older than the window do not count, however many there are.
ReadLog(p) ==
  /\ subject = "scan" /\ pc[p] = "read" /\ log.there
  /\ LET r == loc[p]
         batch == Recent(Batch(r.offset), r.cutoff)
     IN  Continue(p, "save", [batch |-> batch,
           state |-> [inode |-> r.inode, cutoff |-> r.cutoff, hits |-> r.hits \o batch,
                      offset |-> r.offset + Len(Batch(r.offset)),
                      read |-> ReadBy(r), before |-> BeforeOf(r)]])
  /\ swapped' = (swapped \/ log.inode # loc[p].inode)
  /\ UNCHANGED <<times, log, scan, alerted, unalerted>>

\* The log was renamed since: nothing handles that, and nothing is saved.
OpenFails(p) ==
  /\ subject = "scan" /\ pc[p] = "read" /\ ~log.there
  /\ End(p)
  /\ UNCHANGED scanVars

\* An alert needs a line in this batch, and counts the whole window.
SaveScan(p) ==
  /\ subject = "scan" /\ pc[p] = "save"
  /\ scan' = loc[p].state
  /\ LET alert == loc[p].batch # <<>> /\ Len(loc[p].state.hits) >= Threshold
     IN  Unlock(p, "emit", [alert |-> alert, last |-> IF alert THEN LastOf(loc[p].state.hits) ELSE 0])
  /\ UNCHANGED <<times, log, alerted, unalerted, swapped>>

EmitScan(p) ==
  /\ subject = "scan" /\ pc[p] = "emit"
  /\ alerted' = IF loc[p].alert /\ loc[p].last > alerted THEN loc[p].last ELSE alerted
  /\ End(p)
  /\ UNCHANGED <<times, log, scan, unalerted, swapped>>

\* A kill, which can leave an empty state file, or a failing read of the log.
KillScan(p) ==
  /\ subject = "scan" /\ pc[p] # "idle"
  /\ Break(p)
  /\ \/ UNCHANGED scan
     \/ pc[p] = "save" /\ scan' = BadScan
  /\ unalerted' = (unalerted \/ (pc[p] = "emit" /\ loc[p].alert))
  /\ UNCHANGED <<times, log, alerted, swapped>>

ScanInit ==
  /\ times = <<>>
  /\ log = [there |-> TRUE, inode |-> 1, before |-> 0]
  /\ scan = NoScan
  /\ alerted = 0 /\ unalerted = FALSE /\ swapped = FALSE

ScanNext ==
  \/ WriteLine \/ Rename \/ CreateLog \/ Truncate
  \/ \E p \in Processes : LoadScan(p) \/ StatLog(p) \/ ReadLog(p) \/ OpenFails(p) \/ SaveScan(p) \/ EmitScan(p) \/ KillScan(p)

-----------------------------------------------------------------------------
(* Properties *)

ScanTypeOK ==
  /\ times \in Seq(1..(MaxClock + 1)) /\ alerted \in 0..Len(times)
  /\ log \in [there : BOOLEAN, inode : 1..MaxFiles, before : 0..Len(times)]
  /\ scan.inode \in 0..MaxFiles /\ scan.offset \in -1..MaxLines
  /\ scan.hits \in Seq(1..Len(times))
  /\ scan.read \subseteq 1..Len(times) /\ scan.before \in 0..log.before
  /\ {unalerted, swapped} \subseteq BOOLEAN

\* No line counts twice, through rotations, kills, state files that are lost and lines which
\* nginx writes during a run, unless the log was swapped between its stat and its open.
CountedOnce == swapped \/ \A i, j \in DOMAIN scan.hits : i < j => scan.hits[i] < scan.hits[j]

\* Every line that a run has read and that is in the window of the last one counts, whichever
\* file it was in and however often that was rotated or truncated since, as long as the state
\* file was not lost.
CountedAll ==
  \A i \in scan.read : times[i] >= scan.cutoff => \E j \in DOMAIN scan.hits : scan.hits[j] = i

\* Every line before the offset has been read, unless the log was truncated since it was read
\* from its start.  A truncation is noticed by the size only: of a log that has grown beyond
\* the offset again by the next run the lines before the offset are never read.
AllRead ==
  scan.inode = log.inode /\ scan.before = log.before => \A i \in 1..scan.offset : log.before + i \in scan.read

\* When the hits in the state file reach the threshold there was an alert which counted the
\* last of them, or it is about to come, unless the run was killed before it.
ThresholdAlerts ==
  Len(scan.hits) >= Threshold =>
    \/ alerted >= LastOf(scan.hits) \/ unalerted
    \/ \E p \in Processes : pc[p] = "emit" /\ loc[p].alert /\ loc[p].last >= LastOf(scan.hits)

HitsExact == subject = "scan" => CountedOnce /\ CountedAll /\ AllRead /\ ThresholdAlerts

=============================================================================
