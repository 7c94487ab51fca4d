-------------------------- MODULE TelegramAdapter --------------------------
(***************************************************************************)
(* The event stream events.jsonl and the dispatchers which forward its     *)
(* alerts to Telegram: the daemon `notify telegram watch` and the command  *)
(* `notify telegram run-once`, which share one state file and no lock.     *)
(* Commands append events; something outside may rotate the stream, by     *)
(* rename or by truncation; Telegram may refuse a message; a dispatcher    *)
(* may be killed.  Positions in the stream are counted in lines.           *)
(***************************************************************************)
EXTENDS Integers, Sequences, FiniteSets

CONSTANTS
  Events,        \* the events emitted in a behaviour, each with its event_id
  Alerts,        \* those whose severity reaches min_severity
  Dispatchers,   \* the dispatching processes
  BatchSize,     \* batch_size
  MaxSent,       \* how many event ids the state file keeps (1000)
  MaxRotations,  \* bound: rotations in a behaviour
  MaxAborts,     \* bound: dispatches cut short in a behaviour
  Faults         \* what may happen, of "rename", "truncate", "refuse", "kill"

ASSUME EventsAssumption == IsFiniteSet(Events)
ASSUME AlertsAssumption == Alerts \subseteq Events
ASSUME BatchSizeAssumption == BatchSize \in Nat \ {0}
ASSUME BoundsAssumption == MaxSent \in Nat /\ MaxRotations \in Nat /\ MaxAborts \in Nat
ASSUME FaultsAssumption == Faults \subseteq {"rename", "truncate", "refuse", "kill"}

VARIABLES
  (* the stream *)
  file,       \* the lines of events.jsonl
  inode,      \* which file that is, or NoFile
  mtime,      \* grows with every change of the file
  rotations,  \* rotations so far
  emitted,    \* events emitted so far
  emptied,    \* history: the mtime of the last truncation of this file, 0 if there was none
  outgrown,   \* history: a truncated stream grew beyond the size that a dispatcher knew
  (* the state file of the dispatchers *)
  state,      \* its last complete content
  torn,       \* it is empty or garbled: its writer is not done, or was killed
  (* the dispatchers and what reached the chat *)
  pc, loc,
  times,      \* how often each event was delivered, up to MaxTimes
  aborts      \* dispatches cut short so far

stream == <<file, inode, mtime, rotations, emitted, emptied, outgrown>>
vars == <<file, inode, mtime, rotations, emitted, emptied, outgrown, state, torn, pc, loc, times, aborts>>

NoFile == 0

\* Bound: where the count of deliveries stops, one more than any property tells apart.
MaxTimes == MaxAborts + 2

\* _default_state
DefaultState == [offset |-> 0, sent |-> <<>>, inode |-> NoFile, size |-> 0, mtime |-> 0]

\* A dispatch remembers the state it loaded, then what it is going to save,
\* the events of its batch it has not handled, and whether another dispatch
\* wrote the state file while this one was writing it.
Idle == [state |-> DefaultState, batch |-> <<>>, mixed |-> FALSE]

SetOf(s) == {s[i] : i \in 1..Len(s)}

LastOf(s, n) == SubSeq(s, IF Len(s) > n THEN Len(s) - n + 1 ELSE 1, Len(s))

Goto(d, label) == pc' = [pc EXCEPT ![d] = label]

-----------------------------------------------------------------------------
(* The stream *)

\* What a dispatch that knows prev takes for a stream that only grew.
Overlooks(prev) == prev.inode = inode /\ prev.mtime < emptied /\ Len(file) >= prev.size

\* EventEmitter.emit: one line is appended, to a new file if there is none.
Emit(e) ==
  /\ e \notin emitted
  /\ emitted' = emitted \cup {e}
  /\ file' = Append(file, e)
  /\ inode' = IF inode = NoFile THEN rotations + 1 ELSE inode
  /\ mtime' = mtime + 1
  /\ outgrown' = (outgrown \/ Overlooks(state) \/ \E d \in Dispatchers : Overlooks(loc[d].state))
  /\ UNCHANGED <<rotations, emptied, state, torn, pc, loc, times, aborts>>

\* logrotate: the file is renamed away, or emptied in place (copytruncate).
Rotate ==
  /\ inode # NoFile
  /\ rotations < MaxRotations
  /\ rotations' = rotations + 1
  /\ file' = <<>>
  /\ \/ "rename" \in Faults /\ inode' = NoFile /\ emptied' = 0 /\ UNCHANGED mtime
     \/ "truncate" \in Faults /\ UNCHANGED inode /\ mtime' = mtime + 1 /\ emptied' = mtime'
  /\ UNCHANGED <<emitted, outgrown, state, torn, pc, loc, times, aborts>>

-----------------------------------------------------------------------------
(* dispatch_once *)

\* Mutant of Load: the ids of what was sent are not loaded.
LoadOffsetOnly(d) ==
  /\ pc[d] = "idle"
  /\ ~torn
  /\ loc' = [loc EXCEPT ![d] = [Idle EXCEPT !.state = [state EXCEPT !.sent = <<>>]]]
  /\ Goto(d, "stat")
  /\ UNCHANGED <<stream, state, torn, times, aborts>>

\* load_state.
Load(d) ==
  /\ pc[d] = "idle"
  /\ ~torn
  /\ loc' = [loc EXCEPT ![d] = [Idle EXCEPT !.state = state]]
  /\ Goto(d, "stat")
  /\ UNCHANGED <<stream, state, torn, times, aborts>>

\* A state file that is not JSON ends the dispatch before it did anything.
LoadFails(d) ==
  /\ pc[d] = "idle"
  /\ torn
  /\ UNCHANGED vars

\* The file is another one, is shorter than what was read, or was changed
\* without growing: it is read from its start.
Rotated(prev) ==
  /\ inode # NoFile
  /\ \/ prev.inode # inode
     \/ prev.offset > Len(file)
     \/ prev.mtime # 0 /\ prev.mtime # mtime /\ Len(file) <= prev.size

Stat(d) ==
  /\ pc[d] = "stat"
  /\ LET prev == loc[d].state
     IN  loc' = [loc EXCEPT ![d].state =
           [offset |-> IF Rotated(prev) THEN 0 ELSE prev.offset,
            sent   |-> prev.sent,
            inode  |-> inode,
            size   |-> Len(file),
            mtime  |-> IF inode = NoFile THEN 0 ELSE mtime]]
  /\ Goto(d, "read")
  /\ UNCHANGED <<stream, state, torn, times, aborts>>

\* Mutant of Read: the offset saved is the end of the file, not of the batch.
ReadToEnd(d) ==
  /\ pc[d] = "read"
  /\ LET from == loc[d].state.offset
         upto == IF from + BatchSize < Len(file) THEN from + BatchSize ELSE Len(file)
     IN  loc' = [loc EXCEPT ![d].batch = SubSeq(file, from + 1, upto),
                            ![d].state.offset = IF from < upto THEN Len(file) ELSE from]
  /\ Goto(d, "send")
  /\ UNCHANGED <<stream, state, torn, times, aborts>>

\* _read_events: at most a batch, from the offset on; the file may have been
\* rotated or may have grown since it was looked at.
Read(d) ==
  /\ pc[d] = "read"
  /\ LET from == loc[d].state.offset
         upto == IF from + BatchSize < Len(file) THEN from + BatchSize ELSE Len(file)
     IN  loc' = [loc EXCEPT ![d].batch = SubSeq(file, from + 1, upto),
                            ![d].state.offset = IF from < upto THEN upto ELSE from]
  /\ Goto(d, "send")
  /\ UNCHANGED <<stream, state, torn, times, aborts>>

\* An event that is no alert, or was sent before, is passed over.
Skip(d) ==
  /\ pc[d] = "send"
  /\ loc[d].batch # <<>>
  /\ Head(loc[d].batch) \in SetOf(loc[d].state.sent) \cup (Events \ Alerts)
  /\ loc' = [loc EXCEPT ![d].batch = Tail(@)]
  /\ UNCHANGED <<stream, state, torn, pc, times, aborts>>

Due(d, e) ==
  /\ pc[d] = "send"
  /\ loc[d].batch # <<>>
  /\ e = Head(loc[d].batch)
  /\ e \in Alerts /\ e \notin SetOf(loc[d].state.sent)

Send(d, e) ==
  /\ Due(d, e)
  /\ times' = [times EXCEPT ![e] = IF @ < MaxTimes THEN @ + 1 ELSE @]
  /\ loc' = [loc EXCEPT ![d].batch = Tail(@), ![d].state.sent = Append(@, e)]
  /\ UNCHANGED <<stream, state, torn, pc, aborts>>

Abort(d) ==
  /\ aborts < MaxAborts
  /\ aborts' = aborts + 1
  /\ Goto(d, "idle")
  /\ loc' = [loc EXCEPT ![d] = Idle]

\* Mutant of SendFails: the error is swallowed and the event passed over.
SendFailsQuietly(d) ==
  /\ "refuse" \in Faults
  /\ \E e \in Events : Due(d, e)
  /\ loc' = [loc EXCEPT ![d].batch = Tail(@)]
  /\ UNCHANGED <<stream, state, torn, pc, times, aborts>>

\* Telegram or the network refuses: the dispatch ends there, nothing is saved.
SendFails(d) ==
  /\ "refuse" \in Faults
  /\ \E e \in Events : Due(d, e)
  /\ Abort(d)
  /\ UNCHANGED <<stream, state, torn, times>>

\* save_state opens the file, which empties it, and writes it.  Of two that
\* write at once the later may leave the end of the earlier behind.
SaveBegin(d) ==
  /\ pc[d] = "send"
  /\ loc[d].batch = <<>>
  /\ torn' = TRUE
  /\ Goto(d, "saving")
  /\ UNCHANGED <<stream, state, loc, times, aborts>>

\* Mutant of SaveEnd: the list of ids is not cut.
SaveAllIds(d) ==
  /\ pc[d] = "saving"
  /\ state' = loc[d].state
  /\ torn' = FALSE
  /\ Goto(d, "idle")
  /\ loc' = [loc EXCEPT ![d] = Idle]
  /\ UNCHANGED <<stream, times, aborts>>

SaveEnd(d) ==
  /\ pc[d] = "saving"
  /\ state' = [loc[d].state EXCEPT !.sent = LastOf(@, MaxSent)]
  /\ torn' \in IF loc[d].mixed THEN BOOLEAN ELSE {FALSE}
  /\ Goto(d, "idle")
  /\ loc' = [o \in Dispatchers |->
               IF o = d THEN Idle
               ELSE IF pc[o] = "saving" THEN [loc[o] EXCEPT !.mixed = TRUE] ELSE loc[o]]
  /\ UNCHANGED <<stream, times, aborts>>

Kill(d) ==
  /\ "kill" \in Faults
  /\ pc[d] # "idle"
  /\ Abort(d)
  /\ UNCHANGED <<stream, state, torn, times>>

-----------------------------------------------------------------------------
Init ==
  /\ file = <<>> /\ inode = NoFile /\ mtime = 0 /\ rotations = 0 /\ emitted = {}
  /\ emptied = 0 /\ outgrown = FALSE
  /\ state = DefaultState /\ torn = FALSE
  /\ pc = [d \in Dispatchers |-> "idle"]
  /\ loc = [d \in Dispatchers |-> Idle]
  /\ times = [e \in Events |-> 0] /\ aborts = 0

Dispatch(d) ==
  \/ Load(d) \/ Stat(d) \/ Read(d) \/ Skip(d) \/ SaveBegin(d) \/ SaveEnd(d)
  \/ \E e \in Events : Send(d, e)

Next ==
  \/ \E e \in Events : Emit(e)
  \/ Rotate
  \/ \E d \in Dispatchers : Dispatch(d) \/ LoadFails(d) \/ SendFails(d) \/ Kill(d)

Spec == Init /\ [][Next]_vars

\* A dispatcher goes on (the daemon sleeps between two polls and systemd starts
\* it again), and Telegram does not refuse the same message for ever.
FairSpec ==
  /\ Spec
  /\ \A d \in Dispatchers : WF_vars(Dispatch(d))
  /\ \A d \in Dispatchers, e \in Events : SF_vars(Send(d, e))

-----------------------------------------------------------------------------
(* Properties *)

Count == 0..Cardinality(Events)

StateFile == [offset : Count, sent : Seq(Events), inode : 0..(MaxRotations + 1),
              size : Count, mtime : 0..(Cardinality(Events) + MaxRotations)]

\* Every variable has its type; the state file keeps at most MaxSent ids.
TypeOK ==
  /\ file \in Seq(Events) /\ inode \in 0..(MaxRotations + 1)
  /\ mtime \in Nat /\ emptied \in 0..mtime /\ outgrown \in BOOLEAN /\ rotations \in 0..MaxRotations /\ emitted \subseteq Events
  /\ state \in StateFile /\ Len(state.sent) <= MaxSent /\ torn \in BOOLEAN
  /\ pc \in [Dispatchers -> {"idle", "stat", "read", "send", "saving"}]
  /\ loc \in [Dispatchers -> [state : StateFile, batch : Seq(Events), mixed : BOOLEAN]]
  /\ times \in [Events -> 0..MaxTimes] /\ aborts \in 0..MaxAborts

\* No alert in the stream is passed over: what the next dispatch will not read
\* was delivered, although dispatchers overlap, are killed, are refused, and
\* look at the file, read it and save at different times, and also when the stream is renamed
\* or truncated, unless what was truncated grew beyond the size known before the next look.
\* It says nothing of when: a state file which a kill left torn stops every later dispatch.
UnreadAhead ==
  outgrown \/ \A i \in 1..Len(file) :
    file[i] \in Alerts /\ times[file[i]] = 0 => Rotated(state) \/ i > state.offset

\* A lone dispatcher repeats a message only when a dispatch was cut short
\* after sending it, once for each: a file that appears between the look at it
\* and its reading is read again, and the ids that were sent keep it silent.
RepeatsBounded == \A e \in Events : times[e] <= 1 + aborts

\* The stream and its dispatchers deliver every alert at least once.
Delivered == {e \in Events : times[e] > 0}
Delivery == INSTANCE AlertDelivery WITH EventIds <- Events, Severe <- Alerts,
                                        delivered <- Delivered
DeliverySpec == Delivery!DeliverySpec

=============================================================================
