------------------------ MODULE TelegramAdapter_proofs ------------------------
(***************************************************************************)
(* Proofs about TelegramAdapter, for any finite set of events, any number  *)
(* of dispatchers and any faults: the types, that no alert is passed over, *)
(* and that only emitted alerts are delivered; and that a lone dispatcher  *)
(* repeats a message only for a dispatch that was cut short.  IInv is      *)
(* inductive; the properties follow from it.                               *)
(***************************************************************************)
EXTENDS TelegramAdapter, SequenceTheorems, FiniteSetTheorems, TLAPS

-----------------------------------------------------------------------------
(* The inductive invariant *)

Locals == [state : StateFile, batch : Seq(Events), mixed : BOOLEAN]

\* The file that s is about is there and was not truncated since s saw it.
Current(s) == inode # NoFile /\ s.inode = inode /\ emptied <= s.mtime

\* What s remembers of the stream was so once: what it takes for the same file,
\* without being rotated, has at least the lines that s has read.
Known(s) ==
  /\ s.inode <= rotations + 1 /\ (inode = NoFile => s.inode <= rotations)
  /\ s.mtime <= mtime /\ (s.inode # NoFile => s.mtime > 0)
  /\ Current(s) => s.offset <= Len(file)
  /\ inode # NoFile /\ s.inode = inode /\ s.mtime < emptied => outgrown \/ Len(file) <= s.size

\* What s has read was delivered, is no alert, or is still pending.
Covered(s, pending) ==
  outgrown \/ (Current(s) => \A i \in 1..s.offset :
    file[i] \in Alerts /\ times[file[i]] = 0 => file[i] \in pending)

StreamInv ==
  /\ inode = NoFile => file = <<>>
  /\ inode # NoFile => mtime > 0
  /\ inode <= rotations + 1
  /\ Len(file) <= Cardinality(emitted) /\ mtime <= Cardinality(emitted) + rotations
  /\ SetOf(file) \subseteq emitted

StateInv == Known(state) /\ Covered(state, {}) /\ SetOf(state.sent) \subseteq Delivered

LocInv(d) ==
  /\ Known(loc[d].state) /\ SetOf(loc[d].state.sent) \subseteq Delivered
  /\ Covered(loc[d].state, SetOf(loc[d].batch))
  /\ SetOf(loc[d].batch) \subseteq emitted
  /\ pc[d] # "send" => loc[d].batch = <<>>

IInv == TypeOK /\ StreamInv /\ StateInv /\ \A d \in Dispatchers : LocInv(d)

USE EventsAssumption, AlertsAssumption, BatchSizeAssumption, BoundsAssumption, FaultsAssumption

-----------------------------------------------------------------------------
(* Sequences and the set of their elements *)

\* Appending adds its element and no other.
LEMMA SetOfAppend ==
  ASSUME NEW S, NEW s \in Seq(S), NEW e \in S
  PROVE  SetOf(Append(s, e)) = SetOf(s) \cup {e}
<1>1. /\ Len(Append(s, e)) = Len(s) + 1 /\ Len(s) \in Nat
      /\ \A i \in 1..Len(s) : Append(s, e)[i] = s[i]
      /\ Append(s, e)[Len(s) + 1] = e
  BY AppendProperties, LenProperties
<1>2. 1..(Len(s) + 1) = 1..Len(s) \cup {Len(s) + 1}
  BY <1>1
<1> QED BY <1>1, <1>2 DEF SetOf

\* A sequence has its head and what its tail has.
LEMMA SetOfTail ==
  ASSUME NEW S, NEW s \in Seq(S), s # <<>>
  PROVE  SetOf(s) = {Head(s)} \cup SetOf(Tail(s)) /\ Head(s) \in S /\ Tail(s) \in Seq(S)
<1>1. /\ Head(s) \in S /\ Tail(s) \in Seq(S) /\ Len(Tail(s)) = Len(s) - 1 /\ Len(s) \in Nat
      /\ \A i \in 1..Len(Tail(s)) : Tail(s)[i] = s[i + 1]
  BY HeadTailProperties, LenProperties
<1>2. Head(s) = s[1] /\ Len(s) # 0
  BY EmptySeq, <1>1
<1>3. ASSUME NEW x \in SetOf(s) PROVE x \in {Head(s)} \cup SetOf(Tail(s))
  <2>1. PICK i \in 1..Len(s) : x = s[i]
    BY DEF SetOf
  <2>2. CASE i = 1
    BY <1>2, <2>1, <2>2
  <2>3. CASE i # 1
    <3>1. i - 1 \in 1..Len(Tail(s)) /\ Tail(s)[i - 1] = x
      BY <1>1, <2>1, <2>3
    <3> QED BY <3>1 DEF SetOf
  <2> QED BY <2>2, <2>3
<1>4. ASSUME NEW x \in SetOf(Tail(s)) PROVE x \in SetOf(s)
  <2>1. PICK i \in 1..Len(Tail(s)) : x = Tail(s)[i]
    BY DEF SetOf
  <2>2. i + 1 \in 1..Len(s) /\ s[i + 1] = x
    BY <1>1, <2>1
  <2> QED BY <2>2 DEF SetOf
<1>5. Head(s) \in SetOf(s)
  BY <1>1, <1>2 DEF SetOf
<1> QED BY <1>1, <1>3, <1>4, <1>5

\* A part of a sequence has the elements at its positions.
LEMMA SetOfSubSeq ==
  ASSUME NEW S, NEW s \in Seq(S), NEW m \in Nat \ {0}, NEW n \in Nat, n <= Len(s)
  PROVE  /\ SubSeq(s, m, n) \in Seq(S)
         /\ SetOf(SubSeq(s, m, n)) = {s[i] : i \in m..n}
         /\ SetOf(SubSeq(s, m, n)) \subseteq SetOf(s)
<1>1. Len(s) \in Nat /\ \A i \in 1..Len(s) : s[i] \in S
  BY LenProperties, ElementOfSeq
<1> DEFINE t == SubSeq(s, m, n)
<1>2. /\ t \in Seq(S) /\ Len(t) = (IF m <= n THEN n - m + 1 ELSE 0)
      /\ \A i \in 1..(n - m + 1) : t[i] = s[m + i - 1]
  BY <1>1, SubSeqProperties
<1> HIDE DEF t
<1>3. ASSUME NEW x \in SetOf(t) PROVE x \in {s[i] : i \in m..n}
  <2>1. PICK i \in 1..Len(t) : x = t[i]
    BY DEF SetOf
  <2>2. i \in 1..(n - m + 1) /\ m + i - 1 \in m..n
    BY <1>2, <2>1
  <2> QED BY <1>2, <2>1, <2>2
<1>4. ASSUME NEW i \in m..n PROVE s[i] \in SetOf(t)
  <2>1. i - m + 1 \in 1..Len(t) /\ i - m + 1 \in 1..(n - m + 1) /\ m + (i - m + 1) - 1 = i
    BY <1>2
  <2>2. t[i - m + 1] = s[i]
    BY <1>2, <2>1
  <2> QED BY <2>1, <2>2 DEF SetOf
<1>5. \A i \in m..n : i \in 1..Len(s)
  BY <1>1
<1>6. SetOf(t) = {s[i] : i \in m..n}
  BY <1>3, <1>4
<1>7. SetOf(t) \subseteq SetOf(s)
  BY <1>5, <1>6 DEF SetOf
<1> QED BY <1>2, <1>6, <1>7 DEF t

\* The last n elements are at most n, and all of them if there are no more.
LEMMA LastOfProperties ==
  ASSUME NEW S, NEW s \in Seq(S), NEW n \in Nat
  PROVE  /\ LastOf(s, n) \in Seq(S) /\ Len(LastOf(s, n)) <= n
         /\ SetOf(LastOf(s, n)) \subseteq SetOf(s)
         /\ Len(s) <= n => LastOf(s, n) = s
<1>1. Len(s) \in Nat /\ \A i \in 1..Len(s) : s[i] \in S
  BY LenProperties, ElementOfSeq
<1> DEFINE m == IF Len(s) > n THEN Len(s) - n + 1 ELSE 1
<1>2. m \in Nat \ {0} /\ (Len(s) > n => m = Len(s) - n + 1) /\ (Len(s) <= n => m = 1)
  BY <1>1
<1>3. LastOf(s, n) = SubSeq(s, m, Len(s))
  BY DEF LastOf
<1> HIDE DEF m
<1>4. SubSeq(s, m, Len(s)) \in Seq(S) /\ SetOf(SubSeq(s, m, Len(s))) \subseteq SetOf(s)
  BY <1>1, <1>2, SetOfSubSeq
<1>5. Len(SubSeq(s, m, Len(s))) = IF m <= Len(s) THEN Len(s) - m + 1 ELSE 0
  BY <1>1, <1>2, SubSeqProperties
<1>6. Len(SubSeq(s, m, Len(s))) <= n
  BY <1>1, <1>2, <1>5
<1>7. Len(s) <= n => SubSeq(s, m, Len(s)) = s
  BY <1>2, SubSeqFull
<1> QED BY <1>3, <1>4, <1>6, <1>7

\* An empty sequence has no elements.
LEMMA SetOfEmpty == SetOf(<<>>) = {}
<1>1. Len(<<>>) = 0
  BY EmptySeq
<1> QED BY <1>1 DEF SetOf

-----------------------------------------------------------------------------
(* Types *)

\* The events are counted by natural numbers.
LEMMA Counting ==
  ASSUME emitted \subseteq Events
  PROVE  /\ IsFiniteSet(emitted) /\ Cardinality(emitted) \in Nat /\ Cardinality(Events) \in Nat
         /\ Cardinality(emitted) <= Cardinality(Events)
BY FS_CardinalityType, FS_Subset

\* The content of the stream and its length have their types.
LEMMA FileType ==
  ASSUME TypeOK, StreamInv
  PROVE  /\ file \in Seq(Events) /\ Len(file) \in Count /\ Len(file) \in Nat /\ Count \subseteq Nat
         /\ \A i \in 1..Len(file) : file[i] \in Events
         /\ inode \in Nat /\ rotations \in Nat /\ mtime \in Nat
         /\ mtime \in 0..(Cardinality(Events) + MaxRotations)
<1>1. file \in Seq(Events) /\ emitted \subseteq Events
  BY DEF TypeOK
<1>2. Len(file) \in Nat /\ \A i \in 1..Len(file) : file[i] \in Events
  BY <1>1, LenProperties, ElementOfSeq
<1>3. /\ Cardinality(emitted) \in Nat /\ Cardinality(Events) \in Nat
      /\ Cardinality(emitted) <= Cardinality(Events)
  BY <1>1, Counting
<1>4. Len(file) <= Cardinality(emitted) /\ mtime <= Cardinality(emitted) + rotations
  BY DEF StreamInv
<1>5. inode \in Nat /\ rotations \in Nat /\ mtime \in Nat /\ rotations <= MaxRotations
  BY DEF TypeOK
<1> QED BY <1>1, <1>2, <1>3, <1>4, <1>5 DEF Count

\* What a dispatcher remembers has its type.
LEMMA LocalTypes ==
  ASSUME TypeOK, NEW d \in Dispatchers
  PROVE  /\ loc[d] \in Locals /\ loc[d].state \in StateFile /\ loc[d].batch \in Seq(Events)
         /\ loc[d].mixed \in BOOLEAN
         /\ loc[d].state.sent \in Seq(Events) /\ loc[d].state.offset \in Count
BY DEF TypeOK, Locals, StateFile

\* Nothing is known of the stream at first.
LEMMA IdleType ==
  /\ DefaultState \in StateFile /\ Idle \in Locals
  /\ Idle.state = DefaultState /\ Idle.batch = <<>> /\ DefaultState.sent = <<>>
<1>1. <<>> \in Seq(Events)
  BY EmptySeq
<1>2. Cardinality(Events) \in Nat
  BY FS_CardinalityType
<1>3. 0 \in Count /\ 0 \in 0..(MaxRotations + 1) /\ 0 \in 0..(Cardinality(Events) + MaxRotations)
  BY <1>2 DEF Count
<1>4. DefaultState \in StateFile
  BY <1>1, <1>3 DEF DefaultState, StateFile, NoFile
<1> QED BY <1>1, <1>4 DEF Idle, Locals, DefaultState

LEMMA IdleKnown ==
  ASSUME TypeOK
  PROVE  Known(DefaultState) /\ \A pending : Covered(DefaultState, pending)
<1>1. inode \in Nat /\ rotations \in Nat /\ mtime \in Nat
  BY DEF TypeOK, NoFile
<1>2. ~Current(DefaultState)
  BY DEF Current, DefaultState, NoFile
<1> QED BY <1>1, <1>2 DEF Known, Covered, DefaultState, NoFile

-----------------------------------------------------------------------------
(* Steps of a dispatcher *)

\* A step of a dispatcher which writes no state file leaves the invariant to the
\* dispatcher alone: nothing that was delivered is taken back.
LEMMA DispatcherStep ==
  ASSUME IInv, NEW d \in Dispatchers, UNCHANGED <<stream, state>>,
         torn' \in BOOLEAN, aborts' \in 0..MaxAborts,
         times' \in [Events -> 0..MaxTimes], \A e \in Events : times[e] > 0 => times'[e] > 0,
         pc' \in [Dispatchers -> {"idle", "stat", "read", "send", "saving"}],
         loc' \in [Dispatchers -> Locals],
         \A o \in Dispatchers \ {d} : pc'[o] = pc[o] /\ loc'[o] = loc[o],
         LocInv(d)'
  PROVE  IInv'
<1>1. TypeOK'
  BY DEF IInv, TypeOK, stream, Locals
<1>2. StreamInv'
  BY DEF IInv, StreamInv, stream
<1>3. Delivered \subseteq Delivered'
  BY DEF Delivered
<1>4. \A s, pending : (Known(s) => Known(s)') 
  BY DEF Known, Current, stream
<1>5. ASSUME NEW s \in StateFile, NEW pending, Known(s), Covered(s, pending) PROVE Covered(s, pending)'
  <2>1. \A i \in 1..Len(file) : file[i] \in Events
    BY FileType DEF IInv
  <2>2. Len(file) \in Nat /\ s.offset \in Nat
    BY FileType DEF IInv, StateFile
  <2>3. Current(s) => s.offset <= Len(file)
    BY <1>5 DEF Known
  <2>4. Current(s)' <=> Current(s)
    BY DEF Current, stream
  <2>5. Current(s) => \A i \in 1..s.offset : file[i] \in Events
    BY <2>1, <2>2, <2>3
  <2>6. ASSUME NEW e \in Events, times'[e] = 0 PROVE times[e] = 0
    <3>1. times[e] \in 0..MaxTimes /\ ~(times[e] > 0)
      BY <2>6 DEF IInv, TypeOK
    <3> QED BY <3>1 DEF MaxTimes
  <2> QED BY <1>5, <2>4, <2>5, <2>6 DEF Covered, stream
<1>6. StateInv'
  <2>1. state \in StateFile /\ Known(state) /\ Covered(state, {})
    BY DEF IInv, TypeOK, StateInv
  <2>2. ASSUME NEW q, q = state PROVE Known(q)' /\ Covered(q, {})'
    BY <1>4, <1>5, <2>1, <2>2
  <2>3. Known(state)' /\ Covered(state, {})'
    BY <2>2 DEF Known, Covered, Current
  <2> QED BY <1>3, <2>3 DEF IInv, StateInv, SetOf
<1>7. ASSUME NEW o \in Dispatchers PROVE LocInv(o)'
  <2>1. CASE o = d
    BY <2>1
  <2>2. CASE o # d
    <3>1. pc'[o] = pc[o] /\ loc'[o] = loc[o] /\ LocInv(o)
      BY <2>2 DEF IInv
    <3>2. loc[o].state \in StateFile
      BY LocalTypes DEF IInv
    <3>3. ASSUME NEW q, q = loc[o].state, NEW b, b = SetOf(loc[o].batch)
          PROVE  Known(q)' /\ Covered(q, b)'
      BY <1>4, <1>5, <3>1, <3>2, <3>3 DEF LocInv
    <3>4. ASSUME NEW q, q = loc[o], NEW b, b = SetOf(loc[o].batch)
          PROVE  LocInv(o)'
      <4>1. q.state = loc[o].state /\ loc'[o] = q /\ b = SetOf(q.batch)
        BY <3>1, <3>4
      <4>2. Known(q.state)' /\ Covered(q.state, b)'
        BY <3>3, <3>4
      <4>3. emitted' = emitted
        BY DEF stream
      <4> QED BY <1>3, <3>1, <4>1, <4>2, <4>3 DEF LocInv, Known, Covered, Current, SetOf
    <3> QED BY <3>4
  <2> QED BY <2>1, <2>2
<1> QED BY <1>1, <1>2, <1>6, <1>7 DEF IInv

\* What the next state of a dispatcher must be.
LEMMA LocNext ==
  ASSUME NEW d \in Dispatchers, NEW q, NEW b, loc'[d].state = q, SetOf(loc'[d].batch) = b,
         Known(q)', Covered(q, b)', SetOf(q.sent) \subseteq Delivered', b \subseteq emitted',
         pc'[d] # "send" => loc'[d].batch = <<>>
  PROVE  LocInv(d)'
<1>1. Known(loc[d].state)'
  BY DEF Known, Current
<1>2. Covered(loc[d].state, SetOf(loc[d].batch))'
  <2>1. ASSUME NEW c, c = SetOf(loc'[d].batch) PROVE Covered(loc[d].state, c)'
    BY <2>1 DEF Covered, Current
  <2> QED BY <2>1 DEF Covered, Current
<1>3. (SetOf(loc[d].state.sent) \subseteq Delivered)' /\ (SetOf(loc[d].batch) \subseteq emitted)'
  OBVIOUS
<1> QED BY <1>1, <1>2, <1>3 DEF LocInv

\* The state file is loaded as it is.
LEMMA LoadKept ==
  ASSUME IInv, NEW d \in Dispatchers, Load(d)
  PROVE  IInv'
<1> DEFINE new == [Idle EXCEPT !.state = state]
<1>1. /\ UNCHANGED <<stream, state, torn, times, aborts>>
      /\ pc' = [pc EXCEPT ![d] = "stat"] /\ loc' = [loc EXCEPT ![d] = new]
  BY DEF Load, Goto
<1>2. state \in StateFile
  BY DEF IInv, TypeOK
<1>3. new \in Locals /\ new.state = state /\ new.batch = <<>>
  BY <1>2, IdleType DEF Locals
<1> HIDE DEF new
<1>4. /\ pc' \in [Dispatchers -> {"idle", "stat", "read", "send", "saving"}] /\ pc'[d] = "stat"
      /\ loc' \in [Dispatchers -> Locals] /\ loc'[d] = new
      /\ \A o \in Dispatchers \ {d} : pc'[o] = pc[o] /\ loc'[o] = loc[o]
  BY <1>1, <1>3 DEF IInv, TypeOK, Locals
<1>5. Known(state) /\ Covered(state, {}) /\ SetOf(state.sent) \subseteq Delivered
  BY DEF IInv, StateInv
<1>6. ASSUME NEW q, q = state, NEW b, b = {}
      PROVE  Known(q)' /\ Covered(q, b)' /\ SetOf(q.sent) \subseteq Delivered'
  BY <1>1, <1>5, <1>6 DEF Known, Covered, Current, stream, Delivered
<1>7. LocInv(d)'
  <2>1. loc'[d].state = state /\ loc'[d].batch = <<>> /\ SetOf(loc'[d].batch) = {}
    BY <1>3, <1>4, SetOfEmpty
  <2> SUFFICES ASSUME NEW q, q = state, NEW b, b = {} PROVE LocInv(d)'
    OBVIOUS
  <2> QED BY <1>6, <2>1, LocNext
<1> QED BY <1>1, <1>4, <1>7, DispatcherStep DEF IInv, TypeOK

\* What is not taken for rotated is the file that was seen, but for a file that outgrew it.
LEMMA NotRotated ==
  ASSUME TypeOK, StreamInv, NEW s \in StateFile, Known(s), inode # NoFile, ~Rotated(s)
  PROVE  s.offset <= Len(file) /\ (outgrown \/ Current(s))
<1>1. /\ Len(file) \in Nat /\ s.offset \in Nat /\ s.mtime \in Nat /\ s.size \in Nat
      /\ s.inode \in Nat /\ mtime \in Nat /\ emptied \in 0..mtime
  BY FileType DEF StateFile, TypeOK
<1>2. s.inode = inode /\ s.offset <= Len(file)
  BY <1>1 DEF Rotated
<1>3. CASE emptied <= s.mtime
  BY <1>2, <1>3 DEF Current
<1>4. CASE s.mtime < emptied
  <2>1. outgrown \/ Len(file) <= s.size
    BY <1>2, <1>4 DEF Known
  <2>2. s.mtime # 0 /\ s.mtime # mtime
    BY <1>1, <1>2, <1>4 DEF Known, NoFile
  <2> QED BY <1>2, <2>1, <2>2 DEF Rotated
<1> QED BY <1>1, <1>3, <1>4

\* The look at the file: what was read of it counts only if it is still the same file.
LEMMA StatKept ==
  ASSUME IInv, NEW d \in Dispatchers, Stat(d)
  PROVE  IInv'
<1> DEFINE prev == loc[d].state
           seen == [offset |-> IF Rotated(prev) THEN 0 ELSE prev.offset, sent |-> prev.sent,
                    inode |-> inode, size |-> Len(file), mtime |-> IF inode = NoFile THEN 0 ELSE mtime]
<1>1. /\ UNCHANGED <<stream, state, torn, times, aborts>> /\ pc[d] = "stat"
      /\ pc' = [pc EXCEPT ![d] = "read"] /\ loc' = [loc EXCEPT ![d].state = seen]
  BY DEF Stat, Goto
<1>2. /\ prev \in StateFile /\ loc[d] \in Locals /\ LocInv(d) /\ loc[d].batch = <<>>
  BY <1>1, LocalTypes DEF IInv, LocInv
<1>3. /\ Len(file) \in Count /\ Len(file) \in Nat /\ mtime \in 0..(Cardinality(Events) + MaxRotations)
      /\ mtime \in Nat /\ 0 \in Count /\ emptied \in 0..mtime /\ inode \in 0..(MaxRotations + 1)
      /\ 0 \in 0..(Cardinality(Events) + MaxRotations) /\ rotations \in Nat
  BY FileType, FS_CardinalityType DEF IInv, Count, TypeOK
<1>4. /\ seen.offset = (IF Rotated(prev) THEN 0 ELSE prev.offset) /\ seen.sent = prev.sent
      /\ seen.inode = inode /\ seen.mtime = IF inode = NoFile THEN 0 ELSE mtime
  OBVIOUS
<1>5. seen \in StateFile
  BY <1>2, <1>3 DEF StateFile
<1> HIDE DEF seen
<1>6. /\ pc' \in [Dispatchers -> {"idle", "stat", "read", "send", "saving"}] /\ pc'[d] = "read"
      /\ loc' \in [Dispatchers -> Locals] /\ loc'[d].state = seen /\ loc'[d].batch = <<>>
      /\ \A o \in Dispatchers \ {d} : pc'[o] = pc[o] /\ loc'[o] = loc[o]
  BY <1>1, <1>2, <1>5 DEF IInv, TypeOK, Locals
<1>7. prev.offset \in Nat /\ (inode # NoFile => seen.offset <= Len(file))
  BY <1>2, <1>3, <1>4, NotRotated DEF IInv, LocInv, StateFile, Count
<1>8. Known(seen)
  BY <1>3, <1>4, <1>7 DEF Known, Current, IInv, StreamInv, NoFile
<1>9. Covered(seen, {})
  <2>1. CASE inode = NoFile
    BY <2>1 DEF Covered, Current
  <2>2. CASE inode # NoFile /\ Rotated(prev)
    BY <1>4, <2>2 DEF Covered
  <2>3. CASE inode # NoFile /\ ~Rotated(prev)
    <3>1. outgrown \/ Current(prev)
      BY <1>2, <2>3, NotRotated DEF IInv, LocInv
    <3>2. Covered(prev, {})
      BY <1>2, SetOfEmpty DEF LocInv
    <3> QED BY <1>4, <2>3, <3>1, <3>2 DEF Covered
  <2> QED BY <2>1, <2>2, <2>3
<1>10. SetOf(seen.sent) \subseteq Delivered
  BY <1>2, <1>4 DEF LocInv
<1>11. ASSUME NEW q, q = seen, NEW b, b = {}
       PROVE  Known(q)' /\ Covered(q, b)' /\ SetOf(q.sent) \subseteq Delivered'
  BY <1>1, <1>8, <1>9, <1>10, <1>11 DEF Known, Covered, Current, stream, Delivered
<1>12. LocInv(d)'
  <2>1. SetOf(loc'[d].batch) = {}
    BY <1>6, SetOfEmpty
  <2> SUFFICES ASSUME NEW q, q = seen, NEW b, b = {} PROVE LocInv(d)'
    OBVIOUS
  <2> QED BY <1>6, <1>11, <2>1, LocNext
<1> QED BY <1>1, <1>6, <1>12, DispatcherStep DEF IInv, TypeOK

\* The batch holds the lines from the one offset to the other.
LEMMA ReadKept ==
  ASSUME IInv, NEW d \in Dispatchers, Read(d)
  PROVE  IInv'
<1> DEFINE prev == loc[d].state
           from == prev.offset
           upto == IF from + BatchSize < Len(file) THEN from + BatchSize ELSE Len(file)
           next == IF from < upto THEN upto ELSE from
           lines == SubSeq(file, from + 1, upto)
           new == [prev EXCEPT !.offset = next]
<1>1. /\ UNCHANGED <<stream, state, torn, times, aborts>> /\ pc[d] = "read"
      /\ pc' = [pc EXCEPT ![d] = "send"]
      /\ loc' = [loc EXCEPT ![d].batch = lines, ![d].state.offset = next]
  BY DEF Read, Goto
<1>2. prev \in StateFile /\ loc[d] \in Locals /\ LocInv(d) /\ loc[d].batch = <<>> /\ from \in Count
  BY <1>1, LocalTypes DEF IInv, LocInv
<1>3. /\ file \in Seq(Events) /\ Len(file) \in Count /\ Len(file) \in Nat /\ from \in Nat
      /\ SetOf(file) \subseteq emitted
  BY <1>2, FileType DEF IInv, StreamInv
<1>4. /\ upto \in Nat /\ upto <= Len(file) /\ next \in {upto, from} /\ (upto < Len(file) => upto = from + BatchSize)
      /\ (from <= Len(file) => from <= upto /\ next = upto)
  BY <1>3
<1>5. upto \in Count /\ next \in Count
  BY <1>2, <1>3, <1>4, FS_CardinalityType DEF Count
<1>6. /\ lines \in Seq(Events) /\ SetOf(lines) = {file[i] : i \in (from + 1)..upto}
      /\ SetOf(lines) \subseteq SetOf(file)
  <2>1. from + 1 \in Nat \ {0}
    BY <1>3
  <2> HIDE DEF upto, from
  <2> QED BY <1>3, <1>4, <2>1, SetOfSubSeq
<1>7. new \in StateFile /\ new.offset = next /\ new.sent = prev.sent /\ new.inode = prev.inode
      /\ new.size = prev.size /\ new.mtime = prev.mtime
  <2> HIDE DEF next
  <2> QED BY <1>2, <1>5 DEF StateFile
<1>8. /\ pc' \in [Dispatchers -> {"idle", "stat", "read", "send", "saving"}] /\ pc'[d] = "send"
      /\ loc' \in [Dispatchers -> Locals] /\ loc'[d].state = new /\ loc'[d].batch = lines
      /\ \A o \in Dispatchers \ {d} : pc'[o] = pc[o] /\ loc'[o] = loc[o]
  <2> HIDE DEF lines, next
  <2>1. new = [prev EXCEPT !.offset = next]
    OBVIOUS
  <2> QED BY <1>1, <1>2, <1>6, <1>7, <2>1 DEF IInv, TypeOK, Locals
<1> HIDE DEF new, lines, next, upto
<1>9. Current(new) <=> Current(prev)
  BY <1>7 DEF Current
<1>10. Known(prev) /\ Covered(prev, {}) /\ SetOf(prev.sent) \subseteq Delivered
  BY <1>2, SetOfEmpty DEF LocInv
<1>11. Known(new)
  BY <1>4, <1>7, <1>9, <1>10 DEF Known
<1>12. Covered(new, SetOf(lines))
  <2> SUFFICES ASSUME ~outgrown, Current(new), NEW i \in 1..new.offset,
                      file[i] \in Alerts, times[file[i]] = 0
               PROVE  file[i] \in SetOf(lines)
    BY DEF Covered
  <2>1. from <= Len(file) /\ \A j \in 1..from : file[j] \in Alerts => times[file[j]] # 0
    BY <1>9, <1>10 DEF Known, Covered
  <2>2. i \notin 1..from /\ i \in 1..upto
    BY <1>4, <1>7, <2>1
  <2>3. i \in (from + 1)..upto
    BY <1>3, <1>4, <2>2
  <2> QED BY <1>6, <2>3
<1>13. ASSUME NEW q, q = new, NEW b, b = SetOf(lines)
       PROVE  Known(q)' /\ Covered(q, b)' /\ SetOf(q.sent) \subseteq Delivered' /\ b \subseteq emitted'
  BY <1>1, <1>3, <1>6, <1>7, <1>10, <1>11, <1>12, <1>13 DEF Known, Covered, Current, stream, Delivered
<1>14. LocInv(d)'
  <2> SUFFICES ASSUME NEW q, q = new, NEW b, b = SetOf(lines) PROVE LocInv(d)'
    OBVIOUS
  <2> QED BY <1>8, <1>13, LocNext
<1> QED BY <1>1, <1>8, <1>14, DispatcherStep DEF IInv, TypeOK

\* What is passed over was delivered or is no alert.
LEMMA SkipKept ==
  ASSUME IInv, NEW d \in Dispatchers, Skip(d)
  PROVE  IInv'
<1> DEFINE known == loc[d].state
           rest == Tail(loc[d].batch)
<1>1. /\ UNCHANGED <<stream, state, torn, pc, times, aborts>> /\ pc[d] = "send" /\ loc[d].batch # <<>>
      /\ Head(loc[d].batch) \in SetOf(known.sent) \cup (Events \ Alerts)
      /\ loc' = [loc EXCEPT ![d].batch = rest]
  BY DEF Skip
<1>2. loc[d] \in Locals /\ LocInv(d) /\ loc[d].batch \in Seq(Events) /\ known \in StateFile
  BY LocalTypes DEF IInv
<1>3. /\ SetOf(loc[d].batch) = {Head(loc[d].batch)} \cup SetOf(rest) /\ rest \in Seq(Events)
      /\ Head(loc[d].batch) \in Events
  BY <1>1, <1>2, SetOfTail
<1> HIDE DEF rest
<1>4. /\ pc' \in [Dispatchers -> {"idle", "stat", "read", "send", "saving"}] /\ pc'[d] = "send"
      /\ loc' \in [Dispatchers -> Locals] /\ loc'[d].state = known /\ loc'[d].batch = rest
      /\ \A o \in Dispatchers \ {d} : pc'[o] = pc[o] /\ loc'[o] = loc[o]
  BY <1>1, <1>2, <1>3 DEF IInv, TypeOK, Locals
<1>5. /\ Known(known) /\ Covered(known, SetOf(loc[d].batch)) /\ SetOf(known.sent) \subseteq Delivered
      /\ SetOf(rest) \subseteq emitted
  BY <1>2, <1>3 DEF LocInv
<1>6. Head(loc[d].batch) \in Alerts => times[Head(loc[d].batch)] # 0
  <2>1. \A e \in Delivered : times[e] # 0
    BY DEF Delivered, IInv, TypeOK
  <2> QED BY <1>1, <1>5, <2>1
<1>7. Covered(known, SetOf(rest))
  BY <1>3, <1>5, <1>6 DEF Covered
<1>8. ASSUME NEW q, q = known, NEW b, b = SetOf(rest)
      PROVE  Known(q)' /\ Covered(q, b)' /\ SetOf(q.sent) \subseteq Delivered' /\ b \subseteq emitted'
  BY <1>1, <1>5, <1>7, <1>8 DEF Known, Covered, Current, stream, Delivered
<1>9. LocInv(d)'
  <2> SUFFICES ASSUME NEW q, q = known, NEW b, b = SetOf(rest) PROVE LocInv(d)'
    OBVIOUS
  <2> QED BY <1>4, <1>8, LocNext
<1> QED BY <1>1, <1>4, <1>9, DispatcherStep DEF IInv, TypeOK

\* One more delivery of an event counts, up to the bound.
LEMMA TimesUp ==
  ASSUME TypeOK, NEW e \in Events,
         times' = [times EXCEPT ![e] = IF @ < MaxTimes THEN @ + 1 ELSE @]
  PROVE  /\ times' \in [Events -> 0..MaxTimes] /\ times'[e] > 0 /\ times'[e] <= times[e] + 1
         /\ \A a \in Events \ {e} : times'[a] = times[a]
         /\ \A a \in Events : times[a] > 0 => times'[a] > 0
<1>1. MaxTimes \in Nat \ {0}
  BY DEF MaxTimes
<1>2. times \in [Events -> 0..MaxTimes] /\ times[e] \in 0..MaxTimes
  BY DEF TypeOK
<1> DEFINE up == IF times[e] < MaxTimes THEN times[e] + 1 ELSE times[e]
<1>3. up \in 0..MaxTimes /\ up > 0 /\ up <= times[e] + 1
  BY <1>1, <1>2
<1>4. times' = [times EXCEPT ![e] = up]
  OBVIOUS
<1> HIDE DEF up
<1> QED BY <1>2, <1>3, <1>4

\* What a delivery changes of the dispatcher.
LEMMA SendLocals ==
  ASSUME TypeOK, NEW d \in Dispatchers, NEW e \in Events, Send(d, e)
  PROVE  /\ loc' \in [Dispatchers -> Locals]
         /\ loc'[d].state = [loc[d].state EXCEPT !.sent = Append(@, e)]
         /\ loc'[d].batch = Tail(loc[d].batch)
         /\ \A o \in Dispatchers \ {d} : loc'[o] = loc[o]
         /\ loc[d].batch \in Seq(Events) /\ loc[d].batch # <<>> /\ Head(loc[d].batch) = e
         /\ Append(loc[d].state.sent, e) \in Seq(Events)
         /\ SetOf(Append(loc[d].state.sent, e)) = SetOf(loc[d].state.sent) \cup {e}
<1> DEFINE known == loc[d].state
           rest == Tail(loc[d].batch)
           sent == Append(known.sent, e)
           new == [known EXCEPT !.sent = sent]
<1>1. /\ loc[d].batch # <<>> /\ Head(loc[d].batch) = e
      /\ loc' = [loc EXCEPT ![d].batch = rest, ![d].state.sent = sent]
  BY DEF Send, Due
<1>2. loc[d] \in Locals /\ loc[d].batch \in Seq(Events) /\ known \in StateFile /\ known.sent \in Seq(Events)
  BY LocalTypes
<1>3. rest \in Seq(Events)
  BY <1>1, <1>2, SetOfTail
<1>4. sent \in Seq(Events) /\ SetOf(sent) = SetOf(known.sent) \cup {e}
  BY <1>2, AppendProperties, SetOfAppend
<1>5. new \in StateFile
  <2> HIDE DEF sent
  <2> QED BY <1>2, <1>4 DEF StateFile
<1>6. loc' \in [Dispatchers -> Locals] /\ loc'[d].state = new /\ loc'[d].batch = rest
      /\ \A o \in Dispatchers \ {d} : loc'[o] = loc[o]
  <2> HIDE DEF sent, rest
  <2>1. new = [known EXCEPT !.sent = sent]
    OBVIOUS
  <2> QED BY <1>1, <1>2, <1>3, <1>5, <2>1 DEF TypeOK, Locals
<1> QED BY <1>1, <1>2, <1>4, <1>6

\* A delivered event is not pending any more, and its id is kept.
LEMMA SendKept ==
  ASSUME IInv, NEW d \in Dispatchers, NEW e \in Events, Send(d, e)
  PROVE  IInv'
<1> DEFINE known == loc[d].state
           rest == Tail(loc[d].batch)
           new == [known EXCEPT !.sent = Append(@, e)]
<1>1. /\ UNCHANGED <<stream, state, torn, pc, aborts>> /\ pc[d] = "send"
      /\ times' = [times EXCEPT ![e] = IF @ < MaxTimes THEN @ + 1 ELSE @]
  BY DEF Send, Due
<1>2. /\ loc' \in [Dispatchers -> Locals] /\ loc'[d].state = new /\ loc'[d].batch = rest
      /\ \A o \in Dispatchers \ {d} : loc'[o] = loc[o]
      /\ loc[d].batch \in Seq(Events) /\ loc[d].batch # <<>> /\ Head(loc[d].batch) = e
      /\ SetOf(Append(known.sent, e)) = SetOf(known.sent) \cup {e}
  BY SendLocals DEF IInv
<1>3. /\ times' \in [Events -> 0..MaxTimes] /\ times'[e] > 0
      /\ \A a \in Events \ {e} : times'[a] = times[a]
      /\ \A a \in Events : times[a] > 0 => times'[a] > 0
  BY <1>1, TimesUp DEF IInv
<1>4. SetOf(loc[d].batch) = {e} \cup SetOf(rest)
  BY <1>2, SetOfTail
<1>5. LocInv(d) /\ known \in StateFile
  BY LocalTypes DEF IInv
<1>6. /\ new.offset = known.offset /\ new.inode = known.inode /\ new.mtime = known.mtime
      /\ new.size = known.size /\ SetOf(new.sent) = SetOf(known.sent) \cup {e}
  BY <1>2, <1>5 DEF StateFile
<1> HIDE DEF new, rest
<1>7. Known(new) /\ SetOf(rest) \subseteq emitted
  BY <1>4, <1>5, <1>6 DEF LocInv, Known, Current
<1>8. SetOf(new.sent) \subseteq Delivered'
  BY <1>3, <1>5, <1>6 DEF LocInv, Delivered
<1>9. Covered(known, {e} \cup SetOf(rest))
  BY <1>4, <1>5 DEF LocInv
<1>10. ASSUME ~outgrown, Current(new), NEW i \in 1..new.offset, file[i] \in Alerts, times'[file[i]] = 0
       PROVE  file[i] \in SetOf(rest)
  <2>1. file[i] # e /\ times[file[i]] = 0
    BY <1>3, <1>10
  <2>2. Current(known) /\ i \in 1..known.offset
    BY <1>6, <1>10 DEF Current
  <2> QED BY <1>9, <1>10, <2>1, <2>2 DEF Covered
<1>11. ASSUME NEW q, q = new, NEW b, b = SetOf(rest)
       PROVE  Known(q)' /\ Covered(q, b)' /\ SetOf(q.sent) \subseteq Delivered' /\ b \subseteq emitted'
  <2>1. Covered(q, b)'
    BY <1>1, <1>10, <1>11 DEF Covered, Current, stream
  <2> QED BY <1>1, <1>7, <1>8, <1>11, <2>1 DEF Known, Current, stream
<1>12. LocInv(d)'
  <2>1. pc'[d] = "send"
    BY <1>1
  <2> SUFFICES ASSUME NEW q, q = new, NEW b, b = SetOf(rest) PROVE LocInv(d)'
    OBVIOUS
  <2> QED BY <1>2, <1>11, <2>1, LocNext
<1>13. /\ pc' \in [Dispatchers -> {"idle", "stat", "read", "send", "saving"}]
       /\ \A o \in Dispatchers \ {d} : pc'[o] = pc[o]
  BY <1>1 DEF IInv, TypeOK
<1> QED BY <1>1, <1>2, <1>3, <1>12, <1>13, DispatcherStep DEF IInv, TypeOK

\* A dispatch that is cut short, by a refusal or a kill, leaves nothing behind.
LEMMA AbortKept ==
  ASSUME IInv, NEW d \in Dispatchers, Abort(d), UNCHANGED <<stream, state, torn, times>>
  PROVE  IInv'
<1>1. /\ pc' = [pc EXCEPT ![d] = "idle"] /\ loc' = [loc EXCEPT ![d] = Idle]
      /\ aborts < MaxAborts /\ aborts' = aborts + 1
  BY DEF Abort, Goto
<1>2. /\ pc' \in [Dispatchers -> {"idle", "stat", "read", "send", "saving"}]
      /\ loc' \in [Dispatchers -> Locals] /\ loc'[d] = Idle
      /\ \A o \in Dispatchers \ {d} : pc'[o] = pc[o] /\ loc'[o] = loc[o]
  BY <1>1, IdleType DEF IInv, TypeOK, Locals
<1>3. TypeOK'
  BY <1>1, <1>2 DEF IInv, TypeOK, stream, Locals
<1>4. loc'[d].state = DefaultState /\ loc'[d].batch = <<>> /\ SetOf(loc'[d].batch) = {} /\ SetOf(DefaultState.sent) = {}
  BY <1>2, IdleType, SetOfEmpty
<1>5. Known(DefaultState) /\ Covered(DefaultState, {})
  BY IdleKnown DEF IInv
<1>6. Known(DefaultState)' /\ Covered(DefaultState, {})'
  <2>1. UNCHANGED <<file, inode, mtime, rotations, emptied, outgrown, times>>
    BY DEF stream
  <2>2. ASSUME NEW q, q = DefaultState PROVE Known(q)' /\ Covered(q, {})'
    BY <1>5, <2>1, <2>2 DEF Known, Covered, Current
  <2> QED BY <2>2
<1>7. LocInv(d)'
  BY <1>4, <1>6, LocNext
<1>8. aborts' \in 0..MaxAborts /\ torn' \in BOOLEAN /\ times' \in [Events -> 0..MaxTimes]
  BY <1>3 DEF TypeOK
<1> QED BY <1>2, <1>7, <1>8, DispatcherStep

\* A batch that is handled is about to be saved.
LEMMA SaveBeginKept ==
  ASSUME IInv, NEW d \in Dispatchers, SaveBegin(d)
  PROVE  IInv'
<1>1. /\ UNCHANGED <<stream, state, loc, times, aborts>> /\ loc[d].batch = <<>> /\ torn' = TRUE
      /\ pc' = [pc EXCEPT ![d] = "saving"]
  BY DEF SaveBegin, Goto
<1>2. /\ pc' \in [Dispatchers -> {"idle", "stat", "read", "send", "saving"}]
      /\ \A o \in Dispatchers \ {d} : pc'[o] = pc[o]
  BY <1>1 DEF IInv, TypeOK
<1>3. LocInv(d) /\ SetOf(loc[d].batch) = {}
  BY <1>1, SetOfEmpty DEF IInv
<1>4. ASSUME NEW q, q = loc[d].state, NEW b, b = {}
      PROVE  LocInv(d)'
  <2>1. Known(q)' /\ Covered(q, b)' /\ SetOf(q.sent) \subseteq Delivered' /\ b \subseteq emitted'
    BY <1>1, <1>3, <1>4 DEF LocInv, Known, Covered, Current, stream, Delivered
  <2>2. loc'[d].state = q /\ SetOf(loc'[d].batch) = b /\ loc'[d].batch = <<>>
    BY <1>1, <1>3, <1>4
  <2> QED BY <2>1, <2>2, LocNext
<1>5. LocInv(d)'
  BY <1>4
<1> QED BY <1>1, <1>2, <1>5, DispatcherStep DEF IInv, TypeOK, Locals

\* What is saved was delivered as far as it was read; the ids that are cut are not needed for that.
LEMMA SaveEndKept ==
  ASSUME IInv, NEW d \in Dispatchers, SaveEnd(d)
  PROVE  IInv'
<1> DEFINE known == loc[d].state
           cut == LastOf(known.sent, MaxSent)
           new == [known EXCEPT !.sent = cut]
<1>1. /\ UNCHANGED <<stream, times, aborts>> /\ pc[d] = "saving" /\ pc' = [pc EXCEPT ![d] = "idle"]
      /\ state' = new /\ torn' \in BOOLEAN
      /\ loc' = [o \in Dispatchers |->
                   IF o = d THEN Idle
                   ELSE IF pc[o] = "saving" THEN [loc[o] EXCEPT !.mixed = TRUE] ELSE loc[o]]
  BY DEF SaveEnd, Goto
<1>2. known \in StateFile /\ known.sent \in Seq(Events) /\ LocInv(d) /\ loc[d].batch = <<>>
  BY <1>1, LocalTypes DEF IInv, LocInv
<1>3. cut \in Seq(Events) /\ Len(cut) <= MaxSent /\ SetOf(cut) \subseteq SetOf(known.sent)
  BY <1>2, LastOfProperties
<1> HIDE DEF cut
<1>4. /\ new \in StateFile /\ new.sent = cut /\ new.offset = known.offset /\ new.inode = known.inode
      /\ new.mtime = known.mtime /\ new.size = known.size
  BY <1>2, <1>3 DEF StateFile
<1> HIDE DEF new
<1>5. ASSUME NEW o \in Dispatchers
      PROVE  loc'[o] \in Locals /\ (o = d => loc'[o] = Idle)
             /\ (o # d => loc'[o].state = loc[o].state /\ loc'[o].batch = loc[o].batch /\ pc'[o] = pc[o])
  <2>1. loc[o] \in Locals
    BY LocalTypes DEF IInv
  <2>2. [loc[o] EXCEPT !.mixed = TRUE] \in Locals /\ [loc[o] EXCEPT !.mixed = TRUE].state = loc[o].state
        /\ [loc[o] EXCEPT !.mixed = TRUE].batch = loc[o].batch
    BY <2>1 DEF Locals
  <2>3. loc'[o] = IF o = d THEN Idle
                  ELSE IF pc[o] = "saving" THEN [loc[o] EXCEPT !.mixed = TRUE] ELSE loc[o]
    BY <1>1
  <2>4. o # d => pc'[o] = pc[o]
    BY <1>1 DEF IInv, TypeOK
  <2> QED BY <2>1, <2>2, <2>3, <2>4, IdleType
<1>6. loc' \in [Dispatchers -> Locals]
  BY <1>1, <1>5
<1>7. TypeOK'
  <2>1. state' \in StateFile /\ Len(state'.sent) <= MaxSent
    BY <1>1, <1>3, <1>4
  <2> QED BY <1>1, <1>6, <2>1 DEF IInv, TypeOK, stream, Locals
<1>8. StreamInv' /\ UNCHANGED <<file, inode, mtime, rotations, emitted, emptied, outgrown, times>>
  BY <1>1 DEF IInv, StreamInv, stream
<1>9. \A q, b : (Known(q) => Known(q)') /\ (Covered(q, b) => Covered(q, b)')
  BY <1>8 DEF Known, Covered, Current
<1>10. StateInv'
  <2>1. Known(new) /\ Covered(new, {}) /\ SetOf(new.sent) \subseteq Delivered
    BY <1>2, <1>3, <1>4, SetOfEmpty DEF LocInv, Known, Covered, Current
  <2>2. ASSUME NEW q, q = new PROVE StateInv'
    <3>1. Known(q)' /\ Covered(q, {})' /\ SetOf(q.sent) \subseteq Delivered' /\ state' = q
      BY <1>1, <1>8, <1>9, <2>1, <2>2 DEF Delivered
    <3>2. Known(state)' /\ Covered(state, {})'
      BY <3>1 DEF Known, Covered, Current
    <3> QED BY <3>1, <3>2 DEF StateInv
  <2> QED BY <2>2
<1>11. ASSUME NEW o \in Dispatchers PROVE LocInv(o)'
  <2>1. CASE o = d
    <3>1. loc'[o].state = DefaultState /\ loc'[o].batch = <<>> /\ SetOf(loc'[o].batch) = {}
          /\ SetOf(DefaultState.sent) = {}
      BY <1>5, <2>1, IdleType, SetOfEmpty
    <3>2. ASSUME NEW q, q = DefaultState PROVE Known(q)' /\ Covered(q, {})'
      BY <1>9, <3>2, IdleKnown DEF IInv
    <3>3. Known(DefaultState)' /\ Covered(DefaultState, {})'
      BY <3>2
    <3> QED BY <3>1, <3>3, LocNext
  <2>2. CASE o # d
    <3>1. ASSUME NEW q, q = loc[o].state, NEW b, b = SetOf(loc[o].batch)
          PROVE  LocInv(o)'
      <4>1. loc'[o].state = q /\ SetOf(loc'[o].batch) = b /\ pc'[o] = pc[o] /\ loc'[o].batch = loc[o].batch
        BY <1>5, <2>2, <3>1
      <4>2. LocInv(o)
        BY DEF IInv
      <4>3. Known(q)' /\ Covered(q, b)' /\ SetOf(q.sent) \subseteq Delivered' /\ b \subseteq emitted'
        BY <1>8, <1>9, <3>1, <4>2 DEF LocInv, Delivered
      <4>4. pc'[o] # "send" => loc'[o].batch = <<>>
        BY <4>1, <4>2 DEF LocInv
      <4> QED BY <4>1, <4>3, <4>4, LocNext
    <3> QED BY <3>1
  <2> QED BY <2>1, <2>2
<1> QED BY <1>7, <1>8, <1>10, <1>11 DEF IInv

-----------------------------------------------------------------------------
(* Steps of the stream *)

\* What some process knows of the stream.
Remembered(s) == s = state \/ \E d \in Dispatchers : s = loc[d].state

\* A step of the stream leaves the invariant to what is known of it.
LEMMA StreamStep ==
  ASSUME IInv, TypeOK', StreamInv', UNCHANGED <<state, torn, pc, loc, times, aborts>>,
         emitted \subseteq emitted',
         \A s \in StateFile : \A b : Remembered(s) /\ Known(s) /\ Covered(s, b) => Known(s)' /\ Covered(s, b)'
  PROVE  IInv'
<1>1. StateInv'
  <2>1. state \in StateFile /\ Remembered(state) /\ StateInv
    BY DEF IInv, TypeOK, Remembered
  <2>2. ASSUME NEW q, q = state PROVE StateInv'
    <3>1. Known(q)' /\ Covered(q, {})' /\ state' = q /\ SetOf(q.sent) \subseteq Delivered'
      BY <2>1, <2>2 DEF StateInv, Delivered
    <3>2. Known(state)' /\ Covered(state, {})'
      BY <3>1 DEF Known, Covered, Current
    <3> QED BY <3>1, <3>2 DEF StateInv
  <2> QED BY <2>2
<1>2. ASSUME NEW d \in Dispatchers PROVE LocInv(d)'
  <2>1. LocInv(d) /\ loc[d].state \in StateFile /\ Remembered(loc[d].state)
    BY LocalTypes DEF IInv, Remembered
  <2>2. ASSUME NEW q, q = loc[d].state, NEW b, b = SetOf(loc[d].batch) PROVE LocInv(d)'
    <3>1. Known(q)' /\ Covered(q, b)'
      BY <2>1, <2>2 DEF LocInv
    <3>2. SetOf(q.sent) \subseteq Delivered' /\ b \subseteq emitted'
      BY <2>1, <2>2 DEF LocInv, Delivered
    <3>3. loc'[d].state = q /\ SetOf(loc'[d].batch) = b /\ (pc'[d] # "send" => loc'[d].batch = <<>>)
      BY <2>1, <2>2 DEF LocInv
    <3> QED BY <3>1, <3>2, <3>3, LocNext
  <2> QED BY <2>2
<1> QED BY <1>1, <1>2 DEF IInv

\* After a rotation what is known is about another file.
LEMMA RotateKept ==
  ASSUME IInv, Rotate
  PROVE  IInv'
<1>1. /\ UNCHANGED <<emitted, outgrown, state, torn, pc, loc, times, aborts>>
      /\ rotations < MaxRotations /\ rotations' = rotations + 1 /\ file' = <<>> /\ inode # NoFile
      /\ \/ inode' = NoFile /\ emptied' = 0 /\ mtime' = mtime
         \/ inode' = inode /\ mtime' = mtime + 1 /\ emptied' = mtime'
  BY DEF Rotate
<1>2. /\ file \in Seq(Events) /\ rotations \in 0..MaxRotations /\ inode \in 0..(MaxRotations + 1)
      /\ mtime \in Nat /\ emptied \in 0..mtime /\ emitted \subseteq Events
  BY DEF IInv, TypeOK
<1>3. <<>> \in Seq(Events) /\ Len(<<>>) = 0
  BY EmptySeq
<1>4. Cardinality(emitted) \in Nat
  BY <1>2, Counting
<1>5. TypeOK'
  <2>1. rotations' \in 0..MaxRotations /\ inode' \in 0..(MaxRotations + 1) /\ mtime' \in Nat /\ emptied' \in 0..mtime'
    BY <1>1, <1>2 DEF NoFile
  <2> QED BY <1>1, <1>3, <2>1 DEF IInv, TypeOK
<1>6. StreamInv'
  <2>1. SetOf(file') = {}
    BY <1>1, SetOfEmpty
  <2>2. inode <= rotations + 1 /\ mtime <= Cardinality(emitted) + rotations
    BY DEF IInv, StreamInv
  <2>3. inode' <= rotations' + 1 /\ mtime' <= Cardinality(emitted) + rotations' /\ (inode' # NoFile => mtime' > 0)
    BY <1>1, <1>2, <1>4, <2>2 DEF NoFile
  <2> QED BY <1>1, <1>3, <1>4, <2>1, <2>3 DEF StreamInv
<1>7. ASSUME NEW s \in StateFile, NEW b, Known(s) PROVE Known(s)' /\ Covered(s, b)'
  <2>1. s.inode \in Nat /\ s.mtime \in Nat /\ s.size \in Nat /\ s.inode <= rotations + 1 /\ s.mtime <= mtime
        /\ (s.inode # NoFile => s.mtime > 0)
    BY <1>7, <1>2, FileType DEF Known, StateFile, IInv
  <2>2. ~Current(s)'
    BY <1>1, <1>2, <2>1 DEF Current
  <2>3. Len(file') = 0
    BY <1>1, <1>3
  <2> QED BY <1>1, <1>2, <2>1, <2>2, <2>3 DEF Known, Covered
<1> QED BY <1>1, <1>5, <1>6, <1>7, StreamStep

\* A new line is behind all that was read; a stream that outgrew what is known is noted.
LEMMA EmitKept ==
  ASSUME IInv, NEW e \in Events, Emit(e)
  PROVE  IInv'
<1>1. /\ UNCHANGED <<rotations, emptied, state, torn, pc, loc, times, aborts>> /\ e \notin emitted
      /\ emitted' = emitted \cup {e} /\ file' = Append(file, e) /\ mtime' = mtime + 1
      /\ inode' = (IF inode = NoFile THEN rotations + 1 ELSE inode)
      /\ outgrown' = (outgrown \/ Overlooks(state) \/ \E d \in Dispatchers : Overlooks(loc[d].state))
  BY DEF Emit
<1>2. /\ file \in Seq(Events) /\ rotations \in 0..MaxRotations /\ inode \in 0..(MaxRotations + 1)
      /\ mtime \in Nat /\ emptied \in 0..mtime /\ emitted \subseteq Events /\ outgrown \in BOOLEAN
  BY DEF IInv, TypeOK
<1>3. /\ file' \in Seq(Events) /\ Len(file') = Len(file) + 1 /\ Len(file) \in Nat
      /\ \A i \in 1..Len(file) : file'[i] = file[i]
  BY <1>1, <1>2, AppendProperties, LenProperties
<1>4. /\ Cardinality(emitted) \in Nat /\ Cardinality(emitted') = Cardinality(emitted) + 1
  BY <1>1, <1>2, Counting, FS_AddElement
<1>5. /\ inode <= rotations + 1 /\ inode' <= rotations + 1 /\ inode' \in 0..(MaxRotations + 1) /\ inode' # NoFile
      /\ inode # NoFile => inode' = inode
  BY <1>1, <1>2 DEF IInv, StreamInv, NoFile
<1>6. outgrown' \in BOOLEAN
  BY <1>1, <1>2 DEF Overlooks
<1>7. TypeOK'
  <2>1. mtime' \in Nat /\ emptied' \in 0..mtime'
    BY <1>1, <1>2
  <2> QED BY <1>1, <1>2, <1>3, <1>5, <1>6, <2>1 DEF IInv, TypeOK
<1>8. StreamInv'
  <2>1. SetOf(file') \subseteq emitted'
    BY <1>1, <1>2, SetOfAppend DEF IInv, StreamInv
  <2>2. mtime' > 0 /\ Len(file') <= Cardinality(emitted') /\ mtime' <= Cardinality(emitted') + rotations'
    BY <1>1, <1>2, <1>3, <1>4 DEF IInv, StreamInv
  <2> QED BY <1>1, <1>5, <2>1, <2>2 DEF StreamInv
<1>9. ASSUME NEW s \in StateFile, NEW b, Remembered(s), Known(s), Covered(s, b)
      PROVE  Known(s)' /\ Covered(s, b)'
  <2>1. /\ s.inode \in Nat /\ s.mtime \in Nat /\ s.size \in Nat /\ s.offset \in Nat
        /\ s.inode <= rotations + 1 /\ (inode = NoFile => s.inode <= rotations)
        /\ s.mtime <= mtime /\ (s.inode # NoFile => s.mtime > 0)
    BY <1>9, FileType DEF Known, StateFile, IInv
  <2>2. s.inode = inode' => inode # NoFile /\ s.inode = inode
    BY <1>1, <1>2, <2>1
  <2>3. Current(s)' => Current(s)
    BY <1>1, <2>2 DEF Current
  <2>4. Current(s) => s.offset <= Len(file)
    BY <1>9 DEF Known
  <2>5. ASSUME s.inode = inode', s.mtime < emptied PROVE outgrown' \/ Len(file') <= s.size
    <3>1. outgrown \/ Len(file) <= s.size
      BY <1>9, <2>2, <2>5 DEF Known
    <3>2. CASE outgrown
      BY <1>1, <3>2
    <3>3. CASE Len(file) < s.size
      BY <1>3, <2>1, <3>3
    <3>4. CASE Len(file) >= s.size
      <4>1. Overlooks(s)
        BY <2>2, <2>5, <3>4 DEF Overlooks
      <4> QED BY <1>1, <1>9, <4>1 DEF Remembered
    <3> QED BY <1>3, <2>1, <3>2, <3>3, <3>4
  <2>6. Known(s)'
    <3>1. Current(s)' => s.offset <= Len(file')
      BY <1>3, <2>1, <2>3, <2>4
    <3>2. s.mtime <= mtime'
      BY <1>1, <1>2, <2>1
    <3> QED BY <1>1, <1>5, <2>1, <2>5, <3>1, <3>2 DEF Known
  <2>7. Covered(s, b)'
    <3> SUFFICES ASSUME ~outgrown', Current(s)', NEW i \in 1..s.offset,
                        file'[i] \in Alerts, times'[file'[i]] = 0
                 PROVE  file'[i] \in b
      BY DEF Covered
    <3>1. ~outgrown /\ Current(s)
      BY <1>1, <2>3
    <3>2. file'[i] = file[i]
      BY <1>3, <2>1, <2>4, <3>1
    <3> QED BY <1>1, <1>9, <3>1, <3>2 DEF Covered
  <2> QED BY <2>6, <2>7
<1> QED BY <1>1, <1>7, <1>8, <1>9, StreamStep

-----------------------------------------------------------------------------
(* All steps *)

LEMMA InitIInv ==
  ASSUME Init
  PROVE  IInv
<1>1. /\ file = <<>> /\ inode = NoFile /\ mtime = 0 /\ rotations = 0 /\ emitted = {}
      /\ emptied = 0 /\ outgrown = FALSE /\ state = DefaultState /\ torn = FALSE
      /\ \A d \in Dispatchers : pc[d] = "idle" /\ loc[d] = Idle
      /\ times = [e \in Events |-> 0] /\ aborts = 0
  BY DEF Init
<1>2. <<>> \in Seq(Events) /\ Len(<<>>) = 0 /\ SetOf(<<>>) = {} /\ Cardinality({}) = 0
  BY EmptySeq, SetOfEmpty, FS_EmptySet
<1>3. TypeOK
  <2>1. /\ pc \in [Dispatchers -> {"idle", "stat", "read", "send", "saving"}]
        /\ loc \in [Dispatchers -> Locals]
    BY IdleType DEF Init
  <2>2. /\ 0 \in 0..(MaxRotations + 1) /\ 0 \in 0..MaxRotations /\ 0 \in 0..MaxAborts /\ 0 \in 0..0 /\ 0 \in Nat
        /\ 0 <= MaxSent /\ times \in [Events -> 0..MaxTimes]
    BY <1>1 DEF MaxTimes
  <2>3. Len(state.sent) <= MaxSent
    BY <1>1, <1>2, <2>2, IdleType
  <2> QED BY <1>1, <1>2, <2>1, <2>2, <2>3, IdleType DEF TypeOK, Locals, NoFile
<1>4. StreamInv
  BY <1>1, <1>2 DEF StreamInv, NoFile
<1>5. Known(DefaultState) /\ (\A b : Covered(DefaultState, b)) /\ SetOf(DefaultState.sent) = {}
  BY <1>2, <1>3, IdleKnown, IdleType
<1>6. StateInv
  BY <1>1, <1>5 DEF StateInv
<1>7. ASSUME NEW d \in Dispatchers PROVE LocInv(d)
  <2>1. loc[d].state = DefaultState /\ loc[d].batch = <<>>
    BY <1>1, IdleType
  <2> QED BY <1>2, <1>5, <2>1 DEF LocInv
<1> QED BY <1>3, <1>4, <1>6, <1>7 DEF IInv

\* Nothing happens.
LEMMA StutterKept ==
  ASSUME IInv, UNCHANGED vars
  PROVE  IInv'
<1>1. UNCHANGED <<file, inode, mtime, rotations, emitted, emptied, outgrown, state, torn, pc, loc, times, aborts>>
  BY DEF vars
<1>2. TypeOK' /\ StreamInv'
  BY <1>1 DEF IInv, TypeOK, StreamInv
<1>3. \A s \in StateFile : \A b : Known(s) /\ Covered(s, b) => Known(s)' /\ Covered(s, b)'
  BY <1>1 DEF Known, Covered, Current
<1> QED BY <1>1, <1>2, <1>3, StreamStep

LEMMA NextIInv ==
  ASSUME IInv, [Next]_vars
  PROVE  IInv'
<1>1. ASSUME NEW d \in Dispatchers, Dispatch(d) PROVE IInv'
  BY <1>1, LoadKept, StatKept, ReadKept, SkipKept, SaveBeginKept, SaveEndKept, SendKept DEF Dispatch
<1>2. ASSUME NEW d \in Dispatchers, SendFails(d) \/ Kill(d) PROVE IInv'
  BY <1>2, AbortKept DEF SendFails, Kill
<1>3. ASSUME NEW d \in Dispatchers, LoadFails(d) PROVE IInv'
  BY <1>3, StutterKept DEF LoadFails
<1> QED BY <1>1, <1>2, <1>3, EmitKept, RotateKept, StutterKept DEF Next

\* IInv holds in every state.
THEOREM Invariant == Spec => []IInv
BY InitIInv, NextIInv, PTL DEF Spec

-----------------------------------------------------------------------------
(* The properties *)

\* Every variable has its type, and the state file keeps no more ids than it may.
THEOREM TypesKept == Spec => []TypeOK
<1>1. IInv => TypeOK
  BY DEF IInv
<1> QED BY <1>1, Invariant, PTL

\* No alert in the stream is passed over: what the next dispatch will not read was
\* delivered, however dispatchers overlap, fail and are killed, and however the stream rotates.
THEOREM NoneOverlooked == Spec => []UnreadAhead
<1>1. ASSUME IInv PROVE UnreadAhead
  <2> SUFFICES ASSUME ~outgrown, NEW i \in 1..Len(file), file[i] \in Alerts, times[file[i]] = 0,
                      ~Rotated(state), ~(i > state.offset)
               PROVE  FALSE
    BY DEF UnreadAhead
  <2>1. state \in StateFile /\ StateInv /\ TypeOK /\ StreamInv
    BY <1>1 DEF IInv, TypeOK
  <2>2. inode # NoFile
    <3>1. Len(<<>>) = 0
      BY EmptySeq
    <3> QED BY <2>1, <3>1 DEF StreamInv
  <2>3. Current(state)
    BY <2>1, <2>2, NotRotated DEF StateInv
  <2>4. state.offset \in Nat /\ Len(file) \in Nat
    BY <2>1, FileType DEF StateFile
  <2>5. i \in 1..state.offset
    BY <2>4
  <2> QED BY <2>1, <2>3, <2>5 DEF StateInv, Covered
<1> QED BY <1>1, Invariant, PTL

\* Only what a command emitted is delivered, and only alerts: the safety part of AlertDelivery.
THEOREM ImplementsDelivery == Spec => Delivery!DeliverySafe
<1>1. ASSUME Init PROVE Delivery!DeliveryInit
  BY <1>1 DEF Init, Delivery!DeliveryInit, Delivered
<1>2. ASSUME IInv, [Next]_vars PROVE [Delivery!DeliveryNext]_(Delivery!deliveryVars)
  <2>1. ASSUME NEW e \in Events, Emit(e) PROVE Delivery!DeliveryNext
    BY <2>1 DEF Emit, Delivery!DeliveryNext, Delivery!EmitEvent, Delivered
  <2>2. ASSUME NEW d \in Dispatchers, NEW e \in Events, Send(d, e) PROVE Delivery!DeliveryNext
    <3>1. times' = [times EXCEPT ![e] = IF @ < MaxTimes THEN @ + 1 ELSE @] /\ e \in Alerts /\ emitted' = emitted
      BY <2>2 DEF Send, Due, stream
    <3>2. times'[e] > 0 /\ \A a \in Events \ {e} : times'[a] = times[a]
      BY <1>2, <3>1, TimesUp DEF IInv
    <3>3. Delivered' = Delivered \cup {e}
      BY <3>2 DEF Delivered
    <3>4. SetOf(loc[d].batch) \subseteq emitted
      BY <1>2 DEF IInv, LocInv
    <3>5. e \in SetOf(loc[d].batch)
      <4>1. loc[d].batch \in Seq(Events) /\ loc[d].batch # <<>> /\ Head(loc[d].batch) = e
        BY <1>2, <2>2, SendLocals DEF IInv
      <4> QED BY <4>1, SetOfTail
    <3> QED BY <3>1, <3>3, <3>4, <3>5 DEF Delivery!DeliveryNext, Delivery!DeliverEvent
  <2>3. CASE UNCHANGED <<emitted, times>>
    BY <2>3 DEF Delivery!deliveryVars, Delivered
  <2>4. ASSUME NEW d \in Dispatchers,
               Dispatch(d) \/ LoadFails(d) \/ SendFails(d) \/ Kill(d),
               ~ \E e \in Events : Send(d, e)
        PROVE  UNCHANGED <<emitted, times>>
    BY <2>4 DEF Dispatch, Load, Stat, Read, Skip, SaveBegin, SaveEnd, LoadFails, SendFails, Kill, stream, vars
  <2>5. ASSUME Rotate \/ UNCHANGED vars PROVE UNCHANGED <<emitted, times>>
    BY <2>5 DEF Rotate, vars
  <2> QED BY <1>2, <2>1, <2>2, <2>3, <2>4, <2>5 DEF Next
<1> QED BY <1>1, <1>2, Invariant, PTL DEF Spec, Delivery!DeliverySafe

-----------------------------------------------------------------------------
(* A lone dispatcher *)

\* The ids that a dispatcher will not send again.
SentBy(d) == IF pc[d] = "idle" THEN state.sent ELSE loc[d].state.sent

Distinct(s) == SetOf(s) \subseteq Alerts /\ Len(s) = Cardinality(SetOf(s))

LoneInv(d) ==
  /\ Distinct(state.sent) /\ Distinct(loc[d].state.sent)
  /\ \A e \in Events : times[e] <= 1 + aborts /\ (e \notin SetOf(SentBy(d)) => times[e] <= aborts)

\* Ids that are distinct are no more than there are alerts.
LEMMA DistinctLen ==
  ASSUME NEW s, Distinct(s)
  PROVE  /\ IsFiniteSet(SetOf(s)) /\ Cardinality(SetOf(s)) \in Nat /\ Len(s) <= Cardinality(Alerts)
         /\ Cardinality(Alerts) \in Nat
<1>1. IsFiniteSet(Alerts)
  BY FS_Subset
<1>2. IsFiniteSet(SetOf(s)) /\ Cardinality(SetOf(s)) <= Cardinality(Alerts)
  BY <1>1, FS_Subset DEF Distinct
<1> QED BY <1>1, <1>2, FS_CardinalityType DEF Distinct

LEMMA LoneStep ==
  ASSUME IInv, [Next]_vars, NEW d \in Dispatchers, Dispatchers = {d}, LoneInv(d),
         Cardinality(Alerts) <= MaxSent
  PROVE  LoneInv(d)'
<1>1. /\ times \in [Events -> 0..MaxTimes] /\ aborts \in Nat /\ pc \in [Dispatchers -> {"idle", "stat", "read", "send", "saving"}]
      /\ state \in StateFile /\ loc[d] \in Locals
      /\ \A e \in Events : times[e] \in Nat
  BY LocalTypes DEF IInv, TypeOK, MaxTimes
<1>2. CASE UNCHANGED <<state, loc, pc, times, aborts>>
  BY <1>2 DEF LoneInv, Distinct, SentBy, SetOf
<1>3. CASE Load(d)
  <2>1. /\ UNCHANGED <<state, times, aborts>> /\ pc[d] = "idle" /\ pc'[d] = "stat" /\ loc'[d].state = state
    BY <1>1, <1>3 DEF Load, Goto, Idle, IInv, TypeOK
  <2> QED BY <2>1 DEF LoneInv, Distinct, SentBy, SetOf
<1>4. ASSUME Stat(d) \/ Read(d) \/ Skip(d) \/ SaveBegin(d) PROVE LoneInv(d)'
  <2>1. /\ UNCHANGED <<state, times, aborts>> /\ pc[d] # "idle" /\ pc'[d] # "idle"
    BY <1>1, <1>4 DEF Stat, Read, Skip, SaveBegin, Goto
  <2>2. loc'[d].state.sent = loc[d].state.sent
    <3>1. loc \in [Dispatchers -> Locals] /\ loc[d] \in Locals /\ loc[d].state \in StateFile
      BY LocalTypes DEF IInv, TypeOK, Locals
    <3>2. CASE Stat(d)
      BY <3>1, <3>2 DEF Stat, Locals, StateFile
    <3>3. ASSUME NEW b, NEW n, loc' = [loc EXCEPT ![d].batch = b, ![d].state.offset = n]
          PROVE  loc'[d].state.sent = loc[d].state.sent
      BY <3>1, <3>3 DEF Locals, StateFile
    <3>4. CASE Read(d)
      BY <3>3, <3>4 DEF Read
    <3>5. CASE Skip(d) \/ SaveBegin(d)
      BY <3>1, <3>5 DEF Skip, SaveBegin, Locals
    <3> QED BY <1>4, <3>2, <3>4, <3>5
  <2> QED BY <2>1, <2>2 DEF LoneInv, Distinct, SentBy, SetOf
<1>5. ASSUME NEW e \in Events, Send(d, e) PROVE LoneInv(d)'
  <2> DEFINE sent == loc[d].state.sent
             new == Append(sent, e)
  <2>1. /\ UNCHANGED <<state, pc, aborts>> /\ pc[d] = "send" /\ e \in Alerts /\ e \notin SetOf(sent)
        /\ times' = [times EXCEPT ![e] = IF @ < MaxTimes THEN @ + 1 ELSE @]
    BY <1>5 DEF Send, Due
  <2>2. sent \in Seq(Events) /\ loc[d].state \in StateFile
    BY LocalTypes DEF IInv
  <2>3. loc'[d].state.sent = new /\ SetOf(new) = SetOf(sent) \cup {e}
    <3>1. loc'[d].state = [loc[d].state EXCEPT !.sent = Append(@, e)] /\ SetOf(new) = SetOf(sent) \cup {e}
      BY <1>5, SendLocals DEF IInv
    <3>2. loc'[d].state = [loc[d].state EXCEPT !.sent = new]
      BY <3>1
    <3> HIDE DEF new
    <3> QED BY <2>2, <3>1, <3>2 DEF StateFile
  <2>4. Len(new) = Len(sent) + 1
    BY <2>2, AppendProperties
  <2>5. Distinct(new)
    <3>1. Distinct(sent)
      BY DEF LoneInv
    <3>2. IsFiniteSet(SetOf(sent))
      BY <3>1, DistinctLen
    <3>3. Cardinality(SetOf(new)) = Cardinality(SetOf(sent)) + 1
      BY <2>1, <2>3, <3>2, FS_AddElement
    <3> QED BY <2>1, <2>3, <2>4, <3>1, <3>3 DEF Distinct
  <2>6. times'[e] <= times[e] + 1 /\ \A a \in Events \ {e} : times'[a] = times[a]
    BY <2>1, TimesUp DEF IInv
  <2>7. times[e] <= aborts
    BY <2>1 DEF LoneInv, SentBy
  <2>8. times' \in [Events -> 0..MaxTimes]
    BY <2>1, TimesUp DEF IInv
  <2> HIDE DEF new
  <2>9. ASSUME NEW a \in Events PROVE times'[a] <= 1 + aborts /\ (a \notin SetOf(new) => times'[a] <= aborts)
    <3>1. CASE a = e
      <4>1. times'[e] \in Nat /\ times'[e] <= 1 + aborts
        BY <1>1, <2>6, <2>7, <2>8 DEF MaxTimes
      <4> QED BY <2>3, <3>1, <4>1
    <3>2. CASE a # e
      BY <2>1, <2>3, <2>6, <3>2 DEF LoneInv, SentBy
    <3> QED BY <3>1, <3>2
  <2> SUFFICES ASSUME NEW q, q = new PROVE LoneInv(d)'
    OBVIOUS
  <2>10. Distinct(loc'[d].state.sent) /\ Distinct(state'.sent)
    BY <2>1, <2>3, <2>5 DEF LoneInv
  <2> QED BY <2>1, <2>3, <2>9, <2>10 DEF LoneInv, SentBy, Distinct, SetOf
<1>6. CASE SaveEnd(d)
  <2> DEFINE sent == loc[d].state.sent
  <2>1. /\ UNCHANGED <<times, aborts>> /\ pc[d] = "saving" /\ pc'[d] = "idle"
        /\ state' = [loc[d].state EXCEPT !.sent = LastOf(sent, MaxSent)] /\ loc'[d] = Idle
    BY <1>1, <1>6 DEF SaveEnd, Goto
  <2>2. sent \in Seq(Events) /\ loc[d].state \in StateFile /\ Distinct(sent)
    BY LocalTypes DEF IInv, LoneInv
  <2>3. Len(sent) <= MaxSent
    BY <2>2, DistinctLen, LenProperties
  <2>4. LastOf(sent, MaxSent) = sent
    BY <2>2, <2>3, LastOfProperties
  <2>5. state'.sent = sent
    BY <2>1, <2>2, <2>4 DEF StateFile
  <2>6. loc'[d].state.sent = <<>>
    BY <2>1, IdleType
  <2>7. Distinct(<<>>)
    BY SetOfEmpty, EmptySeq, FS_EmptySet DEF Distinct
  <2> QED BY <2>1, <2>2, <2>5, <2>6, <2>7 DEF LoneInv, SentBy, Distinct, SetOf
<1>7. ASSUME Abort(d), UNCHANGED <<state, times>> PROVE LoneInv(d)'
  <2>1. aborts' = aborts + 1 /\ pc'[d] = "idle" /\ loc'[d] = Idle
    BY <1>1, <1>7 DEF Abort, Goto, IInv, TypeOK
  <2>2. loc'[d].state.sent = <<>> /\ Distinct(<<>>)
    BY <2>1, IdleType, SetOfEmpty, EmptySeq, FS_EmptySet DEF Distinct
  <2>3. \A e \in Events : times'[e] <= aborts' /\ times'[e] <= 1 + aborts'
    BY <1>1, <1>7, <2>1 DEF LoneInv
  <2> QED BY <1>7, <2>2, <2>3 DEF LoneInv, Distinct, SetOf
<1>8. CASE UNCHANGED vars
  BY <1>2, <1>8 DEF vars
<1> QED BY <1>2, <1>3, <1>4, <1>5, <1>6, <1>7, <1>8 DEF Next, Emit, Rotate, Dispatch, LoadFails, SendFails, Kill, vars

\* A lone dispatcher whose state file has room for every id sends a message again only for
\* a dispatch that was cut short, once for each.
THEOREM RepeatsOnlyCut ==
  ASSUME NEW d \in Dispatchers, Dispatchers = {d}, Cardinality(Alerts) <= MaxSent
  PROVE  Spec => []RepeatsBounded
<1>1. ASSUME Init PROVE LoneInv(d)
  <2>1. Distinct(<<>>) /\ SetOf(<<>>) = {}
    BY SetOfEmpty, EmptySeq, FS_EmptySet DEF Distinct
  <2>2. /\ state.sent = <<>> /\ loc[d].state.sent = <<>> /\ aborts = 0 /\ \A e \in Events : times[e] = 0
    BY <1>1, IdleType DEF Init
  <2> QED BY <2>1, <2>2 DEF LoneInv, SentBy
<1>2. LoneInv(d) => RepeatsBounded
  BY DEF LoneInv, RepeatsBounded
<1>3. IInv /\ LoneInv(d) /\ [Next]_vars => LoneInv(d)'
  BY LoneStep
<1> QED BY <1>1, <1>2, <1>3, Invariant, PTL DEF Spec

==============================================================================
