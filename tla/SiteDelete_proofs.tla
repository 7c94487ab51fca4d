-------------------------- MODULE SiteDelete_proofs --------------------------
(***************************************************************************)
(* Proofs about SiteDelete, for any number of operators, contents,         *)
(* archives and mishaps: the types, that a site is never lost, and that a  *)
(* delete or a restore which completes has done all of its work.  IInv is  *)
(* inductive; the properties follow from it.                               *)
(***************************************************************************)
EXTENDS SiteDelete, SequenceTheorems, TLAPS

-----------------------------------------------------------------------------
(* The inductive invariant *)

Archive == [kind : ArchiveKind, parts : Contents]
Locals == [opt : DeleteOption \cup RestoreOption, archive : Nat, todo : Todo]

SiteTypes ==
  /\ site \in Contents
  /\ \E parts \in Contents : wanted = Established(parts)
  /\ unit \in BOOLEAN /\ running \in BOOLEAN /\ mishaps \in 0..MaxMishaps
  /\ archives \in Seq(Archive) /\ Len(archives) <= MaxArchives

ProcessTypes ==
  /\ lock \in Operators \cup {NoOperator}
  /\ pc \in [Operators -> {"idle"} \cup Deleting \cup Restoring]
  /\ loc \in [Operators -> Locals]

Types == SiteTypes /\ ProcessTypes

\* Whoever is at work, and only he, holds the lock.
LockInv == \A p \in Operators : pc[p] # "idle" <=> lock = p

PartsOf(todo) == {todo[k] : k \in 1..Len(todo)}

\* What is left of a part that a purge or a restore has removed.
Gone(part) == site[part] = Absent \/ (part = "root" /\ site["root"] = Torn)

\* What the copy makes of a part.
AsCopied(p, part) ==
  IF part = "secrets" /\ ~loc[p].opt.secrets THEN site[part] = Absent
  ELSE site[part] = Source(p)[part] \/ (part = "root" /\ Source(p)[part] = Absent)

Whole(p) == \A part \in Part : AsCopied(p, part)

\* What a phase says of the command that is in it: what it has handled so far is
\* gone, or is as it is in the archive.
DeleteOf(p) ==
  /\ pc[p] = "archive" => Len(archives) < MaxArchives
  /\ pc[p] = "fill" => loc[p].archive \in 1..Len(archives) /\ archives[loc[p].archive].kind = "broken"
  /\ pc[p] \in {"purge", "deleted"} => ~unit
  /\ pc[p] \in {"purge", "clear"} => \A part \in Part \ PartsOf(loc[p].todo) : Gone(part)
  /\ pc[p] = "deleted" => \A part \in Part : Gone(part)

CopyOf(p) ==
  /\ pc[p] \in {"copy", "copying"} =>
       /\ \A part \in PartsOf(loc[p].todo) : Gone(part) \/ (pc[p] = "copying" /\ part = NextPart(p))
       /\ \A part \in Part \ PartsOf(loc[p].todo) : AsCopied(p, part)
       /\ "secrets" \in PartsOf(loc[p].todo) => loc[p].opt.secrets
  /\ pc[p] = "copying" => loc[p].todo # <<>>

EnableOf(p) ==
  /\ pc[p] \in {"enable", "start", "restored"} => Whole(p)
  /\ pc[p] = "enable" => site["runtime"] = "on"
  /\ pc[p] = "spec" => \A part \in Part : IF part = "runtime" THEN Source(p)[part] = "on" ELSE AsCopied(p, part)
  /\ pc[p] = "start" => unit
  /\ pc[p] = "restored" /\ loc[p].opt.runtime /\ Source(p)["runtime"] = "on" => unit /\ running

RestoreOf(p) ==
  /\ pc[p] \in Restoring => loc[p].archive \in 1..Len(archives)
  /\ CopyOf(p) /\ EnableOf(p)

PhaseInv == \A p \in Operators : loc[p].archive <= Len(archives) /\ DeleteOf(p) /\ RestoreOf(p)

\* The phases which change the site, and what they can rely on.
Changing == (Deleting \cup Restoring) \ {"archive", "fill", "extract"}

Kept == wanted["root"] = Absent \/ Archived

KeptInv == Recoverable /\ \A p \in Operators : pc[p] \in Changing => Kept

IInv == Types /\ LockInv /\ PhaseInv /\ KeptInv

USE NoOperatorAssumption, VersionsAssumption, BoundsAssumption

-----------------------------------------------------------------------------
(* The parts and what is left to do *)

\* A part can be absent or torn.
LEMMA ContentsUpdate ==
  ASSUME NEW s \in Contents, NEW part \in Part
  PROVE  [s EXCEPT ![part] = Absent] \in Contents /\ [s EXCEPT ![part] = Torn] \in Contents
<1>1. CASE part = "root"
  BY <1>1 DEF Contents, Part
<1>2. CASE part = "metadata"
  BY <1>2 DEF Contents, Part
<1>3. CASE part = "runtime"
  BY <1>3 DEF Contents, Part
<1>4. CASE part = "secrets"
  BY <1>4 DEF Contents, Part
<1> QED BY <1>1, <1>2, <1>3, <1>4 DEF Part

\* A part can be what it is in another content.
LEMMA ContentsCopy ==
  ASSUME NEW s \in Contents, NEW t \in Contents, NEW part \in Part
  PROVE  [s EXCEPT ![part] = t[part]] \in Contents
<1>1. CASE part = "root"
  BY <1>1 DEF Contents, Part
<1>2. CASE part = "metadata"
  BY <1>2 DEF Contents, Part
<1>3. CASE part = "runtime"
  BY <1>3 DEF Contents, Part
<1>4. CASE part = "secrets"
  BY <1>4 DEF Contents, Part
<1> QED BY <1>1, <1>2, <1>3, <1>4 DEF Part

\* The other parts stay as they are.
LEMMA ContentsExcept ==
  ASSUME NEW s \in Contents, NEW part \in Part, NEW v, NEW t, t = [s EXCEPT ![part] = v]
  PROVE  t[part] = v /\ \A q \in Part : q # part => t[q] = s[q]
<1>1. CASE part = "root"
  BY <1>1 DEF Contents, Part
<1>2. CASE part = "metadata"
  BY <1>2 DEF Contents, Part
<1>3. CASE part = "runtime"
  BY <1>3 DEF Contents, Part
<1>4. CASE part = "secrets"
  BY <1>4 DEF Contents, Part
<1> QED BY <1>1, <1>2, <1>3, <1>4 DEF Part

\* Nothing is a content.
LEMMA NothingType == NothingThere \in Contents
<1>1. NothingThere = [root |-> Absent, metadata |-> Absent, runtime |-> Absent, secrets |-> Absent]
  BY DEF NothingThere, Part
<1> QED BY <1>1 DEF Contents

\* The parts of a slice of an order.
LEMMA SliceParts ==
  ASSUME NEW order \in Seq(Part), NEW i \in Nat \ {0}
  PROVE  LET todo == SubSeq(order, i, Len(order))
         IN  /\ todo \in Seq(Part)
             /\ PartsOf(todo) = {order[j] : j \in i..Len(order)}
             /\ todo # <<>> => i <= Len(order)
<1> DEFINE todo == SubSeq(order, i, Len(order))
<1>1. Len(order) \in Nat /\ \A j \in i..Len(order) : order[j] \in Part
  BY LenProperties, ElementOfSeq
<1>2. /\ todo \in Seq(Part)
      /\ Len(todo) = IF i <= Len(order) THEN Len(order) - i + 1 ELSE 0
      /\ \A k \in 1..(Len(order) - i + 1) : todo[k] = order[i + k - 1]
  BY <1>1, SubSeqProperties
<1>3. ASSUME NEW part \in PartsOf(todo) PROVE part \in {order[j] : j \in i..Len(order)}
  <2>1. PICK k \in 1..Len(todo) : part = todo[k]
    BY <1>3 DEF PartsOf
  <2>2. k \in 1..(Len(order) - i + 1) /\ i + k - 1 \in i..Len(order)
    BY <1>1, <1>2, <2>1
  <2> QED BY <1>2, <2>1, <2>2
<1>4. ASSUME NEW j \in i..Len(order) PROVE order[j] \in PartsOf(todo)
  <2>1. j - i + 1 \in 1..(Len(order) - i + 1) /\ j - i + 1 \in 1..Len(todo) /\ i + (j - i + 1) - 1 = j
    BY <1>1, <1>2
  <2>2. todo[j - i + 1] = order[j]
    BY <1>2, <2>1
  <2> QED BY <2>1, <2>2 DEF PartsOf
<1>5. todo # <<>> => i <= Len(order)
  BY <1>1, <1>2, EmptySeq
<1> QED BY <1>2, <1>3, <1>4, <1>5

\* Each order names a part once.
LEMMA Orders ==
  \A order \in {PurgeOrder, RestoreOrder, PlainOrder} :
    /\ order \in Seq(Part) /\ Len(order) \in 1..4
    /\ \A i, j \in 1..Len(order) : order[i] = order[j] => i = j
<1>1. PurgeOrder \in Seq(Part) /\ Len(PurgeOrder) = 4
  BY DEF PurgeOrder, Part
<1>2. RestoreOrder \in Seq(Part) /\ Len(RestoreOrder) = 4
  BY DEF RestoreOrder, Part
<1>3. PlainOrder \in Seq(Part) /\ Len(PlainOrder) = 3
  BY DEF PlainOrder, Part
<1>4. \A i, j \in 1..4 : PurgeOrder[i] = PurgeOrder[j] => i = j
  BY DEF PurgeOrder
<1>5. \A i, j \in 1..4 : RestoreOrder[i] = RestoreOrder[j] => i = j
  BY DEF RestoreOrder
<1>6. \A i, j \in 1..3 : PlainOrder[i] = PlainOrder[j] => i = j
  BY DEF PlainOrder
<1> QED BY <1>1, <1>2, <1>3, <1>4, <1>5, <1>6

\* What is left to do is a slice of an order.
LEMMA SliceInTodo ==
  ASSUME NEW order \in {PurgeOrder, RestoreOrder, PlainOrder}, NEW i \in 1..5
  PROVE  SubSeq(order, i, Len(order)) \in Todo
<1>1. SubSeq(order, i, Len(order)) \in Suffixes(order)
  BY DEF Suffixes
<1> QED BY <1>1 DEF Todo

\* To begin with everything is left to do, at the end nothing is.
LEMMA TodoEnds ==
  /\ {PurgeOrder, RestoreOrder, PlainOrder, <<>>} \subseteq Todo
  /\ PartsOf(PurgeOrder) = Part /\ PartsOf(RestoreOrder) = Part
  /\ PartsOf(PlainOrder) = Part \ {"secrets"}
  /\ PartsOf(<<>>) = {}
<1>1. \A order \in {PurgeOrder, RestoreOrder, PlainOrder} : order \in Todo
  <2>1. ASSUME NEW order \in {PurgeOrder, RestoreOrder, PlainOrder} PROVE order \in Todo
    <3>1. order = SubSeq(order, 1, Len(order))
      BY Orders, SubSeqFull
    <3>2. SubSeq(order, 1, Len(order)) \in Todo
      BY SliceInTodo
    <3> QED BY <3>1, <3>2
  <2> QED BY <2>1
<1>2. SubSeq(PurgeOrder, 5, Len(PurgeOrder)) = <<>>
  BY SubSeqEmpty DEF PurgeOrder
<1>3. <<>> \in Todo
  <2>1. PurgeOrder \in {PurgeOrder, RestoreOrder, PlainOrder} /\ 5 \in 1..5
    OBVIOUS
  <2> QED BY <1>2, <2>1, SliceInTodo
<1>4. PartsOf(PurgeOrder) = {PurgeOrder[1], PurgeOrder[2], PurgeOrder[3], PurgeOrder[4]}
  <2>1. Len(PurgeOrder) = 4 /\ 1..4 = {1, 2, 3, 4}
    BY DEF PurgeOrder
  <2> QED BY <2>1 DEF PartsOf
<1>5. PartsOf(RestoreOrder) = {RestoreOrder[1], RestoreOrder[2], RestoreOrder[3], RestoreOrder[4]}
  <2>1. Len(RestoreOrder) = 4 /\ 1..4 = {1, 2, 3, 4}
    BY DEF RestoreOrder
  <2> QED BY <2>1 DEF PartsOf
<1>6. PartsOf(PlainOrder) = {PlainOrder[1], PlainOrder[2], PlainOrder[3]}
  <2>1. Len(PlainOrder) = 3 /\ 1..3 = {1, 2, 3}
    BY DEF PlainOrder
  <2> QED BY <2>1 DEF PartsOf
<1>7. PartsOf(<<>>) = {}
  BY DEF PartsOf
<1> QED BY <1>1, <1>3, <1>4, <1>5, <1>6, <1>7 DEF PurgeOrder, RestoreOrder, PlainOrder, Part

\* The next part is handled and leaves the list.
LEMMA TodoStep ==
  ASSUME NEW todo \in Todo, todo # <<>>
  PROVE  /\ Head(todo) \in Part /\ Head(todo) \in PartsOf(todo)
         /\ Tail(todo) \in Todo
         /\ PartsOf(Tail(todo)) = PartsOf(todo) \ {Head(todo)}
<1>1. PICK order \in {PurgeOrder, RestoreOrder, PlainOrder}, i \in 1..5 : todo = SubSeq(order, i, Len(order))
  BY DEF Todo, Suffixes
<1>2. /\ order \in Seq(Part) /\ Len(order) \in 1..4
      /\ \A j, k \in 1..Len(order) : order[j] = order[k] => j = k
  BY Orders
<1>3. PartsOf(todo) = {order[j] : j \in i..Len(order)} /\ i <= Len(order)
  BY <1>1, <1>2, SliceParts
<1>4. Head(todo) = order[i] /\ Tail(todo) = SubSeq(order, i + 1, Len(order))
  BY <1>1, <1>2, <1>3, HeadTailOfSubSeq
<1>5. PartsOf(Tail(todo)) = {order[j] : j \in (i + 1)..Len(order)}
  <2>1. i + 1 \in Nat \ {0}
    OBVIOUS
  <2> QED BY <1>2, <1>4, <2>1, SliceParts
<1>6. {order[j] : j \in (i + 1)..Len(order)} = {order[j] : j \in i..Len(order)} \ {order[i]}
  <2>1. \A j \in (i + 1)..Len(order) : j \in i..Len(order) /\ order[j] # order[i]
    BY <1>2, <1>3
  <2>2. \A j \in i..Len(order) : j = i \/ j \in (i + 1)..Len(order)
    BY <1>2
  <2> QED BY <2>1, <2>2
<1>7. Tail(todo) \in Todo
  <2>1. i + 1 \in 1..5
    BY <1>2, <1>3
  <2> QED BY <1>4, <2>1, SliceInTodo
<1>8. order[i] \in Part /\ order[i] \in {order[j] : j \in i..Len(order)}
  BY <1>2, <1>3, ElementOfSeq
<1> QED BY <1>3, <1>4, <1>5, <1>6, <1>7, <1>8

-----------------------------------------------------------------------------
(* Steps in general *)

\* While somebody is at work the others are idle.
LEMMA OthersIdle ==
  ASSUME IInv, NEW p \in Operators, pc[p] # "idle"
  PROVE  lock = p /\ \A q \in Operators \ {p} : pc[q] = "idle"
BY DEF IInv, LockInv

\* A command which goes on keeps IInv when it keeps what concerns itself.
LEMMA ProgressKept ==
  ASSUME IInv, NEW p \in Operators, \A q \in Operators \ {p} : pc[q] = "idle",
         NEW label \in Deleting \cup Restoring, pc' = [pc EXCEPT ![p] = label],
         NEW l \in Locals, loc' = [loc EXCEPT ![p] = l],
         lock' = p, SiteTypes', Len(archives) <= Len(archives'), l.archive <= Len(archives'),
         DeleteOf(p)', RestoreOf(p)', Recoverable', label \in Changing => Kept'
  PROVE  IInv'
<1>1. pc'[p] = label /\ loc'[p] = l /\ label # "idle"
  BY DEF IInv, Types, ProcessTypes, Deleting, Restoring
<1>2. \A q \in Operators \ {p} : pc'[q] = "idle" /\ loc'[q] = loc[q]
  BY DEF IInv, Types, ProcessTypes
<1>3. Types'
  BY DEF IInv, Types, ProcessTypes
<1>4. LockInv'
  BY <1>1, <1>2 DEF LockInv
<1>5. ASSUME NEW q \in Operators \ {p}
      PROVE  loc'[q].archive <= Len(archives') /\ DeleteOf(q)' /\ RestoreOf(q)'
  <2>1. loc'[q].archive <= Len(archives')
    <3>1. loc[q].archive \in Nat /\ loc[q].archive <= Len(archives)
      BY DEF IInv, Types, ProcessTypes, Locals, PhaseInv
    <3>2. Len(archives) \in Nat /\ Len(archives') \in Nat
      BY <1>3, LenProperties DEF IInv, Types, SiteTypes
    <3> QED BY <1>2, <3>1, <3>2
  <2> QED BY <1>2, <2>1 DEF DeleteOf, RestoreOf, CopyOf, EnableOf, Restoring
<1>6. PhaseInv'
  BY <1>1, <1>5 DEF PhaseInv
<1>7. KeptInv'
  BY <1>1, <1>2 DEF KeptInv, Changing, Deleting, Restoring
<1> QED BY <1>3, <1>4, <1>6, <1>7 DEF IInv

\* What nothing happens to stays recoverable.
LEMMA SteadyKept ==
  ASSUME UNCHANGED <<wanted, archives>>
  PROVE  /\ Kept => Kept' /\ Recoverable'
         /\ Recoverable /\ site' = site => Recoverable'
BY DEF Kept, Archived, Recoverable, Holds

\* A command which remembers nothing new.
LEMMA SameLocals ==
  ASSUME IInv, NEW p \in Operators
  PROVE  loc[p] \in Locals /\ loc = [loc EXCEPT ![p] = loc[p]] /\ loc[p].archive <= Len(archives)
BY DEF IInv, Types, ProcessTypes, PhaseInv

\* What a command remembers at first.
LEMMA NoLocalsType == NoLocals \in Locals
BY TodoEnds DEF NoLocals, Locals, DeleteOption

\* Whoever ends a command, well or not, and keeps the types and the site.
LEMMA EndKept ==
  ASSUME IInv, NEW p \in Operators, pc[p] # "idle", Finish(p),
         SiteTypes', Len(archives) <= Len(archives'), Recoverable'
  PROVE  IInv'
<1>1. lock' = NoOperator /\ \A q \in Operators : pc'[q] = "idle"
  BY OthersIdle DEF Finish, Goto, IInv, Types, ProcessTypes
<1>2. Types'
  BY <1>1, NoLocalsType DEF IInv, Types, ProcessTypes, Finish, Goto
<1>3. LockInv'
  BY <1>1 DEF LockInv
<1>4. \A q \in Operators : loc'[q].archive <= Len(archives')
  <2>1. Len(archives) \in Nat /\ Len(archives') \in Nat
    BY LenProperties DEF IInv, Types, SiteTypes
  <2>2. NoLocals.archive <= Len(archives')
    BY <2>1 DEF NoLocals
  <2>3. \A q \in Operators : loc[q].archive \in Nat /\ loc[q].archive <= Len(archives')
    BY <2>1 DEF IInv, PhaseInv, Types, ProcessTypes, Locals
  <2> QED BY <2>2, <2>3 DEF Finish, IInv, Types, ProcessTypes
<1>5. PhaseInv'
  BY <1>1, <1>4 DEF PhaseInv, DeleteOf, RestoreOf, CopyOf, EnableOf, Restoring
<1>6. KeptInv'
  BY <1>1 DEF KeptInv, Changing, Deleting, Restoring
<1> QED BY <1>2, <1>3, <1>5, <1>6 DEF IInv

\* Most of them leave the host and the archives as they are.
LEMMA FinishKept ==
  ASSUME IInv, NEW p \in Operators, pc[p] # "idle", Finish(p),
         UNCHANGED <<host, archives, wanted>>, mishaps' \in 0..MaxMishaps
  PROVE  IInv'
<1>1. SiteTypes' /\ Len(archives) <= Len(archives')
  BY LenProperties DEF host, IInv, Types, SiteTypes
<1>2. Recoverable'
  BY SteadyKept DEF host, IInv, KeptInv
<1> QED BY <1>1, <1>2, EndKept

-----------------------------------------------------------------------------
(* site delete *)

\* The locals of a command with other things to do are locals.
LEMMA LocalsUpdate ==
  ASSUME NEW l \in Locals
  PROVE  /\ \A todo \in Todo : [l EXCEPT !.todo = todo] \in Locals
         /\ \A a \in Nat : [l EXCEPT !.archive = a] \in Locals
         /\ \A o \in DeleteOption \cup RestoreOption : [l EXCEPT !.opt = o] \in Locals
         /\ \A o \in DeleteOption \cup RestoreOption, a \in Nat :
              [l EXCEPT !.opt = o, !.archive = a] \in Locals
BY DEF Locals

\* The archives are as many as there are.
LEMMA ArchivesLen ==
  ASSUME SiteTypes
  PROVE  /\ Len(archives) \in 0..MaxArchives /\ DOMAIN archives = 1..Len(archives)
         /\ \A a \in 1..Len(archives) : archives[a] \in Archive
BY LenProperties, ElementOfSeq DEF SiteTypes

\* Begin: a site that is not archived is not wanted any more.
LEMMA BeginDeleteKept ==
  ASSUME IInv, NEW p \in Operators, NEW opt \in DeleteOption, BeginDelete(p, opt)
  PROVE  IInv'
<1> DEFINE l == [NoLocals EXCEPT !.opt = opt]
           label == IF opt.checkpoint THEN "archive" ELSE "stop"
<1>1. /\ \A q \in Operators \ {p} : pc[q] = "idle"
      /\ label \in Deleting /\ pc' = [pc EXCEPT ![p] = label]
      /\ l \in Locals /\ loc' = [loc EXCEPT ![p] = l] /\ lock' = p
      /\ UNCHANGED <<host, archives, mishaps>>
  BY NoLocalsType, LocalsUpdate DEF BeginDelete, Lock, Goto, Deleting, IInv, LockInv
<1>2. pc'[p] = label /\ loc'[p] = l /\ l.archive = 0
  BY <1>1 DEF IInv, Types, ProcessTypes, NoLocals
<1>3. SiteTypes'
  BY <1>1, NothingType DEF BeginDelete, IInv, Types, SiteTypes, host
<1>4. Len(archives) \in Nat /\ Len(archives') = Len(archives) /\ 0 <= Len(archives')
  BY <1>1, ArchivesLen DEF IInv, Types
<1>5. DeleteOf(p)' /\ RestoreOf(p)'
  BY <1>1, <1>2 DEF BeginDelete, DeleteOf, RestoreOf, CopyOf, EnableOf, Restoring
<1>6. wanted' = wanted \/ wanted'["root"] = Absent
  BY DEF BeginDelete, Established, NothingThere, Restored, Part
<1>7. Recoverable' /\ (label \in Changing => Kept')
  <2>1. CASE opt.checkpoint
    BY <2>1, <1>1, SteadyKept DEF BeginDelete, IInv, KeptInv, Changing, host
  <2>2. CASE ~opt.checkpoint
    <3>1. wanted'["root"] = Absent
      BY <2>2 DEF BeginDelete, Established, NothingThere, Restored, Part
    <3> QED BY <3>1 DEF Recoverable, Kept
  <2> QED BY <2>1, <2>2
<1>8. Len(archives) <= Len(archives') /\ l.archive <= Len(archives')
  BY <1>2, <1>4
<1> HIDE DEF l, label
<1> QED BY <1>1, <1>3, <1>5, <1>7, <1>8, ProgressKept

\* A new archive takes nothing from the others.
LEMMA OpenArchiveKept ==
  ASSUME IInv, NEW p \in Operators, OpenArchive(p)
  PROVE  IInv'
<1> DEFINE new == [kind |-> "broken", parts |-> NothingThere]
           l == [loc[p] EXCEPT !.archive = Len(archives')]
<1>1. Len(archives) < MaxArchives /\ archives \in Seq(Archive) /\ Len(archives) \in Nat
  BY ArchivesLen DEF OpenArchive, IInv, Types, SiteTypes, PhaseInv, DeleteOf
<1>2. new \in Archive
  BY NothingType DEF Archive, ArchiveKind
<1>3. /\ archives' = Append(archives, new) /\ archives' \in Seq(Archive)
      /\ Len(archives') = Len(archives) + 1
      /\ \A a \in 1..Len(archives) : archives'[a] = archives[a]
      /\ archives'[Len(archives')] = new
  BY <1>1, <1>2, AppendProperties DEF OpenArchive
<1>4. lock' = p /\ \A q \in Operators \ {p} : pc[q] = "idle"
  BY OthersIdle DEF OpenArchive
<1>5. "fill" \in Deleting /\ pc' = [pc EXCEPT ![p] = "fill"] /\ pc'[p] = "fill"
  BY DEF OpenArchive, Goto, Deleting, IInv, Types, ProcessTypes
<1>6. l \in Locals /\ loc' = [loc EXCEPT ![p] = l] /\ loc'[p] = l /\ l.archive = Len(archives')
  <2>1. loc[p] \in Locals /\ Len(archives') \in Nat
    BY <1>1, <1>3, SameLocals
  <2>2. l \in Locals /\ l.archive = Len(archives')
    BY <2>1, LocalsUpdate DEF Locals
  <2> QED BY <2>2 DEF OpenArchive, IInv, Types, ProcessTypes
<1>7. SiteTypes'
  BY <1>1, <1>3 DEF OpenArchive, IInv, Types, SiteTypes, host
<1>8. DeleteOf(p)' /\ RestoreOf(p)'
  <2>1. loc'[p].archive \in 1..Len(archives') /\ archives'[loc'[p].archive].kind = "broken"
    <3>1. loc'[p].archive = Len(archives')
      BY <1>6
    <3>2. Len(archives') \in 1..Len(archives')
      BY <1>1, <1>3
    <3>3. archives'[Len(archives')].kind = "broken"
      BY <1>3
    <3> QED BY <3>1, <3>2, <3>3
  <2> QED BY <1>5, <2>1 DEF DeleteOf, RestoreOf, CopyOf, EnableOf, Restoring
<1>9. Recoverable'
  <2>1. UNCHANGED <<wanted, site>>
    BY DEF OpenArchive, host
  <2>2. DOMAIN archives = 1..Len(archives) /\ DOMAIN archives' = 1..Len(archives')
    BY <1>1, <1>3, LenProperties
  <2>3. \A a \in DOMAIN archives : a \in DOMAIN archives' /\ archives'[a] = archives[a]
    BY <1>1, <1>3, <2>2
  <2> QED BY <2>1, <2>3 DEF IInv, KeptInv, Recoverable, Archived, Holds
<1>10. Len(archives) <= Len(archives') /\ l.archive <= Len(archives') /\ "fill" \notin Changing
  BY <1>1, <1>3, <1>6 DEF Changing
<1> HIDE DEF l
<1> QED BY <1>4, <1>5, <1>6, <1>7, <1>8, <1>9, <1>10, ProgressKept

\* What is added is as it is on disk, the secrets excepted.
LEMMA AddedType ==
  ASSUME IInv, NEW p \in Operators
  PROVE  Added(p) \in Contents /\ Established(Added(p)) = Established(site)
<1>1. site \in Contents /\ "secrets" \in Part
  BY DEF IInv, Types, SiteTypes, Part
<1>2. [site EXCEPT !["secrets"] = Absent] \in Contents
  BY <1>1, ContentsUpdate
<1>3. \A part \in Restored : part \in Part /\ part # "secrets"
  BY DEF Restored
<1>4. ASSUME NEW part \in Restored
      PROVE  [site EXCEPT !["secrets"] = Absent][part] = site[part]
  BY <1>3
<1> QED BY <1>1, <1>2, <1>4 DEF Added, Established

\* The first parts of a site are contents.
LEMMA FirstPartsType ==
  ASSUME NEW parts \in Contents, NEW n \in 0..3, NEW next \in {Absent, Torn}
  PROVE  FirstParts(parts, n, next) \in Contents
<1> DEFINE f == FirstParts(parts, n, next)
<1>1. f = [root |-> f["root"], metadata |-> f["metadata"], runtime |-> f["runtime"], secrets |-> f["secrets"]]
  BY DEF FirstParts, Part
<1>2. \A part \in Part : f[part] \in {parts[part], Absent, Torn}
  BY DEF FirstParts
<1> HIDE DEF f
<1>3. f \in Contents
  BY <1>1, <1>2 DEF Contents, Part
<1> QED BY <1>3 DEF f

\* An archive that is filled takes nothing from the others, and was none before.
LEMMA FilledKept ==
  ASSUME IInv, NEW p \in Operators, pc[p] = "fill", NEW new \in Archive,
         archives' = [archives EXCEPT ![loc[p].archive] = new], new.kind # "broken",
         UNCHANGED wanted
  PROVE  /\ archives' \in Seq(Archive) /\ Len(archives') = Len(archives) /\ Len(archives) \in Nat
         /\ Archived \/ Holds(new.parts) => Archived'
<1> DEFINE a == loc[p].archive
<1>1. a \in 1..Len(archives) /\ archives[a].kind = "broken" /\ archives \in Seq(Archive)
  BY DEF IInv, PhaseInv, DeleteOf, Types, SiteTypes
<1>2. /\ archives' \in Seq(Archive) /\ Len(archives') = Len(archives)
      /\ \A b \in 1..Len(archives) : archives'[b] = IF b = a THEN new ELSE archives[b]
      /\ DOMAIN archives = 1..Len(archives) /\ DOMAIN archives' = 1..Len(archives)
      /\ Len(archives) \in Nat
  BY <1>1, ExceptSeq, LenProperties
<1>3. ASSUME Holds(new.parts) PROVE Archived'
  <2>1. a \in DOMAIN archives' /\ archives'[a] = new
    BY <1>1, <1>2
  <2> QED BY <1>3, <2>1 DEF Archived, Holds
<1>4. ASSUME Archived PROVE Archived'
  <2>1. PICK b \in DOMAIN archives : archives[b].kind # "broken" /\ Holds(archives[b].parts)
    BY <1>4 DEF Archived
  <2>2. b # a /\ b \in DOMAIN archives' /\ archives'[b] = archives[b]
    BY <1>1, <1>2, <2>1
  <2> QED BY <2>1, <2>2 DEF Archived, Holds
<1> QED BY <1>2, <1>3, <1>4

\* The archive holds what is on disk; what was archived before still is.
LEMMA CloseArchiveKept ==
  ASSUME IInv, NEW p \in Operators, CloseArchive(p)
  PROVE  IInv'
<1> DEFINE new == [kind |-> "whole", parts |-> Added(p)]
<1>1. /\ pc[p] = "fill" /\ archives' = [archives EXCEPT ![loc[p].archive] = new]
      /\ UNCHANGED <<host, lock, wanted, mishaps>>
  BY DEF CloseArchive
<1>2. new \in Archive /\ new.kind # "broken" /\ Established(new.parts) = Established(site)
  BY AddedType DEF Archive, ArchiveKind
<1> HIDE DEF new
<1>3. /\ archives' \in Seq(Archive) /\ Len(archives') = Len(archives) /\ Len(archives) \in Nat
      /\ Archived \/ Holds(new.parts) => Archived'
  BY <1>1, <1>2, FilledKept
<1>4. lock' = p /\ \A q \in Operators \ {p} : pc[q] = "idle"
  BY OthersIdle DEF CloseArchive
<1>5. "stop" \in Deleting /\ pc' = [pc EXCEPT ![p] = "stop"] /\ pc'[p] = "stop"
  BY DEF CloseArchive, Goto, Deleting, IInv, Types, ProcessTypes
<1>6. SiteTypes'
  BY <1>1, <1>3 DEF IInv, Types, SiteTypes, host
<1>7. DeleteOf(p)' /\ RestoreOf(p)'
  BY <1>5 DEF DeleteOf, RestoreOf, CopyOf, EnableOf, Restoring
<1>8. Kept'
  BY <1>1, <1>2, <1>3 DEF Kept, IInv, KeptInv, Recoverable, Holds
<1>9. NoLocals \in Locals /\ loc' = [loc EXCEPT ![p] = NoLocals] /\ NoLocals.archive <= Len(archives')
  BY <1>3, NoLocalsType DEF CloseArchive, NoLocals
<1>10. Recoverable' /\ Len(archives) <= Len(archives')
  BY <1>3, <1>8 DEF Recoverable, Kept
<1> QED BY <1>4, <1>5, <1>6, <1>7, <1>8, <1>9, <1>10, ProgressKept

\* A checkpoint that an exception ends leaves the site as it is.
LEMMA CutArchiveKept ==
  ASSUME IInv, NEW p \in Operators, CutArchive(p)
  PROVE  IInv'
<1>1. PICK n \in 0..3, next \in {Absent, Torn} :
        archives' = [archives EXCEPT ![loc[p].archive] =
                       [kind |-> "cut", parts |-> FirstParts(Added(p), n, next)]]
  BY DEF CutArchive
<1> DEFINE new == [kind |-> "cut", parts |-> FirstParts(Added(p), n, next)]
<1>2. new \in Archive /\ new.kind # "broken"
  BY AddedType, FirstPartsType DEF Archive, ArchiveKind
<1>3. pc[p] = "fill" /\ Finish(p) /\ UNCHANGED <<host, wanted>> /\ mishaps' \in 0..MaxMishaps
  BY DEF CutArchive, IInv, Types, SiteTypes
<1> HIDE DEF new
<1>4. archives' = [archives EXCEPT ![loc[p].archive] = new]
  BY <1>1 DEF new
<1>5. /\ archives' \in Seq(Archive) /\ Len(archives') = Len(archives) /\ Len(archives) \in Nat
      /\ Archived => Archived'
  BY <1>2, <1>3, <1>4, FilledKept
<1>6. SiteTypes' /\ Len(archives) <= Len(archives')
  BY <1>3, <1>5 DEF IInv, Types, SiteTypes, host
<1>7. Recoverable'
  BY <1>3, <1>5 DEF IInv, KeptInv, Recoverable, Holds, host
<1> QED BY <1>3, <1>6, <1>7, EndKept

\* A step of the purge or of the copy: the archives hold what is wanted, and stay as they are.
LEMMA ChangeKept ==
  ASSUME IInv, NEW p \in Operators, pc[p] \in Changing,
         NEW label \in Changing, pc' = [pc EXCEPT ![p] = label],
         NEW l \in Locals, loc' = [loc EXCEPT ![p] = l], l.archive <= Len(archives),
         UNCHANGED <<lock, archives, wanted>>, site' \in Contents,
         unit' \in BOOLEAN, running' \in BOOLEAN, mishaps' \in 0..MaxMishaps,
         DeleteOf(p)', RestoreOf(p)'
  PROVE  IInv'
<1>1. pc[p] # "idle" /\ label \in Deleting \cup Restoring
  BY DEF Changing, Deleting, Restoring
<1>2. lock' = p /\ \A q \in Operators \ {p} : pc[q] = "idle"
  BY <1>1, OthersIdle
<1>3. SiteTypes'
  BY DEF IInv, Types, SiteTypes
<1>4. Kept' /\ Recoverable'
  BY SteadyKept DEF IInv, KeptInv
<1>5. Len(archives) <= Len(archives') /\ l.archive <= Len(archives')
  BY ArchivesLen DEF IInv, Types
<1> QED BY <1>1, <1>2, <1>3, <1>4, <1>5, ProgressKept

\* What the labels of the commands are good for.
LEMMA Labels ==
  ASSUME IInv, NEW p \in Operators
  PROVE  \A label : pc' = [pc EXCEPT ![p] = label] => pc'[p] = label
BY DEF IInv, Types, ProcessTypes

\* The runtime process is stopped, or is taken for stopped.
LEMMA StopKept ==
  ASSUME IInv, NEW p \in Operators, StopRuntime(p) \/ NoRuntime(p) \/ WriteDisabled(p)
  PROVE  IInv'
<1> DEFINE label == IF pc[p] = "stop" /\ site["runtime"] \in {"on", "off"} THEN "disabled" ELSE "unit"
<1>1. /\ pc[p] \in {"stop", "disabled"} /\ pc' = [pc EXCEPT ![p] = label]
      /\ label \in {"disabled", "unit"}
      /\ UNCHANGED <<lock, archives, wanted, loc, unit>>
  BY DEF StopRuntime, NoRuntime, WriteDisabled, Goto, host
<1>2. site' \in Contents
  <2>1. site \in Contents
    BY DEF IInv, Types, SiteTypes
  <2>2. \A v \in {Torn, "off"} : [site EXCEPT !["runtime"] = v] \in Contents
    BY <2>1 DEF Contents
  <2> QED BY <2>1, <2>2 DEF StopRuntime, NoRuntime, WriteDisabled, host
<1>3. unit' \in BOOLEAN /\ running' \in BOOLEAN /\ mishaps' \in 0..MaxMishaps
  <2>1. running \in BOOLEAN /\ unit \in BOOLEAN /\ mishaps \in Nat /\ mishaps <= MaxMishaps
    BY DEF IInv, Types, SiteTypes
  <2>2. UNCHANGED mishaps \/ (mishaps < MaxMishaps /\ mishaps' = mishaps + 1)
    BY DEF StopRuntime, NoRuntime, WriteDisabled, host
  <2>3. UNCHANGED running \/ running' = FALSE
    BY DEF StopRuntime, NoRuntime, WriteDisabled, host
  <2>4. mishaps' \in 0..MaxMishaps
    BY <2>1, <2>2
  <2>5. unit' \in BOOLEAN /\ running' \in BOOLEAN
    BY <1>1, <2>1, <2>3
  <2> QED BY <2>4, <2>5
<1>4. DeleteOf(p)' /\ RestoreOf(p)'
  BY <1>1, Labels DEF DeleteOf, RestoreOf, CopyOf, EnableOf, Restoring
<1>5. pc[p] \in Changing /\ label \in Changing
  BY <1>1 DEF Changing, Deleting, Restoring
<1> HIDE DEF label
<1> QED BY <1>1, <1>2, <1>3, <1>4, <1>5, SameLocals, ChangeKept

\* The purge begins with everything to do.
LEMMA UnlinkUnitKept ==
  ASSUME IInv, NEW p \in Operators, UnlinkUnit(p)
  PROVE  IInv'
<1> DEFINE l == [loc[p] EXCEPT !.todo = PurgeOrder]
<1>1. loc[p] \in Locals /\ loc[p].archive <= Len(archives)
  BY SameLocals
<1>2. l \in Locals /\ l.todo = PurgeOrder /\ l.archive = loc[p].archive
  BY <1>1, TodoEnds, LocalsUpdate DEF Locals
<1>3. loc' = [loc EXCEPT ![p] = l] /\ loc'[p] = l /\ pc' = [pc EXCEPT ![p] = "purge"] /\ pc'[p] = "purge"
  BY DEF UnlinkUnit, Goto, IInv, Types, ProcessTypes
<1>4. DeleteOf(p)' /\ RestoreOf(p)'
  <2>1. PartsOf(loc'[p].todo) = Part
    BY <1>2, <1>3, TodoEnds
  <2> QED BY <1>3, <2>1 DEF UnlinkUnit, DeleteOf, RestoreOf, CopyOf, EnableOf, Restoring
<1>5. /\ site' \in Contents /\ unit' \in BOOLEAN /\ running' \in BOOLEAN /\ mishaps' \in 0..MaxMishaps
      /\ UNCHANGED <<lock, archives, wanted>> /\ pc[p] \in Changing /\ "purge" \in Changing
  BY DEF UnlinkUnit, IInv, Types, SiteTypes, host, Changing, Deleting, Restoring
<1> HIDE DEF l
<1> QED BY <1>1, <1>2, <1>3, <1>4, <1>5, ChangeKept

\* A part is removed, piece by piece, or a directory stays in vain.
LEMMA RemoveKept ==
  ASSUME IInv, NEW p \in Operators, RemovePart(p) \/ RemoveInVain(p)
  PROVE  IInv'
<1> DEFINE todo == loc[p].todo
           part == Head(todo)
<1>1. /\ pc[p] \in {"purge", "clear"} /\ todo # <<>> /\ todo \in Todo /\ site \in Contents
      /\ loc[p] \in Locals /\ loc[p].archive <= Len(archives)
      /\ UNCHANGED <<unit, running, archives, lock, pc, wanted, mishaps>>
  BY SameLocals DEF RemovePart, RemoveInVain, host, IInv, Types, SiteTypes, Locals
<1>2. /\ part \in Part /\ Tail(todo) \in Todo /\ PartsOf(Tail(todo)) = PartsOf(todo) \ {part}
  BY <1>1, TodoStep
<1>3. \A q \in Part \ PartsOf(todo) : Gone(q)
  BY <1>1 DEF IInv, PhaseInv, DeleteOf
<1>4. pc' = [pc EXCEPT ![p] = pc[p]] /\ pc[p] \in Changing
  BY <1>1 DEF IInv, Types, ProcessTypes, Changing, Deleting, Restoring
<1>5. unit' \in BOOLEAN /\ running' \in BOOLEAN /\ mishaps' \in 0..MaxMishaps
  BY <1>1 DEF IInv, Types, SiteTypes
<1>6. pc[p] = "purge" => ~unit
  BY DEF IInv, PhaseInv, DeleteOf
<1>7. pc[p] = "clear" => loc[p].archive \in 1..Len(archives)
  BY DEF IInv, PhaseInv, RestoreOf, CopyOf, EnableOf, Restoring
<1>8. ASSUME NEW l \in Locals, loc' = [loc EXCEPT ![p] = l], l.archive = loc[p].archive, site' \in Contents,
             \A q \in Part \ PartsOf(l.todo) : Gone(q)'
      PROVE  IInv'
  <2>1. loc'[p] = l
    BY <1>8 DEF IInv, Types, ProcessTypes
  <2>2. DeleteOf(p)' /\ RestoreOf(p)'
    BY <1>1, <1>6, <1>7, <1>8, <2>1 DEF DeleteOf, RestoreOf, CopyOf, EnableOf, Restoring
  <2> QED BY <1>1, <1>4, <1>5, <1>8, <2>2, ChangeKept
<1>9. CASE RemovePart(p) /\ part \in Directories /\ site[part] \notin {Absent, Torn}
  <2>1. site' = [site EXCEPT ![part] = Torn] /\ loc' = loc
    BY <1>9 DEF RemovePart, NextPart
  <2>2. site' \in Contents /\ \A q \in Part : q # part => site'[q] = site[q]
    <3>1. site' \in Contents
      BY <1>1, <1>2, <2>1, ContentsUpdate
    <3> QED BY <1>1, <1>2, <2>1, <3>1, ContentsExcept
  <2>3. ~Gone(part)
    BY <1>9 DEF Gone
  <2>4. \A q \in Part \ PartsOf(todo) : Gone(q)'
    BY <1>3, <2>2, <2>3 DEF Gone
  <2> QED BY <1>1, <1>8, <2>1, <2>2, <2>4, SameLocals
<1> DEFINE l == [loc[p] EXCEPT !.todo = Tail(todo)]
<1>10. l \in Locals /\ l.todo = Tail(todo) /\ l.archive = loc[p].archive
  BY <1>1, <1>2, LocalsUpdate DEF Locals
<1>11. CASE RemovePart(p) /\ ~(part \in Directories /\ site[part] \notin {Absent, Torn})
  <2>1. site' = [site EXCEPT ![part] = Absent] /\ loc' = [loc EXCEPT ![p] = l]
    BY <1>11 DEF RemovePart, NextPart, PartDone
  <2>2. site' \in Contents /\ site'[part] = Absent /\ \A q \in Part : q # part => site'[q] = site[q]
    <3>1. site' \in Contents
      BY <1>1, <1>2, <2>1, ContentsUpdate
    <3>2. site' = [site EXCEPT ![part] = Absent] /\ site \in Contents /\ part \in Part
      BY <1>1, <1>2, <2>1
    <3> HIDE DEF l, part, todo
    <3>3. site'[part] = Absent /\ \A q \in Part : q # part => site'[q] = site[q]
      BY <3>2, ContentsExcept
    <3> QED BY <3>1, <3>3
  <2>3. \A q \in Part \ PartsOf(Tail(todo)) : Gone(q)'
    BY <1>2, <1>3, <2>2 DEF Gone
  <2> HIDE DEF l
  <2> QED BY <1>8, <1>10, <2>1, <2>2, <2>3
<1>12. CASE RemoveInVain(p)
  <2>1. site' = site /\ loc' = [loc EXCEPT ![p] = l] /\ part = "root" /\ site["root"] = Torn
    BY <1>12 DEF RemoveInVain, NextPart, PartDone, host
  <2>2. \A q \in Part \ PartsOf(Tail(todo)) : Gone(q)'
    BY <1>2, <1>3, <2>1 DEF Gone
  <2> HIDE DEF l
  <2> QED BY <1>1, <1>8, <1>10, <2>1, <2>2
<1> QED BY <1>9, <1>11, <1>12

\* With nothing left to remove everything is gone.
LEMMA PurgedKept ==
  ASSUME IInv, NEW p \in Operators, Purged(p)
  PROVE  IInv'
<1>1. /\ pc[p] = "purge" /\ loc[p].todo = <<>> /\ pc' = [pc EXCEPT ![p] = "deleted"] /\ loc' = loc
      /\ UNCHANGED <<site, unit, running, archives, lock, wanted, mishaps>>
  BY DEF Purged, Goto, host
<1>2. ~unit /\ \A part \in Part : Gone(part)
  BY <1>1, TodoEnds DEF IInv, PhaseInv, DeleteOf
<1>3. DeleteOf(p)' /\ RestoreOf(p)'
  BY <1>1, <1>2, Labels DEF DeleteOf, RestoreOf, CopyOf, EnableOf, Restoring, Gone
<1>4. pc[p] \in Changing /\ "deleted" \in Changing
  BY <1>1 DEF Changing, Deleting, Restoring
<1>5. site' \in Contents /\ unit' \in BOOLEAN /\ running' \in BOOLEAN /\ mishaps' \in 0..MaxMishaps
  BY <1>1 DEF IInv, Types, SiteTypes
<1> QED BY <1>1, <1>3, <1>4, <1>5, SameLocals, ChangeKept

-----------------------------------------------------------------------------
(* site restore *)

\* A restore begins; nothing happens to the site yet.
LEMMA BeginRestoreKept ==
  ASSUME IInv, NEW p \in Operators, NEW a \in 1..MaxArchives,
         NEW force \in BOOLEAN, BeginRestore(p, a, force)
  PROVE  IInv'
<1> DEFINE l == [NoLocals EXCEPT !.archive = a]
<1>1. /\ \A q \in Operators \ {p} : pc[q] = "idle"
      /\ pc' = [pc EXCEPT ![p] = "extract"] /\ loc' = [loc EXCEPT ![p] = l] /\ lock' = p
      /\ UNCHANGED <<site, unit, running, archives, wanted, mishaps>> /\ a \in 1..Len(archives)
  BY ArchivesLen DEF BeginRestore, Lock, Goto, IInv, LockInv, Types, host
<1>2. l \in Locals /\ l.archive = a
  <2>1. a \in Nat /\ NoLocals \in Locals
    BY NoLocalsType
  <2>2. l \in Locals
    BY <2>1 DEF Locals
  <2> QED BY <2>2 DEF NoLocals
<1>3. pc'[p] = "extract" /\ loc'[p] = l
  BY <1>1 DEF IInv, Types, ProcessTypes
<1>4. SiteTypes' /\ Recoverable'
  BY <1>1, SteadyKept DEF IInv, Types, SiteTypes, KeptInv
<1>5. DeleteOf(p)' /\ RestoreOf(p)'
  BY <1>1, <1>2, <1>3 DEF DeleteOf, RestoreOf, CopyOf, EnableOf
<1>6. Len(archives) <= Len(archives') /\ l.archive <= Len(archives')
  BY <1>1, <1>2, ArchivesLen DEF IInv, Types
<1>7. "extract" \in Restoring /\ "extract" \notin Changing
  BY DEF Restoring, Changing
<1> HIDE DEF l
<1> QED BY <1>1, <1>2, <1>4, <1>5, <1>6, <1>7, ProgressKept

\* A whole archive is what is wanted from now on; one that was cut is chosen
\* where an archive holds the site, or where the site is given up for it.
LEMMA ExtractKept ==
  ASSUME IInv, NEW p \in Operators, Extract(p)
  PROVE  IInv'
<1> DEFINE l == [loc[p] EXCEPT !.todo = RestoreOrder]
           a == loc[p].archive
<1>1. /\ pc[p] = "extract" /\ pc' = [pc EXCEPT ![p] = "clear"] /\ pc'[p] = "clear"
      /\ archives[a].kind # "broken" /\ wanted' = Chosen(archives[a])
      /\ loc' = [loc EXCEPT ![p] = l] /\ loc'[p] = l
      /\ UNCHANGED <<site, unit, running, archives, lock, mishaps>>
  BY DEF Extract, Goto, host, IInv, Types, ProcessTypes
<1>2. a \in 1..Len(archives) /\ Len(archives) \in Nat /\ archives[a].parts \in Contents /\ a \in DOMAIN archives
  BY <1>1, ArchivesLen DEF IInv, PhaseInv, RestoreOf, CopyOf, EnableOf, Restoring, Types, Archive
<1>3. l \in Locals /\ l.archive = a /\ PartsOf(l.todo) = Part
  BY SameLocals, LocalsUpdate, TodoEnds DEF Locals
<1>10. Established(NothingThere)["root"] = Absent
  BY DEF Established, NothingThere, Restored, Part
<1>4. SiteTypes'
  BY <1>1, <1>2, NothingType DEF IInv, Types, SiteTypes, Chosen
<1>5. Kept'
  BY <1>1, <1>2, <1>10 DEF Kept, Archived, Holds, Chosen
<1>6. DeleteOf(p)' /\ RestoreOf(p)'
  BY <1>1, <1>2, <1>3 DEF DeleteOf, RestoreOf, CopyOf, EnableOf
<1>7. lock' = p /\ \A q \in Operators \ {p} : pc[q] = "idle"
  BY <1>1, OthersIdle
<1>8. Len(archives) <= Len(archives') /\ l.archive <= Len(archives') /\ "clear" \in Restoring
  BY <1>1, <1>2, <1>3 DEF Restoring
<1>9. Recoverable'
  BY <1>5 DEF Recoverable, Kept
<1> HIDE DEF l
<1> QED BY <1>1, <1>3, <1>4, <1>5, <1>6, <1>7, <1>8, <1>9, ProgressKept

\* What a restore which has its archive can rely on.
LEMMA CopyFacts ==
  ASSUME IInv, NEW p \in Operators, pc[p] \in Restoring \ {"extract"}
  PROVE  /\ loc[p].archive \in 1..Len(archives)
         /\ Source(p) \in Contents /\ site \in Contents
         /\ loc[p] \in Locals /\ loc[p].todo \in Todo /\ loc[p].archive <= Len(archives)
         /\ pc[p] \in Changing
<1>1. loc[p].archive \in 1..Len(archives)
  BY DEF IInv, PhaseInv, RestoreOf
<1>2. Source(p) \in Contents
  BY <1>1, ArchivesLen DEF Source, IInv, Types, Archive
<1>3. loc[p] \in Locals /\ loc[p].todo \in Todo /\ loc[p].archive <= Len(archives)
  BY SameLocals DEF Locals
<1>4. site \in Contents
  BY DEF IInv, Types, SiteTypes
<1>5. pc[p] \in Changing
  BY DEF Changing, Restoring
<1> QED BY <1>1, <1>2, <1>3, <1>4, <1>5

\* A step of the copy keeps IInv when it keeps what the phase says.
LEMMA CopyKept ==
  ASSUME IInv, NEW p \in Operators, pc[p] \in Restoring \ {"extract"},
         NEW label \in Restoring \ {"extract", "clear"}, pc' = [pc EXCEPT ![p] = label],
         NEW l \in Locals, loc' = [loc EXCEPT ![p] = l],
         l.archive = loc[p].archive,
         UNCHANGED <<lock, archives, wanted, mishaps>>,
         site' \in Contents, unit' \in BOOLEAN, running' \in BOOLEAN,
         CopyOf(p)', EnableOf(p)'
  PROVE  IInv'
<1>1. /\ loc[p].archive \in 1..Len(archives)
      /\ pc[p] \in Changing /\ l.archive <= Len(archives)
  BY CopyFacts
<1>2. pc'[p] = label /\ loc'[p] = l
  BY DEF IInv, Types, ProcessTypes
<1>3. DeleteOf(p)'
  BY <1>2 DEF DeleteOf, Restoring
<1>4. RestoreOf(p)'
  BY <1>1, <1>2 DEF RestoreOf
<1>5. label \in Changing
  BY DEF Changing, Restoring
<1>6. mishaps' \in 0..MaxMishaps
  BY DEF IInv, Types, SiteTypes
<1> QED BY <1>1, <1>3, <1>4, <1>5, <1>6, ChangeKept

\* What was removed can be copied.
LEMMA ClearedKept ==
  ASSUME IInv, NEW p \in Operators, NEW opt \in RestoreOption, Cleared(p, opt)
  PROVE  IInv'
<1> DEFINE order == IF opt.secrets THEN RestoreOrder ELSE PlainOrder
           l == [loc[p] EXCEPT !.opt = opt, !.todo = order]
<1>1. /\ pc[p] = "clear" /\ loc[p].todo = <<>> /\ pc' = [pc EXCEPT ![p] = "copy"]
      /\ loc' = [loc EXCEPT ![p] = l] /\ UNCHANGED <<site, unit, running, archives, lock, wanted, mishaps>>
      /\ "clear" \in Restoring \ {"extract"} /\ "copy" \in Restoring \ {"extract", "clear"}
  BY DEF Cleared, Goto, host, Restoring
<1>2. \A part \in Part : Gone(part)
  BY <1>1, TodoEnds DEF IInv, PhaseInv, DeleteOf
<1>3. order \in Todo /\ PartsOf(order) = (IF opt.secrets THEN Part ELSE Part \ {"secrets"})
  BY TodoEnds
<1> HIDE DEF order
<1>4. l \in Locals /\ l.todo = order /\ l.archive = loc[p].archive /\ l.opt = opt /\ loc'[p] = l
  BY <1>1, <1>3, SameLocals, LocalsUpdate DEF Locals, IInv, Types, ProcessTypes
<1>5. \A part \in Part : Gone(part)'
  BY <1>1, <1>2 DEF Gone
<1>6. ASSUME NEW part \in Part \ PartsOf(l.todo) PROVE AsCopied(p, part)'
  <2>1. part = "secrets" /\ ~loc'[p].opt.secrets
    BY <1>3, <1>4, <1>6
  <2> QED BY <1>5, <2>1 DEF AsCopied, Gone
<1>7. site' \in Contents /\ unit' \in BOOLEAN /\ running' \in BOOLEAN
  BY <1>1 DEF IInv, Types, SiteTypes
<1>8. CopyOf(p)'
  <2>1. PartsOf(l.todo) \subseteq Part /\ ("secrets" \in PartsOf(l.todo) => opt.secrets)
    BY <1>3, <1>4
  <2> QED BY <1>1, <1>4, <1>5, <1>6, <2>1, Labels DEF CopyOf
<1>9. EnableOf(p)'
  BY <1>1, Labels DEF EnableOf
<1> HIDE DEF l
<1> QED BY <1>1, <1>4, <1>7, <1>8, <1>9, CopyKept

\* The copy has a part to go on with, and none of another order.
LEMMA CopyTodo ==
  ASSUME IInv, NEW p \in Operators, pc[p] \in {"copy", "copying"}
  PROVE  PartsOf(loc[p].todo) \subseteq Part /\ CopyOf(p)
<1>1. loc[p].todo \in Todo
  BY SameLocals DEF Locals
<1>2. PICK order \in {PurgeOrder, RestoreOrder, PlainOrder}, i \in 1..5 :
        loc[p].todo = SubSeq(order, i, Len(order))
  BY <1>1 DEF Todo, Suffixes
<1>3. loc[p].todo \in Seq(Part)
  BY <1>2, Orders, SliceParts
<1>4. PartsOf(loc[p].todo) \subseteq Part
  BY <1>3, ElementOfSeq DEF PartsOf
<1> QED BY <1>4 DEF IInv, PhaseInv, RestoreOf

\* The next part is being copied; one that is there cannot be.
LEMMA StartCopyKept ==
  ASSUME IInv, NEW p \in Operators, StartCopy(p)
  PROVE  IInv'
<1> DEFINE todo == loc[p].todo
           part == Head(todo)
<1>1. /\ pc[p] = "copy" /\ todo # <<>> /\ site' = [site EXCEPT ![part] = Torn]
      /\ pc' = [pc EXCEPT ![p] = "copying"]
      /\ UNCHANGED <<unit, running, archives, lock, loc, wanted, mishaps>>
      /\ pc[p] \in Restoring \ {"extract"} /\ "copying" \in Restoring \ {"extract", "clear"}
  BY DEF StartCopy, NextPart, Goto, Restoring
<1>2. /\ todo \in Todo /\ site \in Contents /\ loc[p] \in Locals /\ loc = [loc EXCEPT ![p] = loc[p]]
  BY <1>1, CopyFacts, SameLocals
<1>3. part \in Part /\ part \in PartsOf(todo)
  BY <1>1, <1>2, TodoStep
<1>4. site' \in Contents
  BY <1>1, <1>2, <1>3, ContentsUpdate
<1>5. \A q \in Part : q # part => site'[q] = site[q]
  <2>1. site' = [site EXCEPT ![part] = Torn]
    BY <1>1
  <2> HIDE DEF part, todo
  <2> QED BY <1>2, <1>3, <2>1, ContentsExcept
<1>6. PartsOf(todo) \subseteq Part /\ CopyOf(p)
  BY <1>1, CopyTodo
<1>7. CopyOf(p)'
  <2>1. \A q \in PartsOf(todo) : Gone(q)' \/ q = part
    BY <1>1, <1>5, <1>6 DEF CopyOf, Gone
  <2>2. \A q \in Part \ PartsOf(todo) : AsCopied(p, q)'
    BY <1>1, <1>3, <1>5, <1>6 DEF CopyOf, AsCopied, Source
  <2>3. "secrets" \in PartsOf(todo) => loc[p].opt.secrets
    BY <1>1, <1>6 DEF CopyOf
  <2> QED BY <1>1, <2>1, <2>2, <2>3, Labels DEF CopyOf, NextPart
<1>8. EnableOf(p)'
  BY <1>1, Labels DEF EnableOf
<1>9. unit' \in BOOLEAN /\ running' \in BOOLEAN
  BY <1>1 DEF IInv, Types, SiteTypes
<1> QED BY <1>1, <1>2, <1>4, <1>7, <1>8, <1>9, CopyKept

\* A part is as it is in the archive, where it may be missing.
LEMMA PartCopiedKept ==
  ASSUME IInv, NEW p \in Operators, EndCopy(p) \/ NothingToCopy(p)
  PROVE  IInv'
<1> DEFINE todo == loc[p].todo
           part == Head(todo)
           l == [loc[p] EXCEPT !.todo = Tail(todo)]
<1>1. /\ pc[p] \in {"copy", "copying"} /\ pc' = [pc EXCEPT ![p] = "copy"]
      /\ loc' = [loc EXCEPT ![p] = l]
      /\ UNCHANGED <<unit, running, archives, lock, wanted, mishaps>>
      /\ pc[p] \in Restoring \ {"extract"} /\ "copy" \in Restoring \ {"extract", "clear"}
  BY DEF EndCopy, NothingToCopy, PartDone, Goto, Restoring, host, IInv, Types, ProcessTypes
<1>2. PartsOf(todo) \subseteq Part /\ CopyOf(p)
  BY <1>1, CopyTodo
<1>3. todo # <<>> /\ todo \in Todo /\ site \in Contents /\ loc[p] \in Locals /\ Source(p) \in Contents
  <2>1. todo # <<>>
    BY <1>2 DEF EndCopy, NothingToCopy, CopyOf
  <2> QED BY <1>1, <2>1, CopyFacts
<1>4. /\ part \in Part /\ part \in PartsOf(todo) /\ Tail(todo) \in Todo
      /\ PartsOf(Tail(todo)) = PartsOf(todo) \ {part}
  BY <1>3, TodoStep
<1>5. l \in Locals /\ l.todo = Tail(todo) /\ l.archive = loc[p].archive /\ l.opt = loc[p].opt
  BY <1>3, <1>4, LocalsUpdate DEF Locals
<1>6. loc'[p] = l /\ Source(p)' = Source(p)
  BY <1>1, <1>5 DEF Source, IInv, Types, ProcessTypes
<1>7. /\ site' \in Contents /\ \A q \in Part : q # part => site'[q] = site[q]
      /\ site'[part] = Source(p)[part] \/ (Source(p)[part] = Absent /\ site'[part] = site[part] /\ Gone(part))
  <2>1. CASE EndCopy(p)
    <3>1. site' = [site EXCEPT ![part] = Source(p)[part]]
      BY <2>1 DEF EndCopy, NextPart
    <3>2. site' \in Contents
      BY <1>3, <1>4, <3>1, ContentsCopy
    <3>3. site \in Contents /\ part \in Part
      BY <1>3, <1>4
    <3> HIDE DEF l, part, todo
    <3>4. site'[part] = Source(p)[part] /\ \A q \in Part : q # part => site'[q] = site[q]
      BY <3>1, <3>3, ContentsExcept
    <3> QED BY <3>2, <3>4
  <2>2. CASE NothingToCopy(p)
    <3>1. site' = site /\ Source(p)[part] = Absent /\ pc[p] = "copy"
      BY <2>2 DEF NothingToCopy, NextPart, host
    <3>2. Gone(part)
      BY <1>2, <1>4, <3>1 DEF CopyOf
    <3> QED BY <1>3, <3>1, <3>2
  <2> QED BY <2>1, <2>2
<1>8. part = "secrets" => loc[p].opt.secrets
  BY <1>1, <1>2, <1>4 DEF CopyOf
<1>9. CopyOf(p)'
  <2>1. ASSUME NEW q \in Part, q = part PROVE AsCopied(p, q)'
    <3>1. loc'[p].opt = loc[p].opt
      BY <1>5, <1>6
    <3> HIDE DEF l, part, todo
    <3>2. site'[q] = Source(p)[q] \/ (Source(p)[q] = Absent /\ q = "root")
      BY <1>7, <2>1 DEF Gone
    <3> QED BY <1>6, <1>8, <2>1, <3>1, <3>2 DEF AsCopied
  <2>2. ASSUME NEW q \in Part \ PartsOf(todo) PROVE AsCopied(p, q)'
    <3>1. AsCopied(p, q) /\ q # part
      BY <1>1, <1>2, <1>4 DEF CopyOf
    <3> QED BY <1>5, <1>6, <1>7, <3>1 DEF AsCopied
  <2>3. ASSUME NEW q \in PartsOf(Tail(todo)) PROVE Gone(q)'
    <3>1. Gone(q) /\ q \in Part /\ q # part
      BY <1>1, <1>2, <1>4 DEF CopyOf, NextPart
    <3> QED BY <1>7, <3>1 DEF Gone
  <2>4. "secrets" \in PartsOf(Tail(todo)) => loc[p].opt.secrets
    BY <1>1, <1>2, <1>4 DEF CopyOf
  <2>5. pc'[p] = "copy" /\ loc'[p].todo = Tail(todo) /\ loc'[p].opt = loc[p].opt
    BY <1>1, <1>5, <1>6, Labels
  <2>6. PartsOf(Tail(todo)) = PartsOf(todo) \ {part}
    BY <1>4
  <2> HIDE DEF l, part, todo
  <2>7. \A q \in Part \ PartsOf(Tail(todo)) : AsCopied(p, q)'
    BY <2>1, <2>2, <2>6
  <2> QED BY <2>3, <2>4, <2>5, <2>7 DEF CopyOf
<1>10. EnableOf(p)'
  BY <1>1, Labels DEF EnableOf
<1>11. unit' \in BOOLEAN /\ running' \in BOOLEAN
  BY <1>1 DEF IInv, Types, SiteTypes
<1> HIDE DEF l, part, todo
<1> QED BY <1>1, <1>5, <1>7, <1>9, <1>10, <1>11, CopyKept

\* When all is copied the process is recreated, if its spec came back enabled.
LEMMA CopiedKept ==
  ASSUME IInv, NEW p \in Operators, Copied(p)
  PROVE  IInv'
<1> DEFINE label == IF loc[p].opt.runtime /\ site["runtime"] = "on" THEN "enable" ELSE "restored"
<1>1. /\ pc[p] = "copy" /\ loc[p].todo = <<>> /\ pc' = [pc EXCEPT ![p] = label]
      /\ UNCHANGED <<site, unit, running, archives, lock, loc, wanted, mishaps>>
  BY DEF Copied, Goto, host
<1>2. label \in {"enable", "restored"} /\ (label = "enable" <=> loc[p].opt.runtime /\ site["runtime"] = "on")
  OBVIOUS
<1> HIDE DEF label
<1>3. Whole(p)
  <2>1. CopyOf(p)
    BY <1>1, CopyTodo
  <2> QED BY <1>1, <2>1, TodoEnds DEF CopyOf, Whole
<1>4. site["runtime"] = Source(p)["runtime"]
  <2>1. AsCopied(p, "runtime")
    BY <1>3 DEF Whole, Part
  <2> QED BY <2>1 DEF AsCopied
<1>5. pc'[p] = label /\ Whole(p)'
  BY <1>1, <1>3, Labels DEF Whole, AsCopied, Source
<1>6. EnableOf(p)'
  <2>1. CASE label = "enable"
    BY <1>1, <1>2, <1>5, <2>1 DEF EnableOf
  <2>2. CASE label = "restored"
    <3>1. ~(loc[p].opt.runtime /\ Source(p)["runtime"] = "on")
      BY <1>2, <1>4, <2>2
    <3>2. loc'[p] = loc[p] /\ Source(p)' = Source(p)
      BY <1>1 DEF Source
    <3>3. ~(loc'[p].opt.runtime /\ Source(p)'["runtime"] = "on")
      BY <3>1, <3>2
    <3> QED BY <1>5, <2>2, <3>3 DEF EnableOf
  <2> QED BY <1>2, <2>1, <2>2
<1>7. CopyOf(p)'
  BY <1>2, <1>5 DEF CopyOf
<1>8. label \in Restoring \ {"extract", "clear"} /\ pc[p] \in Restoring \ {"extract"}
  BY <1>1, <1>2 DEF Restoring
<1>9. site' \in Contents /\ unit' \in BOOLEAN /\ running' \in BOOLEAN
  BY <1>1 DEF IInv, Types, SiteTypes
<1>10. loc[p] \in Locals /\ loc' = [loc EXCEPT ![p] = loc[p]]
  BY <1>1, SameLocals
<1> QED BY <1>1, <1>6, <1>7, <1>8, <1>9, <1>10, CopyKept

\* Enabling the process writes the spec again, as it was restored.
LEMMA EnableKept ==
  ASSUME IInv, NEW p \in Operators, OpenSpec(p) \/ WriteSpec(p) \/ StartService(p)
  PROVE  IInv'
<1> USE DEF Goto
<1>1. /\ UNCHANGED <<archives, lock, loc, wanted, mishaps>> /\ pc[p] \in {"enable", "spec", "start"}
      /\ pc[p] \in Restoring \ {"extract"}
  BY DEF OpenSpec, WriteSpec, StartService, Restoring
<1>2. EnableOf(p) /\ site \in Contents /\ unit \in BOOLEAN /\ running \in BOOLEAN
  BY DEF IInv, PhaseInv, RestoreOf, Types, SiteTypes
<1>3. Source(p)' = Source(p) /\ loc'[p] = loc[p] /\ loc[p] \in Locals /\ loc' = [loc EXCEPT ![p] = loc[p]]
  BY <1>1, SameLocals DEF Source
<1>4. ASSUME site["runtime"] = "on" /\ Whole(p) PROVE Source(p)["runtime"] = "on"
  <2>1. AsCopied(p, "runtime")
    BY <1>4 DEF Whole, Part
  <2> QED BY <1>4, <2>1 DEF AsCopied
<1>5. CASE OpenSpec(p)
  <2>1. /\ pc[p] = "enable" /\ pc' = [pc EXCEPT ![p] = "spec"] /\ pc'[p] = "spec"
        /\ site' = [site EXCEPT !["runtime"] = Torn] /\ UNCHANGED <<unit, running>>
    BY <1>5, Labels DEF OpenSpec
  <2>2. "runtime" \in Part
    BY DEF Part
  <2>3. site' \in Contents
    BY <1>2, <2>1, <2>2, ContentsUpdate
  <2>4. \A q \in Part : q # "runtime" => site'[q] = site[q]
    BY <1>2, <2>1, <2>2, ContentsExcept
  <2>5. Source(p)["runtime"] = "on" /\ \A q \in Part : AsCopied(p, q)
    BY <1>2, <1>4, <2>1 DEF EnableOf, Whole
  <2>6. \A q \in Part : IF q = "runtime" THEN Source(p)'[q] = "on" ELSE AsCopied(p, q)'
    BY <1>3, <2>4, <2>5 DEF AsCopied
  <2>7. EnableOf(p)' /\ CopyOf(p)'
    BY <2>1, <2>6 DEF EnableOf, CopyOf
  <2>8. "spec" \in Restoring \ {"extract", "clear"}
    BY DEF Restoring
  <2> QED BY <1>1, <1>2, <1>3, <2>1, <2>3, <2>7, <2>8, CopyKept
<1>6. CASE WriteSpec(p)
  <2>1. /\ pc[p] = "spec" /\ pc' = [pc EXCEPT ![p] = "start"] /\ pc'[p] = "start"
        /\ site' = [site EXCEPT !["runtime"] = "on"] /\ unit' = TRUE /\ UNCHANGED running
    BY <1>6, Labels DEF WriteSpec
  <2>2. "runtime" \in Part
    BY DEF Part
  <2>3. site' \in Contents
    BY <1>2, <2>1 DEF Contents
  <2>9. site' = [site EXCEPT !["runtime"] = "on"]
    BY <2>1
  <2>4. site'["runtime"] = "on" /\ \A q \in Part : q # "runtime" => site'[q] = site[q]
    BY <1>2, <2>2, <2>9, ContentsExcept
  <2>5. \A q \in Part : IF q = "runtime" THEN Source(p)[q] = "on" ELSE AsCopied(p, q)
    BY <1>2, <2>1 DEF EnableOf
  <2>6. Whole(p)'
    BY <1>3, <2>4, <2>5 DEF AsCopied, Whole
  <2>7. EnableOf(p)' /\ CopyOf(p)'
    BY <2>1, <2>6 DEF EnableOf, CopyOf
  <2>8. "start" \in Restoring \ {"extract", "clear"}
    BY DEF Restoring
  <2> QED BY <1>1, <1>2, <1>3, <2>1, <2>3, <2>7, <2>8, CopyKept
<1>7. CASE StartService(p)
  <2>1. /\ pc[p] = "start" /\ pc' = [pc EXCEPT ![p] = "restored"] /\ pc'[p] = "restored"
        /\ UNCHANGED <<site, unit>> /\ running' = TRUE
    BY <1>7, Labels DEF StartService
  <2>2. Whole(p)' /\ unit'
    BY <1>2, <1>3, <2>1 DEF EnableOf, Whole, AsCopied
  <2>3. EnableOf(p)' /\ CopyOf(p)'
    BY <2>1, <2>2 DEF EnableOf, CopyOf
  <2>4. "restored" \in Restoring \ {"extract", "clear"}
    BY DEF Restoring
  <2> QED BY <1>1, <1>2, <1>3, <2>1, <2>3, <2>4, CopyKept
<1> QED BY <1>5, <1>6, <1>7

-----------------------------------------------------------------------------
(* All steps *)

\* What is deployed or enabled between two commands is what is wanted then.
LEMMA BetweenKept ==
  ASSUME IInv, (\E v \in Versions : Deploy(v)) \/ EnableWorker
  PROVE  IInv'
<1>1. /\ \A p \in Operators : pc[p] = "idle" /\ pc'[p] = "idle"
      /\ UNCHANGED <<archives, lock, pc, loc, mishaps>> /\ wanted' = Established(site')
      /\ unit' \in BOOLEAN /\ running' \in BOOLEAN
  BY DEF Deploy, EnableWorker, Between, IInv, Types, SiteTypes
<1>2. site' \in Contents
  <2>1. site \in Contents
    BY DEF IInv, Types, SiteTypes
  <2>2. ASSUME NEW v \in Versions, NEW secrets \in {site["secrets"], "credentials"}
        PROVE  [site EXCEPT !["root"] = v, !["metadata"] = v, !["secrets"] = secrets] \in Contents
    BY <2>1 DEF Contents
  <2>3. [site EXCEPT !["runtime"] = "on"] \in Contents
    BY <2>1 DEF Contents
  <2> QED BY <2>2, <2>3 DEF Deploy, EnableWorker
<1>3. Types'
  BY <1>1, <1>2 DEF IInv, Types, SiteTypes, ProcessTypes
<1>4. LockInv' /\ PhaseInv'
  BY <1>1 DEF IInv, LockInv, PhaseInv, DeleteOf, RestoreOf, CopyOf, EnableOf, Restoring
<1>5. KeptInv'
  BY <1>1 DEF KeptInv, Recoverable, Holds, Changing, Deleting, Restoring
<1> QED BY <1>3, <1>4, <1>5 DEF IInv

\* At the start there is nothing.
LEMMA InitIInv ==
  ASSUME Init
  PROVE  IInv
<1>1. SiteTypes
  <2>1. archives = <<>> /\ <<>> \in Seq(Archive) /\ Len(<<>>) = 0
    BY EmptySeq DEF Init
  <2>2. site = NothingThere /\ wanted = Established(NothingThere) /\ unit = FALSE /\ running = FALSE /\ mishaps = 0
    BY DEF Init
  <2>3. \E parts \in Contents : wanted = Established(parts)
    BY <2>2, NothingType
  <2>4. 0 \in 0..MaxMishaps /\ 0 <= MaxArchives
    OBVIOUS
  <2> QED BY <2>1, <2>2, <2>3, <2>4, NothingType DEF SiteTypes
<1>2. ProcessTypes
  BY NoLocalsType DEF Init, ProcessTypes
<1>3. LockInv
  BY DEF Init, LockInv
<1>4. PhaseInv
  <2>1. archives = <<>> /\ Len(<<>>) = 0
    BY EmptySeq DEF Init
  <2> SUFFICES ASSUME NEW p \in Operators
               PROVE  loc[p].archive <= Len(archives) /\ DeleteOf(p) /\ RestoreOf(p)
    BY DEF PhaseInv
  <2>2. pc[p] = "idle" /\ loc[p].archive = 0
    BY DEF Init, NoLocals
  <2>3. DeleteOf(p) /\ RestoreOf(p)
    BY <2>2 DEF DeleteOf, RestoreOf, CopyOf, EnableOf, Restoring
  <2> QED BY <2>1, <2>2, <2>3
<1>5. KeptInv
  BY DEF Init, KeptInv, Recoverable, Established, NothingThere, Restored, Part, Changing, Deleting, Restoring
<1> QED BY <1>1, <1>2, <1>3, <1>4, <1>5 DEF IInv, Types

\* Every step keeps IInv.
LEMMA NextIInv ==
  ASSUME IInv, [Next]_vars
  PROVE  IInv'
<1>1. CASE UNCHANGED vars
  BY <1>1 DEF vars, IInv, Types, SiteTypes, ProcessTypes, LockInv, PhaseInv, DeleteOf, RestoreOf, CopyOf,
              EnableOf, Gone, AsCopied, Source, NextPart, Whole, KeptInv, Recoverable, Kept, Archived, Holds
<1>2. ASSUME NEW p \in Operators, Delete(p) PROVE IInv'
  BY <1>2, BeginDeleteKept, OpenArchiveKept, CloseArchiveKept, CutArchiveKept, StopKept, UnlinkUnitKept, PurgedKept DEF Delete
<1>3. ASSUME NEW p \in Operators,
             ExtractFails(p) \/ CopyRefused(p) \/ StartFails(p) \/ BrokenSpec(p) \/ Complete(p) \/ Crash(p)
      PROVE  IInv'
  <2>1. pc[p] # "idle" /\ Finish(p) /\ UNCHANGED <<host, archives, wanted>>
    BY <1>3 DEF ExtractFails, CopyRefused, StartFails, BrokenSpec, Complete, Crash
  <2>2. mishaps \in Nat /\ mishaps <= MaxMishaps
    BY DEF IInv, Types, SiteTypes
  <2>3. UNCHANGED mishaps \/ (mishaps < MaxMishaps /\ mishaps' = mishaps + 1)
    BY <1>3 DEF ExtractFails, CopyRefused, StartFails, BrokenSpec, Complete, Crash
  <2>4. mishaps' \in 0..MaxMishaps
    BY <2>2, <2>3
  <2> QED BY <2>1, <2>4, FinishKept
<1>4. ASSUME NEW p \in Operators, Restore(p) PROVE IInv'
  BY <1>3, <1>4, BeginRestoreKept, ExtractKept, ClearedKept, StartCopyKept, PartCopiedKept, CopiedKept,
     EnableKept DEF Restore
<1> QED BY <1>1, <1>2, <1>3, <1>4, RemoveKept, BetweenKept DEF Next

\* IInv holds in every state.
THEOREM Invariant == Spec => []IInv
BY InitIInv, NextIInv, PTL DEF Spec

-----------------------------------------------------------------------------
(* The properties *)

\* Every variable has its type, and whoever works holds the lock.
THEOREM TypesKept == Spec => []TypeOK
<1>1. ASSUME IInv PROVE TypeOK
  <2>1. wanted \in [Restored -> Versions \cup {"on", "off", Absent, Torn}]
    <3>1. PICK parts \in Contents : wanted = Established(parts)
      BY <1>1 DEF IInv, Types, SiteTypes
    <3>2. \A part \in Restored : parts[part] \in Versions \cup {"on", "off", Absent, Torn}
      BY DEF Contents, Restored, Part
    <3> QED BY <3>1, <3>2 DEF Established
  <2>2. Len(archives) <= MaxArchives /\ \A a \in DOMAIN archives : archives[a] \in Archive
    BY <1>1, ArchivesLen DEF IInv, Types
  <2>3. ASSUME NEW p \in Operators PROVE loc[p].archive \in 0..Len(archives)
    <3>1. Len(archives) \in Nat
      BY <1>1, ArchivesLen DEF IInv, Types
    <3>2. loc[p].archive \in Nat
      BY <1>1 DEF IInv, Types, ProcessTypes, Locals
    <3>3. loc[p].archive <= Len(archives)
      BY <1>1 DEF IInv, PhaseInv
    <3> QED BY <3>1, <3>2, <3>3
  <2> QED BY <1>1, <2>1, <2>2, <2>3 DEF TypeOK, IInv, Types, SiteTypes, ProcessTypes, Locals, LockInv, Archive
<1> QED BY <1>1, Invariant, PTL

\* A site is never lost, wherever deletes and restores die: nothing is removed before an
\* archive holds what is wanted, or the operator has given the site up (--no-checkpoint, or a
\* restore --force from an archive that was cut while the site was only on disk).
THEOREM NeverLost == Spec => []Recoverable
<1>1. IInv => Recoverable
  BY DEF IInv, KeptInv
<1> QED BY <1>1, Invariant, PTL

\* A delete which reports that it is complete has left nothing that a command takes for a site
\* and no file of _secret_files, whatever half of an earlier delete or restore it found.
THEOREM DeletesWholly == Spec => []DeletedWholly
<1>1. ASSUME IInv PROVE DeletedWholly
  <2>1. ASSUME NEW p \in Operators, pc[p] = "deleted"
        PROVE  ~unit /\ \A part \in Part : Gone(part)
    BY <1>1, <2>1 DEF IInv, PhaseInv, DeleteOf
  <2> QED BY <2>1 DEF DeletedWholly, Gone, There, Part
<1> QED BY <1>1, Invariant, PTL

\* A restore which reports that it is complete has brought back what the archive holds and
\* nothing else, with no file of _secret_files that was not restored, and its process runs if
\* that was asked for.
THEOREM RestoresAll == Spec => []RestoresWhole
<1>1. ASSUME IInv PROVE RestoresWhole
  <2>1. ASSUME NEW p \in Operators, pc[p] = "restored"
        PROVE  /\ Whole(p)
               /\ loc[p].opt.runtime /\ Source(p)["runtime"] = "on" => unit /\ running
    BY <1>1, <2>1 DEF IInv, PhaseInv, RestoreOf, EnableOf
  <2>2. ASSUME NEW p \in Operators, Whole(p)
        PROVE  /\ \A part \in Restored :
                    site[part] = Source(p)[part] \/ (part = "root" /\ Source(p)["root"] = Absent)
               /\ site["secrets"] = IF loc[p].opt.secrets THEN Source(p)["secrets"] ELSE Absent
    <3>1. \A part \in Part : AsCopied(p, part)
      BY <2>2 DEF Whole
    <3>2. "secrets" \in Part /\ \A part \in Restored : part \in Part /\ part # "secrets"
      BY DEF Part, Restored
    <3> QED BY <3>1, <3>2 DEF AsCopied
  <2> QED BY <2>1, <2>2 DEF RestoresWhole
<1> QED BY <1>1, Invariant, PTL

==============================================================================
