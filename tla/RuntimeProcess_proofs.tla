------------------------ MODULE RuntimeProcess_proofs ------------------------
(***************************************************************************)
(* Proofs about RuntimeProcess, for any number of replicas, any policy and *)
(* any faults: the types and, as long as the commands of one family only   *)
(* (`worker | scheduler | horizon`, or `site runtime`) are used beside     *)
(* deploys, that restarts are limited, that the cooldown is kept, and that *)
(* what is enabled is started.                                             *)
(***************************************************************************)
EXTENDS RuntimeProcess, FiniteSetTheorems, TLAPS

-----------------------------------------------------------------------------
(* The inductive invariant *)

Label == {"idle", "units", "enabling", "disabling", "looking", "policy", "restarting", "terminated"}
Command == {"none", "enable", "disable", "reconcile", "restart", "terminate", "refresh"}
UnitState == {"absent", "stopped", "running", "down"}

Locals == [cmd : Command, spec : SpecFile, todo : SUBSET Service, degraded : BOOLEAN, age : 0..(Window + 1)]

\* Restarts are appended to a history, and put before those of the past.
Falling(h) == \A i, j \in DOMAIN h : i <= j => h[i] >= h[j]
Rising(h)  == \A i, j \in DOMAIN h : i <= j => h[i] <= h[j]

Types ==
  /\ kind \in Kinds
  /\ spec \in SpecFile
  /\ unit \in [Service -> UnitState]
  /\ pc \in [Locks -> Label]
  /\ loc \in [Locks -> Locals]
  /\ restarts \in Seq(0..(Window + Cooldown)) /\ mishaps \in 0..MaxMishaps

\* A history is in order and no longer than the policy allows, with room for
\* one more in a restart, which is not older than what it read.
Proper(label, l) ==
  /\ Len(l.spec.history) <= MaxRestarts /\ Falling(l.spec.history)
  /\ label = "restarting" => l.cmd \in {"restart", "refresh"}
  /\ label = "restarting" /\ l.cmd = "restart" =>
       /\ Len(l.spec.history) < MaxRestarts
       /\ \A i \in DOMAIN l.spec.history : l.spec.history[i] >= l.age

SpecInv ==
  /\ Len(spec.history) <= MaxRestarts /\ Falling(spec.history)
  /\ \A p \in Locks : Proper(pc[p], loc[p])

TypeInv == Types /\ SpecInv

\* The commands in use hold at most one lock beside that of the app.
OneFamily == {"own", "site"} \cap Locks # {"own", "site"}

\* A restart that reached every service and is not in the spec yet.
Pending(p) == Restarting(p) /\ loc[p].todo = {}

\* But for the newest ones (skip), the restarts of a window which ends at an
\* age (base) are in a history, each with an entry that is not older.
Counted(h, skip, base) ==
  \A k \in DOMAIN restarts :
    k > skip /\ restarts[k] - base <= Window =>
      k - skip <= Len(h) /\ h[Len(h) + 1 - (k - skip)] <= restarts[k]

PhaseInv ==
  \A p \in Locks :
    /\ p = "app" => pc[p] \in {"idle", "restarting"} /\ loc[p].cmd \in {"none", "refresh"}
    /\ pc[p] \in {"disabling", "terminated"} => loc[p].spec = spec

HistoryInv ==
  /\ Rising(restarts)
  /\ (\A p \in Locks : ~Pending(p)) => Counted(spec.history, mishaps, 0)
  /\ \A p \in Locks :
       /\ Pending(p) => /\ Counted(spec.history, mishaps + 1, 0)
                        /\ restarts # <<>> => Counted(loc[p].spec.history, mishaps + 1, restarts[1])
       /\ Restarting(p) /\ loc[p].todo # {} => Counted(loc[p].spec.history, mishaps, loc[p].age)
       /\ Restarting(p) /\ restarts # <<>> => loc[p].age <= restarts[1]

\* max_restarts restarts, the last of them included, lie within one window.
Tight == MaxRestarts \in DOMAIN restarts /\ restarts[MaxRestarts] - restarts[1] <= Window

CoolInv ==
  mishaps = 0 =>
    /\ (\A p \in Locks : ~Pending(p)) /\ Tight => spec.cooldown + restarts[1] >= Cooldown
    /\ \A p \in Locks : Restarting(p) /\ loc[p].todo # {} /\ Tight => restarts[1] - loc[p].age >= Cooldown

Started(services) == \A s \in services : unit[s] \in {"running", "down"}

\* Between commands what is enabled is started.
AllStarted ==
  spec.enabled /\ (\A p \in Locks : pc[p] \notin {"units", "enabling", "disabling"}) => Started(spec.services)

\* What an enable has started so far; a restart writes back what is enabled.
StartPhase(p) ==
  /\ pc[p] = "units" => loc[p].todo = spec.services
  /\ pc[p] = "enabling" =>
       /\ loc[p].todo \subseteq spec.services /\ Started(spec.services \ loc[p].todo)
       /\ \A s \in loc[p].todo : unit[s] # "absent"
  /\ Restarting(p) => loc[p].spec.services = spec.services /\ loc[p].spec.enabled = spec.enabled

StartInv == mishaps = 0 => AllStarted /\ \A p \in Locks : StartPhase(p)

IInv == TypeInv /\ PhaseInv /\ HistoryInv /\ CoolInv /\ CooldownKept /\ StartInv

USE KindsAssumption, PolicyAssumption, BoundsAssumption, LocksAssumption, FaultsAssumption

-----------------------------------------------------------------------------
(* Histories *)

\* A part of 1..n which holds all that is below what it holds is an interval.
LEMMA InitialPart ==
  ASSUME NEW n \in Nat, NEW S \in SUBSET (1..n), \A i \in S : \A j \in 1..i : j \in S
  PROVE  Cardinality(S) \in 0..n /\ \A i \in 1..n : i \in S <=> i <= Cardinality(S)
<1>1. IsFiniteSet(S) /\ Cardinality(S) \in 0..n
  <2>1. IsFiniteSet(1..n) /\ Cardinality(1..n) = n
    BY FS_Interval
  <2>2. IsFiniteSet(S) /\ Cardinality(S) <= Cardinality(1..n)
    BY <2>1, FS_Subset
  <2> QED BY <2>1, <2>2, FS_CardinalityType
<1>2. ASSUME NEW i \in 1..n, i \in S PROVE i <= Cardinality(S)
  <2>1. 1..i \subseteq S /\ IsFiniteSet(1..i) /\ Cardinality(1..i) = i
    BY <1>2, FS_Interval
  <2> QED BY <1>1, <2>1, FS_Subset
<1>3. ASSUME NEW i \in 1..n, i \notin S PROVE i > Cardinality(S)
  <2>1. S \subseteq 1..(i - 1)
    <3> SUFFICES ASSUME NEW j \in S, j >= i PROVE FALSE
      OBVIOUS
    <3>1. i \in 1..j
      OBVIOUS
    <3> QED BY <1>3, <3>1
  <2>2. IsFiniteSet(1..(i - 1)) /\ Cardinality(1..(i - 1)) = i - 1
    BY FS_Interval
  <2>3. Cardinality(S) <= Cardinality(1..(i - 1))
    BY <2>1, <2>2, FS_Subset
  <2> QED BY <1>1, <2>2, <2>3
<1> QED BY <1>1, <1>2, <1>3

\* The entries of a history are numbers.
LEMMA HistoryEntry ==
  ASSUME NEW h \in Seq(0..(Window + 1))
  PROVE  Len(h) \in Nat /\ DOMAIN h = 1..Len(h) /\ \A i \in 1..Len(h) : h[i] \in 0..(Window + 1) /\ h[i] \in Nat
OBVIOUS

\* The restarts of the past likewise.
LEMMA RestartEntry ==
  ASSUME NEW r \in Seq(0..(Window + Cooldown))
  PROVE  Len(r) \in Nat /\ DOMAIN r = 1..Len(r) /\ \A i \in 1..Len(r) : r[i] \in 0..(Window + Cooldown) /\ r[i] \in Nat
OBVIOUS

\* What is past the ones to skip.
LEMMA Later ==
  ASSUME NEW k \in Nat, NEW skip \in Nat, k > skip
  PROVE  k - skip \in Nat /\ k - skip >= 1
OBVIOUS

\* What is past the next one to skip.
LEMMA LaterThan ==
  ASSUME NEW k \in Nat, NEW skip \in Nat, k > skip, k - skip # 1 \/ k > skip + 1
  PROVE  k > skip + 1 /\ k - skip \in Nat /\ k - skip >= 2 /\ k - (skip + 1) = (k - skip) - 1
OBVIOUS

\* The start of a sequence.
LEMMA StartOf ==
  ASSUME NEW T, NEW s \in Seq(T), NEW c \in 1..Len(s)
  PROVE  /\ SubSeq(s, 1, c) \in Seq(T) /\ Len(SubSeq(s, 1, c)) = c
         /\ \A i \in 1..c : SubSeq(s, 1, c)[i] = s[i]
OBVIOUS

\* What is recent of a history is its end, and nothing recent is left out.
LEMMA RecentEnd ==
  ASSUME NEW h \in Seq(0..(Window + 1)), Falling(h)
  PROVE  /\ Recent(h) \in Seq(0..(Window + 1)) /\ Len(Recent(h)) <= Len(h) /\ Falling(Recent(h))
         /\ \A j \in 1..Len(h) : h[Len(h) + 1 - j] <= Window =>
              j <= Len(Recent(h)) /\ Recent(h)[Len(Recent(h)) + 1 - j] = h[Len(h) + 1 - j]
<1> DEFINE n == Len(h)
           S == {i \in DOMAIN h : h[i] > Window}
           old == Cardinality(S)
<1>1. n \in Nat /\ DOMAIN h = 1..n /\ \A i \in 1..n : h[i] \in 0..(Window + 1)
  OBVIOUS
<1>2. S \in SUBSET (1..n) /\ \A i \in S : \A j \in 1..i : j \in S
  <2>1. S \in SUBSET (1..n)
    BY <1>1
  <2>2. ASSUME NEW i \in S, NEW j \in 1..i PROVE j \in S
    <3>1. i \in 1..n /\ j \in 1..n /\ j <= i
      BY <1>1, <2>1
    <3>2. h[i] > Window /\ h[j] >= h[i] /\ h[i] \in Nat /\ h[j] \in Nat
      BY <1>1, <3>1 DEF Falling
    <3>3. h[j] > Window
      BY <3>2
    <3> QED BY <1>1, <3>1, <3>3
  <2> QED BY <2>1, <2>2
<1>3. \A i \in 1..n : i \in S <=> h[i] > Window
  BY <1>1
<1>4. Recent(h) = SubSeq(h, old + 1, n)
  BY DEF Recent
<1> HIDE DEF S
<1>5. old \in 0..n /\ \A i \in 1..n : i \in S <=> i <= old
  BY <1>1, <1>2, InitialPart
<1> HIDE DEF old, n
<1>6. Recent(h) = [i \in 1..(n - old) |-> h[i + old]]
  <2>1. h \in Seq(0..(Window + 1)) /\ n = Len(h)
    BY DEF n
  <2> QED BY <1>4, <1>5, <2>1
<1>7. /\ Recent(h) \in Seq(0..(Window + 1)) /\ Len(Recent(h)) = n - old
      /\ \A i \in 1..(n - old) : Recent(h)[i] = h[i + old]
  BY <1>1, <1>5, <1>6
<1>8. Falling(Recent(h))
  <2> SUFFICES ASSUME NEW i \in 1..(n - old), NEW j \in 1..(n - old), i <= j
               PROVE  Recent(h)[i] >= Recent(h)[j]
    BY <1>6 DEF Falling
  <2>1. i + old \in 1..n /\ j + old \in 1..n /\ i + old <= j + old
    BY <1>1, <1>5
  <2> QED BY <1>1, <1>7, <2>1 DEF Falling
<1>9. ASSUME NEW j \in 1..n, h[n + 1 - j] <= Window
      PROVE  j <= n - old /\ Recent(h)[n - old + 1 - j] = h[n + 1 - j]
  <2>1. n + 1 - j \in 1..n /\ ~(h[n + 1 - j] > Window)
    BY <1>1, <1>9
  <2>2. n + 1 - j > old
    BY <1>3, <1>5, <2>1
  <2>3. j <= n - old /\ n - old + 1 - j \in 1..(n - old) /\ (n - old + 1 - j) + old = n + 1 - j
    BY <1>1, <1>5, <2>2
  <2> QED BY <1>7, <2>3
<1> QED BY <1>1, <1>5, <1>7, <1>8, <1>9 DEF n

\* The restarts of the past a tick later, without those of the far past.
LEMMA OlderStart ==
  ASSUME NEW r \in Seq(0..(Window + Cooldown)), Rising(r)
  PROVE  /\ Older(r) \in Seq(0..(Window + Cooldown)) /\ Len(Older(r)) <= Len(r)
         /\ \A i \in 1..Len(Older(r)) : Older(r)[i] = r[i] + 1
<1> DEFINE n == Len(r)
           aged == [i \in DOMAIN r |-> r[i] + 1]
           S == {i \in DOMAIN aged : aged[i] <= MaxAge}
           c == Cardinality(S)
<1>1. n \in Nat /\ DOMAIN r = 1..n /\ \A i \in 1..n : r[i] \in 0..(Window + Cooldown)
  OBVIOUS
<1>2. DOMAIN aged = 1..n /\ (\A i \in 1..n : aged[i] = r[i] + 1) /\ aged \in Seq(Nat) /\ Len(aged) = n
  BY <1>1
<1>3. Older(r) = SubSeq(aged, 1, c)
  BY DEF Older
<1> HIDE DEF aged
<1>4. S \in SUBSET (1..n) /\ \A i \in S : \A j \in 1..i : j \in S
  <2>1. S \in SUBSET (1..n)
    BY <1>2
  <2>2. ASSUME NEW i \in S, NEW j \in 1..i PROVE j \in S
    <3>1. i \in 1..n /\ j \in 1..n /\ j <= i
      BY <1>1, <2>1
    <3>2. aged[i] <= MaxAge
      OBVIOUS
    <3>3. r[j] <= r[i] /\ r[i] \in Nat /\ r[j] \in Nat
      BY <1>1, <3>1 DEF Rising
    <3>4. aged[i] = r[i] + 1 /\ aged[j] = r[j] + 1
      BY <1>2, <3>1
    <3>5. aged[j] <= MaxAge
      BY <3>2, <3>3, <3>4 DEF MaxAge
    <3> QED BY <1>2, <3>1, <3>5
  <2> QED BY <2>1, <2>2
<1>5. \A i \in 1..n : i \in S <=> aged[i] <= MaxAge
  BY <1>2
<1> HIDE DEF S
<1>6. c \in 0..n /\ \A i \in 1..n : i \in S <=> i <= c
  BY <1>1, <1>4, InitialPart
<1> HIDE DEF c, n
<1>7. Older(r) = [i \in 1..c |-> aged[i]]
  BY <1>2, <1>3, <1>6
<1>8. \A i \in 1..c : aged[i] = r[i] + 1 /\ aged[i] \in 0..(Window + Cooldown)
  BY <1>1, <1>2, <1>5, <1>6 DEF MaxAge
<1>9. /\ Older(r) \in Seq(0..(Window + Cooldown)) /\ Len(Older(r)) = c
      /\ \A i \in 1..c : Older(r)[i] = r[i] + 1
  BY <1>6, <1>7, <1>8
<1> QED BY <1>6, <1>9 DEF n

\* The newest is put before the others.
Follows(new, old) == \A i \in 2..Len(new) : new[i] = old[i - 1]

\* One more restart: the others move on, and the oldest may be forgotten.
LEMMA NewestStart ==
  ASSUME NEW r \in Seq(0..(Window + Cooldown)), NEW age \in 0..(Window + 1),
         NEW new, new = Newest(<<age>> \o r)
  PROVE  /\ new \in Seq(0..(Window + Cooldown)) /\ Len(new) \in 1..(Len(r) + 1) /\ new[1] = age
         /\ Follows(new, r)
<1> DEFINE all == <<age>> \o r
           c == Least(Len(all), MaxRestarts + MaxMishaps + 1)
<1>1. age \in 0..(Window + Cooldown)
  OBVIOUS
<1>2. /\ all \in Seq(0..(Window + Cooldown)) /\ Len(all) = Len(r) + 1 /\ all[1] = age
      /\ \A i \in 2..Len(all) : all[i] = r[i - 1]
  BY <1>1
<1>3. new = SubSeq(all, 1, c)
  BY DEF Newest
<1>4. c \in 1..Len(all)
  BY <1>2 DEF Least
<1> HIDE DEF c, all
<1>5. new \in Seq(0..(Window + Cooldown)) /\ Len(new) = c /\ \A i \in 1..c : new[i] = all[i]
  <2> DEFINE T == 0..(Window + Cooldown)
  <2> HIDE DEF T
  <2>1. all \in Seq(T) /\ c \in 1..Len(all)
    BY <1>2, <1>4 DEF T
  <2>2. SubSeq(all, 1, c) \in Seq(T) /\ Len(SubSeq(all, 1, c)) = c /\ \A i \in 1..c : SubSeq(all, 1, c)[i] = all[i]
    BY <2>1, StartOf
  <2> QED BY <1>3, <2>2 DEF T
<1>6. c \in Nat /\ 1 \in 1..c /\ Len(new) \in 1..(Len(r) + 1)
  BY <1>2, <1>4, <1>5
<1>7. ASSUME NEW i \in 2..Len(new) PROVE new[i] = r[i - 1]
  <2>1. i \in 1..c /\ i \in 2..Len(all)
    BY <1>4, <1>5, <1>6
  <2> QED BY <1>2, <1>5, <2>1
<1>8. new[1] = age
  BY <1>2, <1>5, <1>6
<1> QED BY <1>5, <1>6, <1>7, <1>8 DEF Follows

\* A history a tick later.
LEMMA AgedHistory ==
  ASSUME NEW h \in Seq(0..(Window + 1)), NEW new, new = [i \in DOMAIN h |-> Least(h[i] + 1, Window + 1)]
  PROVE  /\ new \in Seq(0..(Window + 1)) /\ Len(new) = Len(h)
         /\ \A i \in 1..Len(h) : new[i] = Least(h[i] + 1, Window + 1)
<1>1. DOMAIN h = 1..Len(h) /\ Len(h) \in Nat /\ \A i \in 1..Len(h) : h[i] \in 0..(Window + 1)
  OBVIOUS
<1>2. \A i \in 1..Len(h) : Least(h[i] + 1, Window + 1) \in 0..(Window + 1)
  BY <1>1 DEF Least
<1> QED BY <1>1, <1>2

\* More of the newest restarts may be left out.
LEMMA CountedMore ==
  ASSUME NEW h \in Seq(0..(Window + 1)), Falling(h), NEW skip \in Nat, NEW base \in 0..(Window + Cooldown),
         restarts \in Seq(0..(Window + Cooldown)), Counted(h, skip, base)
  PROVE  Counted(h, skip + 1, base)
<1> SUFFICES ASSUME NEW k \in DOMAIN restarts, k > skip + 1, restarts[k] - base <= Window
             PROVE  k - (skip + 1) <= Len(h) /\ h[Len(h) + 1 - (k - (skip + 1))] <= restarts[k]
  BY DEF Counted
<1> DEFINE n == Len(h)
           d == k - skip
<1>1. n \in Nat /\ DOMAIN h = 1..n /\ (\A i \in 1..n : h[i] \in Nat) /\ restarts[k] \in Nat /\ k \in Nat
  <2>1. n \in Nat /\ DOMAIN h = 1..n /\ (\A i \in 1..n : h[i] \in Nat)
    BY HistoryEntry
  <2>2. DOMAIN restarts = 1..Len(restarts) /\ \A i \in 1..Len(restarts) : restarts[i] \in Nat
    BY RestartEntry
  <2>3. restarts[k] \in Nat
    BY <2>2
  <2>4. k \in Nat
    BY <2>2
  <2> QED BY <2>1, <2>3, <2>4
<1>2. k > skip /\ d \in Nat /\ d >= 2 /\ k - (skip + 1) = d - 1
  <2>1. k > skip
    BY <1>1
  <2> QED BY <1>1, <2>1, LaterThan
<1>3. d <= n /\ h[n + 1 - d] <= restarts[k]
  BY <1>2 DEF Counted
<1> HIDE DEF n, d
<1>4. n + 1 - d \in 1..n /\ n + 1 - (d - 1) \in 1..n /\ n + 1 - d <= n + 1 - (d - 1) /\ d - 1 <= n
  BY <1>1, <1>2, <1>3
<1>5. h[n + 1 - (d - 1)] <= h[n + 1 - d]
  BY <1>1, <1>4 DEF Falling
<1>6. d - 1 <= n /\ h[n + 1 - (d - 1)] <= restarts[k]
  <2>1. h[n + 1 - (d - 1)] \in Nat /\ h[n + 1 - d] \in Nat
    BY <1>1, <1>4
  <2> QED BY <1>1, <1>3, <1>4, <1>5, <2>1
<1> QED BY <1>2, <1>6 DEF n

-----------------------------------------------------------------------------
(* Steps in general *)

\* The commands that are no deploy are one.
LEMMA OneOwner ==
  ASSUME OneFamily, NEW p \in Locks, NEW q \in Locks, p # "app", q # "app"
  PROVE  p = q
<1>1. p \in {"own", "site"} /\ q \in {"own", "site"}
  BY DEF OneFamily
<1> QED BY <1>1 DEF OneFamily

\* A process that is idle remembers nothing.
LEMMA NoLocalsType ==
  /\ NoLocals \in Locals /\ NoSpec \in SpecFile /\ NoSpec.history = <<>>
  /\ NoLocals.cmd = "none" /\ NoLocals.spec = NoSpec /\ NoLocals.todo = {} /\ NoLocals.age = 0
  /\ \A label \in Label \ {"restarting"} : Proper(label, NoLocals)
<1>1. NoSpec \in SpecFile /\ NoSpec.history = <<>>
  BY DEF NoSpec, SpecFile
<1>2. /\ NoLocals \in Locals
      /\ NoLocals.cmd = "none" /\ NoLocals.spec = NoSpec /\ NoLocals.todo = {} /\ NoLocals.age = 0
  BY <1>1 DEF NoLocals, Locals, Command
<1>3. Len(NoSpec.history) <= MaxRestarts /\ Falling(NoSpec.history)
  <2>1. Len(NoSpec.history) = 0 /\ DOMAIN NoSpec.history = {}
    BY <1>1
  <2> QED BY <2>1 DEF Falling
<1> QED BY <1>1, <1>2, <1>3 DEF Proper

\* A step of a process changes what that process remembers.
LEMMA StepTypes ==
  ASSUME TypeInv, NEW p \in Locks, NEW label \in Label, NEW l \in Locals, Proper(label, l),
         pc' = [pc EXCEPT ![p] = label], loc' = [loc EXCEPT ![p] = l],
         UNCHANGED kind, spec' \in SpecFile, Len(spec'.history) <= MaxRestarts, Falling(spec'.history),
         unit' \in [Service -> UnitState], restarts' \in Seq(0..(Window + Cooldown)), mishaps' \in 0..MaxMishaps
  PROVE  /\ TypeInv' /\ pc'[p] = label /\ loc'[p] = l
         /\ \A q \in Locks \ {p} : pc'[q] = pc[q] /\ loc'[q] = loc[q]
<1>1. /\ pc'[p] = label /\ loc'[p] = l
      /\ \A q \in Locks \ {p} : pc'[q] = pc[q] /\ loc'[q] = loc[q]
  BY DEF TypeInv, Types
<1>2. Types'
  BY DEF TypeInv, Types
<1>3. \A q \in Locks : Proper(pc'[q], loc'[q])
  BY <1>1 DEF TypeInv, SpecInv
<1>4. ASSUME NEW q \in Locks PROVE Proper(pc[q], loc[q])'
  BY <1>3 DEF Proper
<1>5. SpecInv'
  BY <1>4 DEF SpecInv, Falling
<1> QED BY <1>1, <1>2, <1>5 DEF TypeInv

\* A step of a process leaves the phases of the others as they are.
LEMMA StepPhases ==
  ASSUME OneFamily, PhaseInv, NEW p \in Locks,
         \A q \in Locks \ {p} : pc'[q] = pc[q] /\ loc'[q] = loc[q],
         p = "app" => pc'[p] \in {"idle", "restarting"} /\ loc'[p].cmd \in {"none", "refresh"} /\ spec' = spec,
         pc'[p] \in {"disabling", "terminated"} => loc'[p].spec = spec'
  PROVE  PhaseInv'
<1> SUFFICES ASSUME NEW q \in Locks
             PROVE  /\ q = "app" => pc'[q] \in {"idle", "restarting"} /\ loc'[q].cmd \in {"none", "refresh"}
                    /\ pc'[q] \in {"disabling", "terminated"} => loc'[q].spec = spec'
  BY DEF PhaseInv
<1>1. CASE q = p
  BY <1>1
<1>2. CASE q # p /\ q = "app"
  BY <1>2 DEF PhaseInv
<1>3. CASE q # p /\ q # "app"
  <2>1. p = "app"
    BY <1>3, OneOwner
  <2> QED BY <1>3, <2>1 DEF PhaseInv
<1> QED BY <1>1, <1>2, <1>3

\* The deploy does not count as a restart.
LEMMA DeployNoRestart ==
  ASSUME PhaseInv, NEW q \in Locks, Restarting(q)
  PROVE  q # "app"
BY DEF PhaseInv, Restarting

\* A step that leaves alone what is known of the past restarts.
LEMMA HistoryQuiet ==
  ASSUME TypeInv, HistoryInv, CoolInv, CooldownKept,
         spec'.history = spec.history, spec'.cooldown = spec.cooldown, UNCHANGED <<restarts, mishaps>>,
         \A q \in Locks : pc'[q] = "restarting" /\ loc'[q].cmd = "restart" =>
           /\ Restarting(q) /\ loc'[q].spec.history = loc[q].spec.history /\ loc'[q].age = loc[q].age
           /\ loc'[q].todo = {} <=> loc[q].todo = {},
         \A q \in Locks : Pending(q) => pc'[q] = "restarting" /\ loc'[q].cmd = "restart" /\ loc'[q].todo = {}
  PROVE  HistoryInv' /\ CoolInv' /\ CooldownKept'
<1>1. \A h, s, b : Counted(h, s, b) => (\A k \in DOMAIN restarts' : k > s /\ restarts'[k] - b <= Window =>
                                          k - s <= Len(h) /\ h[Len(h) + 1 - (k - s)] <= restarts'[k])
  BY DEF Counted
<1>2. \A q \in Locks : Pending(q)' => Pending(q)
  BY DEF Pending, Restarting
<1>3. \A q \in Locks : Pending(q) => Pending(q)'
  BY DEF Pending, Restarting
<1>4. Rising(restarts)'
  BY DEF HistoryInv, Rising
<1>5. (\A q \in Locks : ~Pending(q)') => Counted(spec.history, mishaps, 0)'
  BY <1>1, <1>3 DEF HistoryInv, Counted
<1>6. ASSUME NEW q \in Locks
      PROVE  /\ Pending(q)' => /\ Counted(spec.history, mishaps + 1, 0)'
                               /\ restarts' # <<>> => Counted(loc[q].spec.history, mishaps + 1, restarts[1])'
             /\ Restarting(q)' /\ loc'[q].todo # {} => Counted(loc[q].spec.history, mishaps, loc[q].age)'
             /\ Restarting(q)' /\ restarts' # <<>> => loc'[q].age <= restarts'[1]
  <2>1. CASE Pending(q)'
    <3>1. Pending(q) /\ loc'[q].spec.history = loc[q].spec.history /\ loc'[q].age = loc[q].age /\ Restarting(q)
      BY <1>2, <2>1 DEF Pending, Restarting
    <3> QED BY <2>1, <3>1 DEF HistoryInv, Counted, Pending
  <2>2. CASE Restarting(q)' /\ loc'[q].todo # {}
    <3>1. Restarting(q) /\ loc[q].todo # {} /\ loc'[q].spec.history = loc[q].spec.history /\ loc'[q].age = loc[q].age
      BY <2>2 DEF Restarting
    <3> QED BY <2>2, <3>1 DEF HistoryInv, Counted, Pending
  <2> QED BY <2>1, <2>2 DEF Pending
<1>7. HistoryInv'
  BY <1>4, <1>5, <1>6 DEF HistoryInv
<1>8. CoolInv'
  <2> SUFFICES ASSUME mishaps' = 0
               PROVE  /\ (\A q \in Locks : ~Pending(q)') /\ Tight' => spec'.cooldown + restarts'[1] >= Cooldown
                      /\ \A q \in Locks : Restarting(q)' /\ loc'[q].todo # {} /\ Tight' => restarts'[1] - loc'[q].age >= Cooldown
    BY DEF CoolInv
  <2>1. Tight' => Tight
    BY DEF Tight
  <2>2. \A q \in Locks : Restarting(q)' => Restarting(q) /\ loc'[q].age = loc[q].age /\ (loc'[q].todo # {} => loc[q].todo # {})
    BY DEF Restarting
  <2> QED BY <1>3, <2>1, <2>2 DEF CoolInv
<1>9. CooldownKept'
  BY DEF CooldownKept
<1> QED BY <1>7, <1>8, <1>9

\* A fault: what was not recorded stays unrecorded.
LEMMA HistoryMishap ==
  ASSUME TypeInv, HistoryInv, mishaps' = mishaps + 1,
         spec'.history = spec.history, UNCHANGED restarts,
         \A q \in Locks : pc'[q] = "restarting" /\ loc'[q].cmd = "restart" =>
           /\ Restarting(q) /\ loc'[q].spec.history = loc[q].spec.history /\ loc'[q].age = loc[q].age
           /\ loc'[q].todo = {} <=> loc[q].todo = {}
  PROVE  HistoryInv' /\ CoolInv' /\ CooldownKept'
<1>1. /\ mishaps \in Nat /\ mishaps' # 0 /\ restarts \in Seq(0..(Window + Cooldown))
      /\ spec.history \in Seq(0..(Window + 1)) /\ Falling(spec.history)
      /\ \A q \in Locks : /\ loc[q].spec.history \in Seq(0..(Window + 1)) /\ Falling(loc[q].spec.history)
                          /\ loc[q].age \in 0..(Window + Cooldown)
  BY DEF TypeInv, Types, SpecInv, Proper, Locals, SpecFile
<1>2. Rising(restarts)'
  BY DEF HistoryInv, Rising
<1>3. Counted(spec.history, mishaps, 0) => Counted(spec.history, mishaps + 1, 0)
  <2>1. 0 \in 0..(Window + Cooldown)
    OBVIOUS
  <2> QED BY <1>1, <2>1, CountedMore
<1>4. ASSUME \A q \in Locks : ~Pending(q)' PROVE Counted(spec.history, mishaps, 0)'
  <2>1. Counted(spec.history, mishaps + 1, 0)
    BY <1>3 DEF HistoryInv
  <2> QED BY <2>1 DEF Counted
<1>5. ASSUME NEW q \in Locks
      PROVE  /\ Pending(q)' => /\ Counted(spec.history, mishaps + 1, 0)'
                               /\ restarts' # <<>> => Counted(loc[q].spec.history, mishaps + 1, restarts[1])'
             /\ Restarting(q)' /\ loc'[q].todo # {} => Counted(loc[q].spec.history, mishaps, loc[q].age)'
             /\ Restarting(q)' /\ restarts' # <<>> => loc'[q].age <= restarts'[1]
  <2>1. CASE Pending(q)'
    <3>1. /\ Pending(q) /\ Restarting(q)
          /\ loc'[q].spec.history = loc[q].spec.history /\ loc'[q].age = loc[q].age
      BY <2>1 DEF Pending, Restarting
    <3>2. mishaps + 1 \in Nat
      BY <1>1
    <3>3. Counted(spec.history, mishaps + 1 + 1, 0)
      <4>1. 0 \in 0..(Window + Cooldown)
        OBVIOUS
      <4> QED BY <1>1, <3>1, <3>2, <4>1, CountedMore DEF HistoryInv
    <3>4. restarts # <<>> => Counted(loc[q].spec.history, mishaps + 1 + 1, restarts[1])
      <4>1. restarts # <<>> => restarts[1] \in 0..(Window + Cooldown)
        BY <1>1
      <4> QED BY <1>1, <3>1, <3>2, <4>1, CountedMore DEF HistoryInv
    <3> QED BY <2>1, <3>1, <3>3, <3>4 DEF HistoryInv, Counted, Pending
  <2>2. CASE Restarting(q)' /\ loc'[q].todo # {}
    <3>1. Restarting(q) /\ loc[q].todo # {} /\ loc'[q].spec.history = loc[q].spec.history /\ loc'[q].age = loc[q].age
      BY <2>2 DEF Restarting
    <3>2. Counted(loc[q].spec.history, mishaps + 1, loc[q].age)
      BY <1>1, <3>1, CountedMore DEF HistoryInv
    <3> QED BY <2>2, <3>1, <3>2 DEF HistoryInv, Counted, Pending
  <2> QED BY <2>1, <2>2 DEF Pending
<1>6. HistoryInv'
  BY <1>2, <1>4, <1>5 DEF HistoryInv
<1> QED BY <1>1, <1>6 DEF CoolInv, CooldownKept

\* Services that are started stay so, and what is there stays there.
LEMMA StartedKept ==
  ASSUME PhaseInv, PhaseInv', StartInv, UNCHANGED <<spec, mishaps>>,
         \A s \in Service : /\ unit[s] \in {"running", "down"} => unit'[s] \in {"running", "down"}
                            /\ unit[s] # "absent" => unit'[s] # "absent",
         spec \in SpecFile, \A q \in Locks : loc[q].todo \in SUBSET Service,
         \A q \in Locks \ {"app"} :
           /\ pc'[q] = pc[q] /\ loc'[q].spec = loc[q].spec /\ loc'[q].cmd = loc[q].cmd
           /\ pc[q] \in {"units", "enabling"} => loc'[q].todo = loc[q].todo
  PROVE  StartInv'
<1>1. spec.services \subseteq Service
  BY DEF SpecFile
<1>2. ASSUME AllStarted PROVE AllStarted'
  <2> SUFFICES ASSUME spec'.enabled, \A p \in Locks : pc'[p] \notin {"units", "enabling", "disabling"},
                      NEW s \in spec'.services
               PROVE  unit'[s] \in {"running", "down"}
    BY DEF AllStarted, Started
  <2>1. \A p \in Locks \ {"app"} : pc[p] \notin {"units", "enabling", "disabling"}
    OBVIOUS
  <2>2. \A p \in Locks : pc[p] \notin {"units", "enabling", "disabling"}
    BY <2>1 DEF PhaseInv
  <2> QED BY <1>1, <1>2, <2>2 DEF AllStarted, Started
<1>3. ASSUME NEW q \in Locks, StartPhase(q) PROVE StartPhase(q)'
  <2>1. CASE q = "app"
    <3>1. pc'[q] \in {"idle", "restarting"} /\ loc'[q].cmd \in {"none", "refresh"}
      BY <2>1 DEF PhaseInv
    <3> QED BY <3>1 DEF StartPhase, Restarting
  <2>2. CASE q # "app"
    <3>1. /\ pc'[q] = pc[q] /\ loc'[q].spec = loc[q].spec /\ loc'[q].cmd = loc[q].cmd
          /\ pc[q] \in {"units", "enabling"} => loc'[q].todo = loc[q].todo
      BY <2>2
    <3>2. pc[q] = "enabling" => Started(spec.services \ loc[q].todo)'
      BY <1>1, <1>3, <3>1 DEF StartPhase, Started
    <3> QED BY <1>1, <1>3, <3>1, <3>2 DEF StartPhase, Started, Restarting
  <2> QED BY <2>1, <2>2
<1> QED BY <1>2, <1>3 DEF StartInv

\* A step of the command that is no deploy.
LEMMA StartStep ==
  ASSUME OneFamily, PhaseInv', NEW p \in Locks, p # "app",
         mishaps' = 0 => AllStarted' /\ StartPhase(p)'
  PROVE  StartInv'
<1> SUFFICES ASSUME mishaps' = 0, NEW q \in Locks, q # p PROVE StartPhase(q)'
  BY DEF StartInv
<1>1. q = "app"
  BY OneOwner
<1>2. pc'[q] \in {"idle", "restarting"} /\ loc'[q].cmd \in {"none", "refresh"}
  BY <1>1 DEF PhaseInv
<1> QED BY <1>2 DEF StartPhase, Restarting

-----------------------------------------------------------------------------
(* The beginning and the end of a command *)

\* A command begins with what it was told, and a disable with the spec.
LEMMA Begun ==
  ASSUME TypeInv, NEW p \in Locks, NEW cmd \in Command, NEW label \in Label,
         NEW todo \in SUBSET Service, Begin(p, cmd, label, todo)
  PROVE  \E l \in Locals :
           /\ pc[p] = "idle" /\ pc' = [pc EXCEPT ![p] = label] /\ loc' = [loc EXCEPT ![p] = l]
           /\ l.cmd = cmd /\ l.todo = todo /\ l.age = 0
           /\ l.spec = IF cmd \in {"disable", "terminate"} THEN spec ELSE NoSpec
<1> DEFINE s == IF cmd \in {"disable", "terminate"} THEN spec ELSE NoSpec
           l == [NoLocals EXCEPT !.cmd = cmd, !.todo = todo, !.spec = s]
<1>1. pc[p] = "idle" /\ pc' = [pc EXCEPT ![p] = label] /\ loc' = [loc EXCEPT ![p] = l]
  BY DEF Begin, Goto
<1>2. s \in SpecFile
  BY NoLocalsType DEF TypeInv, Types
<1>3. NoLocals \in Locals /\ NoLocals.age = 0
  BY NoLocalsType
<1>4. s = IF cmd \in {"disable", "terminate"} THEN spec ELSE NoSpec
  OBVIOUS
<1> HIDE DEF s
<1>5. l \in Locals /\ l.cmd = cmd /\ l.todo = todo /\ l.age = 0 /\ l.spec = s
  BY <1>2, <1>3 DEF Locals
<1> QED BY <1>1, <1>4, <1>5

\* Only what a command knows of past restarts matters, and at its beginning it knows nothing.
LEMMA BeginKept ==
  ASSUME OneFamily, IInv, NEW p \in Locks, NEW cmd \in Command, NEW label \in Label,
         NEW todo \in SUBSET Service, Begin(p, cmd, label, todo),
         spec' \in SpecFile, spec'.history = spec.history, spec'.cooldown = spec.cooldown,
         UNCHANGED <<kind, restarts, mishaps>>, unit' \in [Service -> UnitState],
         label = "restarting" => cmd = "refresh",
         p = "app" => label = "restarting" /\ cmd = "refresh" /\ spec' = spec,
         label \in {"disabling", "terminated"} => cmd \in {"disable", "terminate"} /\ spec' = spec
  PROVE  /\ TypeInv' /\ PhaseInv' /\ HistoryInv' /\ CoolInv' /\ CooldownKept'
         /\ pc[p] = "idle" /\ pc'[p] = label /\ loc'[p].todo = todo /\ loc'[p].cmd = cmd
         /\ \A q \in Locks \ {p} : pc'[q] = pc[q] /\ loc'[q] = loc[q]
<1>1. PICK l \in Locals :
        /\ pc[p] = "idle" /\ pc' = [pc EXCEPT ![p] = label] /\ loc' = [loc EXCEPT ![p] = l]
        /\ l.cmd = cmd /\ l.todo = todo /\ l.age = 0
        /\ l.spec = IF cmd \in {"disable", "terminate"} THEN spec ELSE NoSpec
  BY Begun DEF IInv
<1>2. TypeInv /\ PhaseInv /\ HistoryInv /\ CoolInv /\ CooldownKept
  BY DEF IInv
<1>3. Proper(label, l)
  <2>1. Len(NoSpec.history) <= MaxRestarts /\ Falling(NoSpec.history)
    <3>1. Proper("idle", NoLocals) /\ NoLocals.spec = NoSpec
      BY NoLocalsType DEF Label
    <3> QED BY <3>1 DEF Proper
  <2>2. Len(l.spec.history) <= MaxRestarts /\ Falling(l.spec.history)
    BY <1>1, <1>2, <2>1 DEF TypeInv, SpecInv
  <2> QED BY <1>1, <2>2 DEF Proper
<1>4. Len(spec'.history) <= MaxRestarts /\ Falling(spec'.history)
  BY <1>2 DEF TypeInv, SpecInv
<1>5. restarts' \in Seq(0..(Window + Cooldown)) /\ mishaps' \in 0..MaxMishaps
  BY <1>2 DEF TypeInv, Types
<1>6. /\ TypeInv' /\ pc'[p] = label /\ loc'[p] = l
      /\ \A q \in Locks \ {p} : pc'[q] = pc[q] /\ loc'[q] = loc[q]
  BY <1>1, <1>2, <1>3, <1>4, <1>5, StepTypes
<1>7. PhaseInv'
  <2>1. /\ p = "app" => pc'[p] \in {"idle", "restarting"} /\ loc'[p].cmd \in {"none", "refresh"} /\ spec' = spec
        /\ pc'[p] \in {"disabling", "terminated"} => loc'[p].spec = spec'
    BY <1>1, <1>6
  <2> QED BY <1>2, <1>6, <2>1, StepPhases
<1>8. \A q \in Locks : pc'[q] = "restarting" /\ loc'[q].cmd = "restart" =>
           /\ Restarting(q) /\ loc'[q].spec.history = loc[q].spec.history /\ loc'[q].age = loc[q].age
           /\ loc'[q].todo = {} <=> loc[q].todo = {}
  BY <1>1, <1>6 DEF Restarting
<1>9. \A q \in Locks : Pending(q) => pc'[q] = "restarting" /\ loc'[q].cmd = "restart" /\ loc'[q].todo = {}
  BY <1>1, <1>6 DEF Pending, Restarting
<1>10. HistoryInv' /\ CoolInv' /\ CooldownKept'
  BY <1>2, <1>8, <1>9, HistoryQuiet
<1> QED BY <1>1, <1>6, <1>7, <1>10

\* A command that ends knows nothing any more.
LEMMA FinishKept ==
  ASSUME OneFamily, IInv, NEW p \in Locks, Finish(p),
         spec' \in SpecFile, Len(spec'.history) <= MaxRestarts, Falling(spec'.history),
         UNCHANGED <<kind, unit, restarts>>, mishaps' \in 0..MaxMishaps,
         p = "app" => spec' = spec
  PROVE  /\ TypeInv' /\ PhaseInv'
         /\ pc'[p] = "idle" /\ loc'[p] = NoLocals
         /\ \A q \in Locks \ {p} : pc'[q] = pc[q] /\ loc'[q] = loc[q]
<1>1. pc' = [pc EXCEPT ![p] = "idle"] /\ loc' = [loc EXCEPT ![p] = NoLocals]
  BY DEF Finish, Goto
<1>2. TypeInv /\ PhaseInv
  BY DEF IInv
<1>3. "idle" \in Label /\ NoLocals \in Locals /\ Proper("idle", NoLocals) /\ NoLocals.cmd = "none"
  BY NoLocalsType DEF Label
<1>4. unit' \in [Service -> UnitState] /\ restarts' \in Seq(0..(Window + Cooldown))
  BY <1>2 DEF TypeInv, Types
<1>5. /\ TypeInv' /\ pc'[p] = "idle" /\ loc'[p] = NoLocals
      /\ \A q \in Locks \ {p} : pc'[q] = pc[q] /\ loc'[q] = loc[q]
  BY <1>1, <1>2, <1>3, <1>4, StepTypes
<1>6. PhaseInv'
  BY <1>2, <1>3, <1>5, StepPhases
<1> QED BY <1>5, <1>6

\* A step of a command that neither enables nor disables.
LEMMA StartQuiet ==
  ASSUME OneFamily, PhaseInv, PhaseInv', StartInv, NEW p \in Locks, p # "app",
         spec'.services = spec.services, spec'.enabled = spec.enabled, UNCHANGED mishaps,
         spec \in SpecFile,
         \A s \in Service : unit[s] \in {"running", "down"} => unit'[s] \in {"running", "down"},
         pc[p] \notin {"units", "enabling", "disabling"}, pc'[p] \notin {"units", "enabling", "disabling"},
         pc'[p] = "restarting" /\ loc'[p].cmd = "restart" =>
           loc'[p].spec.services = spec.services /\ loc'[p].spec.enabled = spec.enabled
  PROVE  StartInv'
<1>1. ASSUME NEW q \in Locks PROVE pc[q] \notin {"units", "enabling", "disabling"}
  BY OneOwner DEF PhaseInv
<1>2. ASSUME mishaps' = 0 PROVE AllStarted'
  <2>1. spec.services \subseteq Service
    BY DEF SpecFile
  <2>2. AllStarted
    BY <1>2 DEF StartInv
  <2> QED BY <1>1, <2>1, <2>2 DEF AllStarted, Started
<1>3. StartPhase(p)'
  BY DEF StartPhase, Restarting
<1> QED BY <1>2, <1>3, StartStep

-----------------------------------------------------------------------------
(* The commands begin *)

\* The spec is written over the one that is there.
LEMMA EnableKept ==
  ASSUME OneFamily, IInv, NEW p \in Locks, NEW n \in Replicas, Enable(p, n)
  PROVE  IInv'
<1> DEFINE S == ServiceNames(n)
<1>1. /\ p # "app" /\ Begin(p, "enable", "units", S)
      /\ spec' = [spec EXCEPT !.exists = TRUE, !.enabled = TRUE, !.services = S]
      /\ UNCHANGED <<kind, unit, restarts, mishaps>>
  BY DEF Enable
<1>2. S \in SUBSET Service
  <2>1. n \in 1..MaxReplicas
    BY DEF Replicas
  <2> QED BY <2>1 DEF ServiceNames, Service
<1> HIDE DEF S
<1>3. spec \in SpecFile /\ unit \in [Service -> UnitState]
  BY DEF IInv, TypeInv, Types
<1>4. spec' = [exists |-> TRUE, enabled |-> TRUE, services |-> S, history |-> spec.history, cooldown |-> spec.cooldown]
  BY <1>1, <1>3 DEF SpecFile
<1>5. /\ spec' \in SpecFile /\ spec'.history = spec.history /\ spec'.cooldown = spec.cooldown
      /\ spec'.services = S
  BY <1>2, <1>3, <1>4 DEF SpecFile
<1>6. "enable" \in Command /\ "units" \in Label
  BY DEF Command, Label
<1>7. /\ TypeInv' /\ PhaseInv' /\ HistoryInv' /\ CoolInv' /\ CooldownKept'
      /\ pc'[p] = "units" /\ loc'[p].todo = S
  BY <1>1, <1>2, <1>3, <1>5, <1>6, BeginKept
<1>8. AllStarted' /\ StartPhase(p)'
  BY <1>5, <1>7 DEF AllStarted, StartPhase, Restarting
<1>9. StartInv'
  BY <1>1, <1>7, <1>8, StartStep
<1> QED BY <1>7, <1>9 DEF IInv

\* The services of a spec are services.
LEMMA ServicesOfType ==
  ASSUME NEW s \in SpecFile
  PROVE  ServicesOf(s) \in SUBSET Service /\ ServicesOf(s) # {}
BY DEF SpecFile, ServicesOf, Service

\* A disable works from the spec that it read.
LEMMA DisableKept ==
  ASSUME OneFamily, IInv, NEW p \in Locks, Disable(p)
  PROVE  IInv'
<1> DEFINE S == IF spec.exists THEN ServicesOf(spec) ELSE ServiceNames(1)
<1>1. /\ p # "app" /\ Begin(p, "disable", "disabling", S)
      /\ UNCHANGED <<kind, spec, unit, restarts, mishaps>>
  BY DEF Disable
<1>2. spec \in SpecFile /\ unit \in [Service -> UnitState]
  BY DEF IInv, TypeInv, Types
<1>3. S \in SUBSET Service
  BY <1>2, ServicesOfType DEF ServiceNames, Service
<1> HIDE DEF S
<1>4. "disable" \in Command /\ "disabling" \in Label
  BY DEF Command, Label
<1>5. /\ TypeInv' /\ PhaseInv' /\ HistoryInv' /\ CoolInv' /\ CooldownKept'
      /\ pc'[p] = "disabling"
  BY <1>1, <1>2, <1>3, <1>4, BeginKept
<1>6. AllStarted' /\ StartPhase(p)'
  BY <1>5 DEF AllStarted, StartPhase, Restarting
<1>7. StartInv'
  BY <1>1, <1>5, <1>6, StartStep
<1> QED BY <1>5, <1>7 DEF IInv

\* A restart or a reconcile begins, or horizon is told to terminate.
LEMMA RestartBegins ==
  ASSUME OneFamily, IInv, NEW p \in Locks, Restart(p) \/ Reconcile(p) \/ Terminate(p)
  PROVE  IInv'
<1>1. PICK cmd \in {"restart", "reconcile", "terminate"}, label \in {"policy", "looking", "terminated"},
           todo \in {{}, ServicesOf(spec)} :
        /\ p # "app" /\ Begin(p, cmd, label, todo) /\ UNCHANGED <<kind, spec, restarts, mishaps>>
        /\ unit' = unit \/ (unit[0] = "running" /\ unit' = [unit EXCEPT ![0] = "down"])
        /\ label = "terminated" => cmd = "terminate"
  <2>1. CASE Restart(p)
    BY <2>1 DEF Restart
  <2>2. CASE Reconcile(p)
    BY <2>2 DEF Reconcile
  <2>3. CASE Terminate(p)
    BY <2>3 DEF Terminate
  <2> QED BY <2>1, <2>2, <2>3
<1>2. spec \in SpecFile /\ unit \in [Service -> UnitState] /\ 0 \in Service
  BY DEF IInv, TypeInv, Types, Service
<1>3. /\ unit' \in [Service -> UnitState]
      /\ \A s \in Service : unit[s] \in {"running", "down"} => unit'[s] \in {"running", "down"}
  BY <1>1, <1>2 DEF UnitState
<1>4. cmd \in Command /\ label \in Label /\ label # "restarting" /\ label # "disabling" /\ todo \in SUBSET Service
  BY <1>2, ServicesOfType DEF Command, Label
<1>5. /\ TypeInv' /\ PhaseInv' /\ HistoryInv' /\ CoolInv' /\ CooldownKept'
      /\ pc[p] = "idle" /\ pc'[p] = label
  BY <1>1, <1>2, <1>3, <1>4, BeginKept
<1>6. StartInv'
  BY <1>1, <1>2, <1>3, <1>5, StartQuiet DEF IInv
<1> QED BY <1>5, <1>6 DEF IInv

\* A deploy restarts services under the lock of the app.
LEMMA RefreshKept ==
  ASSUME OneFamily, IInv, NEW p \in Locks, Refresh(p)
  PROVE  IInv'
<1>1. /\ p = "app" /\ Begin(p, "refresh", "restarting", ServicesOf(spec))
      /\ UNCHANGED <<kind, spec, unit, restarts, mishaps>>
  BY DEF Refresh
<1>2. spec \in SpecFile /\ unit \in [Service -> UnitState] /\ \A q \in Locks : loc[q].todo \in SUBSET Service
  BY DEF IInv, TypeInv, Types, Locals
<1>3. "refresh" \in Command /\ "restarting" \in Label /\ ServicesOf(spec) \in SUBSET Service
  BY <1>2, ServicesOfType DEF Command, Label
<1>4. /\ TypeInv' /\ PhaseInv' /\ HistoryInv' /\ CoolInv' /\ CooldownKept'
      /\ \A q \in Locks \ {p} : pc'[q] = pc[q] /\ loc'[q] = loc[q]
  BY <1>1, <1>2, <1>3, BeginKept
<1>5. StartInv'
  BY <1>1, <1>2, <1>4, StartedKept DEF IInv
<1> QED BY <1>4, <1>5 DEF IInv

\* A scheduled run counts itself in the spec.
LEMMA RunOnceKept ==
  ASSUME OneFamily, IInv, NEW p \in Locks, RunOnce(p)
  PROVE  IInv'
<1>1. /\ p # "app" /\ pc[p] = "idle" /\ spec' = [spec EXCEPT !.exists = TRUE]
      /\ UNCHANGED <<kind, unit, pc, loc, restarts, mishaps>>
  BY DEF RunOnce
<1>2. TypeInv /\ PhaseInv /\ HistoryInv /\ CoolInv /\ CooldownKept /\ StartInv
  BY DEF IInv
<1>3. spec \in SpecFile
  BY <1>2 DEF TypeInv, Types
<1>4. spec' = [exists |-> TRUE, enabled |-> spec.enabled, services |-> spec.services, history |-> spec.history,
               cooldown |-> spec.cooldown]
  BY <1>1, <1>3 DEF SpecFile
<1>5. /\ spec' \in SpecFile /\ spec'.history = spec.history /\ spec'.cooldown = spec.cooldown
      /\ spec'.services = spec.services /\ spec'.enabled = spec.enabled
  BY <1>3, <1>4 DEF SpecFile
<1>6. TypeInv'
  <2>1. Types'
    BY <1>1, <1>2, <1>5 DEF TypeInv, Types
  <2>2. SpecInv'
    BY <1>1, <1>2, <1>5 DEF TypeInv, SpecInv, Proper, Falling
  <2> QED BY <2>1, <2>2 DEF TypeInv
<1>7. PhaseInv'
  <2>1. \A q \in Locks : pc[q] \notin {"disabling", "terminated"}
    BY <1>1, <1>2, OneOwner DEF PhaseInv
  <2> QED BY <1>1, <1>2, <2>1 DEF PhaseInv
<1>8. HistoryInv' /\ CoolInv' /\ CooldownKept'
  <2>1. \A q \in Locks : pc'[q] = "restarting" /\ loc'[q].cmd = "restart" =>
           /\ Restarting(q) /\ loc'[q].spec.history = loc[q].spec.history /\ loc'[q].age = loc[q].age
           /\ loc'[q].todo = {} <=> loc[q].todo = {}
    BY <1>1 DEF Restarting
  <2>2. \A q \in Locks : Pending(q) => pc'[q] = "restarting" /\ loc'[q].cmd = "restart" /\ loc'[q].todo = {}
    BY <1>1 DEF Pending, Restarting
  <2> QED BY <1>1, <1>2, <1>5, <2>1, <2>2, HistoryQuiet
<1>9. StartInv'
  BY <1>1, <1>2, <1>3, <1>5, <1>7, StartQuiet
<1> QED BY <1>6, <1>7, <1>8, <1>9 DEF IInv

-----------------------------------------------------------------------------
(* Calls of systemctl *)

\* The services are called in order, the least first.
LEMMA NextIn ==
  ASSUME NEW S \in SUBSET Service, S # {}
  PROVE  NextOf(S) \in S
<1> DEFINE n == MaxReplicas + 1
           T == {i \in 1..n : \A t \in S : t >= i}
           c == Cardinality(T)
<1>1. n \in Nat /\ S \subseteq 0..MaxReplicas /\ MaxReplicas \in Nat
  BY DEF Service
<1>2. T \in SUBSET (1..n) /\ \A i \in T : \A j \in 1..i : j \in T
  <2>1. T \in SUBSET (1..n)
    OBVIOUS
  <2>2. ASSUME NEW i \in T, NEW j \in 1..i PROVE j \in T
    BY <1>1
  <2> QED BY <2>1, <2>2
<1>3. \A i \in 1..n : i \in T <=> \A t \in S : t >= i
  OBVIOUS
<1> HIDE DEF T, n
<1>4. c \in 0..n /\ \A i \in 1..n : i \in T <=> i <= c
  BY <1>1, <1>2, InitialPart
<1> HIDE DEF c
<1>5. \A t \in S : t >= c
  <2>1. CASE c = 0
    BY <1>1, <2>1
  <2>2. CASE c # 0
    BY <1>1, <1>3, <1>4, <2>2
  <2> QED BY <2>1, <2>2
<1>6. c # n
  <2>1. PICK t \in S : TRUE
    OBVIOUS
  <2>2. t <= MaxReplicas /\ t >= c
    BY <1>1, <1>5
  <2> QED BY <1>1, <1>4, <2>2 DEF n
<1>7. c + 1 \in 1..n /\ ~(c + 1 <= c)
  BY <1>1, <1>4, <1>6
<1>8. PICK t \in S : ~(t >= c + 1)
  BY <1>3, <1>4, <1>7
<1>9. t = c
  BY <1>1, <1>4, <1>5, <1>8
<1>10. \E s \in S : \A u \in S : s <= u
  BY <1>1, <1>4, <1>5, <1>8, <1>9
<1> QED BY <1>10 DEF NextOf

\* A command with other services to call.
LEMMA RestOf ==
  ASSUME NEW r \in Locals, NEW rest
  PROVE  [r EXCEPT !.todo = rest]
           = [cmd |-> r.cmd, spec |-> r.spec, todo |-> rest, degraded |-> r.degraded, age |-> r.age]
BY DEF Locals

\* A call leaves one service less, and whatever else the command remembers.
LEMMA CallKept ==
  ASSUME OneFamily, IInv, NEW p \in Locks, pc[p] # "idle", loc[p].todo # {}, Called(p),
         UNCHANGED <<kind, spec, pc>>, unit' \in [Service -> UnitState],
         restarts' \in Seq(0..(Window + Cooldown)), mishaps' \in 0..MaxMishaps
  PROVE  /\ TypeInv' /\ PhaseInv'
         /\ NextOf(loc[p].todo) \in loc[p].todo /\ loc[p].todo \in SUBSET Service
         /\ loc'[p].todo = loc[p].todo \ {NextOf(loc[p].todo)}
         /\ loc'[p].cmd = loc[p].cmd /\ loc'[p].spec = loc[p].spec /\ loc'[p].age = loc[p].age
         /\ \A q \in Locks \ {p} : loc'[q] = loc[q]
<1> DEFINE todo == loc[p].todo
           rest == todo \ {NextOf(todo)}
           l == [cmd |-> loc[p].cmd, spec |-> loc[p].spec, todo |-> rest, degraded |-> loc[p].degraded, age |-> loc[p].age]
<1>1. TypeInv /\ PhaseInv /\ loc[p] \in Locals /\ pc \in [Locks -> Label] /\ loc \in [Locks -> Locals]
  BY DEF IInv, TypeInv, Types
<1>2. todo \in SUBSET Service /\ todo # {} /\ NextOf(todo) \in todo
  BY <1>1, NextIn DEF Locals
<1>3. loc' = [loc EXCEPT ![p] = [loc[p] EXCEPT !.todo = rest]]
  BY <1>1 DEF Called
<1>4. rest \in SUBSET Service
  BY <1>2
<1> HIDE DEF rest
<1>5. [loc[p] EXCEPT !.todo = rest] = l
  BY <1>1, RestOf
<1>6. /\ l \in Locals /\ l.cmd = loc[p].cmd /\ l.spec = loc[p].spec /\ l.age = loc[p].age /\ l.todo = rest
  BY <1>1, <1>4 DEF Locals
<1> HIDE DEF l
<1>7. Proper(pc[p], l)
  BY <1>1, <1>6 DEF TypeInv, SpecInv, Proper
<1>8. pc' = [pc EXCEPT ![p] = pc[p]] /\ loc' = [loc EXCEPT ![p] = l] /\ pc[p] \in Label
  BY <1>1, <1>3, <1>5
<1>9. spec' \in SpecFile /\ Len(spec'.history) <= MaxRestarts /\ Falling(spec'.history)
  BY <1>1 DEF TypeInv, Types, SpecInv
<1>10. TypeInv' /\ pc'[p] = pc[p] /\ loc'[p] = l /\ \A q \in Locks \ {p} : pc'[q] = pc[q] /\ loc'[q] = loc[q]
  BY <1>1, <1>6, <1>7, <1>8, <1>9, StepTypes
<1>11. PhaseInv'
  BY <1>1, <1>6, <1>10 DEF PhaseInv
<1> QED BY <1>2, <1>6, <1>10, <1>11 DEF rest

\* What is known of past restarts is not touched by a call that is no restart.
LEMMA CallQuiet ==
  ASSUME IInv, NEW p \in Locks, pc[p] = "restarting" => loc[p].cmd = "refresh",
         UNCHANGED <<spec, pc, restarts>>, mishaps' \in {mishaps, mishaps + 1}, loc'[p].cmd = loc[p].cmd,
         \A q \in Locks \ {p} : loc'[q] = loc[q]
  PROVE  HistoryInv' /\ CoolInv' /\ CooldownKept'
<1>1. TypeInv /\ HistoryInv /\ CoolInv /\ CooldownKept
  BY DEF IInv
<1>2. \A q \in Locks : pc'[q] = "restarting" /\ loc'[q].cmd = "restart" =>
           /\ Restarting(q) /\ loc'[q].spec.history = loc[q].spec.history /\ loc'[q].age = loc[q].age
           /\ loc'[q].todo = {} <=> loc[q].todo = {}
  BY DEF Restarting
<1>3. \A q \in Locks : Pending(q) => pc'[q] = "restarting" /\ loc'[q].cmd = "restart" /\ loc'[q].todo = {}
  BY DEF Pending, Restarting
<1>4. CASE mishaps' = mishaps
  BY <1>1, <1>2, <1>3, <1>4, HistoryQuiet
<1>5. CASE mishaps' = mishaps + 1
  BY <1>1, <1>2, <1>5, HistoryMishap
<1> QED BY <1>4, <1>5

\* An enable starts one more service.
LEMMA EnableServiceKept ==
  ASSUME OneFamily, IInv, NEW p \in Locks, EnableService(p)
  PROVE  IInv'
<1> DEFINE s == NextOf(loc[p].todo)
<1>1. /\ pc[p] = "enabling" /\ loc[p].todo # {} /\ unit' = [unit EXCEPT ![s] = "running"] /\ Called(p)
      /\ UNCHANGED <<kind, spec, pc, restarts, mishaps>>
  BY DEF EnableService, Call
<1>2. p # "app" /\ mishaps' \in 0..MaxMishaps /\ unit \in [Service -> UnitState] /\ spec \in SpecFile
  BY <1>1 DEF IInv, TypeInv, Types, PhaseInv
<1>3. unit' \in [Service -> UnitState] /\ restarts' \in Seq(0..(Window + Cooldown))
  BY <1>1, <1>2 DEF IInv, TypeInv, Types, UnitState
<1>4. /\ TypeInv' /\ PhaseInv' /\ s \in loc[p].todo /\ loc[p].todo \in SUBSET Service
      /\ loc'[p].todo = loc[p].todo \ {s} /\ loc'[p].cmd = loc[p].cmd
      /\ \A q \in Locks \ {p} : loc'[q] = loc[q]
  BY <1>1, <1>2, <1>3, CallKept
<1>5. HistoryInv' /\ CoolInv' /\ CooldownKept'
  BY <1>1, <1>4, CallQuiet
<1>6. ASSUME mishaps' = 0 PROVE AllStarted' /\ StartPhase(p)'
  <2>1. /\ loc[p].todo \subseteq spec.services /\ Started(spec.services \ loc[p].todo)
        /\ \A t \in loc[p].todo : unit[t] # "absent"
    BY <1>1, <1>6 DEF IInv, StartInv, StartPhase
  <2>2. AllStarted'
    BY <1>1 DEF AllStarted
  <2>3. unit'[s] = "running" /\ \A t \in Service \ {s} : unit'[t] = unit[t]
    BY <1>1, <1>2, <1>4
  <2>4. spec.services \subseteq Service
    BY <1>2 DEF SpecFile
  <2>5. ASSUME NEW t \in spec.services \ loc'[p].todo PROVE unit'[t] \in {"running", "down"}
    BY <1>4, <2>1, <2>3, <2>4 DEF Started
  <2>6. \A t \in loc'[p].todo : unit'[t] # "absent"
    BY <1>4, <2>1, <2>3
  <2> QED BY <1>1, <1>4, <2>1, <2>2, <2>5, <2>6 DEF StartPhase, Started, Restarting
<1>7. StartInv'
  BY <1>2, <1>4, <1>6, StartStep
<1> QED BY <1>4, <1>5, <1>7 DEF IInv

\* The units that an enable is about to start are written.
LEMMA WriteUnitsKept ==
  ASSUME OneFamily, IInv, NEW p \in Locks, WriteUnits(p)
  PROVE  IInv'
<1>1. /\ pc[p] = "units" /\ pc' = [pc EXCEPT ![p] = "enabling"]
      /\ unit' = [s \in Service |-> IF s \in loc[p].todo /\ unit[s] = "absent" THEN "stopped" ELSE unit[s]]
      /\ UNCHANGED <<kind, spec, loc, restarts, mishaps>>
  BY DEF WriteUnits, Goto
<1>2. TypeInv /\ PhaseInv /\ HistoryInv /\ CoolInv /\ CooldownKept
  BY DEF IInv
<1>3. p # "app" /\ loc \in [Locks -> Locals] /\ unit \in [Service -> UnitState] /\ spec \in SpecFile
  BY <1>1, <1>2 DEF TypeInv, Types, PhaseInv
<1>4. unit' \in [Service -> UnitState]
  BY <1>1, <1>3 DEF UnitState
<1>5. "enabling" \in Label /\ loc[p] \in Locals /\ loc' = [loc EXCEPT ![p] = loc[p]]
  BY <1>1, <1>3 DEF Label
<1>6. Proper("enabling", loc[p])
  BY <1>2 DEF TypeInv, SpecInv, Proper
<1>7. /\ spec' \in SpecFile /\ Len(spec'.history) <= MaxRestarts /\ Falling(spec'.history)
      /\ restarts' \in Seq(0..(Window + Cooldown)) /\ mishaps' \in 0..MaxMishaps
  BY <1>1, <1>2 DEF TypeInv, Types, SpecInv
<1>8. TypeInv' /\ pc'[p] = "enabling" /\ loc'[p] = loc[p] /\ \A q \in Locks \ {p} : pc'[q] = pc[q] /\ loc'[q] = loc[q]
  BY <1>1, <1>2, <1>4, <1>5, <1>6, <1>7, StepTypes
<1>9. PhaseInv'
  BY <1>2, <1>3, <1>8, StepPhases
<1>10. HistoryInv' /\ CoolInv' /\ CooldownKept'
  <2>1. \A q \in Locks : pc'[q] = "restarting" /\ loc'[q].cmd = "restart" =>
           /\ Restarting(q) /\ loc'[q].spec.history = loc[q].spec.history /\ loc'[q].age = loc[q].age
           /\ loc'[q].todo = {} <=> loc[q].todo = {}
    BY <1>8 DEF Restarting
  <2>2. \A q \in Locks : Pending(q) => pc'[q] = "restarting" /\ loc'[q].cmd = "restart" /\ loc'[q].todo = {}
    BY <1>1, <1>8 DEF Pending, Restarting
  <2> QED BY <1>1, <1>2, <2>1, <2>2, HistoryQuiet
<1>11. ASSUME mishaps' = 0 PROVE AllStarted' /\ StartPhase(p)'
  <2>1. loc[p].todo = spec.services
    BY <1>1, <1>11 DEF IInv, StartInv, StartPhase
  <2>2. spec.services \subseteq Service
    BY <1>3 DEF SpecFile
  <2>3. \A s \in loc[p].todo : unit'[s] # "absent"
    BY <1>1, <2>1, <2>2
  <2> QED BY <1>1, <1>8, <2>1, <2>3 DEF AllStarted, StartPhase, Started, Restarting
<1>12. StartInv'
  BY <1>3, <1>9, <1>11, StartStep
<1> QED BY <1>8, <1>9, <1>10, <1>12 DEF IInv

\* A disable stops one more service, or does not hear that it could not.
LEMMA DisableServiceKept ==
  ASSUME OneFamily, IInv, NEW p \in Locks, DisableService(p)
  PROVE  IInv'
<1> DEFINE s == NextOf(loc[p].todo)
<1>1. /\ pc[p] = "disabling" /\ loc[p].todo # {} /\ Called(p)
      /\ unit' \in {unit, [unit EXCEPT ![s] = IF unit[s] = "absent" THEN "absent" ELSE "stopped"]}
      /\ mishaps' \in {mishaps, mishaps + 1} /\ (mishaps' = mishaps + 1 => mishaps < MaxMishaps)
      /\ UNCHANGED <<kind, spec, pc, restarts>>
  <2>1. mishaps \in Nat
    BY DEF IInv, TypeInv, Types
  <2>2. unit \in [Service -> UnitState]
    BY DEF IInv, TypeInv, Types
  <2>3. CASE s \in Service
    <3>1. [unit EXCEPT ![s] = IF @ = "absent" THEN @ ELSE "stopped"]
             = [unit EXCEPT ![s] = IF unit[s] = "absent" THEN "absent" ELSE "stopped"]
      BY <2>2, <2>3
    <3> QED BY <2>1, <3>1 DEF DisableService, Call, Mishap
  <2>4. s \in Service
    <3>1. loc[p].todo \in SUBSET Service /\ loc[p].todo # {}
      BY DEF IInv, TypeInv, Types, Locals, DisableService, Call
    <3> QED BY <3>1, NextIn
  <2> QED BY <2>3, <2>4
<1>2. p # "app" /\ mishaps' \in 0..MaxMishaps /\ unit \in [Service -> UnitState] /\ spec \in SpecFile /\ mishaps \in 0..MaxMishaps
  BY <1>1 DEF IInv, TypeInv, Types, PhaseInv
<1>3. unit' \in [Service -> UnitState] /\ restarts' \in Seq(0..(Window + Cooldown))
  BY <1>1, <1>2 DEF IInv, TypeInv, Types, UnitState
<1>4. /\ TypeInv' /\ PhaseInv' /\ loc'[p].cmd = loc[p].cmd /\ \A q \in Locks \ {p} : loc'[q] = loc[q]
  BY <1>1, <1>2, <1>3, CallKept
<1>5. HistoryInv' /\ CoolInv' /\ CooldownKept'
  BY <1>1, <1>4, CallQuiet
<1>6. AllStarted' /\ StartPhase(p)'
  BY <1>1 DEF AllStarted, StartPhase, Restarting
<1>7. StartInv'
  BY <1>2, <1>4, <1>6, StartStep
<1> QED BY <1>4, <1>5, <1>7 DEF IInv

-----------------------------------------------------------------------------
(* The steps of a command that are no calls, its end, and its faults *)

\* A command goes on with the spec and the restarts as they are.
LEMMA StepQuiet ==
  ASSUME OneFamily, IInv, NEW p \in Locks, p # "app", NEW label \in Label, NEW l \in Locals, Proper(label, l),
         pc' = [pc EXCEPT ![p] = label], loc' = [loc EXCEPT ![p] = l],
         pc[p] \notin {"restarting", "units", "enabling", "disabling"},
         label \notin {"restarting", "units", "enabling", "disabling", "terminated"},
         UNCHANGED <<kind, spec, unit, restarts, mishaps>>
  PROVE  IInv'
<1>1. TypeInv /\ PhaseInv /\ HistoryInv /\ CoolInv /\ CooldownKept /\ StartInv
  BY DEF IInv
<1>2. /\ spec \in SpecFile /\ spec' \in SpecFile /\ Len(spec'.history) <= MaxRestarts /\ Falling(spec'.history)
      /\ unit' \in [Service -> UnitState] /\ restarts' \in Seq(0..(Window + Cooldown)) /\ mishaps' \in 0..MaxMishaps
  BY <1>1 DEF TypeInv, Types, SpecInv
<1>3. TypeInv' /\ pc'[p] = label /\ loc'[p] = l /\ \A q \in Locks \ {p} : pc'[q] = pc[q] /\ loc'[q] = loc[q]
  BY <1>1, <1>2, StepTypes
<1>4. PhaseInv'
  BY <1>1, <1>3, StepPhases
<1>5. \A q \in Locks : pc'[q] = "restarting" /\ loc'[q].cmd = "restart" =>
           /\ Restarting(q) /\ loc'[q].spec.history = loc[q].spec.history /\ loc'[q].age = loc[q].age
           /\ loc'[q].todo = {} <=> loc[q].todo = {}
  BY <1>3 DEF Restarting
<1>6. \A q \in Locks : Pending(q) => pc'[q] = "restarting" /\ loc'[q].cmd = "restart" /\ loc'[q].todo = {}
  BY <1>3 DEF Pending, Restarting
<1>7. HistoryInv' /\ CoolInv' /\ CooldownKept'
  BY <1>1, <1>5, <1>6, HistoryQuiet
<1>8. StartInv'
  BY <1>1, <1>2, <1>3, <1>4, StartQuiet
<1> QED BY <1>3, <1>4, <1>7, <1>8 DEF IInv

\* What a reconcile remembers when it has looked at one service more.
LEMMA LookedLocals ==
  ASSUME NEW r \in Locals, NEW rest, NEW seen
  PROVE  [r EXCEPT !.todo = rest, !.degraded = seen]
           = [cmd |-> r.cmd, spec |-> r.spec, todo |-> rest, degraded |-> seen, age |-> r.age]
<1> DEFINE l == [cmd |-> r.cmd, spec |-> r.spec, todo |-> rest, degraded |-> r.degraded, age |-> r.age]
<1>1. [r EXCEPT !.todo = rest] = l
  BY RestOf
<1>2. [l EXCEPT !.degraded = seen] = [cmd |-> r.cmd, spec |-> r.spec, todo |-> rest, degraded |-> seen, age |-> r.age]
  OBVIOUS
<1>3. [r EXCEPT !.todo = rest, !.degraded = seen] = [[r EXCEPT !.todo = rest] EXCEPT !.degraded = seen]
  OBVIOUS
<1> HIDE DEF l
<1> QED BY <1>1, <1>2, <1>3

\* A reconcile sees whether a service is active.
LEMMA LookAtServiceKept ==
  ASSUME OneFamily, IInv, NEW p \in Locks, LookAtService(p)
  PROVE  IInv'
<1> DEFINE s == NextOf(loc[p].todo)
           rest == loc[p].todo \ {s}
           seen == loc[p].degraded \/ unit[s] # "running"
           l == [cmd |-> loc[p].cmd, spec |-> loc[p].spec, todo |-> rest, degraded |-> seen, age |-> loc[p].age]
<1>1. pc[p] = "looking" /\ UNCHANGED <<kind, spec, unit, pc, restarts, mishaps>>
  BY DEF LookAtService, Call
<1>2. p # "app" /\ loc[p] \in Locals /\ loc \in [Locks -> Locals] /\ pc \in [Locks -> Label]
  BY <1>1 DEF IInv, TypeInv, Types, PhaseInv
<1>3. loc' = [loc EXCEPT ![p] = [loc[p] EXCEPT !.todo = rest, !.degraded = seen]]
  BY <1>2 DEF LookAtService
<1>4. rest \in SUBSET Service /\ seen \in BOOLEAN
  BY <1>2 DEF Locals
<1> HIDE DEF rest, seen
<1>5. [loc[p] EXCEPT !.todo = rest, !.degraded = seen] = l
  BY <1>2, <1>4, LookedLocals
<1>6. l \in Locals /\ l.cmd = loc[p].cmd /\ l.spec = loc[p].spec
  BY <1>2, <1>4 DEF Locals
<1> HIDE DEF l
<1>7. Proper("looking", l)
  BY <1>1, <1>6 DEF IInv, TypeInv, SpecInv, Proper
<1>8. pc' = [pc EXCEPT ![p] = "looking"] /\ loc' = [loc EXCEPT ![p] = l] /\ "looking" \in Label
  BY <1>1, <1>2, <1>3, <1>5 DEF Label
<1> QED BY <1>1, <1>2, <1>6, <1>7, <1>8, StepQuiet

\* A command ends and leaves the past restarts as they are recorded.
LEMMA FinishQuiet ==
  ASSUME OneFamily, IInv, NEW p \in Locks, Finish(p), ~Pending(p),
         spec' \in SpecFile, spec'.history = spec.history, spec'.cooldown = spec.cooldown,
         UNCHANGED <<kind, unit, restarts, mishaps>>, p = "app" => spec' = spec
  PROVE  /\ TypeInv' /\ PhaseInv' /\ HistoryInv' /\ CoolInv' /\ CooldownKept'
         /\ pc'[p] = "idle" /\ loc'[p] = NoLocals
         /\ \A q \in Locks \ {p} : pc'[q] = pc[q] /\ loc'[q] = loc[q]
<1>1. TypeInv /\ HistoryInv /\ CoolInv /\ CooldownKept
  BY DEF IInv
<1>2. Len(spec'.history) <= MaxRestarts /\ Falling(spec'.history) /\ mishaps' \in 0..MaxMishaps
  BY <1>1 DEF TypeInv, Types, SpecInv
<1>3. /\ TypeInv' /\ PhaseInv' /\ pc'[p] = "idle" /\ loc'[p] = NoLocals
      /\ \A q \in Locks \ {p} : pc'[q] = pc[q] /\ loc'[q] = loc[q]
  BY <1>2, FinishKept
<1>4. \A q \in Locks : pc'[q] = "restarting" /\ loc'[q].cmd = "restart" =>
           /\ Restarting(q) /\ loc'[q].spec.history = loc[q].spec.history /\ loc'[q].age = loc[q].age
           /\ loc'[q].todo = {} <=> loc[q].todo = {}
  BY <1>3 DEF Restarting
<1>5. \A q \in Locks : Pending(q) => pc'[q] = "restarting" /\ loc'[q].cmd = "restart" /\ loc'[q].todo = {}
  BY <1>3 DEF Pending, Restarting
<1>6. HistoryInv' /\ CoolInv' /\ CooldownKept'
  BY <1>1, <1>4, <1>5, HistoryQuiet
<1> QED BY <1>3, <1>6

\* A command that neither enabled nor disabled ends.
LEMMA EndKept ==
  ASSUME OneFamily, IInv, NEW p \in Locks, Finish(p), ~Pending(p),
         pc[p] \notin {"units", "enabling", "disabling"}, UNCHANGED <<kind, spec, unit, restarts, mishaps>>
  PROVE  IInv'
<1>1. PhaseInv /\ StartInv /\ spec \in SpecFile /\ \A q \in Locks : loc[q].todo \in SUBSET Service
  BY DEF IInv, TypeInv, Types, Locals
<1>2. /\ TypeInv' /\ PhaseInv' /\ HistoryInv' /\ CoolInv' /\ CooldownKept'
      /\ pc'[p] = "idle" /\ loc'[p] = NoLocals
      /\ \A q \in Locks \ {p} : pc'[q] = pc[q] /\ loc'[q] = loc[q]
  BY <1>1, FinishQuiet
<1>3. CASE p = "app"
  BY <1>1, <1>2, <1>3, StartedKept DEF IInv
<1>4. CASE p # "app"
  <2>1. StartInv'
    BY <1>1, <1>2, <1>4, StartQuiet
  <2> QED BY <1>2, <2>1 DEF IInv
<1> QED BY <1>2, <1>3, <1>4 DEF IInv

\* A command is cut short: what it did and did not record is one restart more.
LEMMA CutShort ==
  ASSUME OneFamily, IInv, NEW p \in Locks, NEW fault, Finish(p), Mishap(fault),
         UNCHANGED <<kind, spec, unit, restarts>>
  PROVE  IInv'
<1>1. mishaps' \in 0..MaxMishaps /\ mishaps' = mishaps + 1 /\ mishaps' # 0
  BY DEF IInv, TypeInv, Types, Mishap
<1>2. TypeInv /\ HistoryInv /\ spec' \in SpecFile /\ Len(spec'.history) <= MaxRestarts /\ Falling(spec'.history)
  BY DEF IInv, TypeInv, Types, SpecInv
<1>3. /\ TypeInv' /\ PhaseInv' /\ pc'[p] = "idle" /\ loc'[p] = NoLocals
      /\ \A q \in Locks \ {p} : pc'[q] = pc[q] /\ loc'[q] = loc[q]
  BY <1>1, <1>2, FinishKept
<1>4. \A q \in Locks : pc'[q] = "restarting" /\ loc'[q].cmd = "restart" =>
           /\ Restarting(q) /\ loc'[q].spec.history = loc[q].spec.history /\ loc'[q].age = loc[q].age
           /\ loc'[q].todo = {} <=> loc[q].todo = {}
  BY <1>3 DEF Restarting
<1>5. HistoryInv' /\ CoolInv' /\ CooldownKept'
  BY <1>1, <1>2, <1>4, HistoryMishap
<1> QED BY <1>1, <1>3, <1>5 DEF IInv, StartInv

\* A reconcile goes on when a service was not active.
LEMMA LookedKept ==
  ASSUME OneFamily, IInv, NEW p \in Locks, Looked(p)
  PROVE  IInv'
<1>1. pc[p] = "looking" /\ UNCHANGED <<kind, spec, unit, restarts, mishaps>>
  BY DEF Looked, Done
<1>2. p # "app" /\ loc[p] \in Locals /\ loc \in [Locks -> Locals] /\ ~Pending(p)
  BY <1>1 DEF IInv, TypeInv, Types, PhaseInv, Pending, Restarting
<1>3. CASE Finish(p)
  BY <1>1, <1>2, <1>3, EndKept
<1>4. CASE Goto(p, "policy") /\ UNCHANGED loc
  <2>1. pc' = [pc EXCEPT ![p] = "policy"] /\ loc' = [loc EXCEPT ![p] = loc[p]] /\ "policy" \in Label
    BY <1>2, <1>4 DEF Goto, Label
  <2>2. Proper("policy", loc[p])
    BY DEF IInv, TypeInv, SpecInv, Proper
  <2> QED BY <1>1, <1>2, <2>1, <2>2, StepQuiet
<1> QED BY <1>3, <1>4 DEF Looked

\* The spec that is written back, disabled, knows the same restarts.
LEMMA WriteDisabledKept ==
  ASSUME OneFamily, IInv, NEW p \in Locks, WriteDisabled(p)
  PROVE  IInv'
<1> DEFINE S == IF spec.exists THEN spec.services ELSE ServiceNames(1)
<1>1. /\ pc[p] = "disabling" /\ Finish(p) /\ UNCHANGED <<kind, unit, restarts, mishaps>>
      /\ spec' = [loc[p].spec EXCEPT !.exists = TRUE, !.enabled = FALSE,
                                     !.services = IF loc[p].spec.exists THEN @ ELSE ServiceNames(1)]
  BY DEF WriteDisabled, Done
<1>2. p # "app" /\ loc[p].spec = spec /\ spec \in SpecFile /\ ~Pending(p)
  BY <1>1 DEF IInv, TypeInv, Types, PhaseInv, Pending, Restarting
<1>3. S \in SUBSET Service
  BY <1>2 DEF SpecFile, ServiceNames, Service
<1>4. spec' = [spec EXCEPT !.exists = TRUE, !.enabled = FALSE, !.services = S]
  BY <1>1, <1>2 DEF SpecFile
<1> HIDE DEF S
<1>5. spec' = [exists |-> TRUE, enabled |-> FALSE, services |-> S, history |-> spec.history, cooldown |-> spec.cooldown]
  BY <1>2, <1>4 DEF SpecFile
<1>6. spec' \in SpecFile /\ spec'.history = spec.history /\ spec'.cooldown = spec.cooldown /\ ~spec'.enabled
  BY <1>2, <1>3, <1>5 DEF SpecFile
<1>7. TypeInv' /\ PhaseInv' /\ HistoryInv' /\ CoolInv' /\ CooldownKept' /\ pc'[p] = "idle"
  BY <1>1, <1>2, <1>6, FinishQuiet
<1>8. AllStarted' /\ StartPhase(p)'
  BY <1>6, <1>7 DEF AllStarted, StartPhase, Restarting
<1>9. StartInv'
  BY <1>2, <1>7, <1>8, StartStep
<1> QED BY <1>7, <1>9 DEF IInv

\* What a terminate saves is what it read.
LEMMA SaveTerminatedKept ==
  ASSUME OneFamily, IInv, NEW p \in Locks, SaveTerminated(p)
  PROVE  IInv'
<1>1. pc[p] = "terminated" /\ spec' = loc[p].spec /\ Finish(p) /\ UNCHANGED <<kind, unit, restarts, mishaps>>
  BY DEF SaveTerminated
<1>2. loc[p].spec = spec /\ ~Pending(p)
  BY <1>1 DEF IInv, PhaseInv, Pending, Restarting
<1> QED BY <1>1, <1>2, EndKept

\* An enable or a refresh with no service left to call is done.
LEMMA EndCommandKept ==
  ASSUME OneFamily, IInv, NEW p \in Locks, EndCommand(p)
  PROVE  IInv'
<1>1. Finish(p) /\ UNCHANGED <<kind, spec, unit, restarts, mishaps>>
  BY DEF EndCommand
<1>2. CASE pc[p] = "restarting" /\ loc[p].cmd = "refresh"
  <2>1. ~Pending(p)
    BY <1>2 DEF Pending, Restarting
  <2> QED BY <1>1, <1>2, <2>1, EndKept
<1>3. CASE pc[p] = "enabling" /\ loc[p].todo = {}
  <2>1. p # "app" /\ ~Pending(p) /\ spec \in SpecFile
    BY <1>3 DEF IInv, TypeInv, Types, PhaseInv, Pending, Restarting
  <2>2. TypeInv' /\ PhaseInv' /\ HistoryInv' /\ CoolInv' /\ CooldownKept' /\ pc'[p] = "idle"
    BY <1>1, <2>1, FinishQuiet
  <2>3. ASSUME mishaps' = 0 PROVE AllStarted' /\ StartPhase(p)'
    <3>1. Started(spec.services \ {})
      BY <1>1, <1>3, <2>3 DEF IInv, StartInv, StartPhase
    <3>2. AllStarted'
      BY <1>1, <3>1 DEF AllStarted, Started
    <3> QED BY <2>2, <3>2 DEF StartPhase, Restarting
  <2>4. StartInv'
    BY <2>1, <2>2, <2>3, StartStep
  <2> QED BY <2>2, <2>4 DEF IInv
<1> QED BY <1>2, <1>3 DEF EndCommand, Done

\* A call fails; of a service whose unit is missing, that is no fault of systemd.
LEMMA SystemctlFailsKept ==
  ASSUME OneFamily, IInv, NEW p \in Locks, SystemctlFails(p)
  PROVE  IInv'
<1> DEFINE s == NextOf(loc[p].todo)
<1>1. /\ pc[p] \in {"enabling", "restarting"} /\ loc[p].todo # {} /\ Finish(p)
      /\ UNCHANGED <<kind, spec, unit, restarts>>
  BY DEF SystemctlFails, Call
<1>2. CASE unit[s] # "absent"
  <2>1. Mishap("systemctl")
    BY <1>2 DEF SystemctlFails
  <2> QED BY <1>1, <2>1, CutShort
<1>3. CASE unit[s] = "absent"
  <2>1. mishaps' = mishaps /\ ~Pending(p)
    BY <1>1, <1>3 DEF SystemctlFails, Pending
  <2>2. CASE pc[p] = "restarting"
    BY <1>1, <2>1, <2>2, EndKept
  <2>3. CASE pc[p] = "enabling"
    <3>1. s \in loc[p].todo
      BY <1>1, NextIn DEF IInv, TypeInv, Types, Locals
    <3>2. mishaps # 0
      BY <1>3, <2>3, <3>1 DEF IInv, StartInv, StartPhase
    <3>3. spec \in SpecFile
      BY DEF IInv, TypeInv, Types
    <3>4. TypeInv' /\ PhaseInv' /\ HistoryInv' /\ CoolInv' /\ CooldownKept'
      BY <1>1, <2>1, <3>3, FinishQuiet
    <3> QED BY <2>1, <3>2, <3>4 DEF IInv, StartInv
  <2> QED BY <1>1, <2>2, <2>3
<1> QED BY <1>2, <1>3

\* A command is killed.
LEMMA KillKept ==
  ASSUME OneFamily, IInv, NEW p \in Locks, Kill(p)
  PROVE  IInv'
BY CutShort DEF Kill

\* A service exits, or systemd starts it again.
LEMMA ServiceKept ==
  ASSUME OneFamily, IInv, NEW s \in Service, ServiceExits(s) \/ ServiceReturns(s)
  PROVE  IInv'
<1>1. PICK up \in {"running", "down"} :
        /\ unit[s] \in {"running", "down"} /\ unit' = [unit EXCEPT ![s] = up]
        /\ UNCHANGED <<kind, spec, pc, loc, restarts, mishaps>>
  BY DEF ServiceExits, ServiceReturns
<1>2. TypeInv /\ PhaseInv /\ HistoryInv /\ CoolInv /\ CooldownKept /\ StartInv
  BY DEF IInv
<1>3. unit \in [Service -> UnitState] /\ spec \in SpecFile /\ \A q \in Locks : loc[q].todo \in SUBSET Service
  BY <1>2 DEF TypeInv, Types, Locals
<1>4. TypeInv'
  <2>1. unit' \in [Service -> UnitState]
    BY <1>1, <1>3 DEF UnitState
  <2>2. Types'
    BY <1>1, <1>2, <2>1 DEF TypeInv, Types
  <2>3. SpecInv'
    BY <1>1, <1>2 DEF TypeInv, SpecInv, Proper, Falling
  <2> QED BY <2>2, <2>3 DEF TypeInv
<1>5. PhaseInv'
  BY <1>1, <1>2 DEF PhaseInv
<1>6. HistoryInv' /\ CoolInv' /\ CooldownKept'
  <2>1. \A q \in Locks : pc'[q] = "restarting" /\ loc'[q].cmd = "restart" =>
           /\ Restarting(q) /\ loc'[q].spec.history = loc[q].spec.history /\ loc'[q].age = loc[q].age
           /\ loc'[q].todo = {} <=> loc[q].todo = {}
    BY <1>1 DEF Restarting
  <2>2. \A q \in Locks : Pending(q) => pc'[q] = "restarting" /\ loc'[q].cmd = "restart" /\ loc'[q].todo = {}
    BY <1>1 DEF Pending, Restarting
  <2> QED BY <1>1, <1>2, <2>1, <2>2, HistoryQuiet
<1>7. \A t \in Service : /\ unit[t] \in {"running", "down"} => unit'[t] \in {"running", "down"}
                         /\ unit[t] # "absent" => unit'[t] # "absent"
  BY <1>1, <1>3
<1>8. StartInv'
  BY <1>1, <1>2, <1>3, <1>5, <1>7, StartedKept
<1> QED BY <1>4, <1>5, <1>6, <1>8 DEF IInv

-----------------------------------------------------------------------------
(* A restart under the policy *)

\* What a restart knows of the past is what of it lies in the window.
LEMMA CountedRecent ==
  ASSUME NEW h \in Seq(0..(Window + 1)), Falling(h), restarts \in Seq(0..(Window + Cooldown)),
         Counted(h, mishaps, 0), mishaps \in Nat
  PROVE  Counted(Recent(h), mishaps, 0)
<1> SUFFICES ASSUME NEW k \in DOMAIN restarts, k > mishaps, restarts[k] - 0 <= Window
             PROVE  /\ k - mishaps <= Len(Recent(h))
                    /\ Recent(h)[Len(Recent(h)) + 1 - (k - mishaps)] <= restarts[k]
  BY DEF Counted
<1> DEFINE n == Len(h)
           j == k - mishaps
<1>1. k \in Nat /\ restarts[k] \in Nat /\ n \in Nat /\ \A i \in 1..n : h[i] \in Nat
  <2>1. restarts[k] \in 0..(Window + Cooldown) /\ \A i \in 1..n : h[i] \in 0..(Window + 1)
    OBVIOUS
  <2> QED BY <2>1
<1>2. j <= n /\ h[n + 1 - j] <= restarts[k] /\ restarts[k] <= Window
  BY <1>1 DEF Counted
<1> HIDE DEF n
<1>3. j \in 1..n
  <2>1. j \in Nat /\ j >= 1
    BY <1>1
  <2> HIDE DEF j
  <2> QED BY <1>1, <1>2, <2>1
<1> HIDE DEF j
<1>4. n + 1 - j \in 1..n /\ h[n + 1 - j] <= Window
  BY <1>1, <1>2, <1>3
<1>5. j <= Len(Recent(h)) /\ Recent(h)[Len(Recent(h)) + 1 - j] = h[n + 1 - j]
  BY <1>3, <1>4, RecentEnd DEF n
<1> QED BY <1>2, <1>5 DEF j

\* A restart is allowed when fewer than max_restarts are recent and no cooldown is on.
LEMMA CheckPolicyKept ==
  ASSUME OneFamily, IInv, NEW p \in Locks, CheckPolicy(p)
  PROVE  IInv'
<1> DEFINE R == Recent(spec.history)
           s == [exists |-> spec.exists, enabled |-> spec.enabled, services |-> spec.services,
                 history |-> R, cooldown |-> spec.cooldown]
           S == ServicesOf(spec)
           l == [NoLocals EXCEPT !.cmd = "restart", !.todo = S, !.spec = s]
<1>1. pc[p] = "policy" /\ UNCHANGED <<kind, spec, unit, restarts, mishaps>>
  BY DEF CheckPolicy
<1>2. TypeInv /\ PhaseInv /\ HistoryInv /\ CoolInv /\ CooldownKept /\ StartInv
  BY DEF IInv
<1>3. p # "app" /\ ~Pending(p)
  BY <1>1, <1>2 DEF PhaseInv, Pending, Restarting
<1>4. CASE ~(spec.enabled /\ Allowed(spec))
  <2>1. Finish(p)
    BY <1>4 DEF CheckPolicy
  <2> QED BY <1>1, <1>3, <2>1, EndKept
<1>5. CASE spec.enabled /\ Allowed(spec)
  <2>1. spec \in SpecFile /\ spec.history \in Seq(0..(Window + 1)) /\ Falling(spec.history)
    BY <1>2 DEF TypeInv, Types, SpecInv, SpecFile
  <2>2. [spec EXCEPT !.history = Recent(@)] = s
    BY <2>1 DEF SpecFile
  <2>3. /\ R \in Seq(0..(Window + 1)) /\ Falling(R) /\ Len(R) < MaxRestarts /\ spec.cooldown = 0
        /\ \A i \in DOMAIN R : R[i] >= 0
    <3>1. R \in Seq(0..(Window + 1)) /\ Falling(R)
      BY <2>1, RecentEnd
    <3> QED BY <1>5, <3>1 DEF Allowed
  <2>4. S \in SUBSET Service /\ S # {}
    BY <2>1, ServicesOfType
  <2>5. pc' = [pc EXCEPT ![p] = "restarting"] /\ loc' = [loc EXCEPT ![p] = l] /\ "restarting" \in Label
    BY <1>5, <2>2 DEF CheckPolicy, Goto, Label
  <2>6. s \in SpecFile /\ s.history = R /\ s.services = spec.services /\ s.enabled = spec.enabled
    BY <2>1, <2>3 DEF SpecFile
  <2> HIDE DEF s, S, R
  <2>7. l \in Locals /\ l.cmd = "restart" /\ l.todo = S /\ l.spec = s /\ l.age = 0
    BY <2>4, <2>6, NoLocalsType DEF Locals, Command
  <2> HIDE DEF l
  <2>8. Proper("restarting", l)
    <3>1. Len(R) \in Nat /\ Len(R) <= MaxRestarts
      BY <2>3
    <3> QED BY <2>3, <2>6, <2>7, <3>1 DEF Proper
  <2>9. /\ spec' \in SpecFile /\ Len(spec'.history) <= MaxRestarts /\ Falling(spec'.history)
        /\ unit' \in [Service -> UnitState] /\ restarts' \in Seq(0..(Window + Cooldown)) /\ mishaps' \in 0..MaxMishaps
    BY <1>1, <1>2 DEF TypeInv, Types, SpecInv
  <2>10. TypeInv' /\ pc'[p] = "restarting" /\ loc'[p] = l /\ \A q \in Locks \ {p} : pc'[q] = pc[q] /\ loc'[q] = loc[q]
    BY <1>1, <1>2, <2>5, <2>7, <2>8, <2>9, StepTypes
  <2>11. PhaseInv'
    BY <1>2, <1>3, <2>10, StepPhases
  <2>12. \A q \in Locks : ~Pending(q) /\ ~Pending(q)' /\ (Restarting(q)' => q = p)
    <3>1. \A q \in Locks : Restarting(q)' => q # "app"
      BY <2>11 DEF PhaseInv, Restarting
    <3>2. \A q \in Locks : Restarting(q) => q # "app"
      BY <1>2, DeployNoRestart
    <3>3. \A q \in Locks : (Restarting(q) \/ Restarting(q)') => q = p
      BY <1>3, <3>1, <3>2, OneOwner
    <3> QED BY <1>3, <2>4, <2>7, <2>10, <3>3 DEF Pending
  <2>13. HistoryInv'
    <3>1. Counted(spec.history, mishaps, 0)
      BY <1>2, <2>12 DEF HistoryInv
    <3>2. Counted(R, mishaps, 0)
      <4>1. mishaps \in Nat /\ restarts \in Seq(0..(Window + Cooldown))
        BY <1>2 DEF TypeInv, Types
      <4> QED BY <2>1, <3>1, <4>1, CountedRecent DEF R
    <3>3. Rising(restarts)' /\ Counted(spec.history, mishaps, 0)'
      BY <1>1, <1>2, <3>1 DEF HistoryInv, Rising, Counted
    <3>4. Counted(loc[p].spec.history, mishaps, loc[p].age)'
      BY <1>1, <2>6, <2>7, <2>10, <3>2 DEF Counted
    <3>5. restarts # <<>> => loc'[p].age <= restarts[1]
      <4>1. restarts # <<>> => restarts[1] \in 0..(Window + Cooldown)
        BY <1>2 DEF TypeInv, Types
      <4> QED BY <2>7, <2>10, <4>1
    <3> QED BY <1>1, <2>12, <3>3, <3>4, <3>5 DEF HistoryInv
  <2>14. CoolInv'
    <3> SUFFICES ASSUME mishaps' = 0, Tight'
                 PROVE  /\ spec'.cooldown + restarts'[1] >= Cooldown
                        /\ restarts'[1] - loc'[p].age >= Cooldown
      BY <2>12 DEF CoolInv
    <3>1. mishaps = 0 /\ Tight
      BY <1>1 DEF Tight
    <3>2. spec.cooldown + restarts[1] >= Cooldown
      BY <1>2, <2>12, <3>1 DEF CoolInv
    <3>3. restarts[1] \in 0..(Window + Cooldown)
      BY <1>2, <3>1 DEF TypeInv, Types, Tight
    <3> QED BY <1>1, <2>3, <2>7, <2>10, <3>2, <3>3
  <2>15. CooldownKept'
    BY <1>1, <1>2 DEF CooldownKept
  <2>16. StartInv'
    BY <1>1, <1>2, <1>3, <2>1, <2>6, <2>7, <2>10, <2>11, StartQuiet
  <2> QED BY <2>10, <2>11, <2>13, <2>14, <2>15, <2>16 DEF IInv
<1> QED BY <1>4, <1>5

\* Where a restart stood before the newest was put in front.
LEMMA NextIndex ==
  ASSUME NEW n \in Nat, NEW m \in 1..(n + 1), NEW k \in 1..m, NEW skip \in Nat, k > skip + 1
  PROVE  k \in 2..m /\ k - 1 \in 1..n /\ k - 1 > skip /\ (k - 1) - skip = k - (skip + 1)
OBVIOUS

\* The restarts of the past seen from the next one.
LEMMA CountedNext ==
  ASSUME NEW h, NEW skip \in Nat, NEW base, NEW r, NEW n \in Nat, NEW new, NEW m \in 1..(n + 1),
         \A i \in 2..m : new[i] = r[i - 1],
         \A k \in 1..n : k > skip /\ r[k] - base <= Window =>
                          k - skip <= Len(h) /\ h[Len(h) + 1 - (k - skip)] <= r[k]
  PROVE  \A k \in 1..m : k > skip + 1 /\ new[k] - base <= Window =>
           k - (skip + 1) <= Len(h) /\ h[Len(h) + 1 - (k - (skip + 1))] <= new[k]
<1> TAKE k \in 1..m
<1> HAVE k > skip + 1 /\ new[k] - base <= Window
<1> DEFINE j == k - 1
<1>1. k \in 2..m /\ j \in 1..n /\ j > skip /\ j - skip = k - (skip + 1)
  BY NextIndex
<1>2. new[k] = r[j]
  BY <1>1
<1> HIDE DEF j
<1>3. j - skip <= Len(h) /\ h[Len(h) + 1 - (j - skip)] <= r[j]
  BY <1>1, <1>2
<1> QED BY <1>1, <1>2, <1>3

\* A restart that is made is the newest.
LEMMA RestartMade ==
  ASSUME restarts \in Seq(0..(Window + Cooldown)), NEW age \in 0..(Window + 1), NEW made, made = Newest(<<age>> \o restarts)
  PROVE  /\ made \in Seq(0..(Window + Cooldown)) /\ Len(made) \in 1..(Len(restarts) + 1) /\ made[1] = age
         /\ Follows(made, restarts)
         /\ DOMAIN restarts = 1..Len(restarts) /\ DOMAIN made = 1..Len(made) /\ Len(restarts) \in Nat
<1>1. made \in Seq(0..(Window + Cooldown)) /\ Len(made) \in 1..(Len(restarts) + 1) /\ made[1] = age /\ Follows(made, restarts)
  BY NewestStart
<1>2. DOMAIN restarts = 1..Len(restarts) /\ DOMAIN made = 1..Len(made) /\ Len(restarts) \in Nat
  BY <1>1
<1> QED BY <1>1, <1>2

\* A service is restarted; with the last one the restart is made, and not yet recorded.
LEMMA RestartServiceKept ==
  ASSUME OneFamily, IInv, NEW p \in Locks, RestartService(p)
  PROVE  IInv'
<1> DEFINE n == NextOf(loc[p].todo)
           age == loc[p].age
<1>1. /\ pc[p] = "restarting" /\ loc[p].todo # {} /\ unit[n] # "absent" /\ unit' = [unit EXCEPT ![n] = "running"]
      /\ Called(p) /\ UNCHANGED <<kind, spec, pc, mishaps>>
      /\ restarts' = IF loc[p].cmd # "refresh" /\ Cardinality(loc[p].todo) = 1
                     THEN Newest(<<age>> \o restarts) ELSE restarts
  BY DEF RestartService, Call
<1>2. TypeInv /\ PhaseInv /\ HistoryInv /\ CoolInv /\ CooldownKept /\ StartInv
  BY DEF IInv
<1>3. /\ unit \in [Service -> UnitState] /\ spec \in SpecFile /\ spec.history \in Seq(0..(Window + 1))
      /\ loc[p] \in Locals /\ age \in 0..(Window + 1) /\ loc[p].spec.history \in Seq(0..(Window + 1))
      /\ \A q \in Locks : loc[q].todo \in SUBSET Service
      /\ restarts \in Seq(0..(Window + Cooldown)) /\ mishaps \in 0..MaxMishaps
  BY <1>2 DEF TypeInv, Types, Locals, SpecFile
<1>4. unit' \in [Service -> UnitState]
  BY <1>1, <1>3 DEF UnitState
<1>5. restarts' \in Seq(0..(Window + Cooldown))
  BY <1>1, <1>3, NewestStart
<1>6. /\ TypeInv' /\ PhaseInv' /\ n \in loc[p].todo
      /\ loc'[p].todo = loc[p].todo \ {n}
      /\ loc'[p].cmd = loc[p].cmd /\ loc'[p].spec = loc[p].spec /\ loc'[p].age = age
      /\ \A q \in Locks \ {p} : loc'[q] = loc[q]
  BY <1>1, <1>3, <1>4, <1>5, CallKept
<1> HIDE DEF age
<1>7. \A s \in Service : /\ unit[s] \in {"running", "down"} => unit'[s] \in {"running", "down"}
                         /\ unit[s] # "absent" => unit'[s] # "absent"
  <2>1. n \in Service
    BY <1>3, <1>6
  <2> HIDE DEF n
  <2> QED BY <1>1, <1>3, <2>1
<1>8. StartInv'
  <2>1. CASE p = "app"
    BY <1>1, <1>2, <1>3, <1>6, <1>7, <2>1, StartedKept
  <2>2. CASE p # "app"
    <3>1. mishaps = 0 /\ loc'[p].cmd = "restart" => loc'[p].spec.services = spec.services /\ loc'[p].spec.enabled = spec.enabled
      BY <1>1, <1>2, <1>6 DEF StartInv, StartPhase, Restarting
    <3>2. CASE mishaps = 0
      BY <1>1, <1>2, <1>3, <1>6, <1>7, <2>2, <3>1, <3>2, StartQuiet
    <3>3. CASE mishaps # 0
      BY <1>1, <3>3 DEF StartInv
    <3> QED BY <3>2, <3>3
  <2> QED BY <2>1, <2>2
<1>9. CASE loc[p].cmd = "refresh"
  <2>1. UNCHANGED restarts
    BY <1>1, <1>9
  <2>2. HistoryInv' /\ CoolInv' /\ CooldownKept'
    BY <1>1, <1>6, <1>9, <2>1, CallQuiet
  <2> QED BY <1>6, <1>8, <2>2 DEF IInv
<1>10. CASE loc[p].cmd = "restart" /\ Cardinality(loc[p].todo) # 1
  <2>1. UNCHANGED restarts
    BY <1>1, <1>10
  <2>2. loc'[p].todo # {}
    <3>1. Cardinality({n}) = 1
      BY FS_Singleton
    <3> QED BY <1>6, <1>10, <3>1
  <2>3. \A q \in Locks : pc'[q] = "restarting" /\ loc'[q].cmd = "restart" =>
           /\ Restarting(q) /\ loc'[q].spec.history = loc[q].spec.history /\ loc'[q].age = loc[q].age
           /\ loc'[q].todo = {} <=> loc[q].todo = {}
    BY <1>1, <1>6, <2>2 DEF Restarting, age
  <2>4. \A q \in Locks : Pending(q) => pc'[q] = "restarting" /\ loc'[q].cmd = "restart" /\ loc'[q].todo = {}
    BY <1>1, <1>6 DEF Pending, Restarting
  <2>5. HistoryInv' /\ CoolInv' /\ CooldownKept'
    BY <1>1, <1>2, <2>1, <2>3, <2>4, HistoryQuiet
  <2> QED BY <1>6, <1>8, <2>5 DEF IInv
<1>11. CASE loc[p].cmd = "restart" /\ Cardinality(loc[p].todo) = 1
  <2>1. restarts' = Newest(<<age>> \o restarts)
    BY <1>1, <1>11
  <2>2. /\ Len(restarts') \in 1..(Len(restarts) + 1) /\ restarts'[1] = age
        /\ Follows(restarts', restarts)
        /\ DOMAIN restarts = 1..Len(restarts) /\ DOMAIN restarts' = 1..Len(restarts') /\ Len(restarts) \in Nat
    BY <1>3, <2>1, RestartMade
  <2>3. loc'[p].todo = {}
    <3>1. IsFiniteSet(loc[p].todo)
      <4>1. IsFiniteSet(Service)
        BY FS_Interval DEF Service
      <4> QED BY <1>3, <4>1, FS_Subset
    <3>2. \E x : loc[p].todo = {x}
      BY <1>11, <3>1, FS_Singleton
    <3> QED BY <1>6, <3>2
  <2>4. Restarting(p) /\ p # "app" /\ Pending(p)' /\ \A q \in Locks : Restarting(q) \/ Restarting(q)' => q = p
    <3>1. Restarting(p) /\ Pending(p)'
      BY <1>1, <1>6, <1>11, <2>3 DEF Restarting, Pending
    <3>2. \A q \in Locks : Restarting(q) \/ Restarting(q)' => q # "app"
      BY <1>2, <1>6 DEF PhaseInv, Restarting
    <3> QED BY <3>1, <3>2, OneOwner
  <2>5. \A q \in Locks : ~Pending(q)
    BY <1>1, <2>4 DEF Pending
  <2>6. HistoryInv'
    <3>1. Counted(spec.history, mishaps, 0) /\ Counted(loc[p].spec.history, mishaps, age)
      BY <1>1, <1>2, <2>4, <2>5 DEF HistoryInv, age
    <3>2. restarts # <<>> => age <= restarts[1]
      BY <1>2, <2>4 DEF HistoryInv, age
    <3>3. Rising(restarts)'
      <4> SUFFICES ASSUME NEW i \in 1..Len(restarts'), NEW j \in 1..Len(restarts'), i <= j
                   PROVE  restarts'[i] <= restarts'[j]
        BY <2>2 DEF Rising
      <4>1. CASE j = 1
        BY <1>5, <2>2, <4>1
      <4>2. CASE i = 1 /\ j # 1
        <5>1. j \in 2..Len(restarts') /\ j - 1 \in DOMAIN restarts /\ 1 \in DOMAIN restarts /\ 1 <= j - 1
          <6> DEFINE m == Len(restarts')
                     r == Len(restarts)
          <6>1. m \in 1..(r + 1) /\ r \in Nat /\ j \in 1..m /\ j # 1
            BY <2>2, <4>2
          <6> HIDE DEF m, r
          <6>2. j \in 2..m /\ j - 1 \in 1..r /\ 1 \in 1..r /\ 1 <= j - 1
            BY <6>1
          <6> QED BY <2>2, <6>2 DEF m, r
        <5>2. restarts # <<>> /\ restarts[1] <= restarts[j - 1]
          BY <1>2, <1>3, <5>1 DEF HistoryInv, Rising
        <5>3. restarts[1] \in 0..(Window + Cooldown) /\ restarts[j - 1] \in 0..(Window + Cooldown)
          BY <1>3, <5>1, RestartEntry
        <5> QED BY <1>3, <2>2, <3>2, <4>2, <5>1, <5>2, <5>3 DEF Follows
      <4>3. CASE i # 1
        <5>1. /\ i \in 2..Len(restarts') /\ j \in 2..Len(restarts')
              /\ i - 1 \in DOMAIN restarts /\ j - 1 \in DOMAIN restarts /\ i - 1 <= j - 1
          BY <1>3, <2>2, <4>3
        <5>2. restarts[i - 1] <= restarts[j - 1]
          BY <1>2, <5>1 DEF HistoryInv, Rising
        <5> QED BY <2>2, <5>1, <5>2 DEF Follows
      <4> QED BY <4>1, <4>2, <4>3
    <3>4. age \in 0..(Window + Cooldown) /\ 0 \in 0..(Window + Cooldown) /\ mishaps \in Nat
      BY <1>3
    <3>5. Counted(spec.history, mishaps + 1, 0)'
      <4>1. \A k \in 1..Len(restarts) :
              k > mishaps /\ restarts[k] - 0 <= Window =>
                /\ k - mishaps <= Len(spec.history)
                /\ spec.history[Len(spec.history) + 1 - (k - mishaps)] <= restarts[k]
        BY <2>2, <3>1 DEF Counted
      <4>2. \A k \in 1..Len(restarts') :
              k > mishaps + 1 /\ restarts'[k] - 0 <= Window =>
                /\ k - (mishaps + 1) <= Len(spec.history)
                /\ spec.history[Len(spec.history) + 1 - (k - (mishaps + 1))] <= restarts'[k]
        BY <2>2, <3>4, <4>1, CountedNext DEF Follows
      <4> QED BY <1>1, <2>2, <4>2 DEF Counted
    <3>6. Counted(loc[p].spec.history, mishaps + 1, restarts[1])'
      <4>1. \A k \in 1..Len(restarts) :
              k > mishaps /\ restarts[k] - age <= Window =>
                /\ k - mishaps <= Len(loc[p].spec.history)
                /\ loc[p].spec.history[Len(loc[p].spec.history) + 1 - (k - mishaps)] <= restarts[k]
        BY <2>2, <3>1 DEF Counted
      <4>2. \A k \in 1..Len(restarts') :
              k > mishaps + 1 /\ restarts'[k] - age <= Window =>
                /\ k - (mishaps + 1) <= Len(loc[p].spec.history)
                /\ loc[p].spec.history[Len(loc[p].spec.history) + 1 - (k - (mishaps + 1))] <= restarts'[k]
        BY <2>2, <3>4, <4>1, CountedNext DEF Follows
      <4> QED BY <1>1, <1>6, <2>2, <4>2 DEF Counted
    <3>7. loc'[p].age <= restarts'[1]
      BY <1>3, <1>6, <2>2
    <3> QED BY <2>3, <2>4, <3>3, <3>5, <3>6, <3>7 DEF HistoryInv, Pending
  <2>7. CoolInv'
    BY <2>3, <2>4 DEF CoolInv
  <2>8. CooldownKept'
    <3> SUFFICES ASSUME NEW i \in DOMAIN restarts', i > 1, i + MaxRestarts - 1 \in DOMAIN restarts', mishaps = 0,
                        restarts'[i + MaxRestarts - 1] - restarts'[i] <= Window
                 PROVE  restarts'[i] - restarts'[i - 1] >= Cooldown
      BY <1>1 DEF CooldownKept
    <3>1. /\ i \in 2..Len(restarts') /\ i + MaxRestarts - 1 \in 2..Len(restarts')
          /\ i - 1 \in DOMAIN restarts /\ (i - 1) + MaxRestarts - 1 \in DOMAIN restarts
          /\ (i + MaxRestarts - 1) - 1 = (i - 1) + MaxRestarts - 1
      <4> DEFINE m == Len(restarts')
                 r == Len(restarts)
      <4>1. DOMAIN restarts' = 1..m /\ DOMAIN restarts = 1..r /\ m \in 1..(r + 1) /\ r \in Nat
        BY <1>3, <1>5, <2>2
      <4> HIDE DEF m, r
      <4>2. i \in 1..m /\ i > 1 /\ i + MaxRestarts - 1 \in 1..m
        BY <4>1
      <4>3. /\ i \in 2..m /\ i + MaxRestarts - 1 \in 2..m /\ i - 1 \in 1..r /\ (i - 1) + MaxRestarts - 1 \in 1..r
            /\ (i + MaxRestarts - 1) - 1 = (i - 1) + MaxRestarts - 1
        BY <4>1, <4>2
      <4> QED BY <4>1, <4>3 DEF m
    <3>2. restarts'[i] = restarts[i - 1] /\ restarts'[i + MaxRestarts - 1] = restarts[(i - 1) + MaxRestarts - 1]
      BY <2>2, <3>1 DEF Follows
    <3>3. CASE i = 2
      <4>1. (i - 1) + MaxRestarts - 1 = MaxRestarts /\ i - 1 = 1
        BY <3>3
      <4>2. Tight
        BY <3>1, <3>2, <4>1 DEF Tight
      <4>3. restarts[1] - age >= Cooldown
        BY <1>1, <1>2, <2>4, <4>2 DEF CoolInv, age
      <4> QED BY <2>2, <3>2, <4>1, <4>3
    <3>4. CASE i # 2
      <4> DEFINE m == Len(restarts')
      <4>1. i - 1 > 1 /\ i - 1 \in 2..Len(restarts')
        <5>1. m \in Nat /\ i \in 2..m
          BY <1>5, <3>1
        <5> HIDE DEF m
        <5>2. i - 1 > 1 /\ i - 1 \in 2..m
          BY <3>4, <5>1
        <5> QED BY <5>2 DEF m
      <4>2. restarts'[i - 1] = restarts[(i - 1) - 1]
        BY <2>2, <4>1 DEF Follows
      <4>3. restarts[i - 1] - restarts[(i - 1) - 1] >= Cooldown
        BY <1>2, <3>1, <3>2, <4>1 DEF CooldownKept
      <4> QED BY <3>2, <4>2, <4>3
    <3> QED BY <3>3, <3>4
  <2> QED BY <1>6, <1>8, <2>6, <2>7, <2>8 DEF IInv
<1>12. loc[p].cmd \in {"restart", "refresh"}
  BY <1>1, <1>2 DEF TypeInv, SpecInv, Proper
<1> QED BY <1>9, <1>10, <1>11, <1>12

\* One entry more at the end of a history.
LEMMA Appended ==
  ASSUME NEW h \in Seq(0..(Window + 1)), NEW age \in 0..(Window + 1), NEW new, new = Append(h, age)
  PROVE  /\ new \in Seq(0..(Window + 1)) /\ Len(h) \in Nat /\ Len(new) = Len(h) + 1 /\ new[Len(h) + 1] = age
         /\ \A i \in 1..Len(h) : new[i] = h[i]
OBVIOUS

\* A recorded restart is counted like the others.
LEMMA CountedAppended ==
  ASSUME NEW h \in Seq(0..(Window + 1)), NEW age \in 0..(Window + 1), NEW new, new = Append(h, age),
         restarts \in Seq(0..(Window + Cooldown)), Rising(restarts), mishaps \in Nat,
         restarts # <<>> => age <= restarts[1] /\ Counted(h, mishaps + 1, restarts[1])
  PROVE  Counted(new, mishaps, 0)
<1> SUFFICES ASSUME NEW k \in DOMAIN restarts, k > mishaps, restarts[k] - 0 <= Window
             PROVE  k - mishaps <= Len(new) /\ new[Len(new) + 1 - (k - mishaps)] <= restarts[k]
  BY DEF Counted
<1> DEFINE n == Len(h)
           j == k - mishaps
<1>1. /\ n \in Nat /\ Len(new) = n + 1 /\ new[n + 1] = age
      /\ \A i \in 1..n : new[i] = h[i]
  BY Appended
<1>2. k \in Nat /\ 1 \in DOMAIN restarts /\ 1 <= k /\ restarts # <<>> /\ restarts[1] \in Nat /\ restarts[k] \in Nat
  <2>1. /\ Len(restarts) \in Nat /\ DOMAIN restarts = 1..Len(restarts)
        /\ \A i \in 1..Len(restarts) : restarts[i] \in Nat
    BY RestartEntry
  <2>2. k \in 1..Len(restarts) /\ 1 \in 1..Len(restarts) /\ k \in Nat /\ 1 <= k
    BY <2>1
  <2> QED BY <2>1, <2>2
<1>3. restarts[1] <= restarts[k] /\ age <= restarts[k]
  <2>1. restarts[1] <= restarts[k] /\ age <= restarts[1]
    BY <1>2 DEF Rising
  <2> QED BY <1>2, <2>1
<1>4. j \in Nat /\ j >= 1
  BY <1>2, Later
<1>5. CASE j = 1
  <2> HIDE DEF n, j
  <2>1. j <= n + 1 /\ (n + 1) + 1 - j = n + 1
    BY <1>1, <1>5
  <2> QED BY <1>1, <1>3, <2>1 DEF j
<1>6. CASE j # 1
  <2>1. k > mishaps + 1 /\ restarts[k] - restarts[1] <= Window /\ k - (mishaps + 1) = j - 1
    <3>1. k > mishaps + 1 /\ k - (mishaps + 1) = j - 1
      BY <1>2, <1>4, <1>6, LaterThan
    <3>2. restarts[k] - restarts[1] <= Window
      BY <1>2
    <3> QED BY <3>1, <3>2
  <2>2. j - 1 <= n /\ h[n + 1 - (j - 1)] <= restarts[k]
    BY <1>2, <2>1 DEF Counted
  <2> HIDE DEF n, j
  <2>3. n + 1 - (j - 1) \in 1..n /\ (n + 1) + 1 - j = n + 1 - (j - 1) /\ j <= n + 1
    BY <1>1, <1>4, <1>6, <2>2
  <2> QED BY <1>1, <2>2, <2>3 DEF j
<1> QED BY <1>5, <1>6

\* The restart that was made is recorded, and begins the cooldown when it was the last allowed.
LEMMA RecordRestartKept ==
  ASSUME OneFamily, IInv, NEW p \in Locks, RecordRestart(p)
  PROVE  IInv'
<1> DEFINE H == loc[p].spec.history
           age == loc[p].age
           h == Append(H, age)
           c == IF Len(h) >= MaxRestarts /\ age < Cooldown THEN Cooldown - age ELSE 0
<1>1. /\ pc[p] = "restarting" /\ loc[p].todo = {} /\ loc[p].cmd # "refresh" /\ Finish(p)
      /\ spec' = [loc[p].spec EXCEPT !.history = h, !.cooldown = c]
      /\ UNCHANGED <<kind, unit, restarts, mishaps>>
  BY DEF RecordRestart, Recorded, Done
<1>2. TypeInv /\ PhaseInv /\ HistoryInv /\ CoolInv /\ CooldownKept /\ StartInv
  BY DEF IInv
<1>3. /\ loc[p].spec \in SpecFile /\ H \in Seq(0..(Window + 1)) /\ age \in 0..(Window + 1) /\ spec \in SpecFile
      /\ restarts \in Seq(0..(Window + Cooldown)) /\ mishaps \in 0..MaxMishaps /\ mishaps \in Nat
  BY <1>2 DEF TypeInv, Types, Locals, SpecFile
<1>4. Restarting(p) /\ Pending(p) /\ p # "app"
  <2>1. loc[p].cmd = "restart"
    BY <1>1, <1>2 DEF TypeInv, SpecInv, Proper
  <2> QED BY <1>1, <1>2, <2>1 DEF Restarting, Pending, PhaseInv
<1>5. Len(H) < MaxRestarts /\ Falling(H) /\ \A i \in DOMAIN H : H[i] >= age
  BY <1>2, <1>4 DEF TypeInv, SpecInv, Proper, Restarting
<1> HIDE DEF age, H
<1>6. h \in Seq(0..(Window + 1)) /\ Len(H) \in Nat /\ Len(h) = Len(H) + 1 /\ h[Len(H) + 1] = age /\ \A i \in 1..Len(H) : h[i] = H[i]
  BY <1>3, Appended
<1>7. h = Append(H, age)
  OBVIOUS
<1> HIDE DEF h
<1>8. c \in 0..Cooldown /\ (Len(h) >= MaxRestarts => c + age >= Cooldown)
  BY <1>3, <1>6
<1> HIDE DEF c
<1>9. /\ spec' \in SpecFile /\ spec'.history = h /\ spec'.cooldown = c
      /\ spec'.services = loc[p].spec.services /\ spec'.enabled = loc[p].spec.enabled
  BY <1>1, <1>3, <1>6, <1>8 DEF SpecFile
<1>10. Len(h) <= MaxRestarts /\ Falling(h)
  <2>1. Len(h) <= MaxRestarts
    BY <1>5, <1>6
  <2>2. ASSUME NEW i \in DOMAIN h, NEW j \in DOMAIN h, i <= j PROVE h[i] >= h[j]
    <3> DEFINE n == Len(H)
    <3>1. DOMAIN h = 1..(n + 1) /\ DOMAIN H = 1..n /\ n \in Nat
      BY <1>3, <1>6
    <3>2. \A m \in 1..n : H[m] \in 0..(Window + 1)
      BY <1>3
    <3>3. CASE j \in 1..n
      <4>1. i \in 1..n
        BY <2>2, <3>1, <3>3
      <4> QED BY <1>5, <1>6, <2>2, <3>1, <3>3, <4>1 DEF Falling
    <3>4. CASE j \notin 1..n
      <4>1. j = n + 1 /\ h[j] = age
        BY <1>6, <3>1, <3>4
      <4>2. CASE i \in 1..n
        BY <1>5, <1>6, <3>1, <4>1, <4>2
      <4>3. CASE i \notin 1..n
        <5>1. i = n + 1
          BY <3>1, <4>3
        <5> QED BY <1>3, <4>1, <5>1
      <4> QED BY <4>2, <4>3
    <3> QED BY <3>3, <3>4
  <2> QED BY <2>1, <2>2 DEF Falling
<1>11. /\ TypeInv' /\ PhaseInv' /\ pc'[p] = "idle" /\ loc'[p] = NoLocals
       /\ \A q \in Locks \ {p} : pc'[q] = pc[q] /\ loc'[q] = loc[q]
  BY <1>1, <1>3, <1>4, <1>9, <1>10, FinishKept
<1>12. \A q \in Locks : ~Restarting(q)' /\ ~Pending(q)'
  <2>1. \A q \in Locks : Restarting(q)' => q # "app"
    BY <1>11 DEF PhaseInv, Restarting
  <2> QED BY <1>4, <1>11, <2>1, OneOwner DEF Restarting, Pending
<1>13. restarts # <<>> => age <= restarts[1] /\ Counted(H, mishaps + 1, restarts[1])
  BY <1>2, <1>4 DEF HistoryInv, age, H
<1>14. HistoryInv'
  <2>1. Rising(restarts)
    BY <1>2 DEF HistoryInv
  <2>2. Counted(h, mishaps, 0)
    BY <1>3, <1>7, <1>13, <2>1, CountedAppended
  <2>3. Counted(spec.history, mishaps, 0)'
    BY <1>1, <1>9, <2>2 DEF Counted
  <2>4. Rising(restarts)'
    BY <1>1, <2>1 DEF Rising
  <2> QED BY <1>12, <2>3, <2>4 DEF HistoryInv, Pending
<1>15. CoolInv'
  <2> SUFFICES ASSUME mishaps' = 0, Tight' PROVE spec'.cooldown + restarts'[1] >= Cooldown
    BY <1>12 DEF CoolInv
  <2>1. mishaps = 0 /\ Tight /\ restarts' = restarts
    BY <1>1 DEF Tight
  <2>2. restarts # <<>> /\ restarts[1] \in 0..(Window + Cooldown)
    BY <1>3, <2>1 DEF Tight
  <2>3. Len(h) >= MaxRestarts
    <3>1. CASE MaxRestarts = 1
      BY <1>6, <3>1
    <3>2. CASE MaxRestarts # 1
      <4>1. MaxRestarts > mishaps + 1 /\ MaxRestarts \in DOMAIN restarts /\ restarts[MaxRestarts] - restarts[1] <= Window
        BY <2>1, <3>2 DEF Tight
      <4>2. MaxRestarts - (mishaps + 1) <= Len(H)
        BY <1>13, <2>2, <4>1 DEF Counted
      <4> QED BY <1>6, <2>1, <4>2
    <3> QED BY <3>1, <3>2
  <2> QED BY <1>3, <1>8, <1>9, <1>13, <2>1, <2>2, <2>3
<1>16. CooldownKept'
  BY <1>1, <1>2 DEF CooldownKept
<1>17. StartInv'
  <2>1. CASE mishaps = 0
    <3>1. spec'.services = spec.services /\ spec'.enabled = spec.enabled
      BY <1>2, <1>4, <1>9, <2>1 DEF StartInv, StartPhase
    <3> QED BY <1>1, <1>2, <1>3, <1>4, <1>11, <3>1, StartQuiet
  <2>2. CASE mishaps # 0
    BY <1>1, <2>2 DEF StartInv
  <2> QED BY <2>1, <2>2
<1> QED BY <1>11, <1>14, <1>15, <1>16, <1>17 DEF IInv

-----------------------------------------------------------------------------
(* Time passes *)

\* What is not below stays so, up to the end of the window.
LEMMA LeastAbove ==
  ASSUME NEW a \in 0..(Window + 1), NEW b \in 0..(Window + 1), a >= b
  PROVE  /\ Least(a + 1, Window + 1) >= Least(b + 1, Window + 1)
         /\ Least(a + 1, Window + 1) \in 0..(Window + 1) /\ Least(a + 1, Window + 1) <= a + 1
BY DEF Least

\* A spec a tick later.
LEMMA AgedSpec ==
  ASSUME NEW s \in SpecFile
  PROVE  /\ Aged(s) \in SpecFile /\ Aged(s).services = s.services /\ Aged(s).enabled = s.enabled
         /\ Len(Aged(s).history) = Len(s.history)
         /\ \A i \in 1..Len(s.history) : Aged(s).history[i] = Least(s.history[i] + 1, Window + 1)
         /\ Aged(s).cooldown >= s.cooldown - 1
         /\ Falling(s.history) => Falling(Aged(s).history)
<1> DEFINE h == [i \in DOMAIN s.history |-> Least(s.history[i] + 1, Window + 1)]
           c == IF s.cooldown > 0 THEN s.cooldown - 1 ELSE 0
           a == [exists |-> s.exists, enabled |-> s.enabled, services |-> s.services, history |-> h, cooldown |-> c]
<1>1. s.history \in Seq(0..(Window + 1)) /\ s.cooldown \in 0..Cooldown
  BY DEF SpecFile
<1>2. Aged(s) = [s EXCEPT !.history = h, !.cooldown = c]
  BY DEF Aged, SpecFile
<1>3. h \in Seq(0..(Window + 1)) /\ Len(h) = Len(s.history) /\ \A i \in 1..Len(s.history) : h[i] = Least(s.history[i] + 1, Window + 1)
  BY <1>1, AgedHistory
<1>4. c \in 0..Cooldown /\ c >= s.cooldown - 1
  BY <1>1
<1> HIDE DEF h, c
<1>5. Aged(s) = a
  BY <1>2 DEF SpecFile
<1>6. /\ a \in SpecFile /\ a.services = s.services /\ a.enabled = s.enabled
      /\ a.history = h /\ a.cooldown = c
  BY <1>3, <1>4 DEF SpecFile
<1>7. ASSUME Falling(s.history) PROVE Falling(h)
  <2>0. DOMAIN h = 1..Len(s.history)
    BY <1>3
  <2> SUFFICES ASSUME NEW i \in 1..Len(s.history), NEW j \in 1..Len(s.history), i <= j PROVE h[i] >= h[j]
    BY <2>0 DEF Falling
  <2>1. s.history[i] >= s.history[j] /\ s.history[i] \in 0..(Window + 1) /\ s.history[j] \in 0..(Window + 1)
    <3>1. DOMAIN s.history = 1..Len(s.history) /\ \A m \in 1..Len(s.history) : s.history[m] \in 0..(Window + 1)
      BY <1>1, HistoryEntry
    <3> QED BY <1>7, <3>1 DEF Falling
  <2>2. h[i] = Least(s.history[i] + 1, Window + 1) /\ h[j] = Least(s.history[j] + 1, Window + 1)
    BY <1>3
  <2> QED BY <2>1, <2>2, LeastAbove
<1> QED BY <1>3, <1>4, <1>5, <1>6, <1>7

\* The two things a command remembers that age.
LEMMA AgedLocals ==
  ASSUME NEW r \in Locals, NEW s, NEW b
  PROVE  [r EXCEPT !.spec = s, !.age = b]
           = [cmd |-> r.cmd, spec |-> s, todo |-> r.todo, degraded |-> r.degraded, age |-> b]
<1> DEFINE l == [cmd |-> r.cmd, spec |-> s, todo |-> r.todo, degraded |-> r.degraded, age |-> r.age]
<1>1. [r EXCEPT !.spec = s] = l
  BY DEF Locals
<1>2. [l EXCEPT !.age = b] = [cmd |-> r.cmd, spec |-> s, todo |-> r.todo, degraded |-> r.degraded, age |-> b]
  OBVIOUS
<1>3. [r EXCEPT !.spec = s, !.age = b] = [[r EXCEPT !.spec = s] EXCEPT !.age = b]
  OBVIOUS
<1> HIDE DEF l
<1> QED BY <1>1, <1>2, <1>3

\* What a command remembers, a tick later.
LEMMA TickLocals ==
  ASSUME TypeInv, Tick, NEW p \in Locks
  PROVE  /\ loc'[p] \in Locals /\ loc'[p].cmd = loc[p].cmd /\ loc'[p].todo = loc[p].todo
         /\ pc[p] = "idle" => loc'[p] = loc[p]
         /\ pc[p] # "idle" => loc'[p].spec = Aged(loc[p].spec)
         /\ Restarting(p) => loc'[p].age = Least(loc[p].age + 1, Window + 1)
<1> DEFINE b == IF Restarting(p) THEN Least(loc[p].age + 1, Window + 1) ELSE loc[p].age
           s == Aged(loc[p].spec)
           l == [cmd |-> loc[p].cmd, spec |-> s, todo |-> loc[p].todo, degraded |-> loc[p].degraded, age |-> b]
<1>1. loc[p] \in Locals /\ loc[p].spec \in SpecFile /\ loc[p].age \in 0..(Window + 1)
  BY DEF TypeInv, Types, Locals
<1>2. loc'[p] = IF pc[p] = "idle" THEN loc[p] ELSE [loc[p] EXCEPT !.spec = s, !.age = b]
  BY <1>1 DEF Tick, Locals
<1>3. b \in 0..(Window + 1) /\ (Restarting(p) => b = Least(loc[p].age + 1, Window + 1))
  BY <1>1 DEF Least
<1>4. s \in SpecFile
  BY <1>1, AgedSpec
<1>5. Restarting(p) => pc[p] # "idle"
  BY DEF Restarting
<1> HIDE DEF b
<1>6. s = Aged(loc[p].spec)
  OBVIOUS
<1> HIDE DEF s
<1>7. [loc[p] EXCEPT !.spec = s, !.age = b] = l
  BY <1>1, AgedLocals
<1>8. l \in Locals /\ l.cmd = loc[p].cmd /\ l.todo = loc[p].todo /\ l.spec = s /\ l.age = b
  BY <1>1, <1>3, <1>4 DEF Locals
<1> HIDE DEF l
<1> QED BY <1>1, <1>2, <1>3, <1>5, <1>6, <1>7, <1>8

\* A history counts the same restarts a tick later; the end of the window comes no later.
LEMMA CountedOlder ==
  ASSUME restarts \in Seq(0..(Window + Cooldown)), Rising(restarts), restarts' = Older(restarts),
         NEW s \in SpecFile, NEW skip \in Nat, NEW base \in Int, NEW end \in Int, end <= base + 1,
         Counted(s.history, skip, base)
  PROVE  \A k \in DOMAIN restarts' :
           k > skip /\ restarts'[k] - end <= Window =>
             /\ k - skip <= Len(Aged(s).history)
             /\ Aged(s).history[Len(Aged(s).history) + 1 - (k - skip)] <= restarts'[k]
<1> DEFINE h == s.history
           g == Aged(s).history
           n == Len(h)
<1>1. /\ n \in Nat /\ Len(g) = n /\ \A i \in 1..n : h[i] \in Nat /\ g[i] = Least(h[i] + 1, Window + 1)
  <2>1. h \in Seq(0..(Window + 1))
    BY DEF SpecFile
  <2>2. Len(g) = n /\ \A i \in 1..n : g[i] = Least(h[i] + 1, Window + 1)
    BY AgedSpec
  <2>3. n \in Nat /\ \A i \in 1..n : h[i] \in Nat
    BY <2>1, HistoryEntry
  <2> QED BY <2>2, <2>3
<1> TAKE k \in DOMAIN restarts'
<1> HAVE k > skip /\ restarts'[k] - end <= Window
<1>2. k \in DOMAIN restarts /\ k \in Nat /\ restarts'[k] = restarts[k] + 1 /\ restarts[k] \in Nat
  <2>1. /\ restarts' \in Seq(0..(Window + Cooldown)) /\ Len(restarts') <= Len(restarts)
        /\ \A i \in 1..Len(restarts') : restarts'[i] = restarts[i] + 1
    BY OlderStart
  <2>2. /\ Len(restarts) \in Nat /\ DOMAIN restarts = 1..Len(restarts)
        /\ \A i \in 1..Len(restarts) : restarts[i] \in Nat
    BY RestartEntry
  <2>3. Len(restarts') \in Nat /\ DOMAIN restarts' = 1..Len(restarts')
    BY <2>1, RestartEntry
  <2>4. k \in 1..Len(restarts') /\ k \in 1..Len(restarts) /\ k \in Nat
    BY <2>1, <2>2, <2>3
  <2> QED BY <2>1, <2>2, <2>4
<1>3. restarts[k] - base <= Window
  BY <1>2
<1>4. k - skip <= n /\ h[n + 1 - (k - skip)] <= restarts[k]
  BY <1>2, <1>3 DEF Counted
<1> DEFINE j == k - skip
<1>5. j \in Nat /\ j >= 1
  BY <1>2, Later
<1> HIDE DEF n, h, g, j
<1>6. n + 1 - j \in 1..n /\ j <= n /\ h[n + 1 - j] <= restarts[k]
  <2>1. j <= n /\ h[n + 1 - j] <= restarts[k]
    BY <1>4 DEF j
  <2>2. n + 1 - j \in 1..n
    BY <1>1, <1>5, <2>1
  <2> QED BY <2>1, <2>2
<1> DEFINE i == n + 1 - j
<1>7. h[i] \in Nat /\ g[i] = Least(h[i] + 1, Window + 1) /\ h[i] <= restarts[k]
  BY <1>1, <1>6
<1> HIDE DEF i
<1>8. Least(h[i] + 1, Window + 1) <= restarts[k] + 1
  <2> DEFINE a == h[i]
             b == restarts[k]
  <2>1. a \in Nat /\ b \in Nat /\ a <= b
    BY <1>2, <1>7
  <2> HIDE DEF a, b
  <2>2. Least(a + 1, Window + 1) <= b + 1
    BY <2>1 DEF Least
  <2> QED BY <2>2 DEF a, b
<1>9. g[i] <= restarts[k] + 1
  BY <1>7, <1>8
<1> QED BY <1>1, <1>2, <1>6, <1>9 DEF g, j, i

\* With time everything ages alike, and the cooldown runs out no faster than the last restart ages.
LEMMA TickKept ==
  ASSUME OneFamily, IInv, Tick
  PROVE  IInv'
<1>1. /\ spec' = Aged(spec) /\ restarts' = Older(restarts) /\ UNCHANGED <<kind, unit, pc, mishaps>>
      /\ loc' \in [Locks -> Locals]
  <2>1. \A p \in Locks : loc'[p] \in Locals
    BY TickLocals DEF IInv
  <2> QED BY <2>1 DEF Tick
<1>2. TypeInv /\ PhaseInv /\ HistoryInv /\ CoolInv /\ CooldownKept /\ StartInv
  BY DEF IInv
<1>3. /\ spec \in SpecFile /\ (\A p \in Locks : loc[p] \in Locals /\ loc[p].spec \in SpecFile /\ loc[p].age \in 0..(Window + 1))
      /\ restarts \in Seq(0..(Window + Cooldown)) /\ mishaps \in Nat /\ Rising(restarts)
  BY <1>2 DEF TypeInv, Types, Locals, HistoryInv
<1>4. /\ restarts' \in Seq(0..(Window + Cooldown)) /\ Len(restarts') <= Len(restarts)
      /\ \A i \in 1..Len(restarts') : restarts'[i] = restarts[i] + 1
  BY <1>1, <1>3, OlderStart
<1>5. \A i \in DOMAIN restarts' : i \in DOMAIN restarts /\ i \in Nat /\ restarts[i] \in Nat /\ restarts'[i] = restarts[i] + 1
  <2> TAKE i \in DOMAIN restarts'
  <2>1. i \in 1..Len(restarts') /\ i \in 1..Len(restarts)
    BY <1>3, <1>4
  <2>2. restarts[i] \in 0..(Window + Cooldown)
    BY <1>3, <2>1
  <2> QED BY <1>3, <1>4, <2>1, <2>2
<1>6. /\ spec' \in SpecFile /\ spec'.services = spec.services /\ spec'.enabled = spec.enabled
      /\ Len(spec'.history) = Len(spec.history) /\ spec'.cooldown >= spec.cooldown - 1
      /\ Falling(spec.history) => Falling(spec'.history)
  BY <1>1, <1>3, AgedSpec
<1>7. ASSUME NEW p \in Locks
      PROVE  /\ loc'[p].cmd = loc[p].cmd /\ loc'[p].todo = loc[p].todo
             /\ pc[p] = "idle" => loc'[p] = loc[p]
             /\ pc[p] # "idle" => loc'[p].spec = Aged(loc[p].spec)
             /\ Restarting(p) => loc'[p].age = Least(loc[p].age + 1, Window + 1)
  BY <1>2, TickLocals
<1>8. \A p \in Locks : (Restarting(p)' <=> Restarting(p)) /\ (Pending(p)' <=> Pending(p))
  BY <1>1, <1>7 DEF Restarting, Pending
<1>9. TypeInv'
  <2>1. Types'
    BY <1>1, <1>2, <1>4, <1>6 DEF TypeInv, Types
  <2>2. ASSUME NEW p \in Locks PROVE Proper(pc[p], loc[p])'
    <3>1. Proper(pc[p], loc[p])
      BY <1>2 DEF TypeInv, SpecInv
    <3>2. CASE pc[p] = "idle"
      BY <1>1, <1>7, <3>1, <3>2 DEF Proper
    <3>3. CASE pc[p] # "idle"
      <4> DEFINE h == loc[p].spec.history
                 g == loc'[p].spec.history
      <4>1. /\ Len(g) = Len(h) /\ (Falling(h) => Falling(g))
            /\ \A i \in 1..Len(h) : g[i] = Least(h[i] + 1, Window + 1)
        <5>1. loc'[p].spec = Aged(loc[p].spec) /\ loc[p].spec \in SpecFile
          BY <1>3, <1>7, <3>3
        <5> QED BY <5>1, AgedSpec
      <4>2. ASSUME Restarting(p), NEW i \in 1..Len(g) PROVE g[i] >= loc'[p].age
        <5>1. h[i] >= loc[p].age /\ h[i] \in 0..(Window + 1)
          <6>1. h \in Seq(0..(Window + 1))
            BY <1>3 DEF SpecFile
          <6>2. i \in DOMAIN h
            BY <4>1, <4>2, <6>1
          <6> QED BY <3>1, <4>2, <6>1, <6>2 DEF Proper, Restarting
        <5>2. g[i] = Least(h[i] + 1, Window + 1) /\ loc'[p].age = Least(loc[p].age + 1, Window + 1)
          BY <1>7, <4>1, <4>2
        <5>3. loc[p].age \in 0..(Window + 1)
          BY <1>3
        <5> QED BY <5>1, <5>2, <5>3, LeastAbove
      <4>3. DOMAIN g = 1..Len(g)
        BY <1>1, <1>3, <1>7, <3>3, AgedSpec DEF SpecFile
      <4> QED BY <1>1, <1>7, <3>1, <4>1, <4>2, <4>3 DEF Proper, Restarting
    <3> QED BY <3>2, <3>3
  <2>3. Len(spec'.history) <= MaxRestarts /\ Falling(spec'.history)
    BY <1>2, <1>6 DEF TypeInv, SpecInv
  <2> QED BY <2>1, <2>2, <2>3 DEF TypeInv, SpecInv, Falling
<1>10. PhaseInv'
  BY <1>1, <1>2, <1>7 DEF PhaseInv
<1>11. \A s, skip, base, end :
         /\ s \in SpecFile /\ skip \in Nat /\ base \in Int /\ end \in Int /\ end <= base + 1
         /\ Counted(s.history, skip, base)
         => \A k \in DOMAIN restarts' :
              k > skip /\ restarts'[k] - end <= Window =>
                /\ k - skip <= Len(Aged(s).history)
                /\ Aged(s).history[Len(Aged(s).history) + 1 - (k - skip)] <= restarts'[k]
  BY <1>1, <1>3, CountedOlder
<1>12. HistoryInv'
  <2>1. Rising(restarts)'
    BY <1>3, <1>5 DEF Rising
  <2>2. ASSUME NEW skip \in Nat, Counted(spec.history, skip, 0)
        PROVE  \A k \in DOMAIN restarts' :
                 k > skip /\ restarts'[k] - 0 <= Window =>
                   k - skip <= Len(spec'.history) /\ spec'.history[Len(spec'.history) + 1 - (k - skip)] <= restarts'[k]
    <3>1. 0 \in Int /\ 0 <= 0 + 1
      OBVIOUS
    <3>2. \A k \in DOMAIN restarts' :
            k > skip /\ restarts'[k] - 0 <= Window =>
              /\ k - skip <= Len(Aged(spec).history)
              /\ Aged(spec).history[Len(Aged(spec).history) + 1 - (k - skip)] <= restarts'[k]
      BY <1>1, <1>3, <2>2, <3>1, CountedOlder
    <3> QED BY <1>1, <3>2
  <2>3. ASSUME \A p \in Locks : ~Pending(p)' PROVE Counted(spec.history, mishaps, 0)'
    <3>1. Counted(spec.history, mishaps, 0)
      BY <1>2, <1>8, <2>3 DEF HistoryInv
    <3> QED BY <1>1, <1>3, <2>2, <3>1 DEF Counted
  <2>4. ASSUME NEW p \in Locks
        PROVE  /\ Pending(p)' => /\ Counted(spec.history, mishaps + 1, 0)'
                                 /\ restarts' # <<>> => Counted(loc[p].spec.history, mishaps + 1, restarts[1])'
               /\ Restarting(p)' /\ loc'[p].todo # {} => Counted(loc[p].spec.history, mishaps, loc[p].age)'
               /\ Restarting(p)' /\ restarts' # <<>> => loc'[p].age <= restarts'[1]
    <3>1. restarts' # <<>> => 1 \in DOMAIN restarts' /\ restarts # <<>> /\ restarts[1] \in Nat /\ restarts'[1] = restarts[1] + 1
      BY <1>3, <1>4, <1>5
    <3>2. CASE ~Restarting(p)
      BY <1>8, <3>2 DEF Pending
    <3>3. CASE Restarting(p)
      <4>1. loc'[p].spec = Aged(loc[p].spec) /\ loc'[p].age = Least(loc[p].age + 1, Window + 1) /\ loc'[p].todo = loc[p].todo
        BY <1>7, <3>3 DEF Restarting
      <4>2. loc[p].age \in Int /\ loc'[p].age \in Int /\ loc'[p].age <= loc[p].age + 1
        <5>1. loc[p].age \in 0..(Window + 1)
          BY <1>3
        <5>2. loc'[p].age \in 0..(Window + 1) /\ loc'[p].age <= loc[p].age + 1
          BY <4>1, <5>1, LeastAbove
        <5> QED BY <5>1, <5>2
      <4>3. mishaps + 1 \in Nat
        BY <1>3
      <4>4. ASSUME Pending(p) PROVE Counted(spec.history, mishaps + 1, 0)'
        <5>1. Counted(spec.history, mishaps + 1, 0)
          BY <1>2, <4>4 DEF HistoryInv
        <5> QED BY <1>1, <2>2, <4>3, <5>1 DEF Counted
      <4>5. ASSUME Pending(p), restarts' # <<>> PROVE Counted(loc[p].spec.history, mishaps + 1, restarts[1])'
        <5>1. Counted(loc[p].spec.history, mishaps + 1, restarts[1])
          BY <1>2, <3>1, <4>5 DEF HistoryInv
        <5>2. \A k \in DOMAIN restarts' :
                 k > mishaps + 1 /\ restarts'[k] - restarts'[1] <= Window =>
                   /\ k - (mishaps + 1) <= Len(loc'[p].spec.history)
                   /\ loc'[p].spec.history[Len(loc'[p].spec.history) + 1 - (k - (mishaps + 1))] <= restarts'[k]
          <6>1. restarts[1] \in Int /\ restarts'[1] \in Int /\ restarts'[1] <= restarts[1] + 1
            BY <3>1, <4>5
          <6> QED BY <1>3, <1>11, <4>1, <4>3, <5>1, <6>1
        <5> QED BY <1>1, <5>2 DEF Counted
      <4>6. ASSUME loc[p].todo # {} PROVE Counted(loc[p].spec.history, mishaps, loc[p].age)'
        <5>1. Counted(loc[p].spec.history, mishaps, loc[p].age)
          BY <1>2, <3>3, <4>6 DEF HistoryInv
        <5>2. \A k \in DOMAIN restarts' :
                 k > mishaps /\ restarts'[k] - loc'[p].age <= Window =>
                   /\ k - mishaps <= Len(loc'[p].spec.history)
                   /\ loc'[p].spec.history[Len(loc'[p].spec.history) + 1 - (k - mishaps)] <= restarts'[k]
          BY <1>3, <1>11, <4>1, <4>2, <5>1
        <5> QED BY <1>1, <5>2 DEF Counted
      <4>7. ASSUME restarts' # <<>> PROVE loc'[p].age <= restarts'[1]
        <5>1. loc[p].age <= restarts[1]
          BY <1>2, <3>1, <3>3, <4>7 DEF HistoryInv
        <5> QED BY <1>3, <3>1, <4>2, <4>7, <5>1
      <4> QED BY <1>8, <4>1, <4>4, <4>5, <4>6, <4>7
    <3> QED BY <3>2, <3>3
  <2> QED BY <2>1, <2>3, <2>4 DEF HistoryInv, Pending
<1>13. CoolInv'
  <2> SUFFICES ASSUME mishaps' = 0, Tight'
               PROVE  /\ (\A p \in Locks : ~Pending(p)') => spec'.cooldown + restarts'[1] >= Cooldown
                      /\ \A p \in Locks : Restarting(p)' /\ loc'[p].todo # {} => restarts'[1] - loc'[p].age >= Cooldown
    BY DEF CoolInv
  <2>1. 1 \in DOMAIN restarts' /\ MaxRestarts \in DOMAIN restarts'
    BY <1>4 DEF Tight
  <2>2. restarts'[1] = restarts[1] + 1 /\ restarts[1] \in Nat
    BY <1>5, <2>1
  <2>3. Tight /\ mishaps = 0
    <3>1. MaxRestarts \in DOMAIN restarts /\ restarts'[MaxRestarts] = restarts[MaxRestarts] + 1 /\ restarts[MaxRestarts] \in Nat
      BY <1>5, <2>1
    <3>2. restarts'[MaxRestarts] - restarts'[1] <= Window
      BY DEF Tight
    <3>3. restarts[MaxRestarts] - restarts[1] <= Window
      BY <2>2, <3>1, <3>2
    <3> QED BY <1>1, <3>1, <3>3 DEF Tight
  <2>4. (\A p \in Locks : ~Pending(p)') => spec'.cooldown + restarts'[1] >= Cooldown
    <3> SUFFICES ASSUME \A p \in Locks : ~Pending(p)' PROVE spec'.cooldown + restarts'[1] >= Cooldown
      OBVIOUS
    <3>1. spec.cooldown + restarts[1] >= Cooldown
      BY <1>2, <1>8, <2>3 DEF CoolInv
    <3>2. spec.cooldown \in Int /\ spec'.cooldown \in Int
      BY <1>3, <1>6 DEF SpecFile
    <3> QED BY <1>6, <2>2, <3>1, <3>2
  <2>5. ASSUME NEW p \in Locks, Restarting(p)', loc'[p].todo # {} PROVE restarts'[1] - loc'[p].age >= Cooldown
    <3>1. Restarting(p) /\ loc[p].todo # {}
      BY <1>7, <1>8, <2>5
    <3>2. restarts[1] - loc[p].age >= Cooldown
      BY <1>2, <2>3, <3>1 DEF CoolInv
    <3>3. loc'[p].age = Least(loc[p].age + 1, Window + 1) /\ loc[p].age \in Int
      BY <1>3, <1>7, <3>1
    <3> QED BY <2>2, <3>2, <3>3 DEF Least
  <2> QED BY <2>4, <2>5
<1>14. CooldownKept'
  <2> SUFFICES ASSUME NEW i \in DOMAIN restarts', i > 1, i + MaxRestarts - 1 \in DOMAIN restarts', mishaps' = 0,
                      restarts'[i + MaxRestarts - 1] - restarts'[i] <= Window
               PROVE  restarts'[i] - restarts'[i - 1] >= Cooldown
    BY DEF CooldownKept
  <2>1. i - 1 \in DOMAIN restarts'
    <3>1. DOMAIN restarts' = 1..Len(restarts') /\ Len(restarts') \in Nat
      BY <1>4
    <3> QED BY <3>1
  <2> DEFINE e == i + MaxRestarts - 1
             d == i - 1
  <2>2. /\ i \in DOMAIN restarts /\ restarts'[i] = restarts[i] + 1 /\ restarts[i] \in Nat
        /\ e \in DOMAIN restarts /\ restarts'[e] = restarts[e] + 1 /\ restarts[e] \in Nat
        /\ restarts'[d] = restarts[d] + 1 /\ restarts[d] \in Nat
    BY <1>5, <2>1
  <2>3. restarts'[e] - restarts'[i] <= Window
    OBVIOUS
  <2>4. ASSUME restarts[e] - restarts[i] <= Window PROVE restarts[i] - restarts[d] >= Cooldown
    BY <1>1, <1>2, <2>2, <2>4 DEF CooldownKept
  <2> HIDE DEF d, e
  <2>5. restarts[e] - restarts[i] <= Window
    BY <2>2, <2>3
  <2>6. restarts'[i] - restarts'[d] >= Cooldown
    BY <2>2, <2>4, <2>5
  <2> QED BY <2>6 DEF d
<1>15. StartInv'
  <2> SUFFICES ASSUME mishaps = 0 PROVE AllStarted' /\ \A p \in Locks : StartPhase(p)'
    BY <1>1 DEF StartInv
  <2>1. AllStarted /\ \A p \in Locks : StartPhase(p)
    BY <1>2 DEF StartInv
  <2>2. AllStarted'
    BY <1>1, <1>6, <2>1 DEF AllStarted, Started
  <2>3. ASSUME NEW p \in Locks PROVE StartPhase(p)'
    <3>1. Restarting(p) => loc'[p].spec.services = loc[p].spec.services /\ loc'[p].spec.enabled = loc[p].spec.enabled
      BY <1>3, <1>7, AgedSpec DEF Restarting
    <3>2. StartPhase(p)
      BY <2>1
    <3> QED BY <1>1, <1>6, <1>7, <1>8, <3>1, <3>2 DEF StartPhase, Started
  <2> QED BY <2>2, <2>3
<1> QED BY <1>9, <1>10, <1>12, <1>13, <1>14, <1>15 DEF IInv

-----------------------------------------------------------------------------
(* The theorems *)

\* Before anything is enabled there is nothing to restart.
LEMMA InitIInv ==
  ASSUME Init
  PROVE  IInv
<1>1. /\ kind \in Kinds /\ spec = NoSpec /\ unit = [s \in Service |-> "absent"] /\ pc = [p \in Locks |-> "idle"]
      /\ loc = [p \in Locks |-> NoLocals] /\ restarts = <<>> /\ mishaps = 0
  BY DEF Init
<1>2. \A p \in Locks : pc[p] = "idle" /\ loc[p] = NoLocals /\ ~Restarting(p) /\ ~Pending(p)
  BY <1>1 DEF Restarting, Pending
<1>3. restarts \in Seq(0..(Window + Cooldown)) /\ DOMAIN restarts = {}
  BY <1>1
<1>4. TypeInv
  <2>1. Proper("idle", NoLocals)
    BY NoLocalsType DEF Label
  <2>2. Len(spec.history) <= MaxRestarts /\ Falling(spec.history)
    BY <1>1, <2>1, NoLocalsType DEF Proper
  <2>3. Types
    BY <1>1, <1>3, NoLocalsType DEF Types, Label, UnitState
  <2>4. SpecInv
    BY <1>2, <2>1, <2>2 DEF SpecInv
  <2> QED BY <2>3, <2>4 DEF TypeInv
<1>5. PhaseInv
  BY <1>2, NoLocalsType DEF PhaseInv
<1>6. HistoryInv
  BY <1>2, <1>3 DEF HistoryInv, Rising, Counted
<1>7. CoolInv /\ CooldownKept
  BY <1>2, <1>3 DEF CoolInv, CooldownKept, Tight
<1>8. StartInv
  BY <1>1, <1>2 DEF StartInv, AllStarted, StartPhase, Started, NoSpec
<1> QED BY <1>4, <1>5, <1>6, <1>7, <1>8 DEF IInv

\* Every step keeps the invariant.
LEMMA NextIInv ==
  ASSUME OneFamily, IInv, [Next]_vars
  PROVE  IInv'
<1>1. CASE UNCHANGED vars
  <2>1. TypeInv' /\ PhaseInv'
    BY <1>1 DEF vars, IInv, TypeInv, Types, SpecInv, Proper, Falling, PhaseInv
  <2>2. HistoryInv' /\ CoolInv' /\ CooldownKept'
    <3>1. \A q \in Locks : pc'[q] = "restarting" /\ loc'[q].cmd = "restart" =>
             /\ Restarting(q) /\ loc'[q].spec.history = loc[q].spec.history /\ loc'[q].age = loc[q].age
             /\ loc'[q].todo = {} <=> loc[q].todo = {}
      BY <1>1 DEF vars, Restarting
    <3>2. \A q \in Locks : Pending(q) => pc'[q] = "restarting" /\ loc'[q].cmd = "restart" /\ loc'[q].todo = {}
      BY <1>1 DEF vars, Pending, Restarting
    <3> QED BY <1>1, <3>1, <3>2, HistoryQuiet DEF vars, IInv
  <2>3. StartInv'
    BY <1>1 DEF vars, IInv, StartInv, AllStarted, StartPhase, Started, Restarting
  <2> QED BY <2>1, <2>2, <2>3 DEF IInv
<1>2. ASSUME NEW p \in Locks, Start(p) PROVE IInv'
  <2>1. ASSUME NEW n \in Replicas, Enable(p, n) PROVE IInv'
    BY <2>1, EnableKept
  <2>2. CASE Disable(p)
    BY <2>2, DisableKept
  <2>3. CASE Reconcile(p) \/ Restart(p) \/ Terminate(p)
    BY <2>3, RestartBegins
  <2>4. CASE RunOnce(p)
    BY <2>4, RunOnceKept
  <2>5. CASE Refresh(p)
    BY <2>5, RefreshKept
  <2> QED BY <1>2, <2>1, <2>2, <2>3, <2>4, <2>5 DEF Start
<1>3. ASSUME NEW p \in Locks, Continue(p) PROVE IInv'
  <2>1. CASE WriteUnits(p) \/ EnableService(p)
    BY <2>1, WriteUnitsKept, EnableServiceKept
  <2>2. CASE DisableService(p) \/ WriteDisabled(p)
    BY <2>2, DisableServiceKept, WriteDisabledKept
  <2>3. CASE LookAtService(p) \/ Looked(p)
    BY <2>3, LookAtServiceKept, LookedKept
  <2>4. CASE CheckPolicy(p)
    BY <2>4, CheckPolicyKept
  <2>5. CASE RestartService(p) \/ RecordRestart(p)
    BY <2>5, RestartServiceKept, RecordRestartKept
  <2>6. CASE SaveTerminated(p) \/ EndCommand(p) \/ SystemctlFails(p)
    BY <2>6, SaveTerminatedKept, EndCommandKept, SystemctlFailsKept
  <2> QED BY <1>3, <2>1, <2>2, <2>3, <2>4, <2>5, <2>6 DEF Continue
<1>4. ASSUME NEW p \in Locks, Kill(p) PROVE IInv'
  BY <1>4, KillKept
<1>5. ASSUME NEW s \in Service, ServiceExits(s) \/ ServiceReturns(s) PROVE IInv'
  BY <1>5, ServiceKept
<1>6. CASE Tick
  BY <1>6, TickKept
<1> QED BY <1>1, <1>2, <1>3, <1>4, <1>5, <1>6 DEF Next

\* The spec and what each command remembers of it stay in step with what the
\* services went through, however the commands and the deploys interleave.
THEOREM Invariant ==
  ASSUME OneFamily
  PROVE  Spec => []IInv
<1>1. Init => IInv
  BY InitIInv
<1>2. IInv /\ [Next]_vars => IInv'
  BY NextIInv
<1> QED BY <1>1, <1>2, PTL DEF Spec

\* Every variable has its type, and the spec keeps no more restarts than the
\* policy allows (_record_restart after _check_restart_policy).
THEOREM TypesKept ==
  ASSUME OneFamily
  PROVE  Spec => []TypeOK
<1>1. IInv => TypeOK
  <2> SUFFICES ASSUME IInv PROVE TypeOK
    OBVIOUS
  <2>1. Types /\ Len(spec.history) <= MaxRestarts
    BY DEF IInv, TypeInv, SpecInv
  <2>2. \A p \in Locks : loc[p].spec \in SpecFile /\ loc[p].todo \subseteq Service
    BY <2>1 DEF Types, Locals
  <2> QED BY <2>1, <2>2 DEF TypeOK, Types, Label, UnitState
<1> QED BY <1>1, Invariant, PTL

\* No window has more restarts than max_restarts and one for each fault, for
\* any policy: _prune_restart_history drops none which still counts.
THEOREM RestartsNeverTooMany ==
  ASSUME OneFamily
  PROVE  Spec => []RestartsLimited
<1>1. IInv => RestartsLimited
  <2> SUFFICES ASSUME IInv PROVE RestartsLimited
    OBVIOUS
  <2> DEFINE n == Len(restarts)
             S == {i \in DOMAIN restarts : restarts[i] <= Window}
             k == MaxRestarts + mishaps + 1
  <2>1. /\ restarts \in Seq(0..(Window + Cooldown)) /\ mishaps \in Nat /\ Rising(restarts)
        /\ Len(spec.history) \in Nat /\ Len(spec.history) <= MaxRestarts
    BY DEF IInv, TypeInv, Types, SpecInv, HistoryInv, SpecFile
  <2>2. n \in Nat /\ DOMAIN restarts = 1..n /\ \A i \in 1..n : restarts[i] \in 0..(Window + Cooldown)
    BY <2>1
  <2>3. S \in SUBSET (1..n) /\ \A i \in S : \A j \in 1..i : j \in S
    <3>1. S \in SUBSET (1..n)
      BY <2>2
    <3>2. ASSUME NEW i \in S, NEW j \in 1..i PROVE j \in S
      <4>1. i \in 1..n /\ j \in 1..n /\ j <= i
        BY <2>2, <3>1
      <4>2. restarts[i] <= Window /\ restarts[j] <= restarts[i]
        BY <2>1, <2>2, <4>1 DEF Rising
      <4>3. restarts[i] \in Int /\ restarts[j] \in Int
        BY <2>2, <4>1
      <4>4. restarts[j] <= Window
        BY <4>2, <4>3
      <4> QED BY <2>2, <4>1, <4>4
    <3> QED BY <3>1, <3>2
  <2>4. \A i \in S : i \in DOMAIN restarts /\ restarts[i] <= Window
    OBVIOUS
  <2>5. RestartsLimited <=> Cardinality(S) <= MaxRestarts + mishaps
    BY DEF RestartsLimited
  <2> HIDE DEF n, S
  <2>6. Cardinality(S) \in 0..n /\ \A i \in 1..n : i \in S <=> i <= Cardinality(S)
    BY <2>2, <2>3, InitialPart
  <2> SUFFICES ASSUME Cardinality(S) > MaxRestarts + mishaps PROVE FALSE
    BY <2>1, <2>5, <2>6
  <2>7. k \in 1..n /\ k \in S /\ k > mishaps /\ k - mishaps = MaxRestarts + 1
    <3>1. k \in 1..n /\ k <= Cardinality(S)
      BY <2>1, <2>2, <2>6
    <3>2. k > mishaps /\ k - mishaps = MaxRestarts + 1
      BY <2>1
    <3> HIDE DEF k
    <3> QED BY <2>6, <3>1, <3>2
  <2>8. restarts[k] <= Window /\ k \in DOMAIN restarts /\ restarts[k] \in Nat
    <3> HIDE DEF k
    <3>1. restarts[k] \in 0..(Window + Cooldown)
      BY <2>2, <2>7
    <3> QED BY <2>4, <2>7, <3>1
  <2>9. CASE \A p \in Locks : ~Pending(p)
    <3>1. Counted(spec.history, mishaps, 0)
      BY <2>9 DEF IInv, HistoryInv
    <3>2. restarts[k] - 0 <= Window
      BY <2>8
    <3>3. k - mishaps <= Len(spec.history)
      BY <2>7, <2>8, <3>1, <3>2 DEF Counted
    <3> QED BY <2>1, <2>7, <3>3
  <2>10. CASE \E p \in Locks : Pending(p)
    <3>1. PICK p \in Locks : Pending(p)
      BY <2>10
    <3> DEFINE H == loc[p].spec.history
    <3>2. Len(H) < MaxRestarts /\ Len(H) \in Nat
      BY <3>1 DEF IInv, TypeInv, Types, SpecInv, Proper, Pending, Restarting, Locals, SpecFile
    <3>3. restarts # <<>> /\ restarts[1] \in Nat
      <4>1. 1 \in 1..n
        BY <2>2, <2>7
      <4>2. restarts[1] \in 0..(Window + Cooldown) /\ DOMAIN restarts # {}
        BY <2>2, <4>1
      <4> QED BY <4>2
    <3>4. Counted(H, mishaps + 1, restarts[1])
      BY <3>1, <3>3 DEF IInv, HistoryInv
    <3>5. k > mishaps + 1 /\ k - (mishaps + 1) = MaxRestarts
      BY <2>1
    <3> HIDE DEF k, H
    <3>6. restarts[k] - restarts[1] <= Window
      BY <2>8, <3>3
    <3>7. MaxRestarts <= Len(H)
      BY <2>8, <3>4, <3>5, <3>6 DEF Counted
    <3> QED BY <3>2, <3>7
  <2> QED BY <2>9, <2>10
<1> QED BY <1>1, Invariant, PTL

\* After max_restarts restarts within a window the next one waits for the
\* cooldown, for any policy: _check_restart_policy reads a cooldown which
\* _record_restart began with the last of them.
THEOREM CooldownAlwaysKept ==
  ASSUME OneFamily
  PROVE  Spec => []CooldownKept
<1>1. IInv => CooldownKept
  BY DEF IInv
<1> QED BY <1>1, Invariant, PTL

\* While no command is at work what is enabled is started, for any number of
\* replicas and whatever was enabled before (enable_process, disable_process).
THEOREM EnabledIsStarted ==
  ASSUME OneFamily
  PROVE  Spec => []EnabledStarted
<1>1. IInv => EnabledStarted
  <2> SUFFICES ASSUME IInv, spec.enabled, mishaps = 0, \A p \in Locks : pc[p] = "idle"
               PROVE  \A s \in spec.services : unit[s] \in {"running", "down"}
    BY DEF EnabledStarted
  <2>1. AllStarted
    BY DEF IInv, StartInv
  <2> QED BY <2>1 DEF AllStarted, Started
<1> QED BY <1>1, Invariant, PTL

==============================================================================
