------------------------- MODULE NginxConfig_proofs --------------------------
(***************************************************************************)
(* What is on disk for nginx can be loaded, for any number of commands.    *)
(* The argument: while a hardening is under way the lock keeps out any     *)
(* other, so that what it saved is what it found.  A virtual host that     *)
(* includes the snippet makes it firm: it is there with its zones, and     *)
(* whatever hardening is under way found both and so will put both back.   *)
(* Only an include which the hardening injected itself is not firm, and    *)
(* that one it takes away with the files.                                  *)
(***************************************************************************)
EXTENDS NginxConfig, TLAPS

nvars == <<hostVars, nginxVars>>

\* The phases of a hardening that has saved the files, and those of a command that has captured
\* the virtual host.
Saved == {"http"} \cup Hardening \cup PuttingBack
Captured == {"render", "write", "test", "reload", "restore"}

\* Found at the start, so that putting back leaves it.
Found(q) == loc[q].http /\ loc[q].snippet

\* The snippet and its zones are on disk, and no hardening will take them away.
Firm == http /\ snippet /\ \A q \in Processes : pc[q] \in Saved => Found(q)

Fields == {"there", "include", "tls"}

\* A virtual host; one that is not there includes nothing.
Whole(v) == DOMAIN v = Fields /\ (v.there \/ ~(v.include \/ v.tls))

\* What a process remembers in a phase c; only a hardening that injects has the last two.
Remembers(c, l) ==
  /\ c \in Saved \cup Captured => Whole(l.vhost)
  /\ c \in Captured \ {"render"} => Whole(l.new)
  /\ c \in {"inject", "restore server"} => l.inject

\* The shape of the variables.
Types ==
  /\ Whole(vhost)
  /\ DOMAIN pc = Processes /\ DOMAIN loc = Processes
  /\ lock \in [Lock -> Processes \cup {NoProcess}]
  /\ \A q \in Processes : Remembers(pc[q], loc[q])

\* One hardening at a time.
LockInv == \A q \in Processes : pc[q] \in Saved \cup {"save"} => lock["secure"] = q

\* What a hardening has written and put back so far, and that it found no snippet without zones.
Phase(c, l) ==
  /\ c = "http" => http = l.http /\ snippet = l.snippet
  /\ c \in Hardening => http
  /\ c \in Hardening \ {"snippet"} => snippet
  /\ c = "restore snippet" => http = l.http
  /\ c = "restore server" => http = l.http /\ snippet = l.snippet
  /\ c \in Saved => (l.snippet => l.http)
PhaseInv == \A q \in Processes : Phase(pc[q], loc[q])

\* The snippet is there with its zones, but between two steps of putting back.
ZonesInv == snippet => http \/ \E q \in Processes : pc[q] = "restore snippet" /\ ~loc[q].http

\* Whoever may put an include back, or write one, relies on what is firm.
Uses(c, l) ==
  \/ c \in Captured /\ l.vhost.include
  \/ c \in Captured \ {"render"} /\ l.new.include
RelyInv ==
  \A q \in Processes :
    /\ Uses(pc[q], loc[q]) => Firm
    /\ pc[q] \in Saved /\ loc[q].inject /\ loc[q].vhost.include => Found(q)

\* Whoever may put back a certificate in a virtual host found it.
HasTls(c, l) ==
  \/ c \in Captured /\ l.vhost.tls
  \/ c \in Saved /\ l.inject /\ l.vhost.tls
CertInv ==
  /\ vhost.tls => cert \/ \E q \in Processes : Unloadable(q)
  /\ \A q \in Processes : HasTls(pc[q], loc[q]) => cert

\* An include on disk is firm, or the hardening that injected it is still there.
Injecting(q) ==
  /\ pc[q] \in {"test limits", "reload limits"} \cup PuttingBack
  /\ loc[q].inject /\ ~Found(q)
IncludeInv == vhost.include => Firm \/ \E q \in Processes : Injecting(q)

Proved == ZonesInv /\ RelyInv /\ CertInv /\ IncludeInv

NInv == Types /\ LockInv /\ (misled \/ (PhaseInv /\ Proved))

-----------------------------------------------------------------------------
(* Steps of one process *)

\* A step of p leaves what the others remember, and takes the lock of the hardening from nobody.
OthersKeep(p) ==
  /\ \A q \in Processes \ {p} : pc'[q] = pc[q] /\ loc'[q] = loc[q]
  /\ \A q \in Processes \ {p} : lock["secure"] = q => lock'["secure"] = q
  /\ DOMAIN pc' = Processes
  /\ lock' \in [Lock -> Processes \cup {NoProcess}]
  /\ DOMAIN loc' = Processes

\* What a command does when it takes its lock.
LEMMA TakeKeeps ==
  ASSUME Types, NEW p \in Processes, NEW s, NEW l \in Lock, NEW label, NEW locals,
         Take(p, s, l, label, locals)
  PROVE  /\ OthersKeep(p)
         /\ pc[p] = "idle" /\ pc'[p] = label /\ loc'[p] = locals
         /\ lock'[l] = p
BY HostAssumption DEF Types, Take, Goto, OthersKeep, Lock

\* What Continue does.
LEMMA ContinueKeeps ==
  ASSUME Types, NEW p \in Processes, NEW label, NEW locals, Continue(p, label, locals)
  PROVE  /\ OthersKeep(p)
         /\ pc'[p] = label /\ loc'[p] = locals
         /\ lock' = lock
BY DEF Types, Continue, Goto, OthersKeep

\* What the end of a command does.
LEMMA StopKeeps ==
  ASSUME Types, NEW p \in Processes, Stop(p)
  PROVE  OthersKeep(p) /\ pc'[p] = "idle"
<1>1. lock' \in [Lock -> Processes \cup {NoProcess}]
  BY DEF Types, Stop, GiveBack
<1>2. \A q \in Processes \ {p} : lock["secure"] = q => lock'["secure"] = q
  BY DEF Types, Stop, GiveBack, Lock
<1>3. /\ \A q \in Processes \ {p} : pc'[q] = pc[q]
      /\ DOMAIN pc' = Processes
      /\ pc'[p] = "idle"
  BY DEF Types, Stop, Goto
<1>4. (\A q \in Processes \ {p} : loc'[q] = loc[q]) /\ DOMAIN loc' = Processes
  BY DEF Types, Stop
<1> QED BY <1>1, <1>2, <1>3, <1>4 DEF OthersKeep

\* Types and the lock, once the phase to which the step leads is looked at.
LEMMA TypesStep ==
  ASSUME Types, LockInv, NEW p \in Processes, OthersKeep(p),
         Whole(vhost'),
         Remembers(pc'[p], loc'[p]),
         pc'[p] \in Saved \cup {"save"} => lock'["secure"] = p
  PROVE  Types' /\ LockInv'
<1>1. \A q \in Processes : Remembers(pc'[q], loc'[q])
  BY DEF OthersKeep, Types
<1>2. LockInv'
  BY DEF OthersKeep, LockInv
<1> QED BY <1>1, <1>2 DEF OthersKeep, Types, Remembers

\* While one hardening is under way there is no other.
LEMMA Alone ==
  ASSUME LockInv, NEW p \in Processes, NEW q \in Processes,
         pc[p] \in Saved \cup {"save"}, pc[q] \in Saved \cup {"save"}
  PROVE  q = p
BY DEF LockInv

\* A step of a command that is no hardening: what it brings along and what it writes decide.
LEMMA SiteStep ==
  ASSUME NInv, ~misled, NEW p \in Processes, OthersKeep(p),
         pc[p] \notin Saved, pc'[p] \notin Saved,
         http' = http, snippet' = snippet, cert => cert',
         Uses(pc'[p], loc'[p]) => Firm,
         HasTls(pc'[p], loc'[p]) => cert',
         vhost'.include => vhost.include \/ Firm,
         vhost'.tls => cert' \/ Unloadable(p)' \/ (vhost.tls /\ ~Unloadable(p))
  PROVE  PhaseInv' /\ Proved'
<1>1. \A q \in Processes : pc'[q] \in Saved => q # p /\ pc'[q] = pc[q] /\ loc'[q] = loc[q]
  BY DEF OthersKeep
<1>2. Firm => Firm'
  BY <1>1 DEF Firm, Found
<1>3. PhaseInv'
  <2>1. \A q \in Processes \ {p} : Phase(pc[q], loc[q])'
    BY DEF NInv, PhaseInv, Phase, OthersKeep
  <2>2. Phase(pc[p], loc[p])'
    BY DEF Phase, Saved, Hardening, PuttingBack
  <2> QED BY <2>1, <2>2 DEF PhaseInv
<1>4. ZonesInv'
  <2>1. ASSUME NEW q \in Processes, pc[q] = "restore snippet", ~loc[q].http
        PROVE  pc'[q] = "restore snippet" /\ ~loc'[q].http
    BY <2>1 DEF OthersKeep, Saved, PuttingBack
  <2> QED BY <2>1 DEF NInv, Proved, ZonesInv
<1>5. RelyInv'
  <2>1. ASSUME NEW q \in Processes, Uses(pc'[q], loc'[q]) PROVE Firm'
    BY <2>1, <1>2 DEF NInv, Proved, RelyInv, OthersKeep
  <2>2. ASSUME NEW q \in Processes, pc'[q] \in Saved, loc'[q].inject, loc'[q].vhost.include
        PROVE  Found(q)'
    BY <2>2, <1>1 DEF NInv, Proved, RelyInv, Found
  <2> QED BY <2>1, <2>2 DEF RelyInv, Uses
<1>6. CertInv'
  <2>1. ASSUME NEW q \in Processes, HasTls(pc'[q], loc'[q]) PROVE cert'
    BY <2>1 DEF NInv, Proved, CertInv, OthersKeep
  <2>2. ASSUME NEW q \in Processes \ {p}, Unloadable(q), ~cert' PROVE Unloadable(q)'
    BY <2>2 DEF Unloadable, OthersKeep
  <2>3. ASSUME vhost'.tls PROVE cert' \/ \E q \in Processes : Unloadable(q)'
    BY <2>2, <2>3 DEF NInv, Proved, CertInv
  <2> QED BY <2>1, <2>3 DEF CertInv, HasTls
<1>7. IncludeInv'
  <2>1. ASSUME NEW q \in Processes, Injecting(q) PROVE Injecting(q)'
    <3>1. q # p
      BY <2>1 DEF Injecting, Saved, Hardening
    <3> QED BY <2>1, <3>1 DEF Injecting, Found, OthersKeep
  <2> QED BY <1>2, <2>1 DEF NInv, Proved, IncludeInv
<1> QED BY <1>3, <1>4, <1>5, <1>6, <1>7 DEF Proved

\* A step of the hardening p: it alone decides, since no other is under way.
LEMMA SecureStep ==
  ASSUME NInv, ~misled, NEW p \in Processes, OthersKeep(p),
         pc[p] \in Saved \cup {"save"},
         pc'[p] \in Saved \cup {"idle"},
         cert' = cert,
         Phase(pc[p], loc[p])',
         snippet' => http' \/ (pc'[p] = "restore snippet" /\ ~loc'[p].http),
         Firm => http' /\ snippet' /\ (pc'[p] \in Saved => loc'[p].http /\ loc'[p].snippet),
         pc'[p] \in Saved /\ loc'[p].inject /\ loc'[p].vhost.include => Found(p)',
         HasTls(pc'[p], loc'[p]) => cert,
         vhost'.include =>
           \/ vhost.include /\ Firm
           \/ Injecting(p)'
           \/ http' /\ snippet' /\ (pc'[p] \in Saved => Found(p)'),
         vhost'.tls => vhost.tls \/ cert
  PROVE  PhaseInv' /\ Proved'
<1>1. \A q \in Processes \ {p} :
        /\ pc'[q] = pc[q] /\ loc'[q] = loc[q]
        /\ pc[q] \notin Saved
  BY Alone DEF OthersKeep, NInv
<1>2. http' /\ snippet' /\ (pc'[p] \in Saved => Found(p)') => Firm'
  BY <1>1 DEF Firm, Found
<1>3. Firm => Firm'
  BY <1>2 DEF Found
<1>4. PhaseInv'
  <2>1. \A q \in Processes \ {p} : Phase(pc[q], loc[q])'
    BY <1>1 DEF Phase, Saved, Hardening, PuttingBack
  <2> QED BY <2>1 DEF PhaseInv
<1>5. ZonesInv'
  BY DEF ZonesInv
<1>6. RelyInv'
  <2>1. ~Uses(pc'[p], loc'[p])
    BY DEF Uses, Captured, Saved, Hardening, PuttingBack
  <2>2. ASSUME NEW q \in Processes, Uses(pc'[q], loc'[q]) PROVE Firm'
    BY <2>1, <2>2, <1>1, <1>3 DEF NInv, Proved, RelyInv
  <2>3. ASSUME NEW q \in Processes, pc'[q] \in Saved, loc'[q].inject, loc'[q].vhost.include
        PROVE  Found(q)'
    BY <2>3, <1>1
  <2> QED BY <2>2, <2>3 DEF RelyInv, Uses
<1>7. CertInv'
  <2>1. ASSUME NEW q \in Processes, HasTls(pc'[q], loc'[q]) PROVE cert'
    BY <2>1, <1>1 DEF NInv, Proved, CertInv
  <2>2. ASSUME NEW q \in Processes, Unloadable(q) PROVE Unloadable(q)'
    <3>1. q # p
      BY <2>2 DEF Unloadable, Saved, Hardening, PuttingBack
    <3> QED BY <2>2, <3>1, <1>1 DEF Unloadable
  <2>3. ASSUME vhost'.tls PROVE cert' \/ \E q \in Processes : Unloadable(q)'
    BY <2>2, <2>3 DEF NInv, Proved, CertInv
  <2> QED BY <2>1, <2>3 DEF CertInv, HasTls
<1>8. IncludeInv'
  BY <1>2, <1>3 DEF IncludeInv
<1> QED BY <1>4, <1>5, <1>6, <1>7, <1>8 DEF Proved

\* What the hardening p may rely on, since no other is under way.
LEMMA OwnInclude ==
  ASSUME NInv, ~misled, NEW p \in Processes, pc[p] \in Saved \cup {"save"}
  PROVE  /\ vhost.include => Firm \/ Injecting(p)
         /\ snippet => http \/ (pc[p] = "restore snippet" /\ ~loc[p].http)
         /\ Phase(pc[p], loc[p])
         /\ pc[p] \in Saved => (loc[p].inject /\ loc[p].vhost.include => Found(p))
         /\ HasTls(pc[p], loc[p]) => cert
<1>1. ASSUME NEW q \in Processes, Injecting(q) PROVE q = p
  BY <1>1, Alone DEF NInv, Injecting, Saved, Hardening
<1>2. ASSUME NEW q \in Processes, pc[q] = "restore snippet" PROVE q = p
  BY <1>2, Alone DEF NInv, Saved, PuttingBack
<1> QED BY <1>1, <1>2 DEF NInv, Proved, PhaseInv, IncludeInv, ZonesInv, RelyInv, CertInv

\* BeginSecure: nothing is written, and nothing captured yet.
LEMMA BeginSecureStep ==
  ASSUME NInv, NEW p \in Processes, NEW server \in BOOLEAN, BeginSecure(p, server)
  PROVE  NInv'
<1>1. /\ OthersKeep(p)
      /\ pc[p] = "idle" /\ pc'[p] = "save"
      /\ loc'[p] = [inject |-> server]
      /\ lock'["secure"] = p
  BY TakeKeeps DEF NInv, BeginSecure, Lock
<1>2. UNCHANGED nginxVars
  BY DEF BeginSecure
<1>3. Types' /\ LockInv'
  <2>1. Remembers(pc'[p], loc'[p])
    BY <1>1 DEF Remembers, NInv, Types, Saved, Captured, Hardening, PuttingBack
  <2> QED BY <2>1, <1>1, <1>2, TypesStep DEF NInv, Types, nginxVars, Saved, Captured, Hardening, PuttingBack
<1>4. ASSUME ~misled' PROVE PhaseInv' /\ Proved'
  BY <1>4, <1>1, <1>2, SiteStep DEF nginxVars, Uses, HasTls, Unloadable, Saved, Captured, Hardening, PuttingBack
<1> QED BY <1>3, <1>4 DEF NInv

\* BeginDeploy: nothing is written, and nothing captured yet.
LEMMA BeginDeployStep ==
  ASSUME NInv, NEW p \in Processes, NEW ssl \in BOOLEAN, BeginDeploy(p, ssl)
  PROVE  NInv'
<1>1. /\ OthersKeep(p)
      /\ pc[p] = "idle" /\ pc'[p] = "capture"
      /\ loc'[p] = [tls |-> ssl \/ cert, issue |-> FALSE]
      /\ lock'["app"] = p
  BY TakeKeeps DEF NInv, BeginDeploy, Lock
<1>2. UNCHANGED nginxVars
  BY DEF BeginDeploy
<1>3. Types' /\ LockInv'
  <2>1. Remembers(pc'[p], loc'[p])
    BY <1>1 DEF Remembers, NInv, Types, Saved, Captured, Hardening, PuttingBack
  <2> QED BY <2>1, <1>1, <1>2, TypesStep DEF NInv, Types, nginxVars, Saved, Captured, Hardening, PuttingBack
<1>4. ASSUME ~misled' PROVE PhaseInv' /\ Proved'
  BY <1>4, <1>1, <1>2, SiteStep DEF nginxVars, Uses, HasTls, Unloadable, Saved, Captured, Hardening, PuttingBack
<1> QED BY <1>3, <1>4 DEF NInv

\* BeginCreate: nothing is written, and nothing captured yet.
LEMMA BeginCreateStep ==
  ASSUME NInv, NEW p \in Processes, NEW issue \in BOOLEAN, BeginCreate(p, issue)
  PROVE  NInv'
<1>1. /\ OthersKeep(p)
      /\ pc[p] = "idle" /\ pc'[p] = "capture"
      /\ loc'[p] = [tls |-> cert, issue |-> issue]
      /\ lock'["site"] = p
  BY TakeKeeps DEF NInv, BeginCreate, Lock
<1>2. UNCHANGED nginxVars
  BY DEF BeginCreate
<1>3. Types' /\ LockInv'
  <2>1. Remembers(pc'[p], loc'[p])
    BY <1>1 DEF Remembers, NInv, Types, Saved, Captured, Hardening, PuttingBack
  <2> QED BY <2>1, <1>1, <1>2, TypesStep DEF NInv, Types, nginxVars, Saved, Captured, Hardening, PuttingBack
<1>4. ASSUME ~misled' PROVE PhaseInv' /\ Proved'
  BY <1>4, <1>1, <1>2, SiteStep DEF nginxVars, Uses, HasTls, Unloadable, Saved, Captured, Hardening, PuttingBack
<1> QED BY <1>3, <1>4 DEF NInv

\* BeginIssue: nothing is written, and nothing captured yet.
LEMMA BeginIssueStep ==
  ASSUME NInv, NEW p \in Processes, BeginIssue(p)
  PROVE  NInv'
<1>1. /\ OthersKeep(p)
      /\ pc[p] = "idle" /\ pc'[p] = "issue"
      /\ loc'[p] = [tls |-> TRUE, issue |-> FALSE]
      /\ lock'["ssl"] = p
  BY TakeKeeps DEF NInv, BeginIssue, Lock
<1>2. UNCHANGED nginxVars
  BY DEF BeginIssue
<1>3. Types' /\ LockInv'
  <2>1. Remembers(pc'[p], loc'[p])
    BY <1>1 DEF Remembers, NInv, Types, Saved, Captured, Hardening, PuttingBack
  <2> QED BY <2>1, <1>1, <1>2, TypesStep DEF NInv, Types, nginxVars, Saved, Captured, Hardening, PuttingBack
<1>4. ASSUME ~misled' PROVE PhaseInv' /\ Proved'
  BY <1>4, <1>1, <1>2, SiteStep DEF nginxVars, Uses, HasTls, Unloadable, Saved, Captured, Hardening, PuttingBack
<1> QED BY <1>3, <1>4 DEF NInv

\* Issue: a certificate comes, nothing else changes.
LEMMA IssueStep ==
  ASSUME NInv, NEW p \in Processes, Issue(p)
  PROVE  NInv'
<1>1. /\ OthersKeep(p)
      /\ pc[p] = "issue" /\ pc'[p] \in {"capture", "idle"}
  BY ContinueKeeps, StopKeeps DEF NInv, Issue, End
<1>2. cert' /\ UNCHANGED <<http, snippet, vhost, misled>>
  BY DEF Issue
<1>3. Types' /\ LockInv'
  <2>1. Remembers(pc'[p], loc'[p])
    BY <1>1 DEF Remembers, Saved, Captured, Hardening, PuttingBack
  <2> QED BY <2>1, <1>1, <1>2, TypesStep DEF NInv, Types, Saved, Hardening, PuttingBack
<1>4. ASSUME ~misled' PROVE PhaseInv' /\ Proved'
  BY <1>4, <1>1, <1>2, SiteStep DEF NInv, Uses, HasTls, Unloadable, Saved, Captured, Hardening, PuttingBack
<1> QED BY <1>3, <1>4 DEF NInv

\* What is seen when no hardening may still take back a file is firm.
LEMMA Settled ==
  ASSUME NInv, ~misled, ~Unsettled
  PROVE  (vhost.include => Firm) /\ (snippet => Firm)
<1>1. \A q \in Processes : pc[q] \in Hardening \cup PuttingBack => Found(q)
  BY DEF Unsettled, Found
<1>2. vhost.include => Firm
  BY <1>1 DEF NInv, Proved, IncludeInv, Injecting, Hardening
<1>3. ASSUME snippet PROVE Firm
  <2>1. http
    BY <1>1, <1>3 DEF NInv, Proved, ZonesInv, Found, PuttingBack
  <2>2. ASSUME NEW q \in Processes, pc[q] = "http" PROVE Found(q)
    BY <2>1, <2>2, <1>3 DEF NInv, PhaseInv, Phase, Found
  <2> QED BY <1>1, <1>3, <2>1, <2>2 DEF Firm, Saved
<1> QED BY <1>2, <1>3

\* Capture: what it takes over can be loaded, or it is misled.
LEMMA CaptureStep ==
  ASSUME NInv, NEW p \in Processes, Capture(p)
  PROVE  NInv'
<1>1. /\ OthersKeep(p)
      /\ pc[p] = "capture" /\ pc'[p] = "render"
      /\ loc'[p].vhost = vhost
  BY ContinueKeeps DEF NInv, Capture
<1>2. /\ UNCHANGED <<http, snippet, vhost, cert>>
      /\ ~misled' => /\ ~misled
                     /\ vhost.include => ~Unsettled
                     /\ \A q \in Processes : ~Unloadable(q)
  BY DEF Capture
<1>3. Types' /\ LockInv'
  <2>1. Remembers(pc'[p], loc'[p])
    BY <1>1 DEF NInv, Types, Remembers, Saved, Captured, Hardening, PuttingBack
  <2> QED BY <2>1, <1>1, <1>2, TypesStep DEF NInv, Types, Saved, Hardening, PuttingBack
<1>4. ASSUME ~misled' PROVE PhaseInv' /\ Proved'
  <2>1. (vhost.include => Firm) /\ (vhost.tls => cert)
    BY <1>2, <1>4, Settled DEF NInv, Proved, CertInv
  <2>2. (Uses(pc'[p], loc'[p]) => Firm) /\ (HasTls(pc'[p], loc'[p]) => cert)
    BY <2>1, <1>1 DEF Uses, HasTls, Captured, Saved, Hardening, PuttingBack
  <2> QED BY <2>1, <2>2, <1>4, <1>1, <1>2, SiteStep DEF Saved, Hardening, PuttingBack
<1> QED BY <1>3, <1>4 DEF NInv

\* Render: the include that it renders is firm, or it is misled.
LEMMA RenderStep ==
  ASSUME NInv, NEW p \in Processes, Render(p)
  PROVE  NInv'
<1>1. /\ OthersKeep(p)
      /\ pc[p] = "render" /\ pc'[p] = "write"
      /\ loc'[p].vhost = loc[p].vhost /\ loc'[p].new = Vhost(snippet, loc[p].tls)
  BY ContinueKeeps DEF NInv, Render
<1>2. /\ UNCHANGED <<http, snippet, vhost, cert>>
      /\ ~misled' => ~misled /\ (snippet => ~Unsettled)
  BY DEF Render
<1>3. Types' /\ LockInv'
  <2>1. ASSUME NEW include, NEW tls PROVE Whole(Vhost(include, tls))
    BY DEF Whole, Vhost, Fields
  <2>2. Whole(loc'[p].new) /\ Whole(loc'[p].vhost)
    BY <2>1, <1>1 DEF NInv, Types, Remembers, Captured
  <2>3. Remembers(pc'[p], loc'[p])
    BY <2>2, <1>1 DEF Remembers
  <2> QED BY <2>3, <1>1, <1>2, TypesStep DEF NInv, Types, Saved, Hardening, PuttingBack
<1>4. ASSUME ~misled' PROVE PhaseInv' /\ Proved'
  <2>1. snippet => Firm
    BY <1>2, <1>4, Settled
  <2>2. (loc[p].vhost.include => Firm) /\ (loc[p].vhost.tls => cert)
    BY <1>1, <1>2, <1>4 DEF NInv, Proved, RelyInv, Uses, CertInv, HasTls, Captured
  <2>3. (Uses(pc'[p], loc'[p]) => Firm) /\ (HasTls(pc'[p], loc'[p]) => cert)
    BY <2>1, <2>2, <1>1 DEF Vhost, Uses, HasTls, Captured, Saved, Hardening, PuttingBack
  <2> QED BY <2>3, <1>4, <1>1, <1>2, SiteStep DEF Unloadable, Saved, Hardening, PuttingBack
<1> QED BY <1>3, <1>4 DEF NInv

\* WriteServer: what it writes is firm, and about a certificate that is missing it is Unloadable.
LEMMA WriteServerStep ==
  ASSUME NInv, NEW p \in Processes, WriteServer(p)
  PROVE  NInv'
<1>1. /\ OthersKeep(p)
      /\ pc[p] = "write" /\ pc'[p] = "test" /\ loc'[p] = loc[p]
  BY ContinueKeeps DEF NInv, WriteServer
<1>2. vhost' = loc[p].new /\ UNCHANGED <<http, snippet, cert, misled>>
  BY DEF WriteServer
<1>3. Types' /\ LockInv'
  <2>1. Remembers(pc'[p], loc'[p]) /\ Whole(vhost')
    BY <1>1, <1>2 DEF NInv, Types, Remembers, Saved, Captured, Hardening, PuttingBack
  <2> QED BY <2>1, <1>1, <1>2, TypesStep DEF NInv, Saved, Hardening, PuttingBack
<1>4. ASSUME ~misled' PROVE PhaseInv' /\ Proved'
  <2>1. /\ Uses(pc[p], loc[p]) => Firm
        /\ HasTls(pc[p], loc[p]) => cert
    BY <1>2, <1>4 DEF NInv, Proved, RelyInv, CertInv
  <2>2. /\ Uses(pc'[p], loc'[p]) => Firm
        /\ HasTls(pc'[p], loc'[p]) => cert
        /\ vhost'.include => Firm
        /\ vhost'.tls => cert' \/ Unloadable(p)'
    BY <2>1, <1>1, <1>2 DEF Uses, HasTls, Unloadable, Captured, Saved, Hardening, PuttingBack
  <2> QED BY <2>2, <1>4, <1>1, <1>2, SiteStep DEF NInv, Saved, Hardening, PuttingBack
<1> QED BY <1>3, <1>4 DEF NInv

\* TestConfig, ReloadConfig, ConfigFails: no file changes, and a command that goes on or ends was
\* tested.
LEMMA TestedStep ==
  ASSUME NInv, NEW p \in Processes, TestConfig(p) \/ ReloadConfig(p) \/ ConfigFails(p)
  PROVE  NInv'
<1>1. /\ OthersKeep(p)
      /\ pc[p] \in {"test", "reload"}
      /\ \/ pc'[p] \in {"reload", "restore"} /\ loc'[p] = loc[p]
         \/ pc'[p] \in {"issue", "idle"} /\ Loads
  <2>1. CASE TestConfig(p)
    BY <2>1, ContinueKeeps DEF NInv, TestConfig
  <2>2. CASE ReloadConfig(p)
    BY <2>2, ContinueKeeps, StopKeeps DEF NInv, ReloadConfig, End
  <2>3. CASE ConfigFails(p)
    BY <2>3 DEF NInv, Types, ConfigFails, Goto, OthersKeep
  <2> QED BY <2>1, <2>2, <2>3
<1>2. UNCHANGED nginxVars
  BY DEF TestConfig, ReloadConfig, ConfigFails
<1>3. Types' /\ LockInv'
  <2>1. Remembers(pc'[p], loc'[p])
    BY <1>1 DEF NInv, Types, Remembers, Saved, Captured, Hardening, PuttingBack
  <2> QED BY <2>1, <1>1, <1>2, TypesStep DEF NInv, Types, nginxVars, Saved, Hardening, PuttingBack
<1>4. ASSUME ~misled' PROVE PhaseInv' /\ Proved'
  <2>1. /\ Uses(pc[p], loc[p]) => Firm
        /\ HasTls(pc[p], loc[p]) => cert
    BY <1>2, <1>4 DEF NInv, Proved, RelyInv, CertInv, nginxVars
  <2>2. /\ Uses(pc'[p], loc'[p]) => Firm
        /\ HasTls(pc'[p], loc'[p]) => cert
    BY <2>1, <1>1 DEF Uses, HasTls, Captured, Saved, Hardening, PuttingBack
  <2>3. vhost.tls => cert \/ Unloadable(p)' \/ ~Unloadable(p)
    <3>1. CASE pc'[p] \in {"reload", "restore"} /\ loc'[p] = loc[p]
      BY <3>1, <1>2 DEF Unloadable, nginxVars
    <3>2. CASE Loads
      BY <3>2 DEF Loads, NInv, Types, Whole
    <3> QED BY <3>1, <3>2, <1>1
  <2> QED BY <2>2, <2>3, <1>4, <1>1, <1>2, SiteStep DEF nginxVars, Saved, Hardening, PuttingBack
<1> QED BY <1>3, <1>4 DEF NInv

\* RestoreSite: what it puts back is firm, and had its certificate.
LEMMA RestoreSiteStep ==
  ASSUME NInv, NEW p \in Processes, RestoreSite(p)
  PROVE  NInv'
<1>1. /\ OthersKeep(p)
      /\ pc[p] = "restore" /\ pc'[p] = "idle"
  BY StopKeeps DEF NInv, RestoreSite, End
<1>2. vhost' = loc[p].vhost /\ UNCHANGED <<http, snippet, cert, misled>>
  BY DEF RestoreSite
<1>3. Types' /\ LockInv'
  <2>1. Remembers(pc'[p], loc'[p]) /\ Whole(vhost')
    BY <1>1, <1>2 DEF NInv, Types, Remembers, Saved, Captured, Hardening, PuttingBack
  <2> QED BY <2>1, <1>1, <1>2, TypesStep DEF NInv, Saved, Hardening, PuttingBack
<1>4. ASSUME ~misled' PROVE PhaseInv' /\ Proved'
  <2>1. (vhost'.include => Firm) /\ (vhost'.tls => cert')
    BY <1>1, <1>2, <1>4 DEF NInv, Proved, RelyInv, CertInv, Uses, HasTls, Captured
  <2> QED BY <2>1, <1>4, <1>1, <1>2, SiteStep DEF NInv, Uses, HasTls, Captured, Saved, Hardening, PuttingBack
<1> QED BY <1>3, <1>4 DEF NInv

-----------------------------------------------------------------------------
(* The hardening *)

\* SaveFiles: it remembers what is there, a certificate with it.
LEMMA SaveFilesStep ==
  ASSUME NInv, NEW p \in Processes, SaveFiles(p)
  PROVE  NInv'
<1>1. /\ OthersKeep(p) /\ lock' = lock
      /\ pc[p] = "save" /\ pc'[p] = "http"
      /\ loc'[p].inject = loc[p].inject /\ loc'[p].http = http
      /\ loc'[p].snippet = snippet /\ loc'[p].vhost = vhost
  BY ContinueKeeps DEF NInv, SaveFiles
<1>2. /\ UNCHANGED <<http, snippet, vhost, cert>>
      /\ ~misled' => ~misled /\ (loc[p].inject => \A q \in Processes : ~Unloadable(q))
  BY DEF SaveFiles
<1>3. Types' /\ LockInv'
  <2>1. Remembers(pc'[p], loc'[p])
    BY <1>1 DEF NInv, Types, Remembers, Saved, Captured, Hardening, PuttingBack
  <2> QED BY <2>1, <1>1, <1>2, TypesStep DEF NInv, LockInv, Types
<1>4. ASSUME ~misled' PROVE PhaseInv' /\ Proved'
  <2>1. /\ vhost.include => Firm
        /\ snippet => http
        /\ loc'[p].inject /\ vhost.tls => cert
    BY <1>1, <1>2, <1>4, OwnInclude DEF NInv, Proved, CertInv, Injecting, PuttingBack
  <2>2. Phase(pc[p], loc[p])'
    BY <2>1, <1>1, <1>2 DEF Phase, Hardening
  <2>3. pc'[p] \in Saved
    BY <1>1 DEF Saved
  <2>4. HasTls(pc'[p], loc'[p]) => cert
    BY <2>1, <1>1 DEF HasTls, Captured
  <2>5. Firm => Found(p)'
    BY <1>1 DEF Firm, Found
  <2> QED BY <2>1, <2>2, <2>3, <2>4, <2>5, <1>4, <1>1, <1>2, SecureStep DEF Firm, Found
<1> QED BY <1>3, <1>4 DEF NInv

\* Types and the lock after a step in which the hardening p goes on, or ends.
LEMMA HardeningTypes ==
  ASSUME NInv, NEW p \in Processes, OthersKeep(p), Whole(vhost'),
         pc[p] \in Saved,
         \/ pc'[p] \in Saved /\ loc'[p] = loc[p] /\ lock' = lock /\ (pc'[p] \in {"inject", "restore server"} => loc[p].inject)
         \/ pc'[p] = "idle"
  PROVE  Types' /\ LockInv'
<1>1. Remembers(pc'[p], loc'[p])
  BY DEF NInv, Types, Remembers, Saved, Captured, Hardening, PuttingBack
<1>2. pc'[p] \in Saved \cup {"save"} => lock'["secure"] = p
  BY DEF NInv, LockInv, Saved, Hardening, PuttingBack
<1> QED BY <1>1, <1>2, TypesStep DEF NInv

\* A step in which the hardening p goes on to write or test: the zones stay.
LEMMA WritesOn ==
  ASSUME NInv, ~misled, NEW p \in Processes, OthersKeep(p),
         pc[p] \in {"http"} \cup Hardening,
         pc'[p] \in Hardening \cup {"restore http"}, loc'[p] = loc[p],
         pc[p] \in {"test limits", "reload limits"} => pc'[p] # "snippet" /\ pc'[p] # "inject",
         cert' = cert,
         http', snippet => snippet',
         pc'[p] \in Hardening \ {"snippet"} => snippet',
         vhost'.include => vhost.include \/ Injecting(p)' \/ (snippet' /\ Found(p)'),
         vhost'.tls => vhost.tls
  PROVE  PhaseInv' /\ Proved'
<1>1. pc[p] \in Saved /\ pc'[p] \in Saved
  BY DEF Saved, PuttingBack
<1>2. Firm => Found(p)
  BY <1>1 DEF Firm
<1>3. /\ Phase(pc[p], loc[p])
      /\ loc[p].inject /\ loc[p].vhost.include => Found(p)
      /\ HasTls(pc[p], loc[p]) => cert
      /\ vhost.include => Firm \/ Injecting(p)
  BY <1>1, OwnInclude
<1>4. Phase(pc[p], loc[p])'
  BY <1>1, <1>3 DEF Phase, Hardening
<1>5. Found(p)' = Found(p)
  BY DEF Found
<1>6. Injecting(p) => Injecting(p)'
  BY <1>5 DEF Injecting, Saved, Hardening, PuttingBack
<1>7. HasTls(pc'[p], loc'[p]) => cert
  BY <1>1, <1>3 DEF HasTls, Captured, Hardening
<1> QED BY <1>1, <1>2, <1>3, <1>4, <1>5, <1>6, <1>7, SecureStep DEF Firm, Found
\* WriteHttp: the zones before the snippet.
LEMMA WriteHttpStep ==
  ASSUME NInv, NEW p \in Processes, WriteHttp(p)
  PROVE  NInv'
<1>1. /\ OthersKeep(p) /\ lock' = lock
      /\ pc[p] = "http" /\ pc'[p] = "snippet" /\ loc'[p] = loc[p]
      /\ http' = TRUE /\ UNCHANGED <<snippet, vhost, cert, misled>>
  BY ContinueKeeps DEF NInv, WriteHttp
<1>2. Types' /\ LockInv'
  BY <1>1, HardeningTypes DEF NInv, Types, Saved, Hardening
<1>3. ASSUME ~misled' PROVE PhaseInv' /\ Proved'
  BY <1>1, <1>3, WritesOn DEF Hardening
<1> QED BY <1>2, <1>3 DEF NInv

\* WriteSnippet: its zones are there.
LEMMA WriteSnippetStep ==
  ASSUME NInv, NEW p \in Processes, WriteSnippet(p)
  PROVE  NInv'
<1>1. /\ OthersKeep(p) /\ lock' = lock
      /\ pc[p] = "snippet" /\ loc'[p] = loc[p]
      /\ pc'[p] = (IF loc[p].inject THEN "inject" ELSE "test limits")
      /\ snippet' = TRUE /\ UNCHANGED <<http, vhost, cert, misled>>
  BY ContinueKeeps DEF NInv, WriteSnippet
<1>2. Types' /\ LockInv'
  BY <1>1, HardeningTypes DEF NInv, Types, Saved, Hardening
<1>3. ASSUME ~misled' PROVE PhaseInv' /\ Proved'
  <2>1. http
    BY <1>1, <1>3, OwnInclude DEF Phase, Saved, Hardening
  <2> QED BY <2>1, <1>1, <1>3, WritesOn DEF Hardening
<1> QED BY <1>2, <1>3 DEF NInv

\* InjectInclude: what it includes is there, and firm if it was found.
LEMMA InjectIncludeStep ==
  ASSUME NInv, NEW p \in Processes, InjectInclude(p)
  PROVE  NInv'
<1>1. /\ OthersKeep(p) /\ lock' = lock
      /\ pc[p] = "inject" /\ loc'[p] = loc[p]
      /\ \/ /\ vhost.there /\ vhost' = [vhost EXCEPT !.include = TRUE]
            /\ pc'[p] = "test limits"
         \/ vhost' = vhost /\ pc'[p] = "restore http"
      /\ UNCHANGED <<http, snippet, cert, misled>>
  BY ContinueKeeps DEF NInv, InjectInclude
<1>2. Whole(vhost') /\ (vhost'.tls => vhost.tls)
  BY <1>1 DEF NInv, Types, Whole, Fields
<1>3. Types' /\ LockInv'
  BY <1>1, <1>2, HardeningTypes DEF Saved, Hardening, PuttingBack
<1>4. ASSUME ~misled' PROVE PhaseInv' /\ Proved'
  <2>1. http /\ snippet
    BY <1>1, <1>4, OwnInclude DEF Phase, Saved, Hardening
  <2>2. loc[p].inject
    BY <1>1 DEF NInv, Types, Remembers
  <2>3. vhost'.include => vhost.include \/ Injecting(p)' \/ (snippet' /\ Found(p)')
    BY <2>1, <2>2, <1>1 DEF Injecting
  <2> QED BY <2>1, <2>3, <1>1, <1>2, <1>4, WritesOn DEF Hardening
<1> QED BY <1>3, <1>4 DEF NInv

\* TestLimits, ReloadLimits, LimitsFail: no file changes.
LEMMA LimitsTestedStep ==
  ASSUME NInv, NEW p \in Processes, TestLimits(p) \/ ReloadLimits(p) \/ LimitsFail(p)
  PROVE  NInv'
<1>1. /\ OthersKeep(p)
      /\ pc[p] \in {"test limits", "reload limits"}
      /\ \/ pc'[p] \in {"reload limits", "restore http"} /\ loc'[p] = loc[p] /\ lock' = lock
         \/ pc'[p] = "idle"
  <2>1. CASE TestLimits(p)
    BY <2>1, ContinueKeeps DEF NInv, TestLimits
  <2>2. CASE ReloadLimits(p)
    BY <2>2, ContinueKeeps, StopKeeps DEF NInv, ReloadLimits, End
  <2>3. CASE LimitsFail(p)
    BY <2>3 DEF NInv, Types, LimitsFail, Goto, OthersKeep
  <2> QED BY <2>1, <2>2, <2>3
<1>2. UNCHANGED nginxVars
  BY DEF TestLimits, ReloadLimits, LimitsFail
<1>3. pc[p] \in Saved
  BY <1>1 DEF Saved, Hardening
<1>4. Types' /\ LockInv'
  BY <1>1, <1>2, <1>3, HardeningTypes DEF NInv, Types, nginxVars, Saved, Hardening, PuttingBack
<1>5. ASSUME ~misled' PROVE PhaseInv' /\ Proved'
  <2>1. http /\ snippet
    BY <1>1, <1>2, <1>3, <1>5, OwnInclude DEF Phase, Hardening, nginxVars
  <2>2. CASE pc'[p] = "idle"
    <3>1. Phase(pc[p], loc[p])' /\ pc'[p] \notin Saved
      BY <2>2 DEF Phase, Saved, Hardening, PuttingBack
    <3>2. ~HasTls(pc'[p], loc'[p])
      BY <2>2 DEF HasTls, Captured, Saved, Hardening, PuttingBack
    <3> QED BY <3>1, <3>2, <2>1, <2>2, <1>1, <1>2, <1>3, <1>5, SecureStep DEF nginxVars
  <2>3. CASE pc'[p] # "idle"
    BY <2>1, <2>3, <1>1, <1>2, <1>5, WritesOn DEF Hardening, nginxVars
  <2> QED BY <2>2, <2>3
<1> QED BY <1>4, <1>5 DEF NInv

\* RestoreHttp: who needs the zones had found them.
LEMMA RestoreHttpStep ==
  ASSUME NInv, NEW p \in Processes, RestoreHttp(p)
  PROVE  NInv'
<1>1. /\ OthersKeep(p) /\ lock' = lock
      /\ pc[p] = "restore http" /\ pc'[p] = "restore snippet" /\ loc'[p] = loc[p]
      /\ http' = loc[p].http /\ UNCHANGED <<snippet, vhost, cert, misled>>
  BY ContinueKeeps DEF NInv, RestoreHttp
<1>2. pc[p] \in Saved /\ pc'[p] \in Saved
  BY <1>1 DEF Saved, PuttingBack
<1>3. Types' /\ LockInv'
  BY <1>1, <1>2, HardeningTypes DEF NInv, Types
<1>4. ASSUME ~misled' PROVE PhaseInv' /\ Proved'
  <2>1. /\ Phase(pc[p], loc[p])
        /\ loc[p].inject /\ loc[p].vhost.include => Found(p)
        /\ HasTls(pc[p], loc[p]) => cert
        /\ vhost.include => Firm \/ Injecting(p)
    BY <1>1, <1>2, <1>4, OwnInclude
  <2>2. Phase(pc[p], loc[p])'
    BY <2>1, <1>1, <1>2 DEF Phase, Hardening
  <2>3. HasTls(pc'[p], loc'[p]) => cert
    BY <2>1, <1>1, <1>2 DEF HasTls, Captured
  <2>4. Found(p)' = Found(p) /\ (Firm => Found(p))
    BY <1>1, <1>2 DEF Firm, Found
  <2>5. Injecting(p) => Injecting(p)'
    BY <2>4, <1>1 DEF Injecting, PuttingBack
  <2>6. snippet' => http' \/ (pc'[p] = "restore snippet" /\ ~loc'[p].http)
    BY <1>1
  <2> QED BY <2>1, <2>2, <2>3, <2>4, <2>5, <2>6, <1>1, <1>2, <1>4, SecureStep DEF Firm, Found
<1> QED BY <1>3, <1>4 DEF NInv

\* RestoreSnippet: a snippet that comes back was found with its zones.
LEMMA RestoreSnippetStep ==
  ASSUME NInv, NEW p \in Processes, RestoreSnippet(p)
  PROVE  NInv'
<1>1. /\ OthersKeep(p)
      /\ pc[p] = "restore snippet"
      /\ \/ loc[p].inject /\ pc'[p] = "restore server" /\ loc'[p] = loc[p] /\ lock' = lock
         \/ ~loc[p].inject /\ pc'[p] = "idle"
  BY ContinueKeeps, StopKeeps DEF NInv, RestoreSnippet, End
<1>2. snippet' = loc[p].snippet /\ UNCHANGED <<http, vhost, cert, misled>>
  BY DEF RestoreSnippet
<1>3. pc[p] \in Saved /\ pc'[p] \in Saved \cup {"idle"}
  BY <1>1 DEF Saved, PuttingBack
<1>4. Types' /\ LockInv'
  BY <1>1, <1>2, <1>3, HardeningTypes DEF NInv, Types
<1>5. ASSUME ~misled' PROVE PhaseInv' /\ Proved'
  <2>1. /\ Phase(pc[p], loc[p])
        /\ loc[p].inject /\ loc[p].vhost.include => Found(p)
        /\ HasTls(pc[p], loc[p]) => cert
        /\ vhost.include => Firm \/ Injecting(p)
    BY <1>2, <1>3, <1>5, OwnInclude
  <2>2. http = loc[p].http /\ (loc[p].snippet => loc[p].http)
    BY <2>1, <1>1, <1>3 DEF Phase
  <2>3. Phase(pc[p], loc[p])'
    BY <2>2, <1>1, <1>2 DEF Phase, Hardening, Saved, PuttingBack
  <2>4. HasTls(pc'[p], loc'[p]) => cert
    BY <2>1, <1>1, <1>3 DEF HasTls, Captured, Saved, Hardening, PuttingBack
  <2>5. Firm => Found(p)
    BY <1>3 DEF Firm
  <2>6. pc'[p] \in Saved => loc'[p] = loc[p] /\ Found(p)' = Found(p)
    BY <1>1 DEF Found, Saved, Hardening, PuttingBack
  <2>7. Injecting(p) => Injecting(p)'
    BY <1>1 DEF Injecting, PuttingBack, Found
  <2>8. snippet' => http'
    BY <2>2, <1>2
  <2> QED BY <2>1, <2>2, <2>3, <2>4, <2>5, <2>6, <2>7, <2>8, <1>1, <1>2, <1>3, <1>5, SecureStep
          DEF Firm, Found
<1> QED BY <1>4, <1>5 DEF NInv

\* RestoreServer: an include that comes back finds the files that came back before.
LEMMA RestoreServerStep ==
  ASSUME NInv, NEW p \in Processes, RestoreServer(p)
  PROVE  NInv'
<1>1. /\ OthersKeep(p)
      /\ pc[p] = "restore server" /\ pc'[p] = "idle"
      /\ vhost' = loc[p].vhost /\ UNCHANGED <<http, snippet, cert, misled>>
  BY StopKeeps DEF NInv, RestoreServer, End
<1>2. pc[p] \in Saved /\ pc'[p] \notin Saved
  BY <1>1 DEF Saved, Hardening, PuttingBack
<1>3. Whole(vhost')
  BY <1>1, <1>2 DEF NInv, Types, Remembers
<1>4. Types' /\ LockInv'
  BY <1>1, <1>2, <1>3, HardeningTypes
<1>5. ASSUME ~misled' PROVE PhaseInv' /\ Proved'
  <2>1. /\ Phase(pc[p], loc[p])
        /\ loc[p].inject /\ loc[p].vhost.include => Found(p)
        /\ HasTls(pc[p], loc[p]) => cert
    BY <1>1, <1>2, <1>5, OwnInclude
  <2>2. loc[p].inject /\ http = loc[p].http /\ snippet = loc[p].snippet
    BY <2>1, <1>1 DEF Phase, NInv, Types, Remembers
  <2>3. vhost'.include => http' /\ snippet'
    BY <2>1, <2>2, <1>1 DEF Found
  <2>4. vhost'.tls => cert
    BY <2>1, <2>2, <1>1, <1>2 DEF HasTls
  <2>5. Phase(pc[p], loc[p])'
    BY <1>1, <1>2 DEF Phase, Hardening
  <2>6. ~HasTls(pc'[p], loc'[p])
    BY <1>1, <1>2 DEF HasTls, Captured
  <2>7. Firm => http' /\ snippet'
    BY <1>1 DEF Firm
  <2>8. snippet' => http'
    BY <2>2, <2>1, <1>1, <1>2 DEF Phase
  <2> QED BY <2>3, <2>4, <2>5, <2>6, <2>7, <2>8, <1>1, <1>2, <1>5, SecureStep
<1> QED BY <1>4, <1>5 DEF NInv
-----------------------------------------------------------------------------
(* All steps *)

\* KillConfig: a hardening that had written leaves zones and snippet to what it injected.
LEMMA KillConfigStep ==
  ASSUME NInv, NEW p \in Processes, KillConfig(p)
  PROVE  NInv'
<1>1. OthersKeep(p) /\ pc'[p] = "idle"
  BY StopKeeps DEF NInv, KillConfig, Break
<1>2. /\ UNCHANGED <<http, snippet, vhost, cert>>
      /\ ~misled' => ~misled /\ pc[p] \notin PuttingBack /\ ~Unloadable(p)
  BY DEF KillConfig
<1>3. pc'[p] \notin Saved \cup Captured \cup {"save", "inject", "restore server"}
  BY <1>1 DEF Saved, Captured, Hardening, PuttingBack
<1>4. Types' /\ LockInv'
  BY <1>1, <1>2, <1>3, TypesStep DEF NInv, Types, Remembers
<1>5. ASSUME ~misled', pc[p] \in Saved \cup {"save"} PROVE PhaseInv' /\ Proved'
  <2>1. /\ vhost.include => Firm \/ Injecting(p)
        /\ snippet => http \/ (pc[p] = "restore snippet" /\ ~loc[p].http)
        /\ Phase(pc[p], loc[p])
    BY <1>2, <1>5, OwnInclude
  <2>2. pc[p] # "restore snippet" /\ (snippet => http)
    BY <2>1, <1>2, <1>5 DEF PuttingBack
  <2>3. vhost.include => http /\ snippet
    BY <2>1, <1>2, <1>5 DEF Firm, Injecting, Phase, Hardening
  <2>4. Phase(pc[p], loc[p])'
    BY <1>1, <1>3 DEF Phase, Hardening, Saved, PuttingBack
  <2>5. ~HasTls(pc'[p], loc'[p])
    BY <1>3 DEF HasTls
  <2> QED BY <2>2, <2>3, <2>4, <2>5, <1>1, <1>2, <1>3, <1>5, SecureStep DEF Firm
<1>6. ASSUME ~misled', pc[p] \notin Saved \cup {"save"} PROVE PhaseInv' /\ Proved'
  <2>1. ~Uses(pc'[p], loc'[p]) /\ ~HasTls(pc'[p], loc'[p])
    BY <1>3 DEF Uses, HasTls
  <2> QED BY <2>1, <1>1, <1>2, <1>3, <1>6, SiteStep
<1> QED BY <1>4, <1>5, <1>6 DEF NInv

\* The start: nobody is under way, and what is there is firm.
LEMMA InitNInv ==
  ASSUME HostInit, NginxInit
  PROVE  NInv
<1>1. \A q \in Processes : pc[q] = "idle"
  BY DEF HostInit
<1>2. \A q \in Processes : pc[q] \notin Saved \cup Captured \cup {"save", "inject", "restore server"}
  BY <1>1 DEF Saved, Captured, Hardening, PuttingBack
<1>3. Whole(vhost)
  BY DEF NginxInit, NoVhost, Vhost, Whole, Fields
<1>4. Types
  BY <1>2, <1>3 DEF HostInit, Types, Remembers
<1>5. LockInv
  BY <1>2 DEF LockInv
<1>6. PhaseInv
  BY <1>1, <1>2 DEF PhaseInv, Phase, Hardening, PuttingBack, Saved
<1>7. (vhost.include => snippet) /\ (vhost.tls => cert) /\ snippet = http
  BY DEF NginxInit, NoVhost, Vhost
<1>8. snippet => Firm
  BY <1>2, <1>7 DEF Firm
<1>9. Proved
  BY <1>2, <1>7, <1>8 DEF Proved, ZonesInv, RelyInv, CertInv, IncludeInv, Uses, HasTls
<1> QED BY <1>4, <1>5, <1>6, <1>9 DEF NInv

\* Every step keeps NInv.
LEMMA NextNInv ==
  ASSUME NInv, [NginxNext]_nvars
  PROVE  NInv'
<1>1. CASE NginxNext
  <2> PICK p \in Processes :
        \/ \E flag \in BOOLEAN : BeginSecure(p, flag) \/ BeginDeploy(p, flag) \/ BeginCreate(p, flag)
        \/ BeginIssue(p)
        \/ SaveFiles(p) \/ SecureWrites(p) \/ InjectInclude(p)
        \/ TestLimits(p) \/ ReloadLimits(p) \/ LimitsFail(p)
        \/ RestoreHttp(p) \/ RestoreSnippet(p) \/ RestoreServer(p)
        \/ Issue(p) \/ Capture(p) \/ Render(p) \/ WriteServer(p)
        \/ TestConfig(p) \/ ReloadConfig(p) \/ ConfigFails(p) \/ RestoreSite(p)
        \/ KillConfig(p)
    BY <1>1 DEF NginxNext
  <2>1. CASE \E flag \in BOOLEAN : BeginSecure(p, flag) \/ BeginDeploy(p, flag) \/ BeginCreate(p, flag)
    BY <2>1, BeginSecureStep, BeginDeployStep, BeginCreateStep
  <2>2. CASE BeginIssue(p) \/ Issue(p) \/ Capture(p) \/ Render(p) \/ WriteServer(p)
    BY <2>2, BeginIssueStep, IssueStep, CaptureStep, RenderStep, WriteServerStep
  <2>3. CASE TestConfig(p) \/ ReloadConfig(p) \/ ConfigFails(p) \/ RestoreSite(p) \/ KillConfig(p)
    BY <2>3, TestedStep, RestoreSiteStep, KillConfigStep
  <2>4. CASE SaveFiles(p) \/ SecureWrites(p) \/ InjectInclude(p)
    BY <2>4, SaveFilesStep, WriteHttpStep, WriteSnippetStep, InjectIncludeStep DEF SecureWrites
  <2>5. CASE TestLimits(p) \/ ReloadLimits(p) \/ LimitsFail(p)
    BY <2>5, LimitsTestedStep
  <2>6. CASE RestoreHttp(p) \/ RestoreSnippet(p) \/ RestoreServer(p)
    BY <2>6, RestoreHttpStep, RestoreSnippetStep, RestoreServerStep
  <2> QED BY <2>1, <2>2, <2>3, <2>4, <2>5, <2>6
<1>2. CASE UNCHANGED nvars
  <2>1. Types' /\ LockInv'
    BY <1>2 DEF nvars, hostVars, nginxVars, NInv, Types, LockInv
  <2>2. PhaseInv => PhaseInv'
    BY <1>2 DEF nvars, hostVars, nginxVars, PhaseInv, Phase
  <2>3. Proved => Proved'
    BY <1>2 DEF nvars, hostVars, nginxVars, Proved, ZonesInv, RelyInv, Firm, Found, CertInv,
                Unloadable, IncludeInv, Injecting
  <2> QED BY <2>1, <2>2, <2>3, <1>2 DEF nvars, nginxVars, NInv
<1> QED BY <1>1, <1>2

\* NInv holds in every state of the commands that write for nginx.
THEOREM FilesInvariant == NginxSpec => []NInv
<1>1. HostInit /\ NginxInit => NInv
  BY InitNInv
<1>2. NInv /\ [NginxNext]_nvars => NInv'
  BY NextNInv
<1> QED BY <1>1, <1>2, PTL DEF NginxSpec, nvars

\* Where ConfigLoads makes no exception, an include that is on disk is firm.
LEMMA FilesFirm ==
  ASSUME NInv
  PROVE  ConfigLoads
<1> SUFFICES ASSUME ~misled, \A q \in Processes : pc[q] \notin PuttingBack /\ ~Unloadable(q)
             PROVE  Loads
  BY DEF ConfigLoads
<1>1. vhost.tls => cert
  BY DEF NInv, Proved, CertInv
<1>2. ASSUME NEW q \in Processes, Injecting(q) PROVE http /\ snippet
  BY <1>2 DEF NInv, PhaseInv, Phase, Injecting, Hardening
<1>3. vhost.include => http /\ snippet
  BY <1>2 DEF NInv, Proved, IncludeInv, Firm
<1> QED BY <1>1, <1>3 DEF Loads

\* What is on disk for nginx can be loaded, but where ConfigLoads says: whatever the commands are
\* and in whatever order their steps come, since an include that stays finds its files firm.
THEOREM FilesLoad == NginxSpec => []ConfigLoads
<1>1. NInv => ConfigLoads
  BY FilesFirm
<1> QED BY <1>1, FilesInvariant, PTL

==============================================================================
