---------------------------- MODULE NginxConfig -----------------------------
(***************************************************************************)
(* The files nginx loads, which commands with different locks write:       *)
(* `secure nginx` the limits (an http file and a snippet which names their *)
(* zones), `app deploy`, `create site` and `ssl issue` the virtual host of *)
(* a site, which includes the snippet if there is one.  Each takes a       *)
(* snapshot, writes, runs nginx -t on everything, reloads, and puts its    *)
(* snapshot back when one of these fails.  Profiles, paths and --no-reload *)
(* are left out, and a write of a file is one step.  What a failed create  *)
(* takes back with --atomic is in CreateSite.                              *)
(***************************************************************************)
EXTENDS MonitorHost

VARIABLES
  http,        \* the http file is there: it has the zones of the limits
  snippet,     \* the snippet is there: it uses them
  vhost,       \* the virtual host of the site, with its symlink
  cert,        \* there is a certificate
  misled       \* history: a command took over what another had not proved yet, or one was killed
               \* that had written what cannot load or was putting its files back

nginxVars == <<http, snippet, vhost, cert, misled>>

\* No virtual host at all, and the text of one.
NoVhost == [there |-> FALSE, include |-> FALSE, tls |-> FALSE]
Vhost(include, tls) == [there |-> TRUE, include |-> include, tls |-> tls]

\* nginx -t on what is on disk: files that are included exist, and so do zones and certificates.
Loads ==
  vhost.there =>
    /\ vhost.include => snippet /\ http
    /\ vhost.tls => cert

\* The phases of a hardening after it has written, and those in which it puts back.
Hardening == {"snippet", "inject", "test limits", "reload limits"}
PuttingBack == {"restore http", "restore snippet", "restore server"}

\* A hardening that may still take back a file, of which it found none.
Unsettled ==
  \E p \in Processes : pc[p] \in Hardening \cup PuttingBack /\ ~(loc[p].http /\ loc[p].snippet)

\* A command has written a virtual host with a certificate that is not there.
Unloadable(p) ==
  pc[p] \in {"test", "reload", "restore"} /\ loc[p].new.tls /\ ~cert

-----------------------------------------------------------------------------
(* secure nginx *)

BeginSecure(p, server) ==
  /\ Take(p, "nginx", "secure", "save", [inject |-> server])
  /\ UNCHANGED nginxVars

\* All three files are read before the first is written.
SaveFiles(p) ==
  /\ subject = "nginx" /\ pc[p] = "save"
  /\ Continue(p, "http", [inject |-> loc[p].inject, http |-> http, snippet |-> snippet, vhost |-> vhost])
  /\ misled' = (misled \/ (loc[p].inject /\ \E q \in Processes : Unloadable(q)))
  /\ UNCHANGED <<http, snippet, vhost, cert>>

WriteHttp(p) ==
  /\ subject = "nginx" /\ pc[p] = "http"
  /\ http' = TRUE
  /\ Continue(p, "snippet", loc[p])
  /\ UNCHANGED <<snippet, vhost, cert, misled>>

WriteSnippet(p) ==
  /\ subject = "nginx" /\ pc[p] = "snippet"
  /\ snippet' = TRUE
  /\ Continue(p, IF loc[p].inject THEN "inject" ELSE "test limits", loc[p])
  /\ UNCHANGED <<http, vhost, cert, misled>>

\* Mutant of SecureWrites: the snippet first.
SecureWritesBackwards(p) ==
  \/ /\ subject = "nginx" /\ pc[p] = "http"
     /\ snippet' = TRUE
     /\ Continue(p, "snippet", loc[p])
     /\ UNCHANGED <<http, vhost, cert, misled>>
  \/ /\ subject = "nginx" /\ pc[p] = "snippet"
     /\ http' = TRUE
     /\ Continue(p, IF loc[p].inject THEN "inject" ELSE "test limits", loc[p])
     /\ UNCHANGED <<snippet, vhost, cert, misled>>

\* The file with the zones comes before the one that uses them.
SecureWrites(p) == WriteHttp(p) \/ WriteSnippet(p)

\* --server-config-file: the include goes into the virtual host, which has to be there.
InjectInclude(p) ==
  /\ subject = "nginx" /\ pc[p] = "inject"
  /\ IF vhost.there
     THEN vhost' = [vhost EXCEPT !.include = TRUE] /\ Continue(p, "test limits", loc[p])
     ELSE UNCHANGED vhost /\ Continue(p, "restore http", loc[p])
  /\ UNCHANGED <<http, snippet, cert, misled>>

TestLimits(p) ==
  /\ subject = "nginx" /\ pc[p] = "test limits"
  /\ Continue(p, IF Loads THEN "reload limits" ELSE "restore http", loc[p])
  /\ UNCHANGED nginxVars

\* A reload tests what is on disk by then.
ReloadLimits(p) ==
  /\ subject = "nginx" /\ pc[p] = "reload limits"
  /\ IF Loads THEN End(p) ELSE Continue(p, "restore http", loc[p])
  /\ UNCHANGED nginxVars

\* restorecon, nginx or systemctl fails.
LimitsFail(p) ==
  /\ subject = "nginx" /\ pc[p] \in {"test limits", "reload limits"}
  /\ Mishap
  /\ Goto(p, "restore http")
  /\ UNCHANGED <<subject, clock, lock, loc, nginxVars>>

RestoreHttp(p) ==
  /\ subject = "nginx" /\ pc[p] = "restore http"
  /\ http' = loc[p].http
  /\ Continue(p, "restore snippet", loc[p])
  /\ UNCHANGED <<snippet, vhost, cert, misled>>

RestoreSnippet(p) ==
  /\ subject = "nginx" /\ pc[p] = "restore snippet"
  /\ snippet' = loc[p].snippet
  /\ IF loc[p].inject THEN Continue(p, "restore server", loc[p]) ELSE End(p)
  /\ UNCHANGED <<http, vhost, cert, misled>>

RestoreServer(p) ==
  /\ subject = "nginx" /\ pc[p] = "restore server"
  /\ vhost' = loc[p].vhost
  /\ End(p)
  /\ UNCHANGED <<http, snippet, cert, misled>>

-----------------------------------------------------------------------------
(* The virtual host: app deploy, create site, ssl issue *)

\* app deploy writes it only where there is one, with TLS if the metadata say ssl, which every
\* create --force sets anew, or if there is a certificate.
BeginDeploy(p, ssl) ==
  /\ vhost.there
  /\ Take(p, "nginx", "app", "capture", [tls |-> ssl \/ cert, issue |-> FALSE])
  /\ UNCHANGED nginxVars

\* create site writes it, and with --letsencrypt issues a certificate and writes it again.
BeginCreate(p, issue) ==
  /\ Take(p, "nginx", "site", "capture", [tls |-> cert, issue |-> issue])
  /\ UNCHANGED nginxVars

BeginIssue(p) ==
  /\ Take(p, "nginx", "ssl", "issue", [tls |-> TRUE, issue |-> FALSE])
  /\ UNCHANGED nginxVars

\* certbot; if it fails the command ends.  ssl issue ends here for a domain that is no site.
Issue(p) ==
  /\ subject = "nginx" /\ pc[p] = "issue"
  /\ cert' = TRUE
  /\ \/ Continue(p, "capture", [tls |-> TRUE, issue |-> FALSE])
     \/ lock["ssl"] = p /\ End(p)
  /\ UNCHANGED <<http, snippet, vhost, misled>>

Capture(p) ==
  /\ subject = "nginx" /\ pc[p] = "capture"
  /\ Continue(p, "render", [tls |-> loc[p].tls, issue |-> loc[p].issue, vhost |-> vhost])
  /\ misled' = (misled \/ (vhost.include /\ Unsettled) \/ \E q \in Processes : Unloadable(q))
  /\ UNCHANGED <<http, snippet, vhost, cert>>

\* The snippet is included if there is one at this moment.
Render(p) ==
  /\ subject = "nginx" /\ pc[p] = "render"
  /\ Continue(p, "write", [tls |-> loc[p].tls, issue |-> loc[p].issue, vhost |-> loc[p].vhost,
                           new |-> Vhost(snippet, loc[p].tls)])
  /\ misled' = (misled \/ (snippet /\ Unsettled))
  /\ UNCHANGED <<http, snippet, vhost, cert>>

WriteServer(p) ==
  /\ subject = "nginx" /\ pc[p] = "write"
  /\ vhost' = loc[p].new
  /\ Continue(p, "test", loc[p])
  /\ UNCHANGED <<http, snippet, cert, misled>>

TestConfig(p) ==
  /\ subject = "nginx" /\ pc[p] = "test"
  /\ Continue(p, IF Loads THEN "reload" ELSE "restore", loc[p])
  /\ UNCHANGED nginxVars

ReloadConfig(p) ==
  /\ subject = "nginx" /\ pc[p] = "reload"
  /\ IF ~Loads THEN Continue(p, "restore", loc[p])
     ELSE IF loc[p].issue THEN Continue(p, "issue", loc[p])
     ELSE End(p)
  /\ UNCHANGED nginxVars

ConfigFails(p) ==
  /\ subject = "nginx" /\ pc[p] \in {"test", "reload"}
  /\ Mishap
  /\ Goto(p, "restore")
  /\ UNCHANGED <<subject, clock, lock, loc, nginxVars>>

\* restore_nginx_site_snapshot without a reload: the file and its symlink, and the command ends.
RestoreSite(p) ==
  /\ subject = "nginx" /\ pc[p] = "restore"
  /\ vhost' = loc[p].vhost
  /\ End(p)
  /\ UNCHANGED <<http, snippet, cert, misled>>

\* A kill, or a call outside of the two functions that fails.
KillConfig(p) ==
  /\ subject = "nginx" /\ pc[p] # "idle"
  /\ Break(p)
  /\ misled' = (misled \/ pc[p] \in PuttingBack \/ Unloadable(p))
  /\ UNCHANGED <<http, snippet, vhost, cert>>

-----------------------------------------------------------------------------
NginxInit ==
  /\ http \in BOOLEAN /\ snippet = http
  /\ cert \in BOOLEAN
  /\ vhost \in {NoVhost, Vhost(FALSE, cert), Vhost(snippet, cert)}
  /\ misled = FALSE

NginxNext ==
  \E p \in Processes :
    \/ \E flag \in BOOLEAN : BeginSecure(p, flag) \/ BeginDeploy(p, flag) \/ BeginCreate(p, flag)
    \/ BeginIssue(p)
    \/ SaveFiles(p) \/ SecureWrites(p) \/ InjectInclude(p)
    \/ TestLimits(p) \/ ReloadLimits(p) \/ LimitsFail(p)
    \/ RestoreHttp(p) \/ RestoreSnippet(p) \/ RestoreServer(p)
    \/ Issue(p) \/ Capture(p) \/ Render(p) \/ WriteServer(p)
    \/ TestConfig(p) \/ ReloadConfig(p) \/ ConfigFails(p) \/ RestoreSite(p)
    \/ KillConfig(p)

\* The files of nginx by themselves; Monitors composes them with the rest of the host.
NginxSpec == HostInit /\ NginxInit /\ [][NginxNext]_<<hostVars, nginxVars>>

NginxTypeOK ==
  /\ http \in BOOLEAN /\ snippet \in BOOLEAN
  /\ cert \in BOOLEAN /\ misled \in BOOLEAN
  /\ vhost \in [there : BOOLEAN, include : BOOLEAN, tls : BOOLEAN]

\* What is on disk can be loaded at every moment, with any command beside any other and killed
\* anywhere, so that no site's commands are refused by nginx -t for the sake of another: but
\* while a hardening puts its files back, while a deploy tests a virtual host with a certificate
\* that the site never got, and after some command was misled by one of these.
ConfigLoads ==
  Loads \/ misled \/ \E p \in Processes : pc[p] \in PuttingBack \/ Unloadable(p)

=============================================================================
