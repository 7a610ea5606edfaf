-------------------------- MODULE InstallRequests ---------------------------
(***************************************************************************)
(* The service may not install software. It leaves a request file, a       *)
(* systemd path unit (PathExists) starts a root script when the file is    *)
(* there, and the script removes it at its end: MediaMTX                   *)
(* (internal/mediamtx/installer.go, deploy/install-mediamtx.sh), whose     *)
(* request names a version, and ZeroTier (internal/zerotier/updater.go,    *)
(* deploy/update-zerotier.sh), whose request is an empty file.             *)
(***************************************************************************)
EXTENDS Naturals

CONSTANTS
  Releases,     \* tags of releases
  Tags,         \* those among them that begin with "v"
  ScriptTags,   \* those among them that the script's pattern accepts
  Clients,      \* POST requests for MediaMTX in progress at the same time
  Nothing,      \* no request file; no script; no binary
  Empty,        \* a request file without content
  Half,         \* a binary that is being replaced: removed, or written in part
  MaxAsked,     \* bound: POST requests
  MaxOutages    \* bound: crashes, power losses, failed writes and failed mktemps

ASSUME RequestsAssumption ==
  /\ ScriptTags \subseteq Tags /\ Tags \subseteq Releases
  /\ Nothing \notin Tags /\ Empty \notin Tags /\ Half \notin Tags
  /\ Nothing # Empty /\ Nothing # Half
  /\ MaxAsked \in Nat /\ MaxOutages \in Nat

Jobs  == {"mediamtx", "zerotier"}
Steps == {"fetch", "install", "copy", "config", "fill", "enable"}

VARIABLES
  request,    \* the request file of each job
  latest,     \* the tag of the latest MediaMTX release
  clients,    \* Installer.Request in progress: where it is, and its version
  script,     \* the version a running script has read, Nothing when it does not run
  at,         \* the next command of each script
  failed,     \* the path unit has given up: too many starts in a row
  binary,     \* the MediaMTX version that is installed
  config,     \* mediamtx.yml: "none", "cut" (empty or in part) or "whole"
  asked, outages

requestVars == <<request, latest, clients, script, at, failed, binary, config, asked, outages>>

root == <<script, at, failed, binary, config>>

Idle == [pc |-> "idle", tag |-> Nothing]

RequestInit ==
  /\ request = [j \in Jobs |-> Nothing]
  /\ latest \in Releases
  /\ clients = [c \in Clients |-> Idle]
  /\ script = [j \in Jobs |-> Nothing] /\ at = [j \in Jobs |-> "none"]
  /\ failed = [j \in Jobs |-> FALSE]
  /\ binary = Nothing
  /\ config \in {"none", "whole"}      \* install-dronservice.sh may have made it
  /\ asked = 0 /\ outages = 0

Outage == outages < MaxOutages /\ outages' = outages + 1

-----------------------------------------------------------------------------
(* The service.                                                             *)

\* The tag GitHub gives, Nothing when it is not one of a version. (A lookup that
\* fails otherwise ends the request too and changes nothing.)
latestVersion == IF latest \in Tags THEN latest ELSE Nothing

fileExists(j) == request[j] # Nothing

\* Installer.Request: with no request waiting, the latest version is looked up.
Ask(c) ==
  /\ clients[c] = Idle
  /\ asked < MaxAsked
  /\ asked' = asked + 1
  /\ ~ fileExists("mediamtx")
  /\ clients' = [clients EXCEPT ![c] =
                   IF latestVersion = Nothing THEN Idle ELSE [pc |-> "create", tag |-> latestVersion]]
  /\ UNCHANGED <<request, latest, root, outages>>

\* Mutated form: the file is opened without O_EXCL and truncated.
Create_Truncate(c) ==
  /\ clients[c].pc = "create"
  /\ request' = [request EXCEPT !["mediamtx"] = Empty]
  /\ clients' = [clients EXCEPT ![c].pc = "write"]
  /\ UNCHANGED <<latest, root, asked, outages>>

\* The file is created; if somebody else was faster, that request stands.
Create(c) ==
  /\ clients[c].pc = "create"
  /\ \/ /\ request["mediamtx"] = Nothing
        /\ request' = [request EXCEPT !["mediamtx"] = Empty]
        /\ clients' = [clients EXCEPT ![c].pc = "write"]
     \/ /\ request["mediamtx"] # Nothing
        /\ clients' = [clients EXCEPT ![c] = Idle]
        /\ UNCHANGED request
  /\ UNCHANGED <<latest, root, asked, outages>>

\* The version is written into the file that was created, or the write fails.
WriteVersion(c) ==
  /\ clients[c].pc = "write"
  /\ clients' = [clients EXCEPT ![c] = Idle]
  /\ \/ /\ request' = [request EXCEPT !["mediamtx"] = IF @ = Empty THEN clients[c].tag ELSE @]
        /\ UNCHANGED outages
     \/ Outage /\ UNCHANGED request
  /\ UNCHANGED <<latest, root, asked>>

\* Updater.Request.
AskZeroTier ==
  /\ asked < MaxAsked
  /\ asked' = asked + 1
  /\ request["zerotier"] = Nothing
  /\ request' = [request EXCEPT !["zerotier"] = Empty]
  /\ UNCHANGED <<latest, clients, root, outages>>

-----------------------------------------------------------------------------
(* systemd and the scripts.                                                 *)

\* PathExists= starts the script as long as the file is there, one at a time.
PathExists(j) == request[j] # Nothing /\ script[j] = Nothing /\ ~ failed[j]

\* Mutated form: the script sets its trap only for a MediaMTX that is newer.
Start_SkipSame(j) ==
  /\ PathExists(j)
  /\ j = "mediamtx" => request[j] \in ScriptTags /\ request[j] # binary
  /\ script' = [script EXCEPT ![j] = request[j]] /\ at' = [at EXCEPT ![j] = "fetch"]
  /\ UNCHANGED <<request, latest, clients, failed, binary, config, asked, outages>>

\* The script up to its trap. A MediaMTX version that it does not accept, or a mktemp that fails, ends it
\* before the trap is set: the request stays, and the script is started again until systemd refuses to.
Start(j) ==
  /\ PathExists(j)
  /\ \/ /\ j = "mediamtx" => request[j] \in ScriptTags
        /\ script' = [script EXCEPT ![j] = request[j]] /\ at' = [at EXCEPT ![j] = "fetch"]
        /\ UNCHANGED <<failed, outages>>
     \/ /\ j = "mediamtx"
        /\ IF request[j] \in ScriptTags THEN Outage ELSE UNCHANGED outages
        /\ \E f \in BOOLEAN : failed' = [failed EXCEPT ![j] = f]
        /\ UNCHANGED <<script, at>>
  /\ UNCHANGED <<request, latest, clients, binary, config, asked>>

\* A command of the script of a job succeeds, and another one is next.
Then(j, from, to) ==
  /\ at[j] = from /\ at' = [at EXCEPT ![j] = to]
  /\ UNCHANGED <<request, latest, clients, script, failed, asked, outages>>

\* The downloads and the checksum of MediaMTX; ZeroTier, which apt replaces.
Download == Then("mediamtx", "fetch", "install") /\ UNCHANGED <<binary, config>>
Upgrade  == Then("zerotier", "fetch", "exit") /\ UNCHANGED <<binary, config>>

\* install removes the binary and writes it anew: a power loss may come between.
RemoveBinary == Then("mediamtx", "install", "copy") /\ binary' = Half /\ UNCHANGED config
CopyBinary ==
  Then("mediamtx", "copy", "config") /\ binary' = script["mediamtx"] /\ UNCHANGED config

\* A mediamtx.yml that is there is left alone, whatever is in it. Otherwise it is
\* created, and filled with the older file or with the defaults.
KeepConfig   == config # "none" /\ Then("mediamtx", "config", "enable") /\ UNCHANGED <<binary, config>>
CreateConfig == config = "none" /\ Then("mediamtx", "config", "fill") /\ config' = "cut" /\ UNCHANGED binary
FillConfig   == Then("mediamtx", "fill", "enable") /\ config' = "whole" /\ UNCHANGED binary

\* chown, chmod, daemon-reload, and the service is enabled and started.
Enable == Then("mediamtx", "enable", "exit") /\ UNCHANGED <<binary, config>>

\* A command fails: set -e ends the script.
Fail(j) == \E from \in Steps : Then(j, from, "exit") /\ UNCHANGED <<binary, config>>

\* The script ends, its trap removes the file.
End(j) ==
  /\ at[j] = "exit"
  /\ request' = [request EXCEPT ![j] = Nothing]
  /\ script' = [script EXCEPT ![j] = Nothing] /\ at' = [at EXCEPT ![j] = "none"]
  /\ UNCHANGED <<latest, clients, failed, binary, config, asked, outages>>

Run(j) ==
  \/ Fail(j) \/ End(j)
  \/ j = "zerotier" /\ Upgrade
  \/ /\ j = "mediamtx"
     /\ Download \/ RemoveBinary \/ CopyBinary \/ KeepConfig \/ CreateConfig \/ FillConfig \/ Enable

\* The power fails: the file is not synced, so it or its content may be lost.
PowerLoss ==
  /\ Outage
  /\ clients' = [c \in Clients |-> Idle]
  /\ script' = [j \in Jobs |-> Nothing] /\ at' = [j \in Jobs |-> "none"]
  /\ failed' = [j \in Jobs |-> FALSE]
  /\ \E lost \in SUBSET Jobs, left \in {Nothing, Empty} :
       request' = [j \in Jobs |-> IF j \in lost /\ request[j] # Nothing THEN left ELSE request[j]]
  /\ UNCHANGED <<latest, binary, config, asked>>

\* The service restarts; what a handler was doing is left as it is.
ServiceCrash ==
  /\ Outage
  /\ clients' = [c \in Clients |-> Idle]
  /\ UNCHANGED <<request, latest, root, asked>>

Release ==
  /\ latest' \in Releases \ {latest}
  /\ UNCHANGED <<request, clients, root, asked, outages>>

RequestNext ==
  \/ \E c \in Clients : Ask(c) \/ Create(c) \/ WriteVersion(c)
  \/ \E j \in Jobs : Start(j) \/ Run(j)
  \/ AskZeroTier \/ PowerLoss \/ ServiceCrash \/ Release

RequestSpec == RequestInit /\ [][RequestNext]_requestVars

\* Handlers go on, systemd starts what it watches, and a command ends (curl and
\* apt have no time limit of their own: they are taken to end).
FairRequestSpec ==
  /\ RequestSpec
  /\ \A c \in Clients : WF_requestVars(Create(c)) /\ WF_requestVars(WriteVersion(c))
  /\ \A j \in Jobs : WF_requestVars(Start(j)) /\ WF_requestVars(Run(j))

-----------------------------------------------------------------------------

\* A version that was requested is not replaced before the script is through
\* with it, however many clients ask at the same time (O_EXCL); only a power
\* loss takes it away.
RequestNotReplaced ==
  [][\A t \in Tags :
       request["mediamtx"] = t => request'["mediamtx"] \in {t, Nothing} \/ PowerLoss]_requestVars

\* The request cannot be served: systemd has given up on it, or it holds no version
\* that the script accepts and no handler is about to write one.
Stuck(j) ==
  \/ failed[j]
  \/ /\ j = "mediamtx" /\ request[j] \notin ScriptTags
     /\ \A c \in Clients : clients[c].pc # "write"

\* Every request is served in the end, also when the machine restarts in the middle
\* of the script or the script starts before the version is written, unless it is
\* left without a version that the script can read.
RequestServed == \A j \in Jobs : (request[j] # Nothing) ~> (request[j] = Nothing \/ Stuck(j))

=============================================================================
