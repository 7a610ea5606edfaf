------------------------------ MODULE Updater ------------------------------
(***************************************************************************)
(* The signed self-update of DronService: the HTTP side that publishes a   *)
(* request file (internal/updater/client.go), the systemd path unit that   *)
(* starts the root-owned oneshot, and the shell transaction itself         *)
(* (deploy/update-dronservice.sh) with its rollback, its EXIT/TERM trap    *)
(* and power losses between any two commands.                              *)
(*                                                                         *)
(* A version vMAJOR.MINOR.PATCH is a positive number ordered as            *)
(* newerVersion orders it; 0 stands for an absent file or an empty string. *)
(* The bootstrap installer makes /usr/local/bin/dronservice a link to      *)
(* current/dronservice, and every step that rewrites that link keeps its   *)
(* target, so only the `current' link is a variable.                       *)
(***************************************************************************)
EXTENDS Integers, FiniteSets

CONSTANTS
  MaxVersion,  \* releases are 1 .. MaxVersion
  NumFiles,    \* deployment files, installed and restored in this order
  UpdaterFiles,\* the ones the oneshot is started from: script, service, path unit
  Handlers,    \* concurrent POST /api/update handlers
  Faults,      \* the kinds of fault that may happen, see FaultKinds
  MaxFaults    \* how many of them happen in a behaviour

\* "command": a command guarded by `|| fail_update' fails, "activate": one of the
\* two such commands for the bin link (lines 208-209), "rollback": a command of
\* rollback() fails, "status": write_status fails, "term": the unit is stopped,
\* "power": power loss.
FaultKinds == {"command", "activate", "rollback", "status", "term", "power"}

\* The faults after which rollback() no longer finds, or no longer restores, all
\* that the request found. "activate" is one of them although its commands are
\* guarded by fail_update like the others: the release link has been switched by
\* then and switched=true has not been reached, so that it is not switched back.
LossyKinds == {"activate", "rollback", "term", "power"}

ASSUME ConstantsAssumption ==
  /\ MaxVersion \in Nat \ {0}
  /\ NumFiles \in Nat \ {0}
  /\ MaxFaults \in Nat
  /\ Faults \subseteq FaultKinds
  /\ 1 \in UpdaterFiles /\ UpdaterFiles \subseteq 1 .. NumFiles

Versions == 1 .. MaxVersion
Files    == 1 .. NumFiles
Script     == 1    \* the updater script is the first file to be replaced
None       == 0    \* no request, no version
Absent     == 0    \* the deployment file does not exist
Partial    == -2   \* it is cut short, or empty
NoBackup   == -1   \* neither <name> nor <name>.absent is in deployment-backup
CacheError == -1   \* latestRelease failed and the failure is cached

VARIABLES
  request,            \* update-dronservice.request: a version, or None
  status,             \* update-dronservice.status.json
  releases,           \* releases/<v>/dronservice: "absent", "partial", "complete"
  current,            \* the release the `current' link points to
  deployment,         \* version of each installed script and unit, or Absent
  running,            \* version of the running service, or None
  pc,                 \* the next command of the oneshot, "idle" when not running
  version,            \* shell variables of the oneshot ...
  previousTarget,
  switched,
  deploymentChanged,
  workDir,            \* the temporary directory with the downloads: "present", "absent"
  backup,             \* its deployment-backup directory
  script,             \* the text the shell reads: "whole", or "cut" short
  cursor,             \* the file of the current install or restore loop
  handler,            \* Client.Request in progress: next step, state read, release
  cache,              \* Client.cachedRelease of the running process
  latest,             \* the latest published GitHub release
  faults,             \* history: their number, one of LossyKinds since the request?,
                      \* has a script that was cut short been run?
  prior               \* history: what was installed when the request was published

disk    == <<releases, current, deployment>>
locals  == <<version, previousTarget, switched, deploymentChanged, workDir, backup, script>>
outside == <<request, running, handler, cache, latest, prior>>
vars    == <<disk, locals, outside, status, pc, cursor, faults>>

ActiveStates == {"pending", "downloading", "verifying", "installing", "restarting"}
States       == ActiveStates \cup {"idle", "succeeded", "failed"}

\* Client.isActiveState.
isActiveState(state) == state \in ActiveStates

\* newerVersion and versionParts: the lexicographic order of the three parts.
newerVersion(candidate, installed) == candidate > installed

Installed == [current |-> current, deployment |-> deployment]

IdleHandler == [pc |-> "idle", seen |-> "idle", target |-> None]

Init ==
  /\ request = None
  /\ status = [state |-> "idle", version |-> None]
  /\ releases = [v \in Versions |-> IF v = 1 THEN "complete" ELSE "absent"]
  /\ current = 1
  /\ deployment \in [Files -> {1, Absent}]   \* an older layout may lack a file
  /\ \A f \in UpdaterFiles : deployment[f] = 1
  /\ running = 1
  /\ pc = "idle"
  /\ version = None
  /\ previousTarget = None
  /\ switched = "false"
  /\ deploymentChanged = "false"
  /\ workDir = "absent"
  /\ backup = [f \in Files |-> NoBackup]
  /\ script = "whole"
  /\ cursor = 1
  /\ handler = [h \in Handlers |-> IdleHandler]
  /\ cache = None
  /\ latest = 1
  /\ faults = [count |-> 0, lossy |-> "false", cut |-> "false"]
  /\ prior = Installed

CanFault(kind) == kind \in Faults /\ faults.count < MaxFaults

\* One fault of this kind happens in this step.
Fault(kind) ==
  /\ CanFault(kind)
  /\ faults' = [count |-> faults.count + 1,
                lossy |-> IF kind \in LossyKinds THEN "true" ELSE faults.lossy,
                cut |-> faults.cut]

-----------------------------------------------------------------------------
(* The HTTP side: Client.Status and Client.Request.                         *)

\* The environment publishes a newer GitHub release.
PublishRelease ==
  /\ latest < MaxVersion
  /\ latest' = latest + 1
  /\ UNCHANGED <<request, running, handler, cache, prior, disk, locals, status, pc, cursor, faults>>

\* The release cache outlives its TTL.
ExpireCache ==
  /\ cache # None
  /\ cache' = None
  /\ UNCHANGED <<request, running, handler, latest, prior, disk, locals, status, pc, cursor, faults>>

\* Client.Request begins with Client.Status, which reads the status file first.
ReadPersistedStatus(h) ==
  /\ running # None
  /\ handler[h].pc = "idle"
  /\ handler' = [handler EXCEPT ![h] = [pc |-> "stat", seen |-> status.state, target |-> None]]
  /\ UNCHANGED <<request, cache, faults, prior>>

\* Then it looks for the request file, which makes the state "pending".
StatRequest(h) ==
  /\ handler[h].pc = "stat"
  /\ handler' = [handler EXCEPT ![h].pc = "fetch",
                                 ![h].seen = IF request # None THEN "pending" ELSE @]
  /\ UNCHANGED <<request, cache, faults, prior>>

\* latestReleaseCached under its mutex: a live cache entry, or a fetch whose
\* result (or failure) is cached, unless the caller's context was cancelled.
LatestReleaseCached(found) ==
  \/ cache # None /\ found = cache /\ UNCHANGED cache
  \/ cache = None /\ found = latest /\ cache' = latest
  \/ cache = None /\ found = CacheError /\ cache' \in {CacheError, None}

\* Client.Status ends here, and Client.Request too when an update is under way,
\* when there is no release, or none newer than the running process.
FetchRelease(h) ==
  /\ handler[h].pc = "fetch"
  /\ \E found \in {cache, latest, CacheError} :
       /\ LatestReleaseCached(found)
       /\ \/ handler' = [handler EXCEPT ![h] = IdleHandler]
          \/ /\ ~isActiveState(handler[h].seen)
             /\ newerVersion(found, running)
             /\ handler' = [handler EXCEPT ![h] = [@ EXCEPT !.pc = "link", !.target = found]]
  /\ UNCHANGED <<request, faults, prior>>

\* Mutated form: os.Rename publishes over an existing request.
LinkRequest_Rename(h) ==
  /\ handler[h].pc = "link"
  /\ handler' = [handler EXCEPT ![h] = IdleHandler]
  /\ request' = handler[h].target
  /\ prior' = Installed
  /\ UNCHANGED <<cache, faults>>

\* os.Link publishes the synced temporary file; an existing request wins.
LinkRequest(h) ==
  /\ handler[h].pc = "link"
  /\ handler' = [handler EXCEPT ![h] = IdleHandler]
  /\ \/ /\ request = None
        /\ request' = handler[h].target
        /\ prior' = Installed
        /\ faults' = [faults EXCEPT !.lossy = IF pc = "idle" THEN "false" ELSE @]
     \/ request # None /\ UNCHANGED <<request, prior, faults>>
     \/ Fault("command") /\ UNCHANGED <<request, prior>>
  /\ UNCHANGED cache

-----------------------------------------------------------------------------
(* The oneshot, command by command.                                         *)

\* The next command is at `to'.
Goto(to) == pc' = to /\ UNCHANGED <<cursor, faults>>

\* fail_update: the rollback starts at the first deployment file.
FailUpdate == pc' = "rollbackFiles" /\ cursor' = 1

\* A command that can only succeed when ok holds, and is guarded by fail_update.
Command(from, ok, to) ==
  /\ pc = from
  /\ \/ ok /\ Goto(to)
     \/ ~ok /\ FailUpdate /\ UNCHANGED faults
     \/ Fault("command") /\ FailUpdate
  /\ UNCHANGED <<disk, locals, outside, status>>

\* write_status writes a temporary file and renames it over the old one.
WriteStatus(from, state, to) ==
  /\ pc = from
  /\ \/ status' = [state |-> state, version |-> version] /\ Goto(to)
     \/ Fault("status") /\ FailUpdate /\ UNCHANGED status
  /\ UNCHANGED <<disk, locals, outside>>

\* PathExists starts the unit; systemd runs one instance of it at a time, and
\* the lock directory lives and dies with that instance's RuntimeDirectory. Of a
\* script that was cut short, a shell runs the commands that are left.
StartUnit ==
  /\ pc = "idle"
  /\ request # None
  /\ deployment[Script] # Absent
  /\ pc' = "read"
  /\ \/ deployment[Script] # Partial /\ script' = "whole" /\ UNCHANGED faults
     \/ /\ deployment[Script] = Partial /\ script' = "cut"
        /\ faults' = [faults EXCEPT !.lossy = "true", !.cut = "true"]
  /\ UNCHANGED <<disk, outside, status, cursor, version, previousTarget, switched,
                 deploymentChanged, workDir, backup>>

\* Mutated form: the request is consumed as soon as it is read.
ReadVersion_Consume ==
  /\ pc = "read"
  /\ request # None /\ version' = request /\ request' = None /\ Goto("config")
  /\ UNCHANGED <<disk, status, running, handler, cache, latest, prior, previousTarget, switched,
                 deploymentChanged, workDir, backup, script>>

\* An empty request (removed by the TERM trap) is an invalid version.
ReadVersion ==
  /\ pc = "read"
  /\ \/ request # None /\ version' = request /\ Goto("config") /\ UNCHANGED status
     \/ /\ request = None
        /\ status' = [state |-> "failed", version |-> None]
        /\ Goto("cleanup")
        /\ UNCHANGED version
  /\ UNCHANGED <<disk, outside, previousTarget, switched, deploymentChanged, workDir, backup, script>>

\* A bad repository exits without a rollback; a missing key, a missing command
\* and a failed mktemp go through fail_update.
CheckConfig ==
  /\ pc = "config"
  /\ \/ workDir' = "present" /\ Goto("downloading") /\ UNCHANGED status
     \/ /\ Fault("command")
        /\ status' = [state |-> "failed", version |-> version]
        /\ pc' = "cleanup"
        /\ UNCHANGED <<workDir, cursor>>
     \/ Fault("command") /\ FailUpdate /\ UNCHANGED <<status, workDir>>
  /\ UNCHANGED <<disk, outside, version, previousTarget, switched, deploymentChanged, backup, script>>

\* The checksum list and its signature; curl needs the work directory.
WriteDownloading == WriteStatus("downloading", "downloading", "download")
Download         == Command("download", workDir = "present", "verifying")

\* Every asset, its checksum, the signatures, the manifest schema, the version
\* the binary reports and the free disk space.
WriteVerifying == WriteStatus("verifying", "verifying", "verify")
Verify         == Command("verify", workDir = "present", "installing")

\* Sourcing a missing migrate-local-settings.sh ends the shell at once.
WriteInstalling == WriteStatus("installing", "installing", "prepare")
Prepare ==
  /\ pc = "prepare"
  /\ \/ workDir = "present" /\ previousTarget' = current /\ Goto("release")
     \/ workDir = "absent" /\ Goto("cleanup") /\ UNCHANGED previousTarget
     \/ Fault("command") /\ FailUpdate /\ UNCHANGED previousTarget
  /\ UNCHANGED <<disk, outside, status, version, switched, deploymentChanged, workDir, backup, script>>

\* Mutated form: an existing binary is taken without comparing its checksum.
CheckRelease_Exists ==
  /\ pc = "release"
  /\ \/ releases[version] # "absent" /\ Goto("backup") /\ UNCHANGED releases
     \/ /\ releases[version] = "absent"
        /\ releases' = [releases EXCEPT ![version] = "partial"]
        /\ Goto("write")
  /\ UNCHANGED <<current, deployment, locals, outside, status>>

\* An installed release is immutable: it must have the expected checksum.
\* Otherwise `install' starts to write the binary.
CheckRelease ==
  /\ pc = "release"
  /\ \/ releases[version] = "complete" /\ Goto("backup") /\ UNCHANGED releases
     \/ /\ releases[version] = "absent" /\ workDir = "present"
        /\ releases' = [releases EXCEPT ![version] = "partial"]
        /\ Goto("write")
     \/ /\ releases[version] = "partial" \/ (releases[version] = "absent" /\ workDir = "absent")
        /\ FailUpdate
        /\ UNCHANGED <<releases, faults>>
     \/ Fault("command") /\ FailUpdate /\ UNCHANGED releases
  /\ UNCHANGED <<current, deployment, locals, outside, status>>

\* A write that fails (disk full) leaves the partial binary behind.
WriteRelease ==
  /\ pc = "write"
  /\ \/ releases' = [releases EXCEPT ![version] = "complete"] /\ Goto("backup")
     \/ Fault("command") /\ FailUpdate /\ UNCHANGED releases
  /\ UNCHANGED <<current, deployment, locals, outside, status>>

\* Mutated form: deployment_changed=true is forgotten after the backup.
BackUp_NoFlag ==
  /\ pc = "backup"
  /\ backup' = deployment
  /\ cursor' = 1 /\ pc' = "deploy"
  /\ UNCHANGED <<disk, outside, status, version, previousTarget, switched, workDir, script,
                 deploymentChanged, faults>>

\* `install -d' recreates the backup directory; then every file is saved, or
\* marked absent, and only then may the rollback touch the deployment.
BackUp ==
  /\ pc = "backup"
  /\ \/ /\ backup' = deployment
        /\ deploymentChanged' = "true"
        /\ cursor' = 1 /\ pc' = "deploy" /\ UNCHANGED faults
     \/ Fault("command") /\ FailUpdate /\ UNCHANGED <<backup, deploymentChanged>>
  /\ UNCHANGED <<disk, outside, status, version, previousTarget, switched, workDir, script>>

\* Mutated form: the loop ends one file too late.
NextFile_PastEnd(to) ==
  \/ cursor > NumFiles /\ pc' = to /\ UNCHANGED cursor
  \/ cursor <= NumFiles /\ cursor' = cursor + 1 /\ UNCHANGED pc

\* A loop over the deployment files advances, or ends and goes on at `to'.
NextFile(to) ==
  \/ cursor = NumFiles /\ pc' = to /\ UNCHANGED cursor
  \/ cursor < NumFiles /\ cursor' = cursor + 1 /\ UNCHANGED pc

\* Mutated form: a failed `install' of a file is not followed by fail_update.
DeployFile_NoCheck ==
  /\ pc = "deploy"
  /\ \/ deployment' = [deployment EXCEPT ![cursor] = version] /\ UNCHANGED faults
     \/ deployment' = [deployment EXCEPT ![cursor] = Absent] /\ Fault("command")
  /\ NextFile("reload")
  /\ UNCHANGED <<releases, current, locals, outside, status>>

\* `install' unlinks the old file and writes a new one: cut off at any point, it
\* leaves the old file, none, or a part of the new one.
HalfInstalled == {[deployment EXCEPT ![cursor] = left] : left \in {deployment[cursor], Absent, Partial}}

DeployFile ==
  /\ pc = "deploy"
  /\ \/ /\ workDir = "present"
        /\ deployment' = [deployment EXCEPT ![cursor] = version]
        /\ NextFile("reload") /\ UNCHANGED faults
     \/ workDir = "absent" /\ FailUpdate /\ UNCHANGED <<deployment, faults>>
     \/ Fault("command") /\ deployment' \in HalfInstalled /\ FailUpdate
  /\ UNCHANGED <<releases, current, locals, outside, status>>

\* Configuration migrations, daemon-reload and enabling the path units.
Reload == Command("reload", TRUE, "switch")

\* The atomic rename of the `current' link.
SwitchCurrent ==
  /\ pc = "switch"
  /\ \/ current' = version /\ Goto("activate")
     \/ Fault("command") /\ FailUpdate /\ UNCHANGED current
  /\ UNCHANGED <<releases, deployment, locals, outside, status>>

\* The bin link is renewed, and only after it is `switched' set.
SwitchBinary ==
  /\ pc = "activate"
  /\ \/ switched' = "true" /\ Goto("restarting")
     \/ Fault("activate") /\ FailUpdate /\ UNCHANGED switched
  /\ UNCHANGED <<disk, outside, status, version, previousTarget, deploymentChanged, workDir, backup,
                 script>>

\* A stopped service takes its handlers and its release cache with it.
StopService ==
  /\ handler' = [h \in Handlers |-> IdleHandler]
  /\ cache' = None

\* systemctl restart dronservice.service.
WriteRestarting == WriteStatus("restarting", "restarting", "restart")
RestartService ==
  /\ pc = "restart"
  /\ StopService
  /\ \/ running' = current /\ Goto("health")
     \/ Fault("command") /\ running' = None /\ FailUpdate
  /\ UNCHANGED <<disk, locals, status, request, latest, prior>>

\* /api/health answers and /api/version reports the requested version.
HealthCheck    == Command("health", running = version, "succeed")
WriteSucceeded == WriteStatus("succeed", "succeeded", "cleanup")

-----------------------------------------------------------------------------
(* rollback(), the final status and the EXIT trap.                          *)

\* A saved file is copied back, an absent one removed; a file without either
\* marker (the TERM trap removed them) stays as it is.
Restored(f) == IF backup[f] = NoBackup THEN deployment[f] ELSE backup[f]

\* `cp -p' truncates the file and writes it anew, `rm -f' is one step.
HalfRestored ==
  {deployment} \cup
  {[deployment EXCEPT ![f] = Partial] :
     f \in {g \in {cursor} : deploymentChanged = "true" /\ backup[g] \notin {NoBackup, Absent}}}

RollBackFile ==
  /\ pc = "rollbackFiles"
  /\ \/ /\ deploymentChanged = "true"
        /\ deployment' = [deployment EXCEPT ![cursor] = Restored(cursor)]
        /\ NextFile("rollbackLinks") /\ UNCHANGED faults
     \/ deploymentChanged = "false" /\ Goto("rollbackLinks") /\ UNCHANGED deployment
     \/ /\ deploymentChanged = "true" /\ Fault("rollback")
        /\ deployment' \in HalfRestored
        /\ pc' = "failed" /\ UNCHANGED cursor
  /\ UNCHANGED <<releases, current, locals, outside, status>>

\* daemon-reload after the files, and the two links when they were switched.
RollBackLinks ==
  /\ pc = "rollbackLinks"
  /\ \/ current' = (IF switched = "true" THEN previousTarget ELSE current) /\ Goto("rollbackRestart")
     \/ /\ "true" \in {switched, deploymentChanged} /\ Fault("rollback")
        /\ pc' = "failed" /\ UNCHANGED <<current, cursor>>
  /\ UNCHANGED <<releases, deployment, locals, outside, status>>

\* Mutated form: the service is restarted only when the release was switched.
RollBackRestart_IfSwitched ==
  /\ pc = "rollbackRestart"
  /\ \/ switched = "true" /\ StopService /\ running' = current
     \/ switched = "false" /\ UNCHANGED <<handler, cache, running>>
  /\ Goto("failed")
  /\ UNCHANGED <<disk, locals, status, request, latest, prior>>

\* The service runs what `current' points to, unless its unit file is damaged.
ServiceStarts(files) ==
  \/ running' = current
  \/ (\E f \in Files : files[f] \in {Absent, Partial}) /\ running' = None

\* `systemctl restart || true', after every failure, early ones too.
RollBackRestart ==
  /\ pc = "rollbackRestart"
  /\ StopService
  /\ \/ ServiceStarts(deployment) /\ Goto("failed")
     \/ Fault("rollback") /\ running' = None /\ pc' = "failed" /\ UNCHANGED cursor
  /\ UNCHANGED <<disk, locals, status, request, latest, prior>>

\* `write_status failed || true'.
WriteFailed ==
  /\ pc = "failed"
  /\ \/ status' = [state |-> "failed", version |-> version] /\ Goto("cleanup")
     \/ Fault("status") /\ pc' = "cleanup" /\ UNCHANGED <<status, cursor>>
  /\ UNCHANGED <<disk, locals, outside>>

\* What is left of the shell once its process is gone.
ShellGone ==
  /\ pc' = "idle"
  /\ version' = None
  /\ previousTarget' = None
  /\ switched' = "false"
  /\ deploymentChanged' = "false"
  /\ workDir' = "absent"
  /\ backup' = [f \in Files |-> NoBackup]
  /\ script' = "whole"
  /\ cursor' = 1

\* Mutated form: the trap leaves the request file.
Cleanup_KeepRequest ==
  /\ pc = "cleanup"
  /\ ShellGone
  /\ UNCHANGED <<disk, outside, status, faults>>

\* The EXIT trap removes the work directory, the request and the lock.
Cleanup ==
  /\ pc = "cleanup"
  /\ request' = None
  /\ ShellGone
  /\ UNCHANGED <<disk, status, running, handler, cache, latest, prior, faults>>

\* The text of a script that was cut short ends here; what is inside a function
\* was read whole. Before the trap is set (line 79) nothing is cleaned up.
CutShort ==
  /\ script = "cut"
  /\ pc \notin {"idle", "rollbackFiles", "rollbackLinks", "rollbackRestart", "failed", "cleanup"}
  /\ \/ Goto("cleanup") /\ UNCHANGED locals
     \/ pc = "read" /\ ShellGone /\ UNCHANGED faults
  /\ UNCHANGED <<disk, outside, status>>

Pcs == {"idle", "read", "config", "downloading", "download", "verifying", "verify",
        "installing", "prepare", "release", "write", "backup", "deploy", "reload",
        "switch", "activate", "restarting", "restart", "health", "succeed",
        "rollbackFiles", "rollbackLinks", "rollbackRestart", "failed", "cleanup"}

\* The commands whose failure goes to fail_update.
Guarded == Pcs \ {"idle", "read", "rollbackFiles", "rollbackLinks", "rollbackRestart", "failed",
                  "cleanup"}

\* What is left of the deployment files when the running command is cut off.
Interrupted ==
  CASE pc = "deploy" -> HalfInstalled
    [] pc = "rollbackFiles" -> HalfRestored
    [] OTHER -> {deployment}

\* systemctl stop, or a shutdown: the TERM trap runs cleanup() and, as it does
\* not exit, the script goes on without its work directory and its request. The
\* command that is running, if there is one, gets the signal too and fails.
Terminate ==
  /\ pc \notin {"idle", "cleanup"}
  /\ Fault("term")
  /\ request' = None
  /\ workDir' = "absent"
  /\ backup' = [f \in Files |-> NoBackup]
  /\ \/ UNCHANGED <<pc, cursor, deployment>>
     \/ /\ deployment' \in Interrupted
        /\ \/ pc \in Guarded /\ FailUpdate
           \/ /\ pc \in {"rollbackFiles", "rollbackLinks", "rollbackRestart"}
              /\ pc' = "failed" /\ UNCHANGED cursor
           \/ pc = "failed" /\ pc' = "cleanup" /\ UNCHANGED cursor
  /\ UNCHANGED <<releases, current, status, version, previousTarget, switched, deploymentChanged,
                 script, running, handler, cache, latest, prior>>

\* Power loss and reboot: the files and the request stay, the shell, its
\* temporary directory and the lock go, the service starts from `current'. What a
\* command that has ended wrote is taken to be on the disk, although the script
\* does not sync it; the file of a command that is running may be cut short.
PowerLoss ==
  /\ Fault("power")
  /\ ShellGone
  /\ StopService
  /\ deployment' \in Interrupted
  /\ ServiceStarts(deployment')
  /\ UNCHANGED <<releases, current, status, request, latest, prior>>

-----------------------------------------------------------------------------

Oneshot ==
  \/ StartUnit \/ ReadVersion \/ CheckConfig \/ WriteDownloading \/ Download
  \/ WriteVerifying \/ Verify \/ WriteInstalling \/ Prepare \/ CheckRelease
  \/ WriteRelease \/ BackUp \/ DeployFile \/ Reload \/ SwitchCurrent
  \/ SwitchBinary \/ WriteRestarting \/ RestartService \/ HealthCheck
  \/ WriteSucceeded \/ RollBackFile \/ RollBackLinks \/ RollBackRestart
  \/ WriteFailed \/ Cleanup \/ CutShort

Client ==
  /\ \E h \in Handlers :
       ReadPersistedStatus(h) \/ StatRequest(h) \/ FetchRelease(h) \/ LinkRequest(h)
  /\ UNCHANGED <<disk, locals, status, pc, cursor, running, latest>>

Next ==
  \/ Oneshot
  \/ Client
  \/ PublishRelease
  \/ ExpireCache
  \/ Terminate
  \/ PowerLoss

Spec == Init /\ [][Next]_vars

\* The files the oneshot is started from are there, and whole.
UpdaterIntact == \A f \in UpdaterFiles : deployment[f] \notin {Absent, Partial}

\* systemd keeps a started oneshot running (no start timeout) and restarts it as
\* long as the request exists and its files allow; nothing else is assumed.
FairSpec == Spec /\ WF_vars(Oneshot /\ (pc = "idle" => UpdaterIntact))

-----------------------------------------------------------------------------
(* Properties.                                                              *)

HandlerType == [pc : {"idle", "stat", "fetch", "link"}, seen : States,
                target : Versions \cup {None}]

\* Every variable of the client, the script and the disk has its type.
TypeOK ==
  /\ request \in Versions \cup {None}
  /\ status \in [state : States, version : Versions \cup {None}]
  /\ releases \in [Versions -> {"absent", "partial", "complete"}]
  /\ current \in Versions
  /\ deployment \in [Files -> Versions \cup {Absent, Partial}]
  /\ running \in Versions \cup {None}
  /\ pc \in Pcs
  /\ version \in Versions \cup {None}
  /\ previousTarget \in Versions \cup {None}
  /\ switched \in {"true", "false"}
  /\ deploymentChanged \in {"true", "false"}
  /\ workDir \in {"present", "absent"}
  /\ backup \in [Files -> Versions \cup {Absent, Partial, NoBackup}]
  /\ script \in {"whole", "cut"}
  /\ cursor \in Files
  /\ handler \in [Handlers -> HandlerType]
  /\ cache \in Versions \cup {None, CacheError}
  /\ latest \in Versions
  /\ faults \in [count : 0 .. MaxFaults, lossy : {"true", "false"}, cut : {"true", "false"}]
  /\ prior \in [current : Versions, deployment : [Files -> Versions \cup {Absent, Partial}]]

\* Whatever fails, and wherever power is lost or the unit is stopped, `current'
\* never points to a binary that was not written to its end, and none runs:
\* a crash in `install' leaves a partial release that the checksum comparison
\* of lines 162-163 must refuse for ever after.
RunningIsVerified ==
  /\ releases[current] = "complete"
  /\ running # None => releases[running] = "complete"

\* The updater is at rest: no request on disk and no oneshot running.
AtRest == pc = "idle" /\ request = None

\* A status file that says "succeeded" is true, whatever faults happened on the
\* way: the active release, every deployment file and the service, if it runs
\* at all, are of the version it names.
SucceededIsInstalled ==
  AtRest /\ status.state = "succeeded" =>
    /\ current = status.version
    /\ \A f \in Files : deployment[f] = status.version
    /\ running \in {status.version, None}

\* The updater rolls back the active release symlink and the backed-up
\* deployment files: once it reports "failed", both are what they were when
\* the operator's request was published.
FailedRestores ==
  AtRest /\ status.state = "failed" => Installed = prior

\* AC-5 of docs/production-spec.md: "when rollback runs, then it restores the
\* prior binary, units and active configuration". Here rollback() has just run, in
\* a shell that reads a whole script.
RollbackRestores ==
  pc = "failed" /\ faults.cut = "false" => Installed = prior

\* The same as far as the script keeps it: a "failed" status means that the
\* release link and every deployment file are those the request found, whichever
\* commands and status writes failed on the way, unless a fault of LossyKinds
\* has hit the update since its request. Damage left by an earlier update that
\* was hit does not spread to this one.
CleanFailureRestores ==
  faults.lossy = "false" => FailedRestores

\* When the updater is at rest its status is final. A status left in an active
\* state would make Client.Request answer 202 for ever without publishing
\* anything, as Status reports it as an installation under way. (A script that was
\* cut short may end anywhere.)
RestIsSettled ==
  AtRest /\ faults.cut = "false" => ~isActiveState(status.state)

\* Only the rollback of a failed update lowers the active release: a request
\* that was decided on before another update ran is never served after it.
NoDowngrade ==
  [][current' < current /\ faults.cut = "false" => pc = "rollbackLinks"]_vars

\* A published request is never replaced by another one: the oneshot may have
\* read it already, and its exit would delete the newer request unserved.
RequestNotReplaced ==
  [][request # None => request' \in {request, None}]_vars

\* Every published request is served, also when power is lost in between: the
\* updater comes to rest with a final status that names the very version that was
\* asked for. The exceptions are what `install' and `cp' can do to the updater
\* itself when they are cut off: a script that is cut short, and an updater whose
\* files are gone or damaged for ever, so that systemd cannot start it.
UpdaterIsGone == pc = "idle" /\ ~ UpdaterIntact
RequestServed ==
  \/ <>[]UpdaterIsGone
  \/ \A v \in Versions :
       request = v ~> \/ AtRest /\ status.version = v /\ ~isActiveState(status.state)
                      \/ faults.cut = "true"

=============================================================================
