--------------------------- MODULE UpdaterProofs ---------------------------
(***************************************************************************)
(* What holds of the update transaction for any number of releases,        *)
(* deployment files, handlers and faults.                                  *)
(***************************************************************************)
EXTENDS Updater, TLAPS

(* Type correctness.                                                        *)

\* The commands between `previous_target=...' and the final status.
Changing == {"release", "write", "backup", "deploy", "reload", "switch", "activate",
             "restarting", "restart", "health", "succeed"}

FaultsType == [count : 0 .. MaxFaults, lossy : {"true", "false"}, cut : {"true", "false"}]

\* The shell variables a command uses have been assigned before.
ShellOK ==
  /\ pc \notin {"idle", "read", "cleanup"} => version \in Versions
  /\ pc \in Changing => previousTarget \in Versions
  /\ switched = "true" => previousTarget \in Versions

\* The state the bootstrap installer leaves has the right types.
LEMMA TypeInit == Init => TypeOK /\ ShellOK
<1> SUFFICES ASSUME Init PROVE TypeOK /\ ShellOK
  OBVIOUS
<1> USE ConstantsAssumption DEF Init, Versions, Files
<1>1. handler \in [Handlers -> HandlerType]
  BY DEF HandlerType, IdleHandler, States, None
<1>2. prior \in [current : Versions, deployment : [Files -> Versions \cup {Absent, Partial}]]
  BY DEF Installed, Absent
<1>3. status \in [state : States, version : Versions \cup {None}]
  BY DEF States
<1>4. backup \in [Files -> Versions \cup {Absent, Partial, NoBackup}]
  OBVIOUS
<1>5. QED
  BY <1>1, <1>2, <1>3, <1>4 DEF TypeOK, ShellOK, Changing, Pcs, Absent

\* A fault is counted up to the bound.
LEMMA TypeFault ==
  ASSUME NEW kind, TypeOK, Fault(kind) \/ UNCHANGED faults
  PROVE  faults' \in FaultsType
  BY ConstantsAssumption DEF TypeOK, Fault, CanFault, FaultsType

\* A step of Client.Request keeps the types: the only release it publishes is
\* one that is newer than the running, installed one.
LEMMA TypeClient == TypeOK /\ Client => TypeOK'
<1> SUFFICES ASSUME TypeOK, Client PROVE TypeOK'
  OBVIOUS
<1>1. PICK h \in Handlers :
        ReadPersistedStatus(h) \/ StatRequest(h) \/ FetchRelease(h) \/ LinkRequest(h)
  BY DEF Client
<1>2. UNCHANGED <<disk, locals, status, pc, cursor, running, latest>>
  BY DEF Client
<1>3. handler[h] \in HandlerType /\ IdleHandler \in HandlerType
  BY DEF TypeOK, HandlerType, IdleHandler, States, None
<1>4. CASE ReadPersistedStatus(h)
  <2>1. [pc |-> "stat", seen |-> status.state, target |-> None] \in HandlerType
    BY DEF TypeOK, HandlerType
  <2>2. QED
    BY <1>2, <1>4, <2>1 DEF ReadPersistedStatus, TypeOK, disk, locals
<1>5. CASE StatRequest(h)
  <2> DEFINE seen == IF request # None THEN "pending" ELSE handler[h].seen
  <2>1. [handler[h] EXCEPT !.pc = "fetch", !.seen = seen] \in HandlerType
    BY <1>3 DEF HandlerType, States, ActiveStates
  <2>2. handler' = [handler EXCEPT ![h] = [handler[h] EXCEPT !.pc = "fetch", !.seen = seen]]
    BY <1>3, <1>5 DEF StatRequest, TypeOK, HandlerType
  <2>3. QED
    BY <1>2, <1>5, <2>1, <2>2 DEF StatRequest, TypeOK, disk, locals
<1>6. CASE FetchRelease(h)
  <2>1. PICK found \in {cache, latest, CacheError} :
          /\ LatestReleaseCached(found)
          /\ \/ handler' = [handler EXCEPT ![h] = IdleHandler]
             \/ /\ newerVersion(found, running)
                /\ handler' = [handler EXCEPT ![h] = [@ EXCEPT !.pc = "link", !.target = found]]
    BY <1>6 DEF FetchRelease
  <2>2. newerVersion(found, running) => found \in Versions
    BY ConstantsAssumption DEF TypeOK, newerVersion, Versions, None, CacheError
  <2>3. newerVersion(found, running) =>
          [handler[h] EXCEPT !.pc = "link", !.target = found] \in HandlerType
    BY <1>3, <2>2 DEF HandlerType
  <2>4. handler' \in [Handlers -> HandlerType]
    BY <1>3, <2>1, <2>3 DEF TypeOK
  <2>5. cache' \in Versions \cup {None, CacheError}
    BY <2>1 DEF LatestReleaseCached, TypeOK
  <2>6. QED
    BY <1>2, <1>6, <2>4, <2>5 DEF FetchRelease, TypeOK, disk, locals
<1>7. CASE LinkRequest(h)
  <2>1. request' \in Versions \cup {None}
    BY <1>3, <1>7 DEF LinkRequest, TypeOK, HandlerType
  <2>2. prior' \in [current : Versions, deployment : [Files -> Versions \cup {Absent, Partial}]]
    BY <1>7 DEF LinkRequest, TypeOK, Installed
  <2>3. faults' \in FaultsType
    BY <1>7, TypeFault DEF LinkRequest, TypeOK, FaultsType
  <2>4. QED
    BY <1>2, <1>3, <1>7, <2>1, <2>2, <2>3 DEF LinkRequest, TypeOK, FaultsType, disk, locals
<1>8. QED
  BY <1>1, <1>4, <1>5, <1>6, <1>7

\* A deployment file that is cut off is none, or a part of one.
LEMMA TypeHalf ==
  ASSUME TypeOK
  PROVE  /\ HalfInstalled \subseteq [Files -> Versions \cup {Absent, Partial}]
         /\ HalfRestored \subseteq [Files -> Versions \cup {Absent, Partial}]
         /\ Interrupted \subseteq [Files -> Versions \cup {Absent, Partial}]
<1>1. HalfInstalled \subseteq [Files -> Versions \cup {Absent, Partial}]
  BY DEF HalfInstalled, TypeOK
<1>2. HalfRestored \subseteq [Files -> Versions \cup {Absent, Partial}]
  BY DEF HalfRestored, TypeOK
<1>3. Interrupted \in {HalfInstalled, HalfRestored, {deployment}}
  BY DEF Interrupted
<1>4. QED
  BY <1>1, <1>2, <1>3 DEF TypeOK

\* A deployment file is replaced by one of the version that was read, or lost.
LEMMA TypeDeploy ==
  ASSUME TypeOK, ShellOK, DeployFile
  PROVE  deployment' \in [Files -> Versions \cup {Absent, Partial}]
<1>1. version \in Versions
  BY DEF DeployFile, ShellOK
<1>2. \/ deployment' = [deployment EXCEPT ![cursor] = version]
      \/ UNCHANGED deployment
      \/ deployment' \in HalfInstalled
  BY DEF DeployFile
<1>3. QED
  BY <1>1, <1>2, TypeHalf DEF TypeOK

\* The service runs the active release, or not at all.
LEMMA TypeStarts ==
  ASSUME NEW files, ServiceStarts(files)
  PROVE  running' \in {current, None}
  BY DEF ServiceStarts

\* A command of the script keeps the types, given that the shell variables it
\* reads have been assigned.
LEMMA TypeOneshot == TypeOK /\ ShellOK /\ Oneshot => TypeOK'
<1> SUFFICES ASSUME TypeOK, ShellOK, Oneshot PROVE TypeOK'
  OBVIOUS
<1>0. ASSUME NEW kind, Fault(kind) PROVE faults' \in FaultsType
  BY <1>0, TypeFault
<1> USE <1>0, ConstantsAssumption
    DEF TypeOK, Pcs, disk, locals, outside, Goto, FailUpdate, FaultsType, Files
<1>1. ASSUME NEW from, NEW to \in Pcs, NEW state \in States, WriteStatus(from, state, to)
      PROVE  TypeOK'
  BY <1>1 DEF WriteStatus
<1>2. ASSUME NEW from, NEW to \in Pcs, NEW ok, Command(from, ok, to)
      PROVE  TypeOK'
  BY <1>2 DEF Command
<1>3. CASE StartUnit
  <2>1. faults' \in FaultsType
    BY <1>3 DEF StartUnit
  <2>2. QED
    BY <1>3, <2>1 DEF StartUnit
<1>4. CASE ReadVersion
  BY <1>4 DEF ReadVersion, States
<1>5. CASE CheckConfig
  BY <1>5 DEF CheckConfig, States
<1>6. CASE Prepare
  BY <1>6 DEF Prepare
<1>7. CASE CheckRelease
  <2>1. releases' \in [Versions -> {"absent", "partial", "complete"}]
    BY <1>7 DEF CheckRelease
  <2>2. QED
    BY <1>7, <2>1 DEF CheckRelease
<1>8. CASE WriteRelease
  BY <1>8 DEF WriteRelease
<1>9. CASE BackUp
  BY <1>9 DEF BackUp
<1>10. CASE DeployFile
  <2>1. deployment' \in [Files -> Versions \cup {Absent, Partial}]
    BY <1>10, TypeDeploy
  <2>2. cursor' \in Files /\ pc' \in Pcs /\ faults' \in FaultsType
    BY <1>10 DEF DeployFile, NextFile
  <2>3. QED
    BY <1>10, <2>1, <2>2 DEF DeployFile
<1>11. CASE SwitchCurrent
  BY <1>11 DEF SwitchCurrent, ShellOK
<1>12. CASE SwitchBinary
  BY <1>12 DEF SwitchBinary
<1>13. StopService => handler' \in [Handlers -> HandlerType] /\ cache' = None
  BY DEF StopService, HandlerType, IdleHandler, States, None
<1>14. CASE RestartService
  BY <1>13, <1>14 DEF RestartService
<1>15. CASE RollBackFile
  <2>1. Restored(cursor) \in Versions \cup {Absent, Partial}
    BY DEF Restored, NoBackup, Absent
  <2>2. deployment' \in [Files -> Versions \cup {Absent, Partial}]
    BY <1>15, <2>1, TypeHalf DEF RollBackFile
  <2>3. cursor' \in Files /\ pc' \in Pcs /\ faults' \in FaultsType
    BY <1>15 DEF RollBackFile, NextFile
  <2>4. QED
    BY <1>15, <2>2, <2>3 DEF RollBackFile
<1>16. CASE RollBackLinks
  BY <1>16 DEF RollBackLinks, ShellOK
<1>17. CASE RollBackRestart
  BY <1>13, <1>17, TypeStarts DEF RollBackRestart
<1>18. CASE WriteFailed
  BY <1>18 DEF WriteFailed, States
<1>19. CASE Cleanup
  BY <1>19 DEF Cleanup, ShellGone
<1>20. CASE CutShort
  BY <1>20 DEF CutShort, ShellGone
<1>21. QED
  BY <1>1, <1>2, <1>3, <1>4, <1>5, <1>6, <1>7, <1>8, <1>9, <1>10, <1>11, <1>12, <1>14, <1>15,
     <1>16, <1>17, <1>18, <1>19, <1>20
     DEF Oneshot, States, ActiveStates, WriteDownloading, WriteVerifying, WriteInstalling,
         WriteRestarting, WriteSucceeded, Download, Verify, Reload, HealthCheck

\* Releases, cache expiry, the TERM trap and power losses keep the types.
LEMMA TypeEnvironment ==
  TypeOK /\ (PublishRelease \/ ExpireCache \/ Terminate \/ PowerLoss) => TypeOK'
<1> SUFFICES ASSUME TypeOK PROVE
      (PublishRelease \/ ExpireCache \/ Terminate \/ PowerLoss) => TypeOK'
  OBVIOUS
<1> USE ConstantsAssumption DEF TypeOK, Pcs, disk, locals, Fault, CanFault
<1>1. ASSUME PublishRelease PROVE TypeOK'
  BY <1>1 DEF PublishRelease, Versions
<1>2. ASSUME ExpireCache PROVE TypeOK'
  BY <1>2 DEF ExpireCache
<1>3. ASSUME Terminate PROVE TypeOK'
  <2>1. deployment' \in [Files -> Versions \cup {Absent, Partial}]
    BY <1>3, TypeHalf DEF Terminate
  <2>2. pc' \in Pcs /\ cursor' \in Files
    BY <1>3 DEF Terminate, FailUpdate, Files
  <2>3. QED
    BY <1>3, <2>1, <2>2 DEF Terminate
<1>4. ASSUME PowerLoss PROVE TypeOK'
  <2>1. handler' \in [Handlers -> HandlerType] /\ cache' = None
    BY <1>4 DEF PowerLoss, StopService, HandlerType, IdleHandler, States, None
  <2>2. deployment' \in [Files -> Versions \cup {Absent, Partial}]
    BY <1>4, TypeHalf DEF PowerLoss
  <2>3. running' \in Versions \cup {None}
    BY <1>4, TypeStarts DEF PowerLoss
  <2>4. QED
    BY <1>4, <2>1, <2>2, <2>3 DEF PowerLoss, ShellGone, Files
<1>5. QED
  BY <1>1, <1>2, <1>3, <1>4

\* No command reads $version or $previous_target before it was assigned.
LEMMA ShellStep == TypeOK /\ ShellOK /\ [Next]_vars => ShellOK'
<1> SUFFICES ASSUME TypeOK, ShellOK, [Next]_vars PROVE ShellOK'
  OBVIOUS
<1> USE DEF ShellOK, Changing, disk, locals, outside, Goto, FailUpdate
<1>1. ASSUME NEW from \in Pcs, NEW to \in Pcs, NEW state,
             from \notin {"idle", "read", "cleanup"}, to \in Changing => from \in Changing,
             WriteStatus(from, state, to)
      PROVE  ShellOK'
  BY <1>1 DEF WriteStatus
<1>2. CASE WriteDownloading \/ WriteVerifying \/ WriteInstalling \/ WriteRestarting \/ WriteSucceeded
  BY <1>1, <1>2 DEF WriteDownloading, WriteVerifying, WriteInstalling, WriteRestarting,
                    WriteSucceeded, Pcs
<1>3. CASE Download \/ Verify \/ Reload \/ HealthCheck
  BY <1>3 DEF Download, Verify, Reload, HealthCheck, Command
<1>4. CASE StartUnit \/ CheckConfig \/ WriteFailed
  BY <1>4 DEF StartUnit, CheckConfig, WriteFailed
<1>5. CASE ReadVersion
  BY <1>5 DEF ReadVersion, TypeOK
<1>6. CASE Prepare
  BY <1>6 DEF Prepare, TypeOK
<1>7. CASE CheckRelease \/ WriteRelease \/ BackUp
  BY <1>7 DEF CheckRelease, WriteRelease, BackUp
<1>8. CASE DeployFile \/ RollBackFile
  BY <1>8 DEF DeployFile, RollBackFile, NextFile
<1>9. CASE SwitchCurrent \/ SwitchBinary
  BY <1>9 DEF SwitchCurrent, SwitchBinary
<1>10. CASE RestartService \/ RollBackLinks \/ RollBackRestart
  BY <1>10 DEF RestartService, RollBackLinks, RollBackRestart
<1>11. CASE Cleanup \/ CutShort \/ PowerLoss
  BY <1>11 DEF Cleanup, CutShort, PowerLoss, ShellGone
<1>12. CASE Client \/ PublishRelease \/ ExpireCache \/ Terminate
  BY <1>12 DEF Client, PublishRelease, ExpireCache, Terminate, Guarded
<1>13. CASE UNCHANGED vars
  BY <1>13 DEF vars
<1>14. QED
  BY <1>2, <1>3, <1>4, <1>5, <1>6, <1>7, <1>8, <1>9, <1>10, <1>11, <1>12, <1>13 DEF Next, Oneshot

\* The two invariants are inductive together.
LEMMA TypeStep == TypeOK /\ ShellOK /\ [Next]_vars => TypeOK' /\ ShellOK'
<1> SUFFICES ASSUME TypeOK, ShellOK, [Next]_vars PROVE TypeOK'
  BY ShellStep
<1>1. CASE UNCHANGED vars
  BY <1>1 DEF vars, disk, locals, outside, TypeOK
<1>2. QED
  BY <1>1, TypeClient, TypeOneshot, TypeEnvironment DEF Next

\* Every variable of the client, the script and the disk keeps its type, with
\* any number of faults: the script never installs, links or restores a version
\* it has not read.
THEOREM TypeCorrect == Spec => [](TypeOK /\ ShellOK)
  BY TypeInit, TypeStep, PTL DEF Spec

-----------------------------------------------------------------------------
(* No unverified binary is ever active.                                     *)

\* The previous target was the active release, and a release is only made the
\* active one after its binary is complete.
ReleaseOK ==
  /\ RunningIsVerified
  /\ previousTarget # None => releases[previousTarget] = "complete"
  /\ pc \in Changing \ {"release", "write"} => releases[version] = "complete"

\* The bootstrap release is complete.
LEMMA ReleaseInit == Init => ReleaseOK
  BY ConstantsAssumption DEF Init, ReleaseOK, RunningIsVerified, Versions, None, Changing

\* Only a release that was written to its end, or compared with the expected
\* checksum, gets as far as the `current' link.
LEMMA ReleaseStep ==
  TypeOK /\ ShellOK /\ ReleaseOK /\ [Next]_vars => ReleaseOK'
<1> SUFFICES ASSUME TypeOK, ShellOK, ReleaseOK, [Next]_vars PROVE ReleaseOK'
  OBVIOUS
<1> USE DEF ReleaseOK, RunningIsVerified, Changing, disk, locals, outside, Goto, FailUpdate
<1>1. ASSUME NEW from \in Pcs, NEW to, NEW state, from # "write",
             to \in Changing \ {"release", "write"} => from \in Changing \ {"release", "write"},
             WriteStatus(from, state, to)
      PROVE  ReleaseOK'
  BY <1>1 DEF WriteStatus
<1>2. CASE WriteDownloading \/ WriteVerifying \/ WriteInstalling \/ WriteRestarting \/ WriteSucceeded
  BY <1>1, <1>2 DEF WriteDownloading, WriteVerifying, WriteInstalling, WriteRestarting,
                    WriteSucceeded, Pcs
<1>3. CASE Download \/ Verify \/ Reload \/ HealthCheck
  BY <1>3 DEF Download, Verify, Reload, HealthCheck, Command
<1>4. CASE StartUnit \/ ReadVersion \/ CheckConfig \/ WriteFailed
  BY <1>4 DEF StartUnit, ReadVersion, CheckConfig, WriteFailed
<1>5. CASE Prepare
  BY <1>5 DEF Prepare
<1>6. CASE CheckRelease
  BY <1>6 DEF CheckRelease, TypeOK, ShellOK
<1>7. CASE WriteRelease
  BY <1>7 DEF WriteRelease, TypeOK, ShellOK
<1>8. CASE BackUp
  BY <1>8 DEF BackUp
<1>9. CASE DeployFile \/ RollBackFile
  BY <1>9 DEF DeployFile, RollBackFile, NextFile
<1>10. CASE SwitchCurrent \/ SwitchBinary
  BY <1>10 DEF SwitchCurrent, SwitchBinary
<1>11. CASE RestartService \/ RollBackRestart
  BY <1>11, TypeStarts DEF RestartService, RollBackRestart
<1>12. CASE RollBackLinks
  BY <1>12 DEF RollBackLinks, ShellOK, Versions, None
<1>13. CASE Cleanup \/ CutShort \/ PowerLoss
  BY <1>13, TypeStarts DEF Cleanup, CutShort, PowerLoss, ShellGone
<1>14. CASE Client \/ PublishRelease \/ ExpireCache \/ Terminate
  BY <1>14 DEF Client, PublishRelease, ExpireCache, Terminate
<1>15. CASE UNCHANGED vars
  BY <1>15 DEF vars
<1>16. QED
  BY <1>2, <1>3, <1>4, <1>5, <1>6, <1>7, <1>8, <1>9, <1>10, <1>11, <1>12, <1>13, <1>14, <1>15
     DEF Next, Oneshot

\* The binary the service is started from was written to its end, after any
\* sequence of failed commands, stops and power losses: the checksum comparison
\* of an existing release (lines 161-166) is what the induction rests on.
THEOREM ActiveReleaseVerified == Spec => []RunningIsVerified
<1>1. ReleaseOK => RunningIsVerified
  BY DEF ReleaseOK
<1>2. QED
  BY <1>1, TypeInit, TypeStep, ReleaseInit, ReleaseStep, PTL DEF Spec

-----------------------------------------------------------------------------
(* "succeeded" is true.                                                     *)

\* The commands after "downloading" was written.
Working == {"download", "verifying", "verify", "installing", "prepare"} \cup Changing

\* The commands before the first change, and those of a rollback.
Quiet == {"idle", "read", "config", "downloading", "download", "verifying", "verify",
          "installing", "prepare", "release", "write", "backup"}

\* How far the new version has got when a command is about to run, and that the
\* status file says "succeeded" only while nothing of the next update was done.
ProgressOK ==
  /\ status.state = "succeeded" =>
       /\ current = status.version
       /\ \A f \in Files : deployment[f] = status.version
       /\ running \in {status.version, None}
       /\ pc \notin Working
       /\ pc # "cleanup" => deploymentChanged = "false" /\ switched = "false"
  /\ pc \in Quiet => deploymentChanged = "false" /\ switched = "false"
  /\ pc = "deploy" => \A f \in Files : f < cursor => deployment[f] = version
  /\ pc \in {"reload", "switch", "activate", "restarting", "restart", "health", "succeed"} =>
       \A f \in Files : deployment[f] = version
  /\ pc \in {"activate", "restarting", "restart", "health", "succeed"} => current = version
  /\ pc = "succeed" => running = version

\* Nothing has been installed yet.
LEMMA ProgressInit == Init => ProgressOK
  BY DEF Init, ProgressOK, Working, Changing, Quiet

\* Each command that succeeded left its effect, until the status is written.
LEMMA ProgressStep ==
  TypeOK /\ ShellOK /\ ProgressOK /\ [Next]_vars => ProgressOK'
<1> SUFFICES ASSUME TypeOK, ShellOK, ProgressOK, [Next]_vars PROVE ProgressOK'
  OBVIOUS
<1> USE DEF ProgressOK, Working, Changing, Quiet, disk, locals, outside, Goto, FailUpdate
<1>1. CASE WriteDownloading \/ WriteVerifying \/ WriteInstalling \/ WriteRestarting
  BY <1>1 DEF WriteDownloading, WriteVerifying, WriteInstalling, WriteRestarting, WriteStatus
<1>2. CASE WriteSucceeded
  BY <1>2 DEF WriteSucceeded, WriteStatus
<1>3. CASE Download \/ Verify \/ Reload \/ HealthCheck
  BY <1>3 DEF Download, Verify, Reload, HealthCheck, Command
<1>4. CASE StartUnit \/ ReadVersion \/ CheckConfig \/ WriteFailed
  BY <1>4 DEF StartUnit, ReadVersion, CheckConfig, WriteFailed
<1>5. CASE Prepare
  BY <1>5 DEF Prepare
<1>6. CASE CheckRelease \/ WriteRelease
  BY <1>6 DEF CheckRelease, WriteRelease
<1>7. CASE BackUp
  BY <1>7 DEF BackUp, Files
<1>8. CASE DeployFile
  <2>1. ASSUME workDir = "present",
               deployment' = [deployment EXCEPT ![cursor] = version],
               NextFile("reload")
        PROVE  ProgressOK'
    BY <1>8, <2>1, ConstantsAssumption DEF DeployFile, NextFile, TypeOK, Files
  <2>2. QED
    BY <1>8, <2>1 DEF DeployFile
<1>9. CASE SwitchCurrent \/ SwitchBinary
  BY <1>9 DEF SwitchCurrent, SwitchBinary
<1>10. CASE RestartService \/ RollBackRestart
  BY <1>10, TypeStarts DEF RestartService, RollBackRestart
<1>11. CASE RollBackFile
  BY <1>11 DEF RollBackFile, NextFile
<1>12. CASE RollBackLinks
  BY <1>12 DEF RollBackLinks
<1>13. CASE Cleanup \/ CutShort
  BY <1>13 DEF Cleanup, CutShort, ShellGone
<1>14. CASE Client \/ PublishRelease \/ ExpireCache
  BY <1>14 DEF Client, PublishRelease, ExpireCache
<1>15. ASSUME deployment' \in Interrupted, status.state = "succeeded" PROVE UNCHANGED deployment
  BY <1>15 DEF Interrupted, HalfRestored
<1>16. CASE Terminate
  BY <1>15, <1>16 DEF Terminate, Guarded, Pcs
<1>17. CASE PowerLoss
  BY <1>15, <1>17, TypeStarts DEF PowerLoss, ShellGone
<1>18. CASE UNCHANGED vars
  BY <1>18 DEF vars
<1>19. QED
  BY <1>1, <1>2, <1>3, <1>4, <1>5, <1>6, <1>7, <1>8, <1>9, <1>10, <1>11, <1>12, <1>13, <1>14,
     <1>16, <1>17, <1>18 DEF Next, Oneshot

\* A "succeeded" status tells the truth about the active release, the deployment
\* files and the running service, whatever faults came before it: every command
\* that installs something is guarded by fail_update, and the status is
\* overwritten before the next update changes anything.
THEOREM SuccessIsTrue == Spec => []SucceededIsInstalled
<1>1. ProgressOK => SucceededIsInstalled
  BY DEF ProgressOK, SucceededIsInstalled
<1>2. QED
  BY <1>1, TypeInit, TypeStep, ProgressInit, ProgressStep, PTL DEF Spec

-----------------------------------------------------------------------------
(* A script that was cut short.                                             *)

\* A shell that reads such a script is known to, until it is gone.
CutOK ==
  /\ pc = "idle" => script = "whole"
  /\ script = "cut" => faults.lossy = "true" /\ faults.cut = "true"

\* The bootstrap installer leaves a whole script, and no shell runs.
LEMMA CutInit == Init => CutOK
  BY DEF Init, CutOK

\* It is never forgotten that a script was cut short, and as long as its shell
\* runs, that the update it serves is lost.
LEMMA CutStep ==
  ASSUME TypeOK, CutOK, [Next]_vars
  PROVE  CutOK' /\ (faults'.cut = "false" => faults.cut = "false")
<1>1. ASSUME NEW kind, Fault(kind)
      PROVE  /\ faults'.cut = faults.cut
             /\ faults.lossy = "true" => faults'.lossy = "true"
  BY <1>1 DEF Fault
<1> USE DEF CutOK, disk, locals, outside, Goto, FailUpdate
<1>2. CASE StartUnit
  BY <1>2 DEF StartUnit, TypeOK
<1>3. CASE Cleanup \/ CutShort \/ PowerLoss
  BY <1>1, <1>3 DEF Cleanup, CutShort, PowerLoss, ShellGone
<1>4. CASE Client
  BY <1>1, <1>4 DEF Client, ReadPersistedStatus, StatRequest, FetchRelease, LinkRequest, TypeOK
<1>5. CASE DeployFile \/ RollBackFile
  BY <1>1, <1>5 DEF DeployFile, RollBackFile, NextFile
<1>6. CASE Download \/ Verify \/ Reload \/ HealthCheck \/ WriteDownloading \/ WriteVerifying
           \/ WriteInstalling \/ WriteRestarting \/ WriteSucceeded
  BY <1>1, <1>6 DEF Download, Verify, Reload, HealthCheck, Command, WriteDownloading, WriteVerifying,
                    WriteInstalling, WriteRestarting, WriteSucceeded, WriteStatus
<1>7. CASE ReadVersion \/ CheckConfig \/ Prepare \/ CheckRelease \/ WriteRelease \/ BackUp
  BY <1>1, <1>7 DEF ReadVersion, CheckConfig, Prepare, CheckRelease, WriteRelease, BackUp
<1>8. CASE SwitchCurrent \/ SwitchBinary \/ RestartService \/ RollBackLinks \/ RollBackRestart
           \/ WriteFailed
  BY <1>1, <1>8 DEF SwitchCurrent, SwitchBinary, RestartService, RollBackLinks, RollBackRestart,
                    WriteFailed
<1>9. CASE PublishRelease \/ ExpireCache \/ Terminate \/ UNCHANGED vars
  BY <1>1, <1>9 DEF PublishRelease, ExpireCache, Terminate, vars
<1>10. QED
  BY <1>2, <1>3, <1>4, <1>5, <1>6, <1>7, <1>8, <1>9 DEF Next, Oneshot

-----------------------------------------------------------------------------
(* "failed" means rolled back, if only guarded commands and status writes   *)
(* failed since the request.                                                *)

PriorFiles   == \A f \in Files : deployment[f] = prior.deployment[f]
PriorCurrent == current = prior.current
CanRestoreCurrent ==
  \/ switched = "false" /\ PriorCurrent
  \/ switched = "true" /\ previousTarget = prior.current

\* What is left of the installation the request found, and where the rollback
\* will find the rest.
RollbackOK ==
  /\ pc # "idle" => request # None
  /\ workDir = "absent" => pc \in {"idle", "read", "config", "cleanup", "rollbackFiles",
                                   "rollbackLinks", "rollbackRestart", "failed"}
  /\ pc \in Quiet /\ request # None => PriorFiles /\ PriorCurrent
  /\ pc \in Quiet => deploymentChanged = "false" /\ switched = "false"
  /\ pc \in Changing => previousTarget = prior.current
  /\ pc \in {"deploy", "reload", "switch"} => PriorCurrent
  /\ pc \in {"deploy", "reload", "switch", "activate"} => switched = "false"
  /\ pc \in {"restarting", "restart", "health", "succeed"} => switched = "true"
  /\ pc \in Changing \ Quiet => deploymentChanged = "true"
  /\ deploymentChanged = "true" => \A f \in Files : backup[f] = prior.deployment[f]
  /\ pc = "rollbackFiles" =>
       /\ CanRestoreCurrent
       /\ deploymentChanged = "false" => PriorFiles
       /\ \A f \in Files : f < cursor => deployment[f] = prior.deployment[f]
  /\ pc = "rollbackLinks" => PriorFiles /\ CanRestoreCurrent
  /\ pc \in {"rollbackRestart", "failed"} => PriorFiles /\ PriorCurrent
  /\ pc = "cleanup" => (PriorFiles /\ PriorCurrent) \/ status.state # "failed"
  /\ AtRest /\ status.state = "failed" => PriorFiles /\ PriorCurrent

\* ... unless a fault of LossyKinds has hit this update.
CleanOK == faults.lossy = "false" => RollbackOK

\* Nothing has been changed yet.
LEMMA RollbackInit == Init => CleanOK
  BY DEF Init, CleanOK, RollbackOK, Changing, Quiet, AtRest

\* A fault that lost something is only forgotten with the next request, and only
\* once the shell it hit is gone.
LEMMA LossyStays ==
  TypeOK /\ [Next]_vars /\ faults'.lossy = "false" =>
    \/ faults.lossy = "false"
    \/ /\ pc = "idle" /\ prior' = Installed
       /\ UNCHANGED <<disk, locals, status, pc, cursor>>
<1> SUFFICES ASSUME TypeOK, [Next]_vars, faults'.lossy = "false", faults.lossy = "true"
             PROVE  /\ pc = "idle" /\ prior' = Installed
                    /\ UNCHANGED <<disk, locals, status, pc, cursor>>
  BY DEF TypeOK
<1>1. faults' # faults
  OBVIOUS
<1>2. ASSUME NEW kind PROVE ~Fault(kind)
  BY DEF Fault
<1>3. ~StartUnit
  BY DEF StartUnit, TypeOK
<1>4. ~Oneshot
  BY <1>1, <1>2, <1>3
     DEF Oneshot, Goto, FailUpdate, Command, WriteStatus, ReadVersion, CheckConfig,
         WriteDownloading, Download, WriteVerifying, Verify, WriteInstalling, Prepare,
         CheckRelease, WriteRelease, BackUp, DeployFile, Reload, SwitchCurrent, SwitchBinary,
         WriteRestarting, RestartService, HealthCheck, WriteSucceeded, RollBackFile,
         RollBackLinks, RollBackRestart, WriteFailed, Cleanup, CutShort
<1>5. ~(PublishRelease \/ ExpireCache \/ Terminate \/ PowerLoss \/ UNCHANGED vars)
  BY <1>1, <1>2 DEF PublishRelease, ExpireCache, Terminate, PowerLoss, vars
<1>6. Client
  BY <1>4, <1>5 DEF Next
<1>7. PICK h \in Handlers : LinkRequest(h)
  BY <1>1, <1>6 DEF Client, ReadPersistedStatus, StatRequest, FetchRelease
<1>8. faults' = [faults EXCEPT !.lossy = IF pc = "idle" THEN "false" ELSE @] /\ prior' = Installed
  BY <1>1, <1>2, <1>7 DEF LinkRequest
<1>9. pc = "idle"
  BY <1>8 DEF TypeOK
<1>10. QED
  BY <1>6, <1>8, <1>9 DEF Client

\* What has been changed since the request is always what rollback() undoes.
LEMMA RollbackStep ==
  TypeOK /\ ShellOK /\ ProgressOK /\ CutOK /\ CleanOK /\ [Next]_vars => CleanOK'
<1> SUFFICES ASSUME TypeOK, ShellOK, ProgressOK, CutOK, CleanOK, [Next]_vars,
                    faults'.lossy = "false"
             PROVE  RollbackOK'
  BY DEF CleanOK
<1>0. CASE faults.lossy # "false"
  <2>1. pc = "idle" /\ prior' = Installed /\ UNCHANGED <<disk, locals, status, pc, cursor>>
    BY <1>0, LossyStays
  <2>2. deploymentChanged = "false" /\ switched = "false"
    BY <2>1 DEF ProgressOK, Quiet
  <2>3. PriorFiles' /\ PriorCurrent'
    BY <2>1 DEF PriorFiles, PriorCurrent, Installed, disk
  <2>4. QED
    BY <2>1, <2>2, <2>3 DEF RollbackOK, Changing, Quiet, disk, locals
<1> SUFFICES ASSUME RollbackOK, script = "whole" PROVE RollbackOK'
  BY <1>0 DEF CleanOK, CutOK, TypeOK
<1>a. ASSUME NEW kind \in LossyKinds PROVE ~Fault(kind)
  BY DEF Fault
<1> USE DEF RollbackOK, PriorFiles, PriorCurrent, CanRestoreCurrent, AtRest, Changing, Quiet,
            disk, locals, outside, Goto, FailUpdate
<1>1. CASE WriteDownloading \/ WriteVerifying \/ WriteInstalling
  BY <1>1 DEF WriteDownloading, WriteVerifying, WriteInstalling, WriteStatus, Files
<1>2. CASE WriteRestarting \/ WriteSucceeded
  BY <1>2 DEF WriteRestarting, WriteSucceeded, WriteStatus, Files
<1>3. CASE Download \/ Verify \/ Reload \/ HealthCheck
  BY <1>3 DEF Download, Verify, Reload, HealthCheck, Command, Files
<1>4. CASE StartUnit \/ ReadVersion \/ CheckConfig
  BY <1>4 DEF StartUnit, ReadVersion, CheckConfig, Files
<1>5. CASE Prepare
  BY <1>5 DEF Prepare, Files
<1>6. CASE CheckRelease \/ WriteRelease
  BY <1>6 DEF CheckRelease, WriteRelease, Files
<1>7. CASE BackUp
  BY <1>7 DEF BackUp, Files
<1>8. CASE DeployFile
  BY <1>8 DEF DeployFile, NextFile, Files
<1>9. CASE SwitchCurrent
  BY <1>9 DEF SwitchCurrent, Files
<1>10. CASE SwitchBinary
  BY <1>a, <1>10 DEF SwitchBinary, LossyKinds
<1>11. CASE RestartService
  BY <1>11 DEF RestartService, Files
<1>12. CASE RollBackFile
  <2>1. Restored(cursor) = IF backup[cursor] = NoBackup THEN deployment[cursor] ELSE backup[cursor]
    BY DEF Restored
  <2>2. prior.deployment[cursor] # NoBackup
    BY ConstantsAssumption DEF TypeOK, NoBackup, Absent, Partial, Versions
  <2>3. deploymentChanged = "true" => Restored(cursor) = prior.deployment[cursor]
    BY <2>1, <2>2 DEF TypeOK
  <2>4. QED
    BY <1>a, <1>12, <2>3, ConstantsAssumption
       DEF RollBackFile, NextFile, TypeOK, Files, LossyKinds
<1>13. CASE RollBackLinks
  BY <1>a, <1>13 DEF RollBackLinks, LossyKinds
<1>14. CASE RollBackRestart \/ WriteFailed
  BY <1>14 DEF RollBackRestart, WriteFailed
<1>15. CASE Cleanup \/ CutShort
  BY <1>15 DEF Cleanup, CutShort, ShellGone
<1>16. CASE Client
  BY <1>16 DEF Client, ReadPersistedStatus, StatRequest, FetchRelease, LinkRequest, Installed
<1>17. CASE PublishRelease \/ ExpireCache
  BY <1>17 DEF PublishRelease, ExpireCache
<1>18. CASE Terminate \/ PowerLoss
  BY <1>a, <1>18 DEF Terminate, PowerLoss, LossyKinds
<1>19. CASE UNCHANGED vars
  BY <1>19 DEF vars
<1>20. QED
  BY <1>1, <1>2, <1>3, <1>4, <1>5, <1>6, <1>7, <1>8, <1>9, <1>10, <1>11, <1>12, <1>13, <1>14,
     <1>15, <1>16, <1>17, <1>18, <1>19 DEF Next, Oneshot

\* As long as neither the bin link (lines 208-209) nor a command of rollback()
\* has failed since the request, and the updater was not stopped and did not lose
\* power, a "failed" status means that the release link and every deployment file
\* are those the request found, whichever of the other commands failed and
\* whatever had happened to earlier updates.
THEOREM FailureIsRolledBack == Spec => []CleanFailureRestores
<1>1. TypeOK /\ CleanOK => CleanFailureRestores
  <2> SUFFICES ASSUME TypeOK, RollbackOK, AtRest, status.state = "failed"
               PROVE  Installed = prior
    BY DEF CleanOK, CleanFailureRestores, FailedRestores
  <2>1. PriorFiles /\ PriorCurrent
    BY DEF RollbackOK
  <2>2. deployment = prior.deployment
    BY <2>1 DEF PriorFiles, TypeOK
  <2>3. prior = [current |-> prior.current, deployment |-> prior.deployment]
    BY DEF TypeOK
  <2>4. QED
    BY <2>1, <2>2, <2>3 DEF PriorCurrent, Installed
<1>2. QED
  BY <1>1, TypeInit, TypeStep, ProgressInit, ProgressStep, CutInit, CutStep, RollbackInit,
     RollbackStep, PTL DEF Spec

-----------------------------------------------------------------------------
(* Requests.                                                                *)

\* os.Link never writes over a request: once published it stays as it is until
\* the EXIT or TERM trap removes it, with any number of handlers.
THEOREM RequestIsKept == Spec => RequestNotReplaced
<1> DEFINE Kept == request # None => request' \in {request, None}
<1>1. ASSUME Oneshot PROVE Kept
  <2>1. CASE Cleanup
    BY <2>1 DEF Cleanup
  <2>2. CASE ~Cleanup
    BY <1>1, <2>2
       DEF Oneshot, Command, WriteStatus, StartUnit, ReadVersion, CheckConfig, WriteDownloading,
           Download, WriteVerifying, Verify, WriteInstalling, Prepare, CheckRelease, WriteRelease,
           BackUp, DeployFile, Reload, SwitchCurrent, SwitchBinary, WriteRestarting,
           RestartService, HealthCheck, WriteSucceeded, RollBackFile, RollBackLinks,
           RollBackRestart, WriteFailed, CutShort, outside
  <2>3. QED
    BY <2>1, <2>2
<1>2. ASSUME Client PROVE Kept
  BY <1>2 DEF Client, ReadPersistedStatus, StatRequest, FetchRelease, LinkRequest
<1>3. ASSUME PublishRelease \/ ExpireCache \/ Terminate \/ PowerLoss PROVE Kept
  BY <1>3 DEF PublishRelease, ExpireCache, Terminate, PowerLoss
<1>4. [Next]_vars => [Kept]_vars
  BY <1>1, <1>2, <1>3 DEF Next
<1>5. QED
  BY <1>4, PTL DEF Spec, RequestNotReplaced

\* A running oneshot still has its request, and nobody removes its downloads.
\* Both take a TERM trap to break.
ServingOK ==
  /\ pc # "idle" => request # None
  /\ pc \in {"downloading", "download", "verifying", "verify", "installing", "prepare"} =>
       workDir = "present"

\* The updater is at rest, and its EXIT trap runs, only under a final status.
SettledOK ==
  /\ pc = "cleanup" /\ faults.cut = "false" => ~isActiveState(status.state)
  /\ RestIsSettled

\* Nothing has been requested yet.
LEMMA ServingInit == Init => ServingOK /\ SettledOK
  BY DEF Init, ServingOK, SettledOK, RestIsSettled, AtRest, isActiveState, ActiveStates

\* Without a stop of the unit the request is removed by the EXIT trap only.
LEMMA ServingStep ==
  ASSUME "term" \notin Faults, TypeOK, ServingOK, [Next]_vars
  PROVE  ServingOK'
<1> USE DEF ServingOK, disk, locals, outside, Goto, FailUpdate
<1>1. CASE WriteDownloading \/ WriteVerifying \/ WriteInstalling \/ WriteRestarting \/ WriteSucceeded
  BY <1>1 DEF WriteDownloading, WriteVerifying, WriteInstalling, WriteRestarting, WriteSucceeded,
              WriteStatus
<1>2. CASE Download \/ Verify \/ Reload \/ HealthCheck
  BY <1>2 DEF Download, Verify, Reload, HealthCheck, Command
<1>3. CASE StartUnit \/ ReadVersion \/ CheckConfig
  BY <1>3 DEF StartUnit, ReadVersion, CheckConfig
<1>4. CASE Prepare \/ CheckRelease \/ WriteRelease \/ BackUp
  BY <1>4 DEF Prepare, CheckRelease, WriteRelease, BackUp
<1>5. CASE DeployFile \/ RollBackFile
  BY <1>5 DEF DeployFile, RollBackFile, NextFile
<1>6. CASE SwitchCurrent \/ SwitchBinary \/ RestartService
  BY <1>6 DEF SwitchCurrent, SwitchBinary, RestartService
<1>7. CASE RollBackLinks \/ RollBackRestart \/ WriteFailed
  BY <1>7 DEF RollBackLinks, RollBackRestart, WriteFailed
<1>8. CASE Cleanup \/ CutShort \/ PowerLoss
  BY <1>8 DEF Cleanup, CutShort, PowerLoss, ShellGone
<1>9. CASE Client
  BY <1>9 DEF Client, ReadPersistedStatus, StatRequest, FetchRelease, LinkRequest
<1>10. CASE PublishRelease \/ ExpireCache \/ UNCHANGED vars
  BY <1>10 DEF PublishRelease, ExpireCache, vars
<1>11. CASE Terminate
  BY <1>11 DEF Terminate, Fault, CanFault
<1>12. QED
  BY <1>1, <1>2, <1>3, <1>4, <1>5, <1>6, <1>7, <1>8, <1>9, <1>10, <1>11 DEF Next, Oneshot

\* The way to the EXIT trap leads over a final status.
LEMMA SettledStep ==
  ASSUME "term" \notin Faults, "status" \notin Faults, TypeOK, ServingOK, CutOK, SettledOK,
         [Next]_vars
  PROVE  SettledOK'
<1> SUFFICES ASSUME faults.cut = "false", script = "whole" PROVE SettledOK'
  BY CutStep DEF SettledOK, RestIsSettled, CutOK, TypeOK
<1> USE DEF SettledOK, RestIsSettled, AtRest, isActiveState, ActiveStates, ServingOK,
            disk, locals, outside, Goto, FailUpdate
<1>a. ~Fault("status") /\ ~Fault("term")
  BY DEF Fault, CanFault
<1>1. CASE WriteDownloading \/ WriteVerifying \/ WriteInstalling \/ WriteRestarting \/ WriteSucceeded
  BY <1>a, <1>1 DEF WriteDownloading, WriteVerifying, WriteInstalling, WriteRestarting,
                    WriteSucceeded, WriteStatus
<1>2. CASE Download \/ Verify \/ Reload \/ HealthCheck
  BY <1>2 DEF Download, Verify, Reload, HealthCheck, Command
<1>3. CASE StartUnit \/ ReadVersion \/ CheckConfig
  BY <1>3 DEF StartUnit, ReadVersion, CheckConfig
<1>4. CASE Prepare \/ CheckRelease \/ WriteRelease \/ BackUp
  BY <1>4 DEF Prepare, CheckRelease, WriteRelease, BackUp
<1>5. CASE DeployFile \/ RollBackFile
  BY <1>5 DEF DeployFile, RollBackFile, NextFile
<1>6. CASE SwitchCurrent \/ SwitchBinary \/ RestartService
  BY <1>6 DEF SwitchCurrent, SwitchBinary, RestartService
<1>7. CASE RollBackLinks \/ RollBackRestart
  BY <1>7 DEF RollBackLinks, RollBackRestart
<1>8. CASE WriteFailed
  BY <1>a, <1>8 DEF WriteFailed
<1>9. CASE Cleanup \/ CutShort \/ PowerLoss
  BY <1>9 DEF Cleanup, CutShort, PowerLoss, ShellGone
<1>10. CASE Client
  BY <1>10 DEF Client, ReadPersistedStatus, StatRequest, FetchRelease, LinkRequest
<1>11. CASE PublishRelease \/ ExpireCache \/ UNCHANGED vars
  BY <1>11 DEF PublishRelease, ExpireCache, vars
<1>12. CASE Terminate
  BY <1>a, <1>12 DEF Terminate
<1>13. QED
  BY <1>1, <1>2, <1>3, <1>4, <1>5, <1>6, <1>7, <1>8, <1>9, <1>10, <1>11, <1>12 DEF Next, Oneshot

\* As long as the unit is not stopped and its status file can be written, the
\* updater is never at rest under a status that Client.Request takes for an
\* installation under way: any other command may fail, a rollback too, and power
\* may be lost anywhere, unless that has cut the updater script short and it was run.
THEOREM RestHasFinalStatus ==
  ASSUME "term" \notin Faults, "status" \notin Faults
  PROVE  Spec => []RestIsSettled
<1>1. ServingOK /\ TypeOK /\ [Next]_vars => ServingOK'
  BY ServingStep
<1>2. ServingOK /\ CutOK /\ SettledOK /\ TypeOK /\ [Next]_vars => SettledOK'
  BY SettledStep
<1>3. SettledOK => RestIsSettled
  BY DEF SettledOK
<1>4. QED
  BY <1>1, <1>2, <1>3, ServingInit, TypeInit, TypeStep, CutInit, CutStep, PTL DEF Spec

-----------------------------------------------------------------------------
(* The active release only goes up.                                         *)

\* The commands between the switch of `current' and the restart that follows it,
\* and the rollback up to its own restart: the service may run another release
\* than the active one.
Switching == {"activate", "restarting", "restart", "rollbackFiles", "rollbackLinks", "rollbackRestart"}

\* What a handler has decided on is newer than what runs, which is what is
\* active unless a oneshot is at work; so is a request, and what its rollback
\* would restore.
OrderOK ==
  /\ pc \notin Switching => running \in {current, None}
  /\ \A h \in Handlers :
       /\ handler[h].pc # "idle" => running # None
       /\ handler[h].pc = "link" => handler[h].target > running
  /\ request # None => current <= request
  /\ pc \notin {"idle", "read", "cleanup"} => version = request
  /\ pc \in Changing => previousTarget <= request
  /\ switched = "true" => pc # "idle" /\ previousTarget <= request

\* ... unless a script that was cut short has been run.
WholeOK == faults.cut = "false" => OrderOK

\* The bootstrap release runs and is active.
LEMMA OrderInit == Init => WholeOK
  BY DEF Init, WholeOK, OrderOK, IdleHandler, Switching, Changing

\* A request is published only while nothing is installed, so that it is newer
\* than the active release and stays so until it is served.
LEMMA OrderClient ==
  ASSUME TypeOK, ServingOK, OrderOK, Client
  PROVE  OrderOK'
<1>1. PICK h \in Handlers :
        ReadPersistedStatus(h) \/ StatRequest(h) \/ FetchRelease(h) \/ LinkRequest(h)
  BY DEF Client
<1> USE DEF OrderOK, Switching, Changing, disk, locals
<1>2. CASE ReadPersistedStatus(h)
  BY <1>2 DEF Client, ReadPersistedStatus, TypeOK
<1>3. CASE StatRequest(h)
  BY <1>3 DEF Client, StatRequest, TypeOK, HandlerType
<1>4. CASE FetchRelease(h)
  <2>1. running # None
    BY <1>4 DEF FetchRelease
  <2>2. PICK found :
          \/ handler' = [handler EXCEPT ![h] = IdleHandler]
          \/ /\ found > running
             /\ handler' = [handler EXCEPT ![h] = [@ EXCEPT !.pc = "link", !.target = found]]
    BY <1>4 DEF FetchRelease, newerVersion
  <2>3. \A g \in Handlers : /\ handler'[g].pc # "idle" => running # None
                            /\ handler'[g].pc = "link" => handler'[g].target > running
    <3>1. CASE handler' = [handler EXCEPT ![h] = IdleHandler]
      BY <3>1 DEF TypeOK, IdleHandler
    <3>2. CASE /\ found > running
               /\ handler' = [handler EXCEPT ![h] = [@ EXCEPT !.pc = "link", !.target = found]]
      <4>1. handler'[h].target = found /\ \A g \in Handlers \ {h} : handler'[g] = handler[g]
        BY <3>2 DEF TypeOK, HandlerType
      <4>2. QED
        BY <2>1, <3>2, <4>1
    <3>3. QED
      BY <2>2, <3>1, <3>2
  <2>4. QED
    BY <1>4, <2>3 DEF Client, FetchRelease
<1>5. CASE LinkRequest(h)
  <2>1. \A g \in Handlers : /\ handler'[g].pc # "idle" => running # None
                            /\ handler'[g].pc = "link" => handler'[g].target > running
    BY <1>5 DEF LinkRequest, TypeOK, IdleHandler
  <2>2. CASE request' = request
    BY <1>5, <2>1, <2>2 DEF Client
  <2>3. CASE request = None /\ request' = handler[h].target
    <3>1. pc = "idle"
      BY <2>3 DEF ServingOK
    <3>2. handler[h].target > current
      BY <1>5, <3>1 DEF LinkRequest
    <3>3. handler[h].target \in Int /\ current \in Int
      BY DEF TypeOK, HandlerType, Versions, None
    <3>4. QED
      BY <1>5, <2>1, <2>3, <3>1, <3>2, <3>3 DEF Client
  <2>4. QED
    BY <1>5, <2>2, <2>3 DEF LinkRequest
<1>6. QED
  BY <1>1, <1>2, <1>3, <1>4, <1>5

\* A oneshot installs what was requested, and its rollback what was active.
LEMMA OrderStep ==
  ASSUME "term" \notin Faults, "rollback" \notin Faults,
         TypeOK, ShellOK, ServingOK, CutOK, WholeOK, [Next]_vars
  PROVE  WholeOK'
<1> SUFFICES ASSUME OrderOK, script = "whole" PROVE OrderOK'
  BY CutStep DEF WholeOK, CutOK, TypeOK
<1>a. ~Fault("rollback") /\ ~Fault("term")
  BY DEF Fault, CanFault
<1>b. /\ current \in Int /\ request \in Int /\ version \in Int
      /\ previousTarget \in Int /\ running \in Int
  BY DEF TypeOK, Versions, None
<1> USE DEF OrderOK, ServingOK, Switching, Changing, disk, locals, outside, Goto, FailUpdate
<1>1. CASE WriteDownloading \/ WriteVerifying \/ WriteInstalling \/ WriteRestarting \/ WriteSucceeded
  BY <1>1 DEF WriteDownloading, WriteVerifying, WriteInstalling, WriteRestarting, WriteSucceeded,
              WriteStatus
<1>2. CASE Download \/ Verify \/ Reload \/ HealthCheck
  BY <1>2 DEF Download, Verify, Reload, HealthCheck, Command
<1>3. CASE StartUnit \/ ReadVersion \/ CheckConfig
  BY <1>3 DEF StartUnit, ReadVersion, CheckConfig
<1>4. CASE Prepare \/ CheckRelease \/ WriteRelease \/ BackUp
  BY <1>b, <1>4 DEF Prepare, CheckRelease, WriteRelease, BackUp
<1>5. CASE DeployFile \/ RollBackFile
  BY <1>a, <1>5 DEF DeployFile, RollBackFile, NextFile
<1>6. CASE SwitchCurrent \/ SwitchBinary
  BY <1>b, <1>6 DEF SwitchCurrent, SwitchBinary
<1>7. CASE RestartService
  BY <1>7 DEF RestartService, StopService, IdleHandler
<1>8. CASE RollBackLinks
  BY <1>a, <1>b, <1>8 DEF RollBackLinks
<1>9. CASE RollBackRestart
  BY <1>a, <1>9, TypeStarts DEF RollBackRestart, StopService, IdleHandler
<1>10. CASE WriteFailed
  BY <1>10 DEF WriteFailed
<1>11. CASE Cleanup \/ CutShort
  BY <1>11 DEF Cleanup, CutShort, ShellGone
<1>12. CASE PowerLoss
  BY <1>12, TypeStarts DEF PowerLoss, ShellGone, StopService, IdleHandler
<1>13. CASE Client
  BY <1>13, OrderClient
<1>14. CASE PublishRelease \/ ExpireCache \/ UNCHANGED vars
  BY <1>14 DEF PublishRelease, ExpireCache, vars
<1>15. CASE Terminate
  BY <1>a, <1>15 DEF Terminate
<1>16. QED
  BY <1>1, <1>2, <1>3, <1>4, <1>5, <1>6, <1>7, <1>8, <1>9, <1>10, <1>11, <1>12, <1>13, <1>14,
     <1>15 DEF Next, Oneshot

\* As long as the unit is not stopped and rollback() does not fail, an update
\* never lowers the active release, and only its own rollback does: a request
\* that was decided on before another update ran is not served after it, with
\* any number of handlers, stale release caches and power losses, as long as no
\* script that a power loss cut short has been run.
THEOREM UpdatesGoUp ==
  ASSUME "term" \notin Faults, "rollback" \notin Faults
  PROVE  Spec => NoDowngrade
<1> DEFINE Up == current' < current /\ faults.cut = "false" => pc = "rollbackLinks"
<1>1. ASSUME TypeOK, ShellOK, WholeOK, [Next]_vars PROVE Up
  <2> SUFFICES ASSUME current' # current, current' < current, OrderOK PROVE pc = "rollbackLinks"
    BY <1>1 DEF TypeOK, Versions, WholeOK
  <2>1. ~(SwitchCurrent /\ current' = version)
    BY <1>1 DEF SwitchCurrent, OrderOK, TypeOK, Versions, None, ShellOK
  <2>2. RollBackLinks
    BY <1>1, <2>1
       DEF Next, Oneshot, Client, Command, WriteStatus, StartUnit, ReadVersion, CheckConfig,
           WriteDownloading, Download, WriteVerifying, Verify, WriteInstalling, Prepare,
           CheckRelease, WriteRelease, BackUp, DeployFile, Reload, SwitchCurrent, SwitchBinary,
           WriteRestarting, RestartService, HealthCheck, WriteSucceeded, RollBackFile,
           RollBackRestart, WriteFailed, Cleanup, CutShort, PublishRelease, ExpireCache, Terminate,
           PowerLoss, vars, disk
  <2>3. QED
    BY <2>2 DEF RollBackLinks
<1>2. TypeOK /\ ShellOK /\ WholeOK /\ [Next]_vars => [Up]_vars
  BY <1>1
<1>3. ServingOK /\ TypeOK /\ [Next]_vars => ServingOK'
  BY ServingStep
<1>4. ServingOK /\ CutOK /\ WholeOK /\ TypeOK /\ ShellOK /\ [Next]_vars => WholeOK'
  BY OrderStep
<1>5. QED
  BY <1>2, <1>3, <1>4, ServingInit, OrderInit, TypeInit, TypeStep, CutInit, CutStep, PTL
     DEF Spec, NoDowngrade

=============================================================================
