------------------------------ MODULE Mavlink ------------------------------
(***************************************************************************)
(* MAVLink telemetry (internal/mavlink): PUT handlers that save a          *)
(* configuration and ask for a restart through a channel of capacity one,  *)
(* the Run loop that receives telemetry with the configuration it has      *)
(* read, and the watcher goroutine of each session that turns a token on   *)
(* the channel into the cancellation of its session. A watcher does not    *)
(* look at its own session's context: after a session that ended by itself *)
(* it stays behind and competes for the next tokens.                       *)
(***************************************************************************)
EXTENDS Naturals

CONSTANTS
  Configs,     \* [enabled : {"true", "false"}, target : Systems \cup {0}]
  Systems,     \* MAVLink system IDs, not 0
  Autopilots,  \* the systems whose heartbeats name an autopilot
  Handlers,    \* concurrent PUT /api/telemetry/config
  MaxUpdates,  \* bound: configurations saved in a behaviour
  Faults,      \* the kinds of fault that may happen, see FaultKinds
  MaxFaults    \* how many of them happen in a behaviour

\* "save": Store.Save fails, "init": node.Initialize fails (port in use),
\* "node": the node stops.
FaultKinds == {"save", "init", "node"}

ASSUME MavlinkAssumption ==
  /\ Systems \subseteq Nat \ {0}
  /\ Autopilots \subseteq Systems
  /\ Configs \subseteq [enabled : {"true", "false"}, target : Systems \cup {0}]
  /\ MaxUpdates \in Nat /\ MaxFaults \in Nat
  /\ Faults \subseteq FaultKinds

VARIABLES
  disk,       \* mavlink.json, and Store.config with it
  config,     \* Service.config
  handler,    \* Service.UpdateConfig in progress
  restart,    \* the channel: "empty" or "token"
  pc,         \* where Run is
  cfg,        \* the configuration Run works with
  cancelled,  \* sessionCtx: "true" once cancelled
  watcher,    \* the current session's watcher: "waiting", "done"
  leaked,     \* watchers of sessions that ended by themselves
  target,     \* targetSystem of the session
  requested,  \* streamsRequested
  snapshot,   \* Service.snapshot: enabled, config, system ID of the link
  updates,    \* configurations saved so far
  stolen,     \* history: tokens a leaked watcher has taken
  faults      \* faults so far

session == <<cancelled, watcher, leaked, target, requested>>
vars == <<disk, config, handler, restart, pc, cfg, session, snapshot, updates, stolen, faults>>

NoSystem == 0
ZeroConfig == [enabled |-> "false", target |-> 0]
IdleHandler == [pc |-> "idle"]

Init ==
  /\ config \in Configs
  /\ disk = config
  /\ handler = [h \in Handlers |-> IdleHandler]
  /\ restart = "empty"
  /\ pc = "read"
  /\ cfg = config
  /\ cancelled = "false"
  /\ watcher = "done"
  /\ leaked = 0
  /\ target = NoSystem
  /\ requested = "false"
  /\ snapshot = [enabled |-> "false", config |-> ZeroConfig, link |-> NoSystem]
  /\ updates = 0
  /\ stolen = 0
  /\ faults = 0

Fault(kind) == kind \in Faults /\ faults < MaxFaults /\ faults' = faults + 1

-----------------------------------------------------------------------------
(* Service.UpdateConfig: save, assign, signal.                              *)

\* Mutated form: the request is saved as it is, not merged into the current
\* configuration, and lacks the fields the browser left out.
Save_PartialConfig(h) ==
  /\ handler[h].pc = "idle"
  /\ updates < MaxUpdates
  /\ updates' = updates + 1
  /\ \E c \in Configs :
       /\ disk' = [enabled |-> c.enabled]
       /\ handler' = [handler EXCEPT ![h] = [pc |-> "assign", config |-> [enabled |-> c.enabled]]]
  /\ UNCHANGED <<config, restart, pc, cfg, session, snapshot, stolen, faults>>

Save(h) ==
  /\ handler[h].pc = "idle"
  /\ updates < MaxUpdates
  /\ updates' = updates + 1
  /\ \E c \in Configs :
       \/ /\ disk' = c
          /\ handler' = [handler EXCEPT ![h] = [pc |-> "assign", config |-> c]]
          /\ UNCHANGED faults
       \/ Fault("save") /\ UNCHANGED <<disk, handler>>
  /\ UNCHANGED <<config, restart, pc, cfg, session, snapshot, stolen>>

Assign(h) ==
  /\ handler[h].pc = "assign"
  /\ config' = handler[h].config
  /\ snapshot' = [snapshot EXCEPT !.enabled = handler[h].config.enabled,
                                  !.config = handler[h].config]
  /\ handler' = [handler EXCEPT ![h].pc = "signal"]
  /\ UNCHANGED <<disk, restart, pc, cfg, session, updates, stolen, faults>>

\* requestRestart: a token that is already there is enough.
RequestRestart(h) ==
  /\ handler[h].pc = "signal"
  /\ restart' = "token"
  /\ handler' = [handler EXCEPT ![h] = IdleHandler]
  /\ UNCHANGED <<disk, config, pc, cfg, session, snapshot, updates, stolen, faults>>

-----------------------------------------------------------------------------
(* Service.Run.                                                             *)

ReadConfig ==
  /\ pc = "read"
  /\ cfg' = config
  /\ pc' = IF config.enabled = "true" THEN "start" ELSE "disable"
  /\ UNCHANGED <<disk, config, handler, restart, session, snapshot, updates, stolen, faults>>

\* The snapshot is reset with the configuration read before the lock.
SetDisabledSnapshot ==
  /\ pc = "disable"
  /\ snapshot' = [enabled |-> "false", config |-> cfg, link |-> NoSystem]
  /\ pc' = "disabled"
  /\ UNCHANGED <<disk, config, handler, restart, cfg, session, updates, stolen, faults>>

\* Mutated form: after the wait the loop goes on with the configuration it has.
WakeUp_NoReload ==
  /\ pc = "disabled"
  /\ restart' \in {"empty", restart}
  /\ pc' = "disable"
  /\ UNCHANGED <<disk, config, handler, cfg, session, snapshot, updates, stolen, faults>>

\* A token, or one second, ends the wait.
WakeUp ==
  /\ pc = "disabled"
  /\ restart' \in {"empty", restart}
  /\ pc' = "read"
  /\ UNCHANGED <<disk, config, handler, cfg, session, snapshot, updates, stolen, faults>>

\* Mutated form: a new session begins by draining the channel.
StartSession_Drain ==
  /\ pc = "start"
  /\ pc' = "init"
  /\ restart' = "empty"
  /\ cancelled' = "false"
  /\ watcher' = "waiting"
  /\ target' = cfg.target
  /\ requested' = "false"
  /\ UNCHANGED <<disk, config, handler, cfg, leaked, snapshot, updates, stolen, faults>>

StartSession ==
  /\ pc = "start"
  /\ pc' = "init"
  /\ cancelled' = "false"
  /\ watcher' = "waiting"
  /\ target' = cfg.target
  /\ requested' = "false"
  /\ UNCHANGED <<disk, config, handler, restart, cfg, leaked, snapshot, updates, stolen, faults>>

\* The session is over: a watcher that still waits for a token stays behind.
EndSession ==
  /\ pc' = "backoff"
  /\ watcher' = "done"
  /\ leaked' = IF watcher = "waiting" THEN leaked + 1 ELSE leaked
  /\ UNCHANGED <<disk, config, handler, restart, cfg, cancelled, target, requested, snapshot, updates, stolen>>

Initialize ==
  /\ pc = "init"
  /\ \/ /\ snapshot' = [snapshot EXCEPT !.enabled = "true", !.config = cfg]
        /\ pc' = "session"
        /\ UNCHANGED <<disk, config, handler, restart, cfg, session, updates, stolen, faults>>
     \/ Fault("init") /\ EndSession

\* sessionCtx.Done, or the closed event channel of the node.
Leave ==
  /\ pc = "session"
  /\ \/ cancelled = "true" /\ EndSession /\ UNCHANGED faults
     \/ Fault("node") /\ EndSession

BackOff ==
  /\ pc = "backoff"
  /\ pc' = "read"
  /\ UNCHANGED <<disk, config, handler, restart, cfg, session, snapshot, updates, stolen, faults>>

\* Mutated form: the heartbeat of a ground station selects the target too.
Receive_AnyHeartbeat(system, heartbeat) ==
  /\ pc = "session"
  /\ \/ target # NoSystem /\ UNCHANGED target
     \/ target = NoSystem /\ heartbeat /\ target' = system
  /\ system = target'
  /\ requested' = IF heartbeat THEN "true" ELSE requested
  /\ snapshot' = [snapshot EXCEPT !.link = system]
  /\ UNCHANGED <<disk, config, handler, restart, pc, cfg, cancelled, watcher, leaked, updates, stolen, faults>>

\* A frame of another system, or of none before a target is known, is dropped;
\* the first heartbeat of the target requests the streams. Every accepted
\* message touches the link.
Receive(system, heartbeat) ==
  /\ pc = "session"
  /\ \/ target # NoSystem /\ UNCHANGED target
     \/ target = NoSystem /\ heartbeat /\ system \in Autopilots /\ target' = system
  /\ system = target'
  /\ requested' = IF heartbeat THEN "true" ELSE requested
  /\ snapshot' = [snapshot EXCEPT !.link = system]
  /\ UNCHANGED <<disk, config, handler, restart, pc, cfg, cancelled, watcher, leaked, updates, stolen, faults>>

\* The select of the current session's watcher.
Watch ==
  /\ watcher = "waiting"
  /\ restart = "token"
  /\ restart' = "empty"
  /\ watcher' = "done"
  /\ cancelled' = "true"
  /\ UNCHANGED <<disk, config, handler, pc, cfg, leaked, target, requested, snapshot, updates, stolen, faults>>

\* The select of a watcher whose session is long gone: it cancels nothing.
Steal ==
  /\ leaked > 0
  /\ restart = "token"
  /\ restart' = "empty"
  /\ leaked' = leaked - 1
  /\ stolen' = stolen + 1
  /\ UNCHANGED <<disk, config, handler, pc, cfg, cancelled, watcher, target, requested, snapshot, updates, faults>>

-----------------------------------------------------------------------------

Run == ReadConfig \/ SetDisabledSnapshot \/ WakeUp \/ StartSession \/ Initialize \/ BackOff

Next ==
  \/ \E h \in Handlers : Save(h) \/ Assign(h) \/ RequestRestart(h)
  \/ Run
  \/ Leave
  \/ \E system \in Systems, heartbeat \in BOOLEAN : Receive(system, heartbeat)
  \/ Watch
  \/ Steal

Spec == Init /\ [][Next]_vars

\* The goroutines run; a cancelled session is noticed although telemetry keeps
\* coming, as Go's select chooses among the ready cases at random.
Fairness ==
  /\ WF_vars(Run)
  /\ WF_vars(cancelled = "true" /\ Leave)
  /\ WF_vars(Watch \/ Steal)
  /\ \A h \in Handlers : WF_vars(Assign(h) \/ RequestRestart(h))

FairSpec == Spec /\ Fairness

-----------------------------------------------------------------------------
(* Properties.                                                              *)

Pcs == {"read", "disable", "disabled", "start", "init", "session", "backoff"}
HandlerType == {IdleHandler} \cup [pc : {"assign", "signal"}, config : Configs]

\* Every variable of the service, its Run loop and its watchers has its type.
TypeOK ==
  /\ disk \in Configs /\ config \in Configs /\ cfg \in Configs
  /\ handler \in [Handlers -> HandlerType]
  /\ restart \in {"empty", "token"}
  /\ pc \in Pcs
  /\ cancelled \in {"true", "false"}
  /\ watcher \in {"waiting", "done"}
  /\ leaked \in Nat
  /\ target \in Systems \cup {NoSystem}
  /\ requested \in {"true", "false"}
  /\ snapshot \in [enabled : {"true", "false"}, config : Configs \cup {ZeroConfig},
                  link : Systems \cup {NoSystem}]
  /\ updates \in 0 .. MaxUpdates
  /\ stolen \in Nat
  /\ faults \in 0 .. MaxFaults

InSession == pc \in {"start", "init", "session"}

\* A session never goes on with an old configuration unnoticed: a token is
\* there, is about to be sent, or has cancelled the session. Only a watcher that
\* an earlier session left behind can take that token away.
RestartPending ==
  InSession /\ cfg # config =>
    \/ restart = "token"
    \/ cancelled = "true"
    \/ \E h \in Handlers : handler[h].pc = "signal"
    \/ stolen > 0

\* Within a session the link belongs to one vehicle: the configured system, or
\* the first autopilot that was heard. Others never touch the snapshot.
OneVehicle ==
  [][pc = "session" /\ snapshot'.link # snapshot.link =>
       \/ pc' # pc
       \/ /\ snapshot'.link = target'
          /\ target # NoSystem => target' = target
          /\ cfg.target = NoSystem => target' \in Autopilots]_vars

\* A saved configuration is worked with, and shown, in the end, also when
\* sessions fail meanwhile, unless a watcher that one of these left behind has
\* taken a restart token away.
ConfigApplied ==
  [](cfg # config \/ snapshot.config # config =>
       <>((cfg = config /\ snapshot.config = config) \/ stolen > 0))

=============================================================================
