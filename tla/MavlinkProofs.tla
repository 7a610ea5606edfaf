--------------------------- MODULE MavlinkProofs ---------------------------
(***************************************************************************)
(* What holds of the telemetry service for any configurations, systems and *)
(* handlers, and for any number of updates, faults and leaked watchers.    *)
(***************************************************************************)
EXTENDS Mavlink, TLAPS

\* A watcher that belongs to the current session exists only while it lasts:
\* outside of it, a token is never taken for a cancellation.
WatcherOK == pc \notin {"init", "session"} => watcher = "done"

\* Before a session starts, its context is not there to be cancelled: what the
\* last session left in `cancelled' does not count as a pending restart.
StartPending ==
  pc = "start" /\ cfg # config =>
    \/ restart = "token"
    \/ \E h \in Handlers : handler[h].pc = "signal"
    \/ stolen > 0

\* A session without a configured system only ever follows an autopilot.
TargetOK ==
  pc \in {"init", "session"} =>
    IF cfg.target = NoSystem THEN target \in Autopilots \cup {NoSystem} ELSE target = cfg.target

\* The inductive invariant.
IInv ==
  /\ TypeOK
  /\ WatcherOK
  /\ StartPending
  /\ TargetOK
  /\ RestartPending

-----------------------------------------------------------------------------
(* Types.                                                                   *)

\* A stored configuration has its fields.
LEMMA ConfigFields ==
  ASSUME NEW c \in Configs
  PROVE  c.enabled \in {"true", "false"} /\ c.target \in Systems \cup {NoSystem}
  BY MavlinkAssumption DEF NoSystem

\* A handler past its save carries the configuration that it saved.
LEMMA HandlerFields ==
  ASSUME TypeOK, NEW h \in Handlers, handler[h].pc # "idle"
  PROVE  handler[h] \in [pc : {"assign", "signal"}, config : Configs]
  BY DEF TypeOK, HandlerType, IdleHandler

\* A fault is counted up to the bound.
LEMMA FaultType ==
  ASSUME TypeOK, NEW kind, Fault(kind)
  PROVE  faults' \in 0 .. MaxFaults
  BY MavlinkAssumption DEF Fault, TypeOK

\* The end of a session keeps the types of the variables it sets.
LEMMA EndSessionType ==
  ASSUME TypeOK, EndSession, faults' \in 0 .. MaxFaults
  PROVE  TypeOK'
  BY DEF EndSession, TypeOK, Pcs

\* The service starts with what it has read from its file.
LEMMA InitOK == Init => IInv
<1> SUFFICES ASSUME Init PROVE IInv
  OBVIOUS
<1>1. handler \in [Handlers -> HandlerType]
  BY DEF Init, HandlerType
<1>2. snapshot \in [enabled : {"true", "false"}, config : Configs \cup {ZeroConfig},
                    link : Systems \cup {NoSystem}]
  BY DEF Init
<1>3. TypeOK
  BY <1>1, <1>2, MavlinkAssumption DEF Init, TypeOK, Pcs, NoSystem
<1>4. QED
  BY <1>3 DEF Init, IInv, WatcherOK, StartPending, TargetOK, RestartPending, InSession

\* Every step of a handler, of Run, of a watcher and of the node keeps the types.
LEMMA TypeStep == ASSUME TypeOK, [Next]_vars PROVE TypeOK'
<1>1. ASSUME NEW h \in Handlers, Save(h) PROVE TypeOK'
  <2>1. updates' \in 0 .. MaxUpdates
    BY <1>1, MavlinkAssumption DEF Save, TypeOK
  <2>2. PICK c \in Configs :
          \/ /\ disk' = c
             /\ handler' = [handler EXCEPT ![h] = [pc |-> "assign", config |-> c]]
             /\ UNCHANGED faults
          \/ Fault("save") /\ UNCHANGED <<disk, handler>>
    BY <1>1 DEF Save
  <2>3. faults' \in 0 .. MaxFaults
    BY <2>2, FaultType DEF TypeOK
  <2>4. disk' \in Configs /\ handler' \in [Handlers -> HandlerType]
    BY <2>2 DEF TypeOK, HandlerType
  <2>5. QED
    BY <1>1, <2>1, <2>3, <2>4 DEF Save, session, TypeOK
<1>2. ASSUME NEW h \in Handlers, Assign(h) PROVE TypeOK'
  <2>1. handler[h] \in [pc : {"assign", "signal"}, config : Configs]
    BY <1>2, HandlerFields DEF Assign
  <2>2. handler[h].config.enabled \in {"true", "false"}
    BY <2>1, ConfigFields
  <2>3. handler' \in [Handlers -> HandlerType]
    BY <1>2, <2>1 DEF Assign, TypeOK, HandlerType
  <2>4. snapshot' \in [enabled : {"true", "false"}, config : Configs \cup {ZeroConfig},
                       link : Systems \cup {NoSystem}]
    BY <1>2, <2>1, <2>2 DEF Assign, TypeOK
  <2>5. QED
    BY <1>2, <2>1, <2>3, <2>4 DEF Assign, session, TypeOK
<1>3. ASSUME NEW h \in Handlers, RequestRestart(h) PROVE TypeOK'
  BY <1>3 DEF RequestRestart, session, TypeOK, HandlerType
<1>4. ASSUME Run PROVE TypeOK'
  <2>1. CASE ReadConfig
    BY <2>1 DEF ReadConfig, session, TypeOK, Pcs
  <2>2. CASE SetDisabledSnapshot
    BY <2>2 DEF SetDisabledSnapshot, session, TypeOK, Pcs
  <2>3. CASE WakeUp
    BY <2>3 DEF WakeUp, session, TypeOK, Pcs
  <2>4. CASE StartSession
    BY <2>4, ConfigFields DEF StartSession, TypeOK, Pcs
  <2>5. CASE Initialize
    <3>1. CASE Fault("init") /\ EndSession
      BY <3>1, FaultType, EndSessionType
    <3>2. CASE /\ snapshot' = [snapshot EXCEPT !.enabled = "true", !.config = cfg]
               /\ pc' = "session"
               /\ UNCHANGED <<disk, config, handler, restart, cfg, session, updates, stolen, faults>>
      BY <3>2 DEF session, TypeOK, Pcs
    <3>3. QED
      BY <2>5, <3>1, <3>2 DEF Initialize
  <2>6. CASE BackOff
    BY <2>6 DEF BackOff, session, TypeOK, Pcs
  <2>7. QED
    BY <1>4, <2>1, <2>2, <2>3, <2>4, <2>5, <2>6 DEF Run
<1>5. ASSUME Leave PROVE TypeOK'
  <2>1. faults' \in 0 .. MaxFaults /\ EndSession
    BY <1>5, FaultType DEF Leave, TypeOK
  <2>2. QED
    BY <2>1, EndSessionType
<1>6. ASSUME NEW s \in Systems, NEW heartbeat \in BOOLEAN, Receive(s, heartbeat) PROVE TypeOK'
  <2>1. target' \in Systems \cup {NoSystem}
    BY <1>6 DEF Receive
  <2>2. requested' \in {"true", "false"}
    BY <1>6 DEF Receive, TypeOK
  <2>3. snapshot' \in [enabled : {"true", "false"}, config : Configs \cup {ZeroConfig},
                       link : Systems \cup {NoSystem}]
    BY <1>6 DEF Receive, TypeOK
  <2>4. QED
    BY <1>6, <2>1, <2>2, <2>3 DEF Receive, TypeOK
<1>7. ASSUME Watch \/ Steal PROVE TypeOK'
  BY <1>7 DEF Watch, Steal, TypeOK
<1>8. ASSUME UNCHANGED vars PROVE TypeOK'
  BY <1>8 DEF vars, session, TypeOK
<1>9. QED
  BY <1>1, <1>2, <1>3, <1>4, <1>5, <1>6, <1>7, <1>8 DEF Next

-----------------------------------------------------------------------------
(* Restarts.                                                                *)

\* A configuration that changes under a session leaves its handler about to
\* signal; the signal leaves a token; and who takes the token either belongs to
\* the session, and cancels it, or is counted in `stolen'.
LEMMA PendingStep ==
  ASSUME TypeOK, WatcherOK, StartPending, RestartPending, [Next]_vars
  PROVE  WatcherOK' /\ StartPending' /\ RestartPending'
<1> USE DEF WatcherOK, StartPending, RestartPending, InSession
<1>1. ASSUME NEW h \in Handlers, Save(h) PROVE WatcherOK' /\ StartPending' /\ RestartPending'
  <2>1. \A g \in Handlers : handler[g].pc = "signal" => handler'[g].pc = "signal"
    BY <1>1 DEF Save, TypeOK
  <2>2. QED
    BY <1>1, <2>1 DEF Save, session
<1>2. ASSUME NEW h \in Handlers, Assign(h) PROVE WatcherOK' /\ StartPending' /\ RestartPending'
  <2>1. handler'[h].pc = "signal"
    BY <1>2, HandlerFields DEF Assign, TypeOK
  <2>2. QED
    BY <1>2, <2>1 DEF Assign, session
<1>3. ASSUME NEW h \in Handlers, RequestRestart(h) PROVE WatcherOK' /\ StartPending' /\ RestartPending'
  BY <1>3 DEF RequestRestart, session
<1>4. ASSUME Run PROVE WatcherOK' /\ StartPending' /\ RestartPending'
  BY <1>4 DEF Run, ReadConfig, SetDisabledSnapshot, WakeUp, StartSession, Initialize, BackOff,
              EndSession, session
<1>5. ASSUME Leave PROVE WatcherOK' /\ StartPending' /\ RestartPending'
  BY <1>5 DEF Leave, EndSession
<1>6. ASSUME NEW s \in Systems, NEW heartbeat \in BOOLEAN, Receive(s, heartbeat)
      PROVE  WatcherOK' /\ StartPending' /\ RestartPending'
  BY <1>6 DEF Receive
<1>7. ASSUME Watch PROVE WatcherOK' /\ StartPending' /\ RestartPending'
  BY <1>7 DEF Watch
<1>8. ASSUME Steal PROVE WatcherOK' /\ StartPending' /\ RestartPending'
  <2>1. stolen' > 0
    BY <1>8 DEF Steal, TypeOK
  <2>2. QED
    BY <1>8, <2>1 DEF Steal
<1>9. ASSUME UNCHANGED vars PROVE WatcherOK' /\ StartPending' /\ RestartPending'
  BY <1>9 DEF vars, session
<1>10. QED
  BY <1>1, <1>2, <1>3, <1>4, <1>5, <1>6, <1>7, <1>8, <1>9 DEF Next

\* The target of a session comes from its configuration, or from the first
\* heartbeat of an autopilot.
LEMMA TargetStep == ASSUME TypeOK, TargetOK, [Next]_vars PROVE TargetOK'
<1> USE DEF TargetOK
<1>1. ASSUME NEW h \in Handlers, Save(h) \/ Assign(h) \/ RequestRestart(h) PROVE TargetOK'
  BY <1>1 DEF Save, Assign, RequestRestart, session
<1>2. ASSUME Run PROVE TargetOK'
  BY <1>2 DEF Run, ReadConfig, SetDisabledSnapshot, WakeUp, StartSession, Initialize, BackOff,
              EndSession, session
<1>3. ASSUME Leave PROVE TargetOK'
  BY <1>3 DEF Leave, EndSession
<1>4. ASSUME NEW s \in Systems, NEW heartbeat \in BOOLEAN, Receive(s, heartbeat) PROVE TargetOK'
  BY <1>4 DEF Receive
<1>5. ASSUME Watch \/ Steal PROVE TargetOK'
  BY <1>5 DEF Watch, Steal
<1>6. ASSUME UNCHANGED vars PROVE TargetOK'
  BY <1>6 DEF vars, session
<1>7. QED
  BY <1>1, <1>2, <1>3, <1>4, <1>5, <1>6 DEF Next

\* The inductive invariant holds in every state.
LEMMA Invariant == Spec => []IInv
<1>1. Init => IInv
  BY InitOK
<1>2. IInv /\ [Next]_vars => IInv'
  BY TypeStep, PendingStep, TargetStep DEF IInv
<1>3. QED
  BY <1>1, <1>2, PTL DEF Spec

-----------------------------------------------------------------------------

\* Every variable of the service, its Run loop and its watchers has its type.
THEOREM TypeCorrect == Spec => []TypeOK
<1>1. IInv => TypeOK
  BY DEF IInv
<1>2. QED
  BY <1>1, Invariant, PTL

\* Service.Run never receives with an outdated configuration unless its restart
\* is under way, or a watcher of an earlier session has taken the token.
THEOREM NoUnnoticedUpdate == Spec => []RestartPending
<1>1. IInv => RestartPending
  BY DEF IInv
<1>2. QED
  BY <1>1, Invariant, PTL

\* Within a session Service.receive lets one vehicle touch the link: the
\* configured one, or the first autopilot.
THEOREM LinkIsOneVehicle == Spec => OneVehicle
<1> DEFINE OneVehicleStep ==
      pc = "session" /\ snapshot'.link # snapshot.link =>
        \/ pc' # pc
        \/ /\ snapshot'.link = target'
           /\ target # NoSystem => target' = target
           /\ cfg.target = NoSystem => target' \in Autopilots
<1>1. ASSUME IInv, [Next]_vars PROVE OneVehicleStep
  <2> SUFFICES ASSUME pc = "session", snapshot'.link # snapshot.link PROVE OneVehicleStep
    OBVIOUS
  <2>1. snapshot \in [enabled : {"true", "false"}, config : Configs \cup {ZeroConfig},
                      link : Systems \cup {NoSystem}]
    BY <1>1 DEF IInv, TypeOK
  <2>2. ASSUME NEW h \in Handlers, Assign(h) PROVE FALSE
    BY <2>1, <2>2 DEF Assign
  <2>3. PICK s \in Systems, heartbeat \in BOOLEAN : Receive(s, heartbeat)
    BY <1>1, <2>2 DEF Next, vars, session, Save, RequestRestart, Run, ReadConfig, SetDisabledSnapshot,
                      WakeUp, StartSession, Initialize, BackOff, Leave, EndSession, Watch, Steal
  <2>4. snapshot'.link = s /\ target' = s /\ s # NoSystem
    BY <2>1, <2>3, MavlinkAssumption DEF Receive, NoSystem
  <2>5. cfg.target = NoSystem => target' \in Autopilots
    BY <1>1, <2>3, <2>4 DEF Receive, IInv, TargetOK
  <2>6. QED
    BY <2>3, <2>4, <2>5 DEF Receive
<1>2. IInv /\ [Next]_vars => [OneVehicleStep]_vars
  BY <1>1
<1>3. QED
  BY <1>2, Invariant, PTL DEF Spec, OneVehicle

=============================================================================
