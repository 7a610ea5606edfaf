----------------------------- MODULE MCMavlink -----------------------------
(* MAVLink telemetry for TLC: one configuration switches it off, one listens *)
(* to the first autopilot and one to a given system.                         *)
EXTENDS Mavlink

MCConfigs ==
  {[enabled |-> "false", target |-> 0], [enabled |-> "true", target |-> 0],
   [enabled |-> "true", target |-> 2]}

=============================================================================
