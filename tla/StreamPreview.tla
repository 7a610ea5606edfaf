--------------------------- MODULE StreamPreview ---------------------------
(***************************************************************************)
(* The preview manager (internal/streampreview/manager.go) and the         *)
(* MediaMTX Control API it drives through internal/stream. A preview is a  *)
(* temporary, credential-bearing MediaMTX path with an in-memory session   *)
(* and an expiry timer. Manager.mu is held across the API calls, so an     *)
(* operation in progress is the variable op; API calls may fail without    *)
(* effect, be applied with their answer lost, or be applied after the      *)
(* caller gave up, and either process may die between two calls.           *)
(***************************************************************************)
EXTENDS Naturals, FiniteSets

CONSTANTS
  Cameras,    \* camera IDs
  Tokens,     \* random session IDs; a path is named after its token
  NoCamera,   \* not a camera: the token has no session
  Faults,     \* the kinds of fault that may happen, see FaultKinds
  MaxFaults   \* how many of them happen in a behaviour

\* "refused": a call fails without effect, "lost": its answer is lost, "late":
\* an add is applied after the caller timed out, "list": the startup listing
\* fails, "crash": DronService dies, "mediamtx": MediaMTX restarts.
FaultKinds == {"refused", "lost", "late", "list", "crash", "mediamtx"}

ASSUME PreviewAssumption ==
  /\ NoCamera \notin Cameras
  /\ Faults \subseteq FaultKinds
  /\ MaxFaults \in Nat

VARIABLES
  paths,      \* preview paths MediaMTX has configured
  late,       \* tokens of adds MediaMTX has received and not yet applied
  proc,       \* "down", "cleanup" (before serving), "serving", "closing"
  sessions,   \* Manager.sessions: the camera of a token, or NoCamera
  timers,     \* tokens with an armed or already fired expiry callback
  closed,     \* Manager.closed
  op,         \* the StartSource that holds Manager.mu across several calls
  todo,       \* paths Cleanup or Close still has to delete
  used,       \* tokens drawn so far
  abandoned,  \* history: tokens whose deletion failed for good, or died with us
  strays,     \* history: tokens whose add was applied after the caller gave up
  faults      \* faults so far

memory == <<sessions, timers, closed, op>>
vars == <<paths, late, proc, sessions, timers, closed, op, todo, used, abandoned, strays, faults>>

NoOp == [kind |-> "none"]

Init ==
  /\ paths = {}
  /\ late = {}
  /\ proc = "down"
  /\ sessions = [t \in Tokens |-> NoCamera]
  /\ timers = {}
  /\ closed = FALSE
  /\ op = NoOp
  /\ todo = {}
  /\ used = {}
  /\ abandoned = {}
  /\ strays = {}
  /\ faults = 0

Fault(kind) == kind \in Faults /\ faults < MaxFaults /\ faults' = faults + 1

Live     == proc \in {"serving", "closing"}
Free     == op = NoOp
Active   == {t \in Tokens : sessions[t] # NoCamera}
ActiveOf(c) == {t \in Tokens : sessions[t] = c}

\* DeleteConfig of a preview path: a path that is not there counts as deleted.
DeleteConfig(t, ok) ==
  \/ ok /\ paths' = paths \ {t} /\ UNCHANGED faults
  \/ ~ok /\ Fault("lost") /\ paths' = paths \ {t}
  \/ ~ok /\ Fault("refused") /\ UNCHANGED paths

\* timer.Stop does not recall a callback that has already been started.
StopTimers(S) == timers' \in {timers \ S, timers}

-----------------------------------------------------------------------------
(* Manager.StartSource: one lock section with up to three API calls.        *)

\* Mutated form: the loop that replaces the camera's previous session is missing.
StartSource_NoReplace(c) ==
  /\ Live /\ Free
  /\ ~closed
  /\ \E t \in Tokens \ used :
       used' = used \cup {t} /\ op' = [kind |-> "apply", token |-> t, camera |-> c]
  /\ UNCHANGED <<paths, late, proc, sessions, timers, closed, todo, abandoned, strays, faults>>

\* Mutated form: a closed manager still starts previews.
StartSource_NoClosedCheck(c) ==
  /\ Live /\ Free
  /\ \E t \in Tokens \ used :
       /\ used' = used \cup {t}
       /\ op' = [kind |-> IF ActiveOf(c) = {} THEN "apply" ELSE "replace", token |-> t, camera |-> c]
  /\ UNCHANGED <<paths, late, proc, sessions, timers, closed, todo, abandoned, strays, faults>>

\* The lock is taken and a fresh token drawn; a closed manager refuses.
StartSource(c) ==
  /\ Live /\ Free
  /\ ~closed
  /\ \E t \in Tokens \ used :
       /\ used' = used \cup {t}
       /\ op' = [kind |-> IF ActiveOf(c) = {} THEN "apply" ELSE "replace", token |-> t, camera |-> c]
  /\ UNCHANGED <<paths, late, proc, sessions, timers, closed, todo, abandoned, strays, faults>>

\* The camera's previous session goes first; if its path cannot be deleted the
\* session is kept and the start fails.
Replace ==
  /\ op.kind = "replace"
  /\ \E old \in ActiveOf(op.camera), ok \in BOOLEAN :
       /\ DeleteConfig(old, ok)
       /\ \/ /\ ok
             /\ sessions' = [sessions EXCEPT ![old] = NoCamera]
             /\ StopTimers({old})
             /\ op' = [op EXCEPT !.kind = IF ActiveOf(op.camera) = {old} THEN "apply" ELSE "replace"]
          \/ /\ ~ok
             /\ op' = NoOp
             /\ UNCHANGED <<sessions, timers>>
  /\ UNCHANGED <<late, proc, closed, todo, used, abandoned, strays>>

\* Mutated form: a failed add is reported and not undone.
Apply_NoUndo ==
  /\ op.kind = "apply"
  /\ \/ /\ paths' = paths \cup {op.token}
        /\ sessions' = [sessions EXCEPT ![op.token] = op.camera]
        /\ timers' = timers \cup {op.token}
        /\ UNCHANGED faults
     \/ Fault("lost") /\ paths' = paths \cup {op.token} /\ UNCHANGED <<sessions, timers>>
  /\ op' = NoOp
  /\ UNCHANGED <<late, proc, closed, todo, used, abandoned, strays>>

\* ApplySource adds the path; a failed add is undone, as it may have arrived.
Apply ==
  /\ op.kind = "apply"
  /\ \/ /\ paths' = paths \cup {op.token}
        /\ sessions' = [sessions EXCEPT ![op.token] = op.camera]
        /\ timers' = timers \cup {op.token}
        /\ op' = NoOp
        /\ UNCHANGED <<late, faults>>
     \/ /\ \/ Fault("refused") /\ UNCHANGED <<paths, late>>
           \/ Fault("lost") /\ paths' = paths \cup {op.token} /\ UNCHANGED late
           \/ Fault("late") /\ late' = late \cup {op.token} /\ UNCHANGED paths
        /\ op' = [op EXCEPT !.kind = "undo"]
        /\ UNCHANGED <<sessions, timers>>
  /\ UNCHANGED <<proc, closed, todo, used, abandoned, strays>>

\* The cleanup under its own context; nobody retries when it fails.
Undo ==
  /\ op.kind = "undo"
  /\ \E ok \in BOOLEAN :
       /\ DeleteConfig(op.token, ok)
       /\ abandoned' = IF ok THEN abandoned ELSE abandoned \cup {op.token}
  /\ op' = NoOp
  /\ UNCHANGED <<late, proc, sessions, timers, closed, todo, used, strays>>

-----------------------------------------------------------------------------
(* Manager.Stop and Manager.expire: one call under the lock.                *)

\* A session that cannot be deleted stays, with its timer.
Stop(c, t) ==
  /\ Live /\ Free
  /\ sessions[t] = c
  /\ \E ok \in BOOLEAN :
       /\ DeleteConfig(t, ok)
       /\ \/ ok /\ sessions' = [sessions EXCEPT ![t] = NoCamera] /\ StopTimers({t})
          \/ ~ok /\ UNCHANGED <<sessions, timers>>
  /\ UNCHANGED <<late, proc, closed, op, todo, used, abandoned, strays>>

\* Mutated form: a failed deletion does not arm a new timer.
Expire_NoRetry(t) ==
  /\ Live /\ Free
  /\ t \in timers
  /\ timers' = timers \ {t}
  /\ \E ok \in BOOLEAN :
       /\ DeleteConfig(t, ok)
       /\ sessions' = IF ok THEN [sessions EXCEPT ![t] = NoCamera] ELSE sessions
  /\ UNCHANGED <<late, proc, closed, op, todo, used, abandoned, strays>>

\* The callback of a session that is gone does nothing; a failed deletion arms
\* a new timer (expiryRetryDelay).
Expire(t) ==
  /\ Live /\ Free
  /\ t \in timers
  /\ \/ /\ t \notin Active
        /\ timers' = timers \ {t}
        /\ UNCHANGED <<paths, sessions, faults>>
     \/ /\ t \in Active
        /\ \E ok \in BOOLEAN :
             /\ DeleteConfig(t, ok)
             /\ \/ ok /\ sessions' = [sessions EXCEPT ![t] = NoCamera] /\ timers' = timers \ {t}
                \/ ~ok /\ UNCHANGED <<sessions, timers>>
  /\ UNCHANGED <<late, proc, closed, op, todo, used, abandoned, strays>>

-----------------------------------------------------------------------------
(* The life of the two processes.                                           *)

\* Mutated form: the service starts without cleaning up stale previews.
Boot_NoCleanup ==
  /\ proc = "down"
  /\ proc' = "serving"
  /\ UNCHANGED <<paths, late, memory, todo, used, abandoned, strays, faults>>

\* Cleanup finds the previews among the paths of MediaMTX, or the listing fails.
ListInternalPreviewPaths(ok) ==
  \/ ok /\ todo' = paths /\ UNCHANGED faults
  \/ ~ ok /\ Fault("list") /\ UNCHANGED todo

\* main: Cleanup runs before the server accepts requests; when it fails, that is
\* logged and the service starts all the same.
Boot ==
  /\ proc = "down"
  /\ \E ok \in BOOLEAN :
       /\ ListInternalPreviewPaths(ok)
       /\ proc' = IF ok THEN "cleanup" ELSE "serving"
  /\ UNCHANGED <<paths, late, memory, used, abandoned, strays>>

CleanupDelete(t) ==
  /\ proc = "cleanup"
  /\ t \in todo
  /\ \E ok \in BOOLEAN : DeleteConfig(t, ok)
  /\ todo' = todo \ {t}
  /\ UNCHANGED <<late, proc, memory, used, abandoned, strays>>

Serve ==
  /\ proc = "cleanup"
  /\ todo = {}
  /\ proc' = "serving"
  /\ UNCHANGED <<paths, late, memory, todo, used, abandoned, strays, faults>>

\* SIGTERM: Close empties the map under the lock. The handlers that
\* server.Shutdown gave up on are still there.
Close ==
  /\ proc = "serving" /\ Free
  /\ closed' = TRUE
  /\ todo' = Active
  /\ sessions' = [t \in Tokens |-> NoCamera]
  /\ StopTimers(Active)
  /\ proc' = "closing"
  /\ UNCHANGED <<paths, late, op, used, abandoned, strays, faults>>

\* ... and deletes the paths after it has released the lock.
CloseDelete(t) ==
  /\ proc = "closing"
  /\ t \in todo
  /\ \E ok \in BOOLEAN :
       /\ DeleteConfig(t, ok)
       /\ abandoned' = IF ok THEN abandoned ELSE abandoned \cup {t}
  /\ todo' = todo \ {t}
  /\ UNCHANGED <<late, proc, memory, used, strays>>

MemoryGone ==
  /\ proc' = "down"
  /\ sessions' = [t \in Tokens |-> NoCamera]
  /\ timers' = {}
  /\ closed' = FALSE
  /\ op' = NoOp
  /\ todo' = {}

Exit ==
  /\ proc = "closing"
  /\ todo = {}
  /\ MemoryGone
  /\ UNCHANGED <<paths, late, used, abandoned, strays, faults>>

Crash ==
  /\ Fault("crash")
  /\ MemoryGone
  /\ abandoned' = abandoned \cup used
  /\ UNCHANGED <<paths, late, used, strays>>

\* Paths added through the API live in MediaMTX's memory only.
MediaMTXRestart ==
  /\ Fault("mediamtx")
  /\ paths' = {}
  /\ late' = {}
  /\ UNCHANGED <<proc, memory, todo, used, abandoned, strays>>

LateApply(t) ==
  /\ t \in late
  /\ late' = late \ {t}
  /\ paths' = paths \cup {t}
  /\ strays' = strays \cup {t}
  /\ UNCHANGED <<proc, memory, todo, used, abandoned, faults>>

-----------------------------------------------------------------------------

StartSteps == Replace \/ Apply \/ Undo

Next ==
  \/ \E c \in Cameras : StartSource(c) \/ \E t \in Tokens : Stop(c, t)
  \/ StartSteps
  \/ \E t \in Tokens : Expire(t) \/ CleanupDelete(t) \/ CloseDelete(t) \/ LateApply(t)
  \/ Boot \/ Serve \/ Close \/ Exit \/ Crash \/ MediaMTXRestart

Spec == Init /\ [][Next]_vars

\* Every API call returns (client timeout), timers fire, systemd restarts the
\* service, and MediaMTX works off what it has received.
Fairness ==
  /\ WF_vars(StartSteps)
  /\ \A t \in Tokens : WF_vars(Expire(t)) /\ WF_vars(LateApply(t))
  /\ WF_vars(\E t \in Tokens : CleanupDelete(t) \/ CloseDelete(t))
  /\ WF_vars(Boot \/ Serve \/ Exit)

FairSpec == Spec /\ Fairness

-----------------------------------------------------------------------------
(* Properties.                                                              *)

OpType == {NoOp} \cup [kind : {"replace", "apply", "undo"}, token : Tokens, camera : Cameras]

\* Every variable of the manager, of MediaMTX and of the two processes has its type.
TypeOK ==
  /\ paths \subseteq Tokens
  /\ late \subseteq Tokens
  /\ proc \in {"down", "cleanup", "serving", "closing"}
  /\ sessions \in [Tokens -> Cameras \cup {NoCamera}]
  /\ timers \subseteq Tokens
  /\ closed \in BOOLEAN
  /\ op \in OpType
  /\ todo \subseteq Tokens
  /\ used \subseteq Tokens
  /\ abandoned \subseteq Tokens
  /\ strays \subseteq Tokens
  /\ faults \in 0 .. MaxFaults

\* A camera never has two previews, whatever calls of StartSource, Stop and
\* expire fail in between: a camera accepts few RTSP clients.
OnePreviewPerCamera ==
  \A c \in Cameras : Cardinality(ActiveOf(c)) <= 1

\* Every session will be expired: its callback is armed, or about to run, even
\* after deletions that failed; otherwise its path lives until a restart.
SessionHasTimer ==
  Active \subseteq timers

\* The configured paths nobody will delete: they belong to no session and to no
\* operation in progress, are on no list of Cleanup or Close, and no deletion of
\* them was tried and failed (and the process has not died since).
Stranded ==
  {t \in paths \ (Active \cup todo \cup abandoned) : op = NoOp \/ op.token # t}

\* A failed start strands no credential-bearing path, as the undo of StartSource
\* has a context of its own: whatever calls are refused, lose their answer or
\* are cut off by a restart, the only path that is forgotten is one MediaMTX
\* added after the start had given up on it.
OnlyLateAddsStrand ==
  Stranded \subseteq strays

\* Once Close has emptied the map no preview starts: nobody would delete it.
ClosedStaysEmpty ==
  closed => Active = {} /\ op = NoOp

\* Every preview path is removed again, whichever single call fails, answer is
\* lost or process restarts: by its viewer, by its timer, by the undo of a
\* failed start, by Close, or by the Cleanup of the next start. Only after a
\* second fault, or an add that came late, may one stay.
PathIsTemporary ==
  \A t \in Tokens : t \in paths ~> t \notin paths \/ t \in strays \/ faults > 1

=============================================================================
