------------------------ MODULE StreamPreviewProofs ------------------------
(***************************************************************************)
(* What holds of the preview manager for any number of cameras, tokens and *)
(* faults of any kind.                                                     *)
(***************************************************************************)
EXTENDS StreamPreview, FiniteSetTheorems, TLAPS

\* A camera has at most one session (OnePreviewPerCamera without counting), and
\* none when its new path is about to be added.
UniqueOK ==
  /\ \A s, t \in Tokens : sessions[s] # NoCamera /\ sessions[s] = sessions[t] => s = t
  /\ op.kind = "apply" => ActiveOf(op.camera) = {}

\* Tokens are drawn once: what MediaMTX has or will get belongs to a token that
\* was drawn, and not to the one StartSource has just drawn.
FreshOK ==
  /\ paths \cup late \cup Active \subseteq used
  /\ op.kind # "none" => op.token \in used
  /\ op.kind \in {"replace", "apply"} => op.token \notin paths \cup late \cup Active

\* Before the service serves it has no session and no start in progress, and
\* all that MediaMTX has was given up before; once it is closing it stays closed.
PhaseOK ==
  /\ proc \in {"down", "cleanup"} =>
       Active = {} /\ op.kind = "none" /\ paths \subseteq abandoned \cup strays
  /\ proc \in {"down", "serving"} => todo = {}
  /\ closed <=> proc = "closing"
  /\ proc = "closing" => Active = {} /\ op.kind = "none"

\* The configured paths are accounted for: by a session, by a list, by a start
\* in progress, or by the histories of what failed and what came late.
OwnedOK ==
  \A t \in paths :
    \/ t \in Active \cup todo \cup abandoned \cup strays
    \/ op.kind # "none" /\ op.token = t

\* The inductive invariant.
IInv ==
  /\ TypeOK
  /\ UniqueOK
  /\ FreshOK
  /\ PhaseOK
  /\ OwnedOK
  /\ SessionHasTimer

-----------------------------------------------------------------------------
(* The pieces of the actions.                                               *)

\* An operation in progress has a token and a camera.
LEMMA OpCases ==
  ASSUME TypeOK
  PROVE  \/ op = NoOp /\ op.kind = "none"
         \/ /\ op # NoOp /\ op.kind \in {"replace", "apply", "undo"}
            /\ op.token \in Tokens /\ op.camera \in Cameras
            /\ op \in [kind : {"replace", "apply", "undo"}, token : Tokens, camera : Cameras]
  BY DEF TypeOK, OpType, NoOp

\* A fault is counted up to the bound.
LEMMA FaultType ==
  ASSUME TypeOK, NEW kind, Fault(kind) PROVE faults' \in 0 .. MaxFaults
  BY PreviewAssumption DEF Fault, TypeOK

\* A deletion removes one path at most, and that path when it is acknowledged.
LEMMA DeleteEffect ==
  ASSUME TypeOK, NEW t \in Tokens, NEW ok \in BOOLEAN, DeleteConfig(t, ok)
  PROVE  /\ paths' \subseteq paths /\ paths \ {t} \subseteq paths'
         /\ ok => t \notin paths'
         /\ faults' \in 0 .. MaxFaults
  BY FaultType DEF DeleteConfig, TypeOK

\* The session of one token ends.
LEMMA DropSession ==
  ASSUME TypeOK, NEW t \in Tokens, sessions' = [sessions EXCEPT ![t] = NoCamera]
  PROVE  /\ sessions' \in [Tokens -> Cameras \cup {NoCamera}]
         /\ Active' = Active \ {t}
         /\ \A s \in Tokens : s # t => sessions'[s] = sessions[s]
         /\ \A c \in Cameras : ActiveOf(c)' = ActiveOf(c) \ {t}
  BY PreviewAssumption DEF TypeOK, Active, ActiveOf

\* No session is left.
LEMMA NoSessions ==
  ASSUME sessions' = [t \in Tokens |-> NoCamera]
  PROVE  sessions' \in [Tokens -> Cameras \cup {NoCamera}] /\ Active' = {}
  BY DEF Active

\* Nothing is configured and nothing runs.
LEMMA InitOK == Init => IInv
<1> SUFFICES ASSUME Init PROVE IInv
  OBVIOUS
<1>1. Active = {} /\ op.kind = "none"
  BY DEF Init, Active, NoOp
<1>2. TypeOK
  <2>1. closed \in BOOLEAN
    BY DEF Init
  <2>2. op \in OpType /\ sessions \in [Tokens -> Cameras \cup {NoCamera}] /\ faults \in 0 .. MaxFaults
    BY PreviewAssumption DEF Init, OpType
  <2>3. QED
    BY <2>1, <2>2 DEF Init, TypeOK
<1>3. UniqueOK /\ FreshOK /\ OwnedOK /\ SessionHasTimer
  BY <1>1 DEF Init, UniqueOK, FreshOK, OwnedOK, SessionHasTimer
<1>4. PhaseOK
  BY <1>1 DEF Init, PhaseOK
<1>5. QED
  BY <1>2, <1>3, <1>4 DEF IInv

-----------------------------------------------------------------------------
(* Manager.StartSource.                                                     *)

\* A start draws a token that nobody has used.
LEMMA StartSourceStep == ASSUME IInv, NEW c \in Cameras, StartSource(c) PROVE IInv'
<1> USE DEF IInv
<1>1. PICK t \in Tokens \ used :
        /\ used' = used \cup {t}
        /\ op' = [kind |-> IF ActiveOf(c) = {} THEN "apply" ELSE "replace", token |-> t, camera |-> c]
  BY DEF StartSource
<1>2. /\ UNCHANGED <<paths, late, proc, sessions, timers, closed, todo, abandoned, strays, faults>>
      /\ proc = "serving" /\ op.kind = "none"
  BY DEF StartSource, Live, Free, NoOp, PhaseOK
<1>3. Active' = Active /\ \A d : ActiveOf(d)' = ActiveOf(d)
  BY <1>2 DEF Active, ActiveOf
<1>4. /\ op' \in OpType /\ op'.kind \in {"apply", "replace"} /\ op'.token = t /\ op'.camera = c
      /\ op'.kind = "apply" => ActiveOf(c) = {}
  BY <1>1 DEF OpType
<1>5. TypeOK'
  BY <1>1, <1>2, <1>4 DEF TypeOK
<1>6. UniqueOK'
  BY <1>2, <1>3, <1>4 DEF UniqueOK
<1>7. FreshOK'
  BY <1>1, <1>2, <1>3, <1>4 DEF FreshOK
<1>8. PhaseOK'
  BY <1>2, <1>3 DEF PhaseOK
<1>9. OwnedOK' /\ SessionHasTimer'
  BY <1>2, <1>3 DEF OwnedOK, SessionHasTimer
<1>10. QED
  BY <1>5, <1>6, <1>7, <1>8, <1>9

\* The previous session goes with its path, or both stay and the start ends.
LEMMA ReplaceStep == ASSUME IInv, Replace PROVE IInv'
<1> USE DEF IInv
<1>1. /\ op \in [kind : {"replace", "apply", "undo"}, token : Tokens, camera : Cameras]
      /\ op.kind = "replace" /\ proc = "serving"
  BY OpCases DEF Replace, PhaseOK, TypeOK
<1>2. PICK old \in ActiveOf(op.camera), ok \in BOOLEAN :
        /\ DeleteConfig(old, ok)
        /\ \/ /\ ok
              /\ sessions' = [sessions EXCEPT ![old] = NoCamera]
              /\ StopTimers({old})
              /\ op' = [op EXCEPT !.kind = IF ActiveOf(op.camera) = {old} THEN "apply" ELSE "replace"]
           \/ /\ ~ok
              /\ op' = NoOp
              /\ UNCHANGED <<sessions, timers>>
  BY DEF Replace
<1>3. old \in Tokens /\ old \in Active /\ UNCHANGED <<late, proc, closed, todo, used, abandoned, strays>>
  BY <1>1, PreviewAssumption DEF Replace, ActiveOf, Active
<1>4. /\ paths' \subseteq paths /\ paths \ {old} \subseteq paths' /\ (ok => old \notin paths')
      /\ faults' \in 0 .. MaxFaults
  BY <1>2, <1>3, DeleteEffect
<1>5. CASE ok
  <2>1. /\ sessions' \in [Tokens -> Cameras \cup {NoCamera}]
        /\ Active' = Active \ {old}
        /\ \A s \in Tokens : s # old => sessions'[s] = sessions[s]
        /\ sessions'[old] = NoCamera
    BY <1>1, <1>2, <1>3, <1>5, DropSession DEF TypeOK
  <2>2. /\ op' \in OpType /\ op'.kind \in {"apply", "replace"}
        /\ op'.token = op.token /\ op'.camera = op.camera
        /\ op'.kind = "apply" => ActiveOf(op.camera) = {old}
    BY <1>1, <1>2, <1>5 DEF OpType
  <2>3. timers' \subseteq timers /\ timers \ {old} \subseteq timers'
    BY <1>2, <1>5 DEF StopTimers
  <2>4. TypeOK'
    BY <1>3, <1>4, <2>1, <2>2, <2>3 DEF TypeOK
  <2>5. (op.kind = "apply" => ActiveOf(op.camera) = {})'
    BY <1>1, <2>1, <2>2, PreviewAssumption DEF ActiveOf
  <2>6. UniqueOK'
    BY <2>1, <2>5 DEF UniqueOK
  <2>7. FreshOK'
    BY <1>1, <1>3, <1>4, <2>1, <2>2 DEF FreshOK
  <2>8. PhaseOK'
    BY <1>1, <1>3, <2>1 DEF PhaseOK
  <2>9. OwnedOK'
    BY <1>1, <1>3, <1>4, <1>5, <2>1, <2>2 DEF OwnedOK, FreshOK
  <2>10. SessionHasTimer'
    BY <2>1, <2>3 DEF SessionHasTimer
  <2>11. QED
    BY <2>4, <2>6, <2>7, <2>8, <2>9, <2>10
<1>6. CASE ~ok
  <2>1. op' = NoOp /\ op'.kind = "none" /\ UNCHANGED <<sessions, timers>>
    BY <1>2, <1>6 DEF NoOp
  <2>2. Active' = Active
    BY <2>1 DEF Active
  <2>3. TypeOK'
    BY <1>3, <1>4, <2>1 DEF TypeOK, OpType
  <2>4. UniqueOK' /\ FreshOK' /\ PhaseOK' /\ SessionHasTimer'
    BY <1>1, <1>3, <1>4, <2>1, <2>2 DEF UniqueOK, FreshOK, PhaseOK, SessionHasTimer
  <2>5. OwnedOK'
    BY <1>1, <1>3, <1>4, <2>1, <2>2 DEF OwnedOK, FreshOK
  <2>6. QED
    BY <2>3, <2>4, <2>5
<1>7. QED
  BY <1>5, <1>6

\* The new path gets its session and its timer in the same step; a failed add
\* leaves its token with the start, which goes on to undo it.
LEMMA ApplyStep == ASSUME IInv, Apply PROVE IInv'
<1> USE DEF IInv
<1>1. /\ op \in [kind : {"replace", "apply", "undo"}, token : Tokens, camera : Cameras]
      /\ op.kind = "apply" /\ proc = "serving" /\ op.token \in Tokens /\ op.camera \in Cameras
  BY OpCases DEF Apply, PhaseOK, TypeOK
<1>2. UNCHANGED <<proc, closed, todo, used, abandoned, strays>>
  BY DEF Apply
<1>3. CASE op' = NoOp
  <2>1. /\ paths' = paths \cup {op.token}
        /\ sessions' = [sessions EXCEPT ![op.token] = op.camera]
        /\ timers' = timers \cup {op.token}
        /\ UNCHANGED <<late, faults>>
        /\ op'.kind = "none"
    BY <1>1, <1>3, OpCases DEF Apply, NoOp
  <2>2. /\ sessions' \in [Tokens -> Cameras \cup {NoCamera}]
        /\ Active' = Active \cup {op.token}
        /\ \A s \in Tokens : sessions'[s] = IF s = op.token THEN op.camera ELSE sessions[s]
    BY <1>1, <2>1, PreviewAssumption DEF TypeOK, Active
  <2>3. TypeOK'
    BY <1>1, <1>2, <1>3, <2>1, <2>2 DEF TypeOK, OpType
  <2>4. UniqueOK'
    BY <1>1, <2>1, <2>2, PreviewAssumption DEF UniqueOK, ActiveOf
  <2>5. FreshOK'
    BY <1>1, <1>2, <2>1, <2>2 DEF FreshOK
  <2>6. PhaseOK'
    BY <1>1, <1>2, <2>1 DEF PhaseOK
  <2>7. OwnedOK' /\ SessionHasTimer'
    BY <1>2, <2>1, <2>2 DEF OwnedOK, SessionHasTimer
  <2>8. QED
    BY <2>3, <2>4, <2>5, <2>6, <2>7
<1>4. CASE op' # NoOp
  <2>1. /\ op' = [op EXCEPT !.kind = "undo"]
        /\ UNCHANGED <<sessions, timers>>
        /\ \E kind : Fault(kind)
        /\ paths' \subseteq paths \cup {op.token} /\ paths \subseteq paths'
        /\ late' \subseteq late \cup {op.token}
    BY <1>4 DEF Apply
  <2>2. op' \in OpType /\ op'.kind = "undo" /\ op'.token = op.token
    BY <1>1, <2>1 DEF OpType
  <2>3. Active' = Active /\ faults' \in 0 .. MaxFaults
    BY <2>1, FaultType DEF Active
  <2>4. TypeOK'
    BY <1>1, <1>2, <2>1, <2>2, <2>3 DEF TypeOK
  <2>5. UniqueOK'
    BY <2>1, <2>2 DEF UniqueOK
  <2>6. FreshOK' /\ SessionHasTimer'
    BY <1>1, <1>2, <2>1, <2>2, <2>3 DEF FreshOK, SessionHasTimer
  <2>7. PhaseOK'
    BY <1>1, <1>2 DEF PhaseOK
  <2>8. OwnedOK'
    BY <1>1, <1>2, <2>1, <2>2, <2>3 DEF OwnedOK
  <2>9. QED
    BY <2>4, <2>5, <2>6, <2>7, <2>8
<1>5. QED
  BY <1>3, <1>4

\* The undo removes the path or records that it could not.
LEMMA UndoStep == ASSUME IInv, Undo PROVE IInv'
<1> USE DEF IInv
<1>1. op.token \in Tokens /\ op.kind = "undo" /\ proc = "serving"
  BY OpCases DEF Undo, PhaseOK, TypeOK
<1>2. PICK ok \in BOOLEAN :
        /\ DeleteConfig(op.token, ok)
        /\ abandoned' = IF ok THEN abandoned ELSE abandoned \cup {op.token}
  BY DEF Undo
<1>3. /\ paths' \subseteq paths /\ (ok => op.token \notin paths') /\ faults' \in 0 .. MaxFaults
  BY <1>1, <1>2, DeleteEffect
<1>4. op' = NoOp /\ op'.kind = "none" /\ UNCHANGED <<late, proc, sessions, timers, closed, todo, used, strays>>
  BY DEF Undo, NoOp
<1>5. Active' = Active
  BY <1>4 DEF Active
<1>6. TypeOK'
  BY <1>1, <1>2, <1>3, <1>4 DEF TypeOK, OpType
<1>7. UniqueOK' /\ FreshOK' /\ PhaseOK' /\ SessionHasTimer'
  BY <1>1, <1>3, <1>4, <1>5 DEF UniqueOK, FreshOK, PhaseOK, SessionHasTimer
<1>8. \A t \in paths' : t = op.token => ~ok
  BY <1>3
<1>9. OwnedOK'
  BY <1>2, <1>3, <1>4, <1>5, <1>8 DEF OwnedOK
<1>10. QED
  BY <1>6, <1>7, <1>9

-----------------------------------------------------------------------------
(* Manager.Stop and Manager.expire.                                         *)

\* One session ends with its path, or its path may be gone and it stays.
LEMMA EndSession ==
  ASSUME IInv, NEW t \in Tokens, NEW ok \in BOOLEAN, DeleteConfig(t, ok), Live, Free,
         UNCHANGED <<late, proc, closed, op, todo, used, abandoned, strays>>,
         \/ /\ ok
            /\ sessions' = [sessions EXCEPT ![t] = NoCamera]
            /\ timers \ {t} \subseteq timers' /\ timers' \subseteq timers
         \/ ~ok /\ UNCHANGED <<sessions, timers>>
  PROVE  IInv'
<1> USE DEF IInv
<1>1. op.kind = "none"
  BY DEF Free, NoOp
<1>2. /\ paths' \subseteq paths /\ (ok => t \notin paths') /\ faults' \in 0 .. MaxFaults
  BY DeleteEffect
<1>3. CASE ok
  <2>1. /\ sessions' \in [Tokens -> Cameras \cup {NoCamera}]
        /\ Active' = Active \ {t}
        /\ \A s \in Tokens : s # t => sessions'[s] = sessions[s]
        /\ sessions'[t] = NoCamera
    BY <1>3, DropSession DEF TypeOK
  <2>2. timers \ {t} \subseteq timers' /\ timers' \subseteq timers
    BY <1>3
  <2>3. TypeOK'
    BY <1>2, <2>1, <2>2 DEF TypeOK
  <2>4. UniqueOK' /\ FreshOK' /\ PhaseOK' /\ SessionHasTimer'
    BY <1>1, <1>2, <2>1, <2>2 DEF UniqueOK, FreshOK, PhaseOK, SessionHasTimer
  <2>5. OwnedOK'
    BY <1>1, <1>2, <1>3, <2>1 DEF OwnedOK
  <2>6. QED
    BY <2>3, <2>4, <2>5
<1>4. CASE ~ok
  <2>1. UNCHANGED <<sessions, timers>> /\ Active' = Active
    BY <1>4 DEF Active
  <2>2. TypeOK'
    BY <1>2, <2>1 DEF TypeOK
  <2>3. UniqueOK' /\ FreshOK' /\ PhaseOK' /\ SessionHasTimer' /\ OwnedOK'
    BY <1>1, <1>2, <2>1 DEF UniqueOK, FreshOK, PhaseOK, SessionHasTimer, OwnedOK
  <2>4. QED
    BY <2>2, <2>3
<1>5. QED
  BY <1>3, <1>4

\* A viewer ends his preview.
LEMMA StopStep == ASSUME IInv, NEW c \in Cameras, NEW t \in Tokens, Stop(c, t) PROVE IInv'
<1>1. PICK ok \in BOOLEAN :
        /\ DeleteConfig(t, ok)
        /\ \/ ok /\ sessions' = [sessions EXCEPT ![t] = NoCamera] /\ StopTimers({t})
           \/ ~ok /\ UNCHANGED <<sessions, timers>>
  BY DEF Stop
<1>2. Live /\ Free /\ UNCHANGED <<late, proc, closed, op, todo, used, abandoned, strays>>
  BY DEF Stop
<1>3. StopTimers({t}) => timers \ {t} \subseteq timers' /\ timers' \subseteq timers
  BY DEF StopTimers
<1>4. QED
  BY <1>1, <1>2, <1>3, EndSession

\* A callback ends its session, is armed again, or finds none.
LEMMA ExpireStep == ASSUME IInv, NEW t \in Tokens, Expire(t) PROVE IInv'
<1>1. Live /\ Free /\ UNCHANGED <<late, proc, closed, op, todo, used, abandoned, strays>>
  BY DEF Expire
<1>2. CASE t \notin Active
  <2>1. timers' = timers \ {t} /\ UNCHANGED <<paths, sessions, faults>>
    BY <1>2 DEF Expire
  <2>2. Active' = Active
    BY <2>1 DEF Active
  <2>3. TypeOK'
    BY <1>1, <2>1 DEF IInv, TypeOK
  <2>4. UniqueOK' /\ FreshOK' /\ PhaseOK' /\ SessionHasTimer' /\ OwnedOK'
    BY <1>1, <1>2, <2>1, <2>2
       DEF IInv, UniqueOK, FreshOK, PhaseOK, SessionHasTimer, OwnedOK, ActiveOf
  <2>5. QED
    BY <2>3, <2>4 DEF IInv
<1>3. CASE t \in Active
  <2>1. PICK ok \in BOOLEAN :
          /\ DeleteConfig(t, ok)
          /\ \/ ok /\ sessions' = [sessions EXCEPT ![t] = NoCamera] /\ timers' = timers \ {t}
             \/ ~ok /\ UNCHANGED <<sessions, timers>>
    BY <1>3 DEF Expire
  <2>2. QED
    BY <1>1, <2>1, EndSession
<1>4. QED
  BY <1>2, <1>3

-----------------------------------------------------------------------------
(* The life of the two processes.                                           *)

\* Cleanup starts from what MediaMTX lists.
LEMMA BootStep == ASSUME IInv, Boot PROVE IInv'
<1> USE DEF IInv
<1>1. /\ proc = "down" /\ todo = {}
      /\ \/ proc' = "cleanup" /\ todo' = paths /\ UNCHANGED faults
         \/ proc' = "serving" /\ UNCHANGED todo /\ faults' \in 0 .. MaxFaults
      /\ UNCHANGED <<paths, late, sessions, timers, closed, op, used, abandoned, strays>>
  BY FaultType DEF Boot, ListInternalPreviewPaths, memory, PhaseOK
<1>2. Active' = Active /\ (ActiveOf(op.camera))' = ActiveOf(op.camera)
  BY <1>1 DEF Active, ActiveOf
<1>3. TypeOK'
  BY <1>1 DEF TypeOK
<1>4. UniqueOK' /\ FreshOK' /\ SessionHasTimer'
  BY <1>1, <1>2 DEF UniqueOK, FreshOK, SessionHasTimer
<1>5. PhaseOK' /\ OwnedOK'
  BY <1>1, <1>2 DEF PhaseOK, OwnedOK
<1>6. QED
  BY <1>3, <1>4, <1>5

\* A stale path that Cleanup cannot delete was given up before already.
LEMMA CleanupDeleteStep == ASSUME IInv, NEW t \in Tokens, CleanupDelete(t) PROVE IInv'
<1> USE DEF IInv
<1>1. PICK ok \in BOOLEAN : DeleteConfig(t, ok)
  BY DEF CleanupDelete
<1>2. paths' \subseteq paths /\ faults' \in 0 .. MaxFaults
  BY <1>1, DeleteEffect
<1>3. /\ proc = "cleanup" /\ todo' = todo \ {t}
      /\ UNCHANGED <<late, proc, sessions, timers, closed, op, used, abandoned, strays>>
  BY DEF CleanupDelete, memory
<1>4. Active' = Active /\ (ActiveOf(op.camera))' = ActiveOf(op.camera)
  BY <1>3 DEF Active, ActiveOf
<1>5. TypeOK'
  BY <1>2, <1>3 DEF TypeOK
<1>6. UniqueOK' /\ FreshOK' /\ SessionHasTimer'
  BY <1>2, <1>3, <1>4 DEF UniqueOK, FreshOK, SessionHasTimer
<1>7. PhaseOK' /\ OwnedOK'
  BY <1>2, <1>3, <1>4 DEF PhaseOK, OwnedOK
<1>8. QED
  BY <1>5, <1>6, <1>7

\* The service serves once the list is worked off.
LEMMA ServeStep == ASSUME IInv, Serve PROVE IInv'
<1> USE DEF IInv
<1>1. /\ proc = "cleanup" /\ todo = {} /\ proc' = "serving"
      /\ UNCHANGED <<paths, late, sessions, timers, closed, op, todo, used, abandoned, strays, faults>>
  BY DEF Serve, memory
<1>2. Active' = Active /\ (ActiveOf(op.camera))' = ActiveOf(op.camera)
  BY <1>1 DEF Active, ActiveOf
<1>3. TypeOK' /\ UniqueOK' /\ FreshOK' /\ SessionHasTimer'
  BY <1>1, <1>2 DEF TypeOK, UniqueOK, FreshOK, SessionHasTimer
<1>4. PhaseOK' /\ OwnedOK'
  BY <1>1, <1>2 DEF PhaseOK, OwnedOK
<1>5. QED
  BY <1>3, <1>4

\* Close takes every session over into the list of paths it deletes.
LEMMA CloseStep == ASSUME IInv, Close PROVE IInv'
<1> USE DEF IInv
<1>1. /\ proc = "serving" /\ op.kind = "none" /\ todo = {}
      /\ proc' = "closing" /\ closed' = TRUE /\ todo' = Active
      /\ sessions' = [t \in Tokens |-> NoCamera]
      /\ timers' \subseteq timers
      /\ UNCHANGED <<paths, late, op, used, abandoned, strays, faults>>
  BY DEF Close, Free, NoOp, StopTimers, PhaseOK
<1>2. sessions' \in [Tokens -> Cameras \cup {NoCamera}] /\ Active' = {}
  BY <1>1, NoSessions
<1>3. todo' \subseteq Tokens
  BY <1>1 DEF Active
<1>4. closed' \in BOOLEAN
  BY <1>1
<1>5. TypeOK'
  BY <1>1, <1>2, <1>3, <1>4 DEF TypeOK
<1>6. UniqueOK' /\ FreshOK' /\ SessionHasTimer'
  BY <1>1, <1>2 DEF UniqueOK, FreshOK, SessionHasTimer, Active
<1>7. (closed <=> proc = "closing")'
  BY <1>1
<1>8. PhaseOK' /\ OwnedOK'
  BY <1>1, <1>2, <1>7 DEF PhaseOK, OwnedOK
<1>9. QED
  BY <1>5, <1>6, <1>8

\* A path that Close cannot delete is recorded as given up.
LEMMA CloseDeleteStep == ASSUME IInv, NEW t \in Tokens, CloseDelete(t) PROVE IInv'
<1> USE DEF IInv
<1>1. PICK ok \in BOOLEAN :
        /\ DeleteConfig(t, ok)
        /\ abandoned' = IF ok THEN abandoned ELSE abandoned \cup {t}
  BY DEF CloseDelete
<1>2. paths' \subseteq paths /\ (ok => t \notin paths') /\ faults' \in 0 .. MaxFaults
  BY <1>1, DeleteEffect
<1>3. /\ proc = "closing" /\ todo' = todo \ {t}
      /\ UNCHANGED <<late, proc, sessions, timers, closed, op, used, strays>>
  BY DEF CloseDelete, memory
<1>4. Active' = Active /\ (ActiveOf(op.camera))' = ActiveOf(op.camera)
  BY <1>3 DEF Active, ActiveOf
<1>5. TypeOK'
  BY <1>1, <1>2, <1>3 DEF TypeOK
<1>6. UniqueOK' /\ FreshOK' /\ SessionHasTimer' /\ PhaseOK'
  BY <1>2, <1>3, <1>4 DEF UniqueOK, FreshOK, SessionHasTimer, PhaseOK
<1>7. abandoned \subseteq abandoned' /\ (t \in paths' => t \in abandoned')
  BY <1>1, <1>2
<1>8. OwnedOK'
  BY <1>2, <1>3, <1>4, <1>7 DEF OwnedOK
<1>9. QED
  BY <1>5, <1>6, <1>8

\* What is forgotten when the process ends was deleted, given up or came late.
LEMMA MemoryGoneStep ==
  ASSUME IInv, MemoryGone, UNCHANGED <<paths, late, used, strays>>,
         faults' \in 0 .. MaxFaults, abandoned' \subseteq Tokens,
         paths \subseteq abandoned' \cup strays
  PROVE  IInv'
<1> USE DEF IInv
<1>1. /\ proc' = "down" /\ sessions' = [t \in Tokens |-> NoCamera] /\ timers' = {}
      /\ closed' = FALSE /\ op' = NoOp /\ op'.kind = "none" /\ todo' = {}
  BY DEF MemoryGone, NoOp
<1>2. sessions' \in [Tokens -> Cameras \cup {NoCamera}] /\ Active' = {}
  BY <1>1, NoSessions
<1>3. closed' \in BOOLEAN /\ (closed <=> proc = "closing")'
  BY <1>1
<1>4. TypeOK'
  BY <1>1, <1>2, <1>3 DEF TypeOK, OpType
<1>5. UniqueOK' /\ FreshOK' /\ SessionHasTimer'
  BY <1>1, <1>2 DEF UniqueOK, FreshOK, SessionHasTimer, Active
<1>6. PhaseOK' /\ OwnedOK'
  BY <1>1, <1>2, <1>3 DEF PhaseOK, OwnedOK
<1>7. QED
  BY <1>4, <1>5, <1>6

\* An orderly exit has worked off its list; a crash gives up all that was used.
LEMMA ExitStep == ASSUME IInv, Exit \/ Crash PROVE IInv'
<1>1. CASE Exit
  <2>1. paths \subseteq abandoned \cup strays
    BY <1>1 DEF Exit, IInv, PhaseOK, OwnedOK
  <2>2. QED
    BY <1>1, <2>1, MemoryGoneStep DEF Exit, IInv, TypeOK
<1>2. CASE Crash
  <2>1. faults' \in 0 .. MaxFaults
    BY <1>2, FaultType DEF Crash, IInv
  <2>2. abandoned' \subseteq Tokens /\ paths \subseteq abandoned' \cup strays
    BY <1>2 DEF Crash, IInv, TypeOK, FreshOK
  <2>3. QED
    BY <1>2, <2>1, <2>2, MemoryGoneStep DEF Crash
<1>3. QED
  BY <1>1, <1>2

\* MediaMTX forgets its paths, or applies an add nobody waits for any more.
LEMMA MediaMTXStep ==
  ASSUME IInv, MediaMTXRestart \/ \E t \in Tokens : LateApply(t) PROVE IInv'
<1> USE DEF IInv
<1>1. UNCHANGED <<proc, sessions, timers, closed, op, todo, used, abandoned>>
  BY DEF MediaMTXRestart, LateApply, memory
<1>2. Active' = Active /\ (ActiveOf(op.camera))' = ActiveOf(op.camera)
  BY <1>1 DEF Active, ActiveOf
<1>3. CASE MediaMTXRestart
  <2>1. faults' \in 0 .. MaxFaults /\ paths' = {} /\ late' = {} /\ UNCHANGED strays
    BY <1>3, FaultType DEF MediaMTXRestart
  <2>2. TypeOK' /\ UniqueOK' /\ FreshOK' /\ SessionHasTimer'
    BY <1>1, <1>2, <2>1 DEF TypeOK, UniqueOK, FreshOK, SessionHasTimer
  <2>3. PhaseOK' /\ OwnedOK'
    BY <1>1, <1>2, <2>1 DEF PhaseOK, OwnedOK
  <2>4. QED
    BY <2>2, <2>3
<1>4. ASSUME NEW t \in Tokens, LateApply(t) PROVE IInv'
  <2>1. /\ t \in late /\ late' = late \ {t} /\ paths' = paths \cup {t} /\ strays' = strays \cup {t}
        /\ UNCHANGED faults
    BY <1>4 DEF LateApply
  <2>2. TypeOK' /\ UniqueOK' /\ FreshOK' /\ SessionHasTimer'
    BY <1>1, <1>2, <2>1 DEF TypeOK, UniqueOK, FreshOK, SessionHasTimer
  <2>3. PhaseOK' /\ OwnedOK'
    BY <1>1, <1>2, <2>1 DEF PhaseOK, OwnedOK
  <2>4. QED
    BY <2>2, <2>3
<1>5. QED
  BY <1>3, <1>4

-----------------------------------------------------------------------------
(* The theorems.                                                            *)

\* Every step keeps the invariant, one lemma per action.
LEMMA Inductive == IInv /\ [Next]_vars => IInv'
<1> SUFFICES ASSUME IInv, [Next]_vars PROVE IInv'
  OBVIOUS
<1>1. CASE UNCHANGED vars
  <2>1. Active' = Active /\ (ActiveOf(op.camera))' = ActiveOf(op.camera)
    BY <1>1 DEF vars, Active, ActiveOf
  <2>2. QED
    BY <1>1, <2>1 DEF vars, IInv, TypeOK, UniqueOK, FreshOK, PhaseOK, OwnedOK, SessionHasTimer
<1>2. QED
  BY <1>1, StartSourceStep, ReplaceStep, ApplyStep, UndoStep, StopStep, ExpireStep, BootStep,
     CleanupDeleteStep, ServeStep, CloseStep, CloseDeleteStep, ExitStep, MediaMTXStep
     DEF Next, StartSteps

\* So it holds in every reachable state.
LEMMA InvariantHolds == Spec => []IInv
  BY InitOK, Inductive, PTL DEF Spec

\* Every variable of the manager, of MediaMTX and of the processes keeps its type.
THEOREM TypeCorrect == Spec => []TypeOK
<1>1. IInv => TypeOK
  BY DEF IInv
<1>2. QED
  BY <1>1, InvariantHolds, PTL

\* A set whose elements are all equal has at most one.
LEMMA AtMostOne ==
  ASSUME NEW S, \A x, y \in S : x = y PROVE Cardinality(S) <= 1
<1>1. CASE S = {}
  BY <1>1, FS_EmptySet
<1>2. CASE S # {}
  <2>1. PICK x : x \in S
    BY <1>2
  <2>2. S = {x}
    BY <2>1
  <2>3. QED
    BY <2>2, FS_Singleton
<1>3. QED
  BY <1>1, <1>2

\* No camera ever has two previews (the loop of StartSource over m.sessions),
\* however starts, stops, callbacks and failed calls follow each other.
THEOREM OnePreview == Spec => []OnePreviewPerCamera
<1>1. IInv => OnePreviewPerCamera
  <2> SUFFICES ASSUME IInv, NEW c \in Cameras PROVE Cardinality(ActiveOf(c)) <= 1
    BY DEF OnePreviewPerCamera
  <2>1. \A s, t \in ActiveOf(c) : s = t
    BY PreviewAssumption DEF IInv, UniqueOK, ActiveOf
  <2>2. QED
    BY <2>1, AtMostOne
<1>2. QED
  BY <1>1, InvariantHolds, PTL

\* Every session has a callback that will expire it (time.AfterFunc in
\* StartSource and in expire), also after deletions that failed.
THEOREM SessionsExpire == Spec => []SessionHasTimer
<1>1. IInv => SessionHasTimer
  BY DEF IInv
<1>2. QED
  BY <1>1, InvariantHolds, PTL

\* After Manager.Close has emptied the map no preview starts.
THEOREM CloseIsFinal == Spec => []ClosedStaysEmpty
<1>1. IInv => ClosedStaysEmpty
  BY OpCases DEF IInv, PhaseOK, ClosedStaysEmpty
<1>2. QED
  BY <1>1, InvariantHolds, PTL

\* The only credential-bearing path that is ever forgotten is one that MediaMTX
\* added after StartSource had given up on it and undone it (manager.go:89-96).
THEOREM NothingElseStrands == Spec => []OnlyLateAddsStrand
<1>1. IInv => OnlyLateAddsStrand
  BY OpCases DEF IInv, OwnedOK, OnlyLateAddsStrand, Stranded
<1>2. QED
  BY <1>1, InvariantHolds, PTL

=============================================================================
