---------------------------- MODULE CameraProxy ----------------------------
(***************************************************************************)
(* The camera web proxy (internal/cameraproxy/manager.go): one temporary   *)
(* reverse proxy per camera, with a listener of its own, that is renewed   *)
(* by every access, replaced when the camera's address changes, and ended  *)
(* by its timer, by a failing listener or by the shutdown of the service.  *)
(* Several goroutines share the map of sessions: HTTP handlers, timer      *)
(* callbacks, one Serve goroutine per session and Close. Closing a server  *)
(* happens after the lock is released, and a Serve goroutine that has not  *)
(* run yet keeps its listener open until it does.                          *)
(***************************************************************************)
EXTENDS Naturals, FiniteSets

CONSTANTS
  Cameras,    \* camera IDs
  Targets,    \* http://address:port of a camera
  Sessions,   \* *session values; each is allocated once
  NoSession,  \* nil
  Handlers,   \* concurrent POST /api/ip-cameras/{cameraID}/setup-access
  Ports,      \* how many listeners the configured listen address allows
  TTL,        \* Config.TTL in clock ticks
  LastStart,  \* bound: no session is started or renewed after this time
  Faults,     \* the kinds of fault that may happen, see FaultKinds
  MaxFaults   \* how many of them happen in a behaviour

\* "listen": net.Listen fails, "accept": a listener fails while it is served.
FaultKinds == {"listen", "accept"}

ASSUME ProxyAssumption ==
  /\ Cameras # {} /\ Targets # {}
  /\ NoSession \notin Sessions
  /\ Ports \in Nat /\ TTL \in Nat \ {0} /\ LastStart \in Nat /\ MaxFaults \in Nat
  /\ Faults \subseteq FaultKinds

VARIABLES
  now,        \* the clock
  handler,    \* Manager.Start in progress: its camera and target
  sessions,   \* Manager.sessions
  closed,     \* Manager.closed
  camera,     \* target.ID as captured by the session's callbacks
  target,     \* session.target
  expiresAt,  \* session.expiresAt
  timers,     \* armed or fired callbacks m.stop(id, current, expiresAt)
  server,     \* where each session's server and Serve goroutine are
  toClose,    \* removed from the map under the lock, server still to be closed
  faults      \* faults so far

vars == <<now, handler, sessions, closed, camera, target, expiresAt, timers, server, toClose, faults>>

\* server: "unused" not allocated; "started" the Serve goroutine has not run;
\* "serving"; "closing" closed before Serve ran; "returned" Serve has returned
\* and the goroutine is about to call remove; "gone" the goroutine has ended.
Listening == {s \in Sessions : server[s] \in {"started", "serving", "closing"}}
Closed    == {s \in Sessions : server[s] \in {"closing", "returned", "gone"}}

IdleHandler == [pc |-> "idle"]

Init ==
  /\ now = 0
  /\ handler = [h \in Handlers |-> IdleHandler]
  /\ sessions = [c \in Cameras |-> NoSession]
  /\ closed = "false"
  /\ camera = [s \in Sessions |-> CHOOSE c \in Cameras : TRUE]   \* until it is allocated
  /\ target = [s \in Sessions |-> CHOOSE t \in Targets : TRUE]
  /\ expiresAt = [s \in Sessions |-> 0]
  /\ timers = {}
  /\ server = [s \in Sessions |-> "unused"]
  /\ toClose = {}
  /\ faults = 0

Fault(kind) == kind \in Faults /\ faults < MaxFaults /\ faults' = faults + 1

\* Manager.mu: only Start does anything under it that another goroutine sees.
LockFree == \A h \in Handlers : handler[h].pc # "listen"

\* timer.Stop does not recall a callback that is already waiting for the lock.
StopTimer(s, new) ==
  \/ timers' = {t \in timers : t.session # s} \cup new
  \/ /\ \E t \in timers : t.session = s /\ t.at <= now
     /\ timers' = {t \in timers : t.session # s \/ t.at <= now} \cup new

\* http.Server.Close and Shutdown: a tracked listener is closed at once, one
\* that is not served yet when its Serve goroutine finds the server shut down.
CloseServer(f, s) ==
  [f EXCEPT ![s] = CASE @ = "started" -> "closing"
                     [] @ = "serving" -> "returned"
                     [] OTHER -> @]

-----------------------------------------------------------------------------
(* Manager.Start.                                                           *)

\* The target is taken from the camera store and dialled without the lock. An
\* invalid target, a direct answer and a failed dial change nothing.
Dial(h) ==
  /\ handler[h].pc = "idle"
  /\ \E c \in Cameras, t \in Targets :
       handler' = [handler EXCEPT ![h] = [pc |-> "lock", camera |-> c, target |-> t]]
  /\ UNCHANGED <<now, sessions, closed, camera, target, expiresAt, timers, server, toClose, faults>>

\* Under the lock from here on. A closed manager refuses.
Refuse(h) ==
  /\ handler[h].pc = "lock" /\ LockFree
  /\ closed = "true"
  /\ handler' = [handler EXCEPT ![h] = IdleHandler]
  /\ UNCHANGED <<now, sessions, closed, camera, target, expiresAt, timers, server, toClose, faults>>

\* Mutated form: the old timer is stopped and no new one armed.
Renew_NoTimer(h) ==
  /\ handler[h].pc = "lock" /\ LockFree
  /\ closed = "false"
  /\ now <= LastStart
  /\ LET current == sessions[handler[h].camera] IN
       /\ current # NoSession
       /\ target[current] = handler[h].target
       /\ expiresAt' = [expiresAt EXCEPT ![current] = now + TTL]
       /\ StopTimer(current, {})
  /\ handler' = [handler EXCEPT ![h] = IdleHandler]
  /\ UNCHANGED <<now, sessions, closed, camera, target, server, toClose, faults>>

\* The session of the same target gets a new expiry time and a new timer.
Renew(h) ==
  /\ handler[h].pc = "lock" /\ LockFree
  /\ closed = "false"
  /\ now <= LastStart
  /\ LET current == sessions[handler[h].camera] IN
       /\ current # NoSession
       /\ target[current] = handler[h].target
       /\ expiresAt' = [expiresAt EXCEPT ![current] = now + TTL]
       /\ StopTimer(current, {[session |-> current, at |-> now + TTL]})
  /\ handler' = [handler EXCEPT ![h] = IdleHandler]
  /\ UNCHANGED <<now, sessions, closed, camera, target, server, toClose, faults>>

\* Mutated form: the entry of the closed session is left to be overwritten.
Replace_KeepEntry(h) ==
  /\ handler[h].pc = "lock" /\ LockFree
  /\ closed = "false"
  /\ now <= LastStart /\ \E s \in Sessions : server[s] = "unused"
  /\ LET current == sessions[handler[h].camera] IN
       \/ current = NoSession /\ UNCHANGED <<timers, server>>
       \/ /\ current # NoSession
          /\ target[current] # handler[h].target
          /\ StopTimer(current, {})
          /\ server' = CloseServer(server, current)
  /\ handler' = [handler EXCEPT ![h].pc = "listen"]
  /\ UNCHANGED <<now, sessions, closed, camera, target, expiresAt, toClose, faults>>

\* Mutated form: closed is not looked at again after the dial.
Replace_NoClosedCheck(h) ==
  /\ handler[h].pc = "lock" /\ LockFree
  /\ now <= LastStart /\ \E s \in Sessions : server[s] = "unused"
  /\ sessions[handler[h].camera] = NoSession
  /\ handler' = [handler EXCEPT ![h].pc = "listen"]
  /\ UNCHANGED <<now, sessions, closed, camera, target, expiresAt, timers, server, toClose, faults>>

\* A session of another target is removed and its server closed at once.
Replace(h) ==
  /\ handler[h].pc = "lock" /\ LockFree
  /\ closed = "false"
  /\ now <= LastStart /\ \E s \in Sessions : server[s] = "unused"   \* bounds
  /\ LET current == sessions[handler[h].camera] IN
       \/ /\ current = NoSession
          /\ UNCHANGED <<sessions, timers, server>>
       \/ /\ current # NoSession
          /\ target[current] # handler[h].target
          /\ sessions' = [sessions EXCEPT ![handler[h].camera] = NoSession]
          /\ StopTimer(current, {})
          /\ server' = CloseServer(server, current)
  /\ handler' = [handler EXCEPT ![h].pc = "listen"]
  /\ UNCHANGED <<now, closed, camera, target, expiresAt, toClose, faults>>

\* Still under the same lock: a listener, the session, its timer and its Serve
\* goroutine. A failed net.Listen leaves the camera without a session.
Listen(h) ==
  /\ handler[h].pc = "listen"
  /\ \/ /\ Cardinality(Listening) < Ports
        /\ LET s == CHOOSE u \in Sessions : server[u] = "unused" IN   \* any new one
             /\ server' = [server EXCEPT ![s] = "started"]
             /\ camera' = [camera EXCEPT ![s] = handler[h].camera]
             /\ target' = [target EXCEPT ![s] = handler[h].target]
             /\ expiresAt' = [expiresAt EXCEPT ![s] = now + TTL]
             /\ timers' = timers \cup {[session |-> s, at |-> now + TTL]}
             /\ sessions' = [sessions EXCEPT ![handler[h].camera] = s]
        /\ UNCHANGED faults
     \/ /\ \/ Cardinality(Listening) >= Ports /\ UNCHANGED faults
           \/ Fault("listen")
        /\ UNCHANGED <<sessions, camera, target, expiresAt, timers, server>>
  /\ handler' = [handler EXCEPT ![h] = IdleHandler]
  /\ UNCHANGED <<now, closed, toClose>>

-----------------------------------------------------------------------------
(* Manager.stop, the Serve goroutine, remove and Close.                     *)

\* Mutated form: the expiry time of the grant is not compared.
Expire_AnyGrant(t) ==
  /\ t \in timers /\ t.at <= now /\ LockFree
  /\ timers' = timers \ {t}
  /\ sessions' = [sessions EXCEPT ![camera[t.session]] = IF @ = t.session THEN NoSession ELSE @]
  /\ toClose' = IF sessions' = sessions THEN toClose ELSE toClose \cup {t.session}
  /\ UNCHANGED <<now, handler, closed, camera, target, expiresAt, server, faults>>

\* A timer callback removes the session it was armed for, unless the session
\* was replaced or renewed in between; the server is closed after the unlock.
Expire(t) ==
  /\ t \in timers /\ t.at <= now /\ LockFree
  /\ timers' = timers \ {t}
  /\ LET s == t.session IN
       \/ /\ sessions[camera[s]] = s
          /\ expiresAt[s] = t.at
          /\ sessions' = [sessions EXCEPT ![camera[s]] = NoSession]
          /\ toClose' = toClose \cup {s}
       \/ /\ sessions[camera[s]] # s \/ expiresAt[s] # t.at
          /\ UNCHANGED <<sessions, toClose>>
  /\ UNCHANGED <<now, handler, closed, camera, target, expiresAt, server, faults>>

CloseRemoved(s) ==
  /\ s \in toClose
  /\ toClose' = toClose \ {s}
  /\ server' = CloseServer(server, s)
  /\ UNCHANGED <<now, handler, sessions, closed, camera, target, expiresAt, timers, faults>>

\* server.Serve begins, or returns at once and closes the listener of a server
\* that was closed before.
Serve(s) ==
  /\ \/ server[s] = "started" /\ server' = [server EXCEPT ![s] = "serving"]
     \/ server[s] = "closing" /\ server' = [server EXCEPT ![s] = "returned"]
  /\ UNCHANGED <<now, handler, sessions, closed, camera, target, expiresAt, timers, toClose, faults>>

\* Accept fails for good and Serve returns.
AcceptFails(s) ==
  /\ server[s] = "serving"
  /\ Fault("accept")
  /\ server' = [server EXCEPT ![s] = "returned"]
  /\ UNCHANGED <<now, handler, sessions, closed, camera, target, expiresAt, timers, toClose>>

\* Mutated form: the goroutine removes whatever session its camera has.
Remove_ByID(s) ==
  /\ server[s] = "returned" /\ LockFree
  /\ server' = [server EXCEPT ![s] = "gone"]
  /\ sessions' = [sessions EXCEPT ![camera[s]] = NoSession]
  /\ UNCHANGED <<now, handler, closed, camera, target, expiresAt, timers, toClose, faults>>

\* The goroutine removes its own session, and only that one; the timer stays.
Remove(s) ==
  /\ server[s] = "returned" /\ LockFree
  /\ server' = [server EXCEPT ![s] = "gone"]
  /\ sessions' = [sessions EXCEPT ![camera[s]] = IF @ = s THEN NoSession ELSE @]
  /\ UNCHANGED <<now, handler, closed, camera, target, expiresAt, timers, toClose, faults>>

\* The shutdown empties the map under the lock and closes the servers after it.
Close ==
  /\ closed = "false" /\ LockFree
  /\ closed' = "true"
  /\ LET live == {sessions[c] : c \in Cameras} \ {NoSession} IN
       /\ toClose' = toClose \cup live
       /\ timers' \in {{t \in timers : t.session \notin live},
                       {t \in timers : t.session \notin live \/ t.at <= now}}
  /\ sessions' = [c \in Cameras |-> NoSession]
  /\ UNCHANGED <<now, handler, camera, target, expiresAt, server, faults>>

\* Time passes until the last timer is due (bound).
Tick ==
  /\ now < LastStart \/ \E t \in timers : t.at > now
  /\ now' = now + 1
  /\ UNCHANGED <<handler, sessions, closed, camera, target, expiresAt, timers, server, toClose, faults>>

-----------------------------------------------------------------------------

Locked(h) == Refuse(h) \/ Renew(h) \/ Replace(h) \/ Listen(h)

Next ==
  \/ \E h \in Handlers : Dial(h) \/ Locked(h)
  \/ \E t \in timers : Expire(t)
  \/ \E s \in Sessions : CloseRemoved(s) \/ Serve(s) \/ AcceptFails(s) \/ Remove(s)
  \/ Close
  \/ Tick

Spec == Init /\ [][Next]_vars

\* Go runs every runnable goroutine and every due timer, a mutex is granted to
\* those who wait for it, and time passes. Nobody has to use or close a proxy.
Fairness ==
  /\ WF_vars(Tick)
  /\ WF_vars(\E h \in Handlers : Listen(h))
  /\ WF_vars(\E t \in timers : Expire(t))
  /\ WF_vars(\E s \in Sessions : CloseRemoved(s) \/ Serve(s) \/ Remove(s))

FairSpec == Spec /\ Fairness

-----------------------------------------------------------------------------
(* Properties.                                                              *)

ServerStates == {"unused", "started", "serving", "closing", "returned", "gone"}
HandlerType == {IdleHandler} \cup [pc : {"lock", "listen"}, camera : Cameras, target : Targets]

\* Every variable of the manager, its sessions and their goroutines has its type.
TypeOK ==
  /\ now \in Nat
  /\ handler \in [Handlers -> HandlerType]
  /\ sessions \in [Cameras -> Sessions \cup {NoSession}]
  /\ closed \in {"true", "false"}
  /\ camera \in [Sessions -> Cameras]
  /\ target \in [Sessions -> Targets]
  /\ expiresAt \in [Sessions -> Nat]
  /\ timers \subseteq [session : Sessions, at : Nat]
  /\ server \in [Sessions -> ServerStates]
  /\ toClose \subseteq Sessions
  /\ faults \in 0 .. MaxFaults

\* A listener on the Raspberry Pi is never forgotten: it belongs to a session of
\* the map, or a goroutine is about to close it. The stale Serve goroutines and
\* timer callbacks of earlier sessions of the camera must not cut that link.
NoOrphanListener ==
  \A s \in Listening :
    sessions[camera[s]] = s \/ s \in toClose \/ server[s] = "closing"

\* The listener whose address a renewal returns is open: what is in the map was
\* never closed by anybody, and where its listener failed by itself the Serve
\* goroutine is about to take it out of the map.
MappedIsOpen ==
  \A c \in Cameras :
    sessions[c] # NoSession =>
      /\ server[sessions[c]] \in {"started", "serving", "returned"}
      /\ server[sessions[c]] = "returned" => faults > 0

\* After the shutdown emptied the map no proxy starts any more, also not for a
\* handler that was dialling the camera meanwhile.
ClosedStaysEmpty ==
  closed = "true" =>
    /\ \A c \in Cameras : sessions[c] = NoSession
    /\ Listening \subseteq toClose \cup Closed

\* The browser may use the proxy until the expiry time it was given last: before
\* that only the shutdown, a failed listener or a new target of the camera ends
\* a session, never the timer of an earlier grant.
PromiseKept ==
  [][\A c \in Cameras :
       sessions[c] # NoSession /\ sessions'[c] # sessions[c] =>
         \/ now >= expiresAt[sessions[c]]
         \/ closed' = "true"
         \/ server[sessions[c]] = "returned"
         \/ \E h \in Handlers :
              /\ handler[h].pc = "lock" /\ handler'[h].pc = "listen"
              /\ handler[h].camera = c
              /\ handler[h].target # target[sessions[c]]]_vars

\* Every proxy listener is closed again once nobody renews it.
ProxyIsTemporary ==
  \A s \in Sessions : s \in Listening ~> s \notin Listening

=============================================================================
