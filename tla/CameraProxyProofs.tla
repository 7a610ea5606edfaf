------------------------- MODULE CameraProxyProofs -------------------------
(***************************************************************************)
(* What holds of the camera web proxy for any number of cameras, targets,  *)
(* sessions, handlers, ports and faults.                                   *)
(***************************************************************************)
EXTENDS CameraProxy, TLAPS

\* The handler that is between Replace and Listen holds Manager.mu: it is the
\* only one there, has left its camera without a session, and nobody has closed
\* the manager or allocated the session it is about to use.
LockOK ==
  \A h \in Handlers :
    handler[h].pc = "listen" =>
      /\ closed = "false"
      /\ sessions[handler[h].camera] = NoSession
      /\ \E s \in Sessions : server[s] = "unused"
      /\ \A g \in Handlers : handler[g].pc = "listen" => g = h

\* A session of the map is filed under its own camera, and nobody is about to
\* close its server.
MapOK ==
  \A c \in Cameras :
    sessions[c] # NoSession => camera[sessions[c]] = c /\ sessions[c] \notin toClose

\* Only sessions that were started are closed.
CloseOK == \A s \in toClose : server[s] # "unused"

\* The map of a closed manager is empty.
EmptyOK == closed = "true" => \A c \in Cameras : sessions[c] = NoSession

\* The inductive invariant.
IInv ==
  /\ TypeOK
  /\ LockOK
  /\ MapOK
  /\ CloseOK
  /\ EmptyOK
  /\ NoOrphanListener
  /\ MappedIsOpen

-----------------------------------------------------------------------------
(* The pieces of the actions.                                               *)

\* Closing a server changes that session's state only, and leaves it unserved.
LEMMA CloseServerType ==
  ASSUME TypeOK, NEW s \in Sessions
  PROVE  /\ CloseServer(server, s) \in [Sessions -> ServerStates]
         /\ \A u \in Sessions \ {s} : CloseServer(server, s)[u] = server[u]
         /\ CloseServer(server, s)[s] =
              IF server[s] = "started" THEN "closing"
              ELSE IF server[s] = "serving" THEN "returned" ELSE server[s]
  BY DEF CloseServer, TypeOK, ServerStates

\* Whatever timers a stop leaves behind were armed before, or are the new ones.
LEMMA StopTimerType ==
  ASSUME TypeOK, NEW s, NEW new \in SUBSET [session : Sessions, at : Nat], StopTimer(s, new)
  PROVE  timers' \subseteq [session : Sessions, at : Nat]
  BY DEF StopTimer, TypeOK

\* A fault is counted up to the bound.
LEMMA FaultType ==
  ASSUME TypeOK, NEW kind, Fault(kind)
  PROVE  faults' \in 0 .. MaxFaults /\ faults' > 0
  BY ProxyAssumption DEF Fault, TypeOK

\* The manager starts with an empty map.
LEMMA InitOK == Init => IInv
<1> SUFFICES ASSUME Init PROVE IInv
  OBVIOUS
<1>1. handler \in [Handlers -> HandlerType]
  BY DEF Init, HandlerType
<1>2. camera \in [Sessions -> Cameras] /\ target \in [Sessions -> Targets]
  BY ProxyAssumption DEF Init
<1>3. TypeOK
  BY <1>1, <1>2, ProxyAssumption DEF Init, TypeOK, ServerStates
<1>4. QED
  BY <1>3 DEF Init, IInv, LockOK, MapOK, CloseOK, EmptyOK, NoOrphanListener, MappedIsOpen,
              Listening, IdleHandler

-----------------------------------------------------------------------------
(* Manager.Start.                                                           *)

\* Outside of the lock only the handler's own arguments change.
LEMMA DialStep == ASSUME IInv, NEW h \in Handlers, Dial(h) PROVE IInv'
<1> USE DEF IInv
<1>1. PICK c \in Cameras, t \in Targets :
        handler' = [handler EXCEPT ![h] = [pc |-> "lock", camera |-> c, target |-> t]]
  BY DEF Dial
<1>2. TypeOK'
  BY <1>1 DEF Dial, TypeOK, HandlerType
<1>3. LockOK'
  BY <1>1 DEF Dial, TypeOK, LockOK
<1>4. QED
  BY <1>2, <1>3 DEF Dial, MapOK, CloseOK, EmptyOK, NoOrphanListener, MappedIsOpen, Listening

\* A closed manager refuses without touching anything.
LEMMA RefuseStep == ASSUME IInv, NEW h \in Handlers, Refuse(h) PROVE IInv'
<1> USE DEF IInv
<1>1. TypeOK'
  BY DEF Refuse, TypeOK, HandlerType
<1>2. LockOK'
  BY DEF Refuse, TypeOK, LockOK, IdleHandler
<1>3. QED
  BY <1>1, <1>2 DEF Refuse, MapOK, CloseOK, EmptyOK, NoOrphanListener, MappedIsOpen, Listening

\* A renewal changes an expiry time and timers, which the invariant leaves open.
LEMMA RenewStep == ASSUME IInv, NEW h \in Handlers, Renew(h) PROVE IInv'
<1> USE DEF IInv
<1> DEFINE current == sessions[handler[h].camera]
<1>1. handler[h] \in [pc : {"lock", "listen"}, camera : Cameras, target : Targets]
  BY DEF Renew, TypeOK, HandlerType, IdleHandler
<1>2. current \in Sessions /\ now + TTL \in Nat
  BY <1>1, ProxyAssumption DEF Renew, TypeOK
<1>3. timers' \subseteq [session : Sessions, at : Nat]
  BY <1>2, StopTimerType DEF Renew
<1>4. TypeOK'
  BY <1>2, <1>3 DEF Renew, TypeOK, HandlerType
<1>5. LockOK'
  BY DEF Renew, TypeOK, LockOK, IdleHandler
<1>6. QED
  BY <1>4, <1>5 DEF Renew, MapOK, CloseOK, EmptyOK, NoOrphanListener, MappedIsOpen, Listening

\* The session of another target leaves the map and is closed in the same step.
LEMMA ReplaceStep == ASSUME IInv, NEW h \in Handlers, Replace(h) PROVE IInv'
<1> USE DEF IInv
<1> DEFINE c == handler[h].camera
           current == sessions[c]
<1>1. handler[h] \in [pc : {"lock", "listen"}, camera : Cameras, target : Targets]
  BY DEF Replace, TypeOK, HandlerType, IdleHandler
<1>2. /\ handler' \in [Handlers -> HandlerType]
      /\ \A g \in Handlers : handler'[g].camera = handler[g].camera
      /\ \A g \in Handlers : handler'[g].pc = "listen" <=> g = h
  <2>1. [handler[h] EXCEPT !.pc = "listen"] \in [pc : {"lock", "listen"}, camera : Cameras, target : Targets]
    BY <1>1
  <2>2. handler' = [handler EXCEPT ![h] = [handler[h] EXCEPT !.pc = "listen"]]
    BY DEF Replace, TypeOK
  <2>3. \A g \in Handlers : handler[g].pc # "listen"
    BY DEF Replace, LockFree
  <2>4. QED
    BY <1>1, <2>1, <2>2, <2>3 DEF TypeOK, HandlerType
<1>3. CASE current = NoSession
  <2>1. UNCHANGED <<sessions, timers, server>>
    BY <1>3 DEF Replace
  <2>2. TypeOK'
    BY <1>2, <2>1 DEF Replace, TypeOK
  <2>3. LockOK'
    BY <1>2, <1>3, <2>1 DEF Replace, LockOK
  <2>4. QED
    BY <2>1, <2>2, <2>3 DEF Replace, MapOK, CloseOK, EmptyOK, NoOrphanListener, MappedIsOpen, Listening
<1>4. CASE current # NoSession
  <2>1. /\ sessions' = [sessions EXCEPT ![c] = NoSession]
        /\ StopTimer(current, {})
        /\ server' = CloseServer(server, current)
    BY <1>4 DEF Replace
  <2>2. c \in Cameras /\ current \in Sessions
    BY <1>1, <1>4 DEF TypeOK
  <2>3. timers' \subseteq [session : Sessions, at : Nat]
    BY <2>1, StopTimerType
  <2>4. /\ server' \in [Sessions -> ServerStates]
        /\ \A u \in Sessions \ {current} : server'[u] = server[u]
        /\ server[current] # "unused" => server'[current] # "unused"
        /\ server[current] = "unused" => server'[current] = "unused"
        /\ server'[current] \notin {"started", "serving"}
    BY <2>1, <2>2, CloseServerType
  <2>5. TypeOK'
    BY <1>2, <2>1, <2>2, <2>3, <2>4 DEF Replace, TypeOK
  <2>6. LockOK'
    BY <1>2, <2>1, <2>2, <2>4 DEF Replace, LockOK, TypeOK
  <2>7. \A d \in Cameras : d # c /\ sessions[d] # NoSession => sessions[d] # current
    BY <1>4, <2>2 DEF MapOK
  <2>8. MapOK' /\ CloseOK' /\ EmptyOK'
    BY <2>1, <2>2, <2>4 DEF Replace, MapOK, CloseOK, EmptyOK, TypeOK
  <2>9. NoOrphanListener'
    BY <2>1, <2>2, <2>4 DEF Replace, NoOrphanListener, Listening, TypeOK
  <2>10. MappedIsOpen'
    BY <2>1, <2>2, <2>4, <2>7 DEF Replace, MappedIsOpen, TypeOK
  <2>11. QED
    BY <2>5, <2>6, <2>8, <2>9, <2>10
<1>5. QED
  BY <1>3, <1>4

\* The new session goes into an empty entry of the map, so that no other session
\* loses its link to it.
LEMMA ListenStep == ASSUME IInv, NEW h \in Handlers, Listen(h) PROVE IInv'
<1> USE DEF IInv
<1> DEFINE c == handler[h].camera
<1>1. handler[h] \in [pc : {"lock", "listen"}, camera : Cameras, target : Targets]
  BY DEF Listen, TypeOK, HandlerType, IdleHandler
<1>2. /\ handler' \in [Handlers -> HandlerType]
      /\ \A g \in Handlers : handler'[g].pc # "listen"
  BY DEF Listen, TypeOK, HandlerType, IdleHandler, LockOK
<1>3. closed = "false" /\ sessions[c] = NoSession /\ \E s \in Sessions : server[s] = "unused"
  BY DEF Listen, LockOK
<1>4. LockOK'
  BY <1>2 DEF LockOK
<1>5. CASE UNCHANGED <<sessions, camera, target, expiresAt, timers, server>>
  <2>1. faults' \in 0 .. MaxFaults /\ (faults > 0 => faults' > 0)
    BY <1>5, FaultType DEF Listen, TypeOK
  <2>2. TypeOK'
    BY <1>2, <1>5, <2>1 DEF Listen, TypeOK
  <2>3. QED
    BY <1>4, <1>5, <2>1, <2>2
       DEF Listen, MapOK, CloseOK, EmptyOK, NoOrphanListener, MappedIsOpen, Listening
<1>6. CASE ~ UNCHANGED <<sessions, camera, target, expiresAt, timers, server>>
  <2> DEFINE s == CHOOSE u \in Sessions : server[u] = "unused"
  <2>1. s \in Sessions /\ server[s] = "unused"
    BY <1>3
  <2>2. /\ server' = [server EXCEPT ![s] = "started"]
        /\ camera' = [camera EXCEPT ![s] = c]
        /\ target' = [target EXCEPT ![s] = handler[h].target]
        /\ expiresAt' = [expiresAt EXCEPT ![s] = now + TTL]
        /\ timers' = timers \cup {[session |-> s, at |-> now + TTL]}
        /\ sessions' = [sessions EXCEPT ![c] = s]
        /\ UNCHANGED <<now, closed, toClose, faults>>
    BY <1>6 DEF Listen
  <2> HIDE DEF s
  <2>3. now + TTL \in Nat
    BY ProxyAssumption DEF TypeOK
  <2>4. TypeOK'
    BY <1>1, <1>2, <2>1, <2>2, <2>3 DEF TypeOK, ServerStates
  <2>5. s # NoSession /\ s \notin toClose /\ \A d \in Cameras : sessions[d] # s
    BY <2>1, ProxyAssumption DEF CloseOK, MappedIsOpen
  <2>6. MapOK' /\ CloseOK' /\ EmptyOK'
    BY <1>1, <1>3, <2>1, <2>2, <2>5 DEF MapOK, CloseOK, EmptyOK, TypeOK
  <2>7. NoOrphanListener'
    BY <1>1, <1>3, <2>1, <2>2, <2>5, ProxyAssumption DEF NoOrphanListener, Listening, TypeOK
  <2>8. MappedIsOpen'
    BY <1>1, <1>3, <2>1, <2>2, <2>5 DEF MappedIsOpen, TypeOK
  <2>9. QED
    BY <1>4, <2>4, <2>6, <2>7, <2>8
<1>7. QED
  BY <1>5, <1>6

-----------------------------------------------------------------------------
(* The callbacks, the Serve goroutines and Close.                           *)

\* A callback that finds its own grant moves the session from the map to those
\* that are to be closed; any other callback does nothing.
LEMMA ExpireStep == ASSUME IInv, NEW t \in timers, Expire(t) PROVE IInv'
<1> USE DEF IInv
<1> DEFINE s == t.session
<1>1. s \in Sessions /\ camera[s] \in Cameras
  BY DEF TypeOK
<1>2. \A h \in Handlers : handler[h].pc # "listen"
  BY DEF Expire, LockFree
<1>3. CASE UNCHANGED <<sessions, toClose>>
  <2>1. TypeOK' /\ LockOK'
    BY <1>2, <1>3 DEF Expire, TypeOK, LockOK
  <2>2. QED
    BY <1>3, <2>1 DEF Expire, MapOK, CloseOK, EmptyOK, NoOrphanListener, MappedIsOpen, Listening
<1>4. CASE /\ sessions[camera[s]] = s
           /\ sessions' = [sessions EXCEPT ![camera[s]] = NoSession]
           /\ toClose' = toClose \cup {s}
  <2>1. TypeOK' /\ LockOK'
    BY <1>1, <1>2, <1>4 DEF Expire, TypeOK, LockOK
  <2>2. server[s] # "unused" /\ s # NoSession
    BY <1>1, <1>4, ProxyAssumption DEF MappedIsOpen
  <2>3. \A d \in Cameras : sessions[d] = s => d = camera[s]
    BY <2>2 DEF MapOK
  <2>4. MapOK' /\ CloseOK' /\ EmptyOK'
    BY <1>1, <1>4, <2>2, <2>3 DEF Expire, MapOK, CloseOK, EmptyOK, TypeOK
  <2>5. NoOrphanListener' /\ MappedIsOpen'
    BY <1>1, <1>4 DEF Expire, NoOrphanListener, MappedIsOpen, Listening, TypeOK
  <2>6. QED
    BY <2>1, <2>4, <2>5
<1>5. QED
  BY <1>3, <1>4 DEF Expire

\* A server that is closed after the unlock is in no entry of the map.
LEMMA CloseRemovedStep == ASSUME IInv, NEW s \in Sessions, CloseRemoved(s) PROVE IInv'
<1> USE DEF IInv
<1>1. \A d \in Cameras : sessions[d] # s
  BY ProxyAssumption DEF CloseRemoved, MapOK
<1>2. /\ server' \in [Sessions -> ServerStates]
      /\ \A u \in Sessions \ {s} : server'[u] = server[u]
      /\ server[s] # "unused"
      /\ server'[s] \in {"closing", "returned", "gone"}
  BY CloseServerType DEF CloseRemoved, CloseOK, TypeOK, ServerStates
<1>3. TypeOK'
  BY <1>2 DEF CloseRemoved, TypeOK
<1>4. LockOK'
  BY <1>2 DEF CloseRemoved, LockOK
<1>5. MapOK' /\ CloseOK' /\ EmptyOK'
  BY <1>2 DEF CloseRemoved, MapOK, CloseOK, EmptyOK, TypeOK
<1>6. NoOrphanListener'
  BY <1>2 DEF CloseRemoved, NoOrphanListener, Listening
<1>7. MappedIsOpen'
  BY <1>1, <1>2 DEF CloseRemoved, MappedIsOpen, TypeOK
<1>8. QED
  BY <1>3, <1>4, <1>5, <1>6, <1>7

\* A Serve goroutine begins, or finds its server closed: in the latter case its
\* session is not in the map.
LEMMA ServeStep == ASSUME IInv, NEW s \in Sessions, Serve(s) PROVE IInv'
<1> USE DEF IInv
<1>1. /\ server' \in [Sessions -> ServerStates]
      /\ \A u \in Sessions \ {s} : server'[u] = server[u]
      /\ \/ server[s] = "started" /\ server'[s] = "serving"
         \/ server[s] = "closing" /\ server'[s] = "returned"
  BY DEF Serve, TypeOK, ServerStates
<1>2. TypeOK' /\ LockOK'
  BY <1>1 DEF Serve, TypeOK, LockOK
<1>3. MapOK' /\ CloseOK' /\ EmptyOK'
  BY <1>1 DEF Serve, MapOK, CloseOK, EmptyOK, TypeOK
<1>4. NoOrphanListener' /\ MappedIsOpen'
  BY <1>1 DEF Serve, NoOrphanListener, MappedIsOpen, Listening, TypeOK
<1>5. QED
  BY <1>2, <1>3, <1>4

\* A listener that fails is a fault, which is what MappedIsOpen asks for.
LEMMA AcceptFailsStep == ASSUME IInv, NEW s \in Sessions, AcceptFails(s) PROVE IInv'
<1> USE DEF IInv
<1>1. faults' \in 0 .. MaxFaults /\ faults' > 0
  BY FaultType DEF AcceptFails
<1>2. /\ server' \in [Sessions -> ServerStates]
      /\ \A u \in Sessions \ {s} : server'[u] = server[u]
      /\ server[s] = "serving" /\ server'[s] = "returned"
  BY DEF AcceptFails, TypeOK, ServerStates
<1>3. TypeOK' /\ LockOK'
  BY <1>1, <1>2 DEF AcceptFails, TypeOK, LockOK
<1>4. MapOK' /\ CloseOK' /\ EmptyOK'
  BY <1>2 DEF AcceptFails, MapOK, CloseOK, EmptyOK, TypeOK
<1>5. NoOrphanListener' /\ MappedIsOpen'
  BY <1>1, <1>2 DEF AcceptFails, NoOrphanListener, MappedIsOpen, Listening, TypeOK
<1>6. QED
  BY <1>3, <1>4, <1>5

\* A goroutine that ends takes its own session out of the map and no other.
LEMMA RemoveStep == ASSUME IInv, NEW s \in Sessions, Remove(s) PROVE IInv'
<1> USE DEF IInv
<1>1. /\ server' \in [Sessions -> ServerStates]
      /\ \A u \in Sessions \ {s} : server'[u] = server[u]
      /\ server[s] = "returned" /\ server'[s] = "gone"
  BY DEF Remove, TypeOK, ServerStates
<1>2. camera[s] \in Cameras /\ s # NoSession
  BY ProxyAssumption DEF TypeOK
<1>3. /\ sessions' \in [Cameras -> Sessions \cup {NoSession}]
      /\ \A d \in Cameras :
           sessions'[d] = IF d = camera[s] /\ sessions[d] = s THEN NoSession ELSE sessions[d]
  BY <1>2 DEF Remove, TypeOK
<1>4. \A h \in Handlers : handler[h].pc # "listen"
  BY DEF Remove, LockFree
<1>5. TypeOK' /\ LockOK'
  BY <1>1, <1>3, <1>4 DEF Remove, TypeOK, LockOK
<1>6. MapOK' /\ CloseOK' /\ EmptyOK'
  BY <1>1, <1>3 DEF Remove, MapOK, CloseOK, EmptyOK, TypeOK
<1>7. NoOrphanListener'
  BY <1>1, <1>2, <1>3 DEF Remove, NoOrphanListener, Listening, TypeOK
<1>8. \A d \in Cameras : sessions'[d] # NoSession => sessions'[d] = sessions[d] /\ sessions[d] # s
  BY <1>2, <1>3 DEF MapOK
<1>9. MappedIsOpen'
  BY <1>1, <1>8 DEF Remove, MappedIsOpen, TypeOK
<1>10. QED
  BY <1>5, <1>6, <1>7, <1>9

\* Close moves every session of the map to those that are to be closed.
LEMMA CloseStep == ASSUME IInv, Close PROVE IInv'
<1> USE DEF IInv
<1> DEFINE live == {sessions[c] : c \in Cameras} \ {NoSession}
<1>1. /\ toClose' = toClose \cup live
      /\ timers' \subseteq timers
      /\ closed' = "true"
      /\ sessions' = [c \in Cameras |-> NoSession]
      /\ \A h \in Handlers : handler[h].pc # "listen"
      /\ UNCHANGED <<now, handler, camera, target, expiresAt, server, faults>>
  BY DEF Close, LockFree
<1>2. live \subseteq Sessions /\ \A s \in live : server[s] # "unused"
  BY DEF TypeOK, MappedIsOpen
<1>3. TypeOK' /\ LockOK'
  BY <1>1, <1>2 DEF TypeOK, LockOK
<1>4. MapOK' /\ CloseOK' /\ EmptyOK' /\ MappedIsOpen'
  BY <1>1, <1>2 DEF MapOK, CloseOK, EmptyOK, MappedIsOpen
<1>5. \A s \in Sessions : sessions[camera[s]] = s => s \in live
  BY ProxyAssumption DEF TypeOK
<1>6. NoOrphanListener'
  BY <1>1, <1>5 DEF NoOrphanListener, Listening
<1>7. QED
  BY <1>3, <1>4, <1>6

\* Time, and steps of nobody, change nothing the invariant is about.
LEMMA TickStep == ASSUME IInv, Tick \/ UNCHANGED vars PROVE IInv'
<1> USE DEF IInv
<1>1. now' \in Nat /\ UNCHANGED <<handler, sessions, closed, camera, target, expiresAt, timers,
                                   server, toClose, faults>>
  BY DEF Tick, vars, TypeOK
<1>2. QED
  BY <1>1 DEF TypeOK, LockOK, MapOK, CloseOK, EmptyOK, NoOrphanListener, MappedIsOpen, Listening

-----------------------------------------------------------------------------
(* The theorems.                                                            *)

\* Every step keeps the invariant, one lemma per action.
LEMMA Inductive == IInv /\ [Next]_vars => IInv'
  BY DialStep, RefuseStep, RenewStep, ReplaceStep, ListenStep, ExpireStep, CloseRemovedStep,
     ServeStep, AcceptFailsStep, RemoveStep, CloseStep, TickStep
     DEF Next, Locked

\* So it holds in every reachable state.
LEMMA InvariantHolds == Spec => []IInv
  BY InitOK, Inductive, PTL DEF Spec

\* No listener on the Raspberry Pi is ever forgotten (Manager.sessions), for any
\* number of cameras, overlapping starts, stale callbacks and failing listeners.
THEOREM ListenersAreOwned == Spec => []NoOrphanListener
<1>1. IInv => NoOrphanListener
  BY DEF IInv
<1>2. QED
  BY <1>1, InvariantHolds, PTL

\* A renewal (the first branch of Manager.Start) never returns the address of a
\* listener that somebody has closed.
THEOREM RenewalsAreOpen == Spec => []MappedIsOpen
<1>1. IInv => MappedIsOpen
  BY DEF IInv
<1>2. QED
  BY <1>1, InvariantHolds, PTL

\* Manager.Close is final: no session appears after it, and every listener that
\* is still open is about to be closed.
THEOREM CloseIsFinal == Spec => []ClosedStaysEmpty
<1>1. IInv => ClosedStaysEmpty
  <2> SUFFICES ASSUME IInv, closed = "true"
               PROVE  /\ \A c \in Cameras : sessions[c] = NoSession
                      /\ Listening \subseteq toClose \cup Closed
    BY DEF ClosedStaysEmpty
  <2>1. \A c \in Cameras : sessions[c] = NoSession
    BY DEF IInv, EmptyOK
  <2>2. \A s \in Listening : sessions[camera[s]] # s
    BY <2>1, ProxyAssumption DEF IInv, TypeOK, Listening
  <2>3. QED
    BY <2>1, <2>2 DEF IInv, NoOrphanListener, Listening, Closed
<1>2. QED
  BY <1>1, InvariantHolds, PTL

\* The grant a browser was given last is kept: the comparison of expiresAt in
\* Manager.stop and of the session in remove hold off every stale callback.
THEOREM GrantsAreKept == Spec => PromiseKept
<1> DEFINE Kept ==
      \A c \in Cameras :
        sessions[c] # NoSession /\ sessions'[c] # sessions[c] =>
          \/ now >= expiresAt[sessions[c]]
          \/ closed' = "true"
          \/ server[sessions[c]] = "returned"
          \/ \E h \in Handlers :
               /\ handler[h].pc = "lock" /\ handler'[h].pc = "listen"
               /\ handler[h].camera = c
               /\ handler[h].target # target[sessions[c]]
<1>1. IInv /\ [Next]_vars => [Kept]_vars
  <2> SUFFICES ASSUME IInv, Next,
                      NEW c \in Cameras, sessions[c] # NoSession, sessions'[c] # sessions[c]
               PROVE  \/ now >= expiresAt[sessions[c]]
                      \/ closed' = "true"
                      \/ server[sessions[c]] = "returned"
                      \/ \E h \in Handlers :
                           /\ handler[h].pc = "lock" /\ handler'[h].pc = "listen"
                           /\ handler[h].camera = c
                           /\ handler[h].target # target[sessions[c]]
    OBVIOUS
  <2> USE DEF IInv
  <2>1. ASSUME NEW h \in Handlers, Replace(h)
        PROVE  /\ handler[h].pc = "lock" /\ handler'[h].pc = "listen"
               /\ handler[h].camera = c
               /\ handler[h].target # target[sessions[c]]
    <3>1. handler[h] \in [pc : {"lock", "listen"}, camera : Cameras, target : Targets]
      BY <2>1 DEF Replace, TypeOK, HandlerType, IdleHandler
    <3>2. sessions' = [sessions EXCEPT ![handler[h].camera] = NoSession]
      BY <2>1 DEF Replace
    <3>3. handler[h].camera = c
      BY <3>1, <3>2 DEF TypeOK
    <3>4. QED
      BY <2>1, <3>1, <3>3 DEF Replace, TypeOK
  <2>2. ASSUME NEW h \in Handlers PROVE ~Listen(h)
    <3> SUFFICES ASSUME Listen(h) PROVE FALSE
      OBVIOUS
    <3>1. handler[h].camera \in Cameras /\ sessions[handler[h].camera] = NoSession
      BY DEF Listen, TypeOK, HandlerType, IdleHandler, LockOK
    <3>2. \E s : sessions' = [sessions EXCEPT ![handler[h].camera] = s]
      BY DEF Listen
    <3>3. QED
      BY <3>1, <3>2 DEF TypeOK
  <2>3. ASSUME NEW t \in timers, Expire(t) PROVE now >= expiresAt[sessions[c]]
    <3>1. /\ sessions[camera[t.session]] = t.session
          /\ expiresAt[t.session] = t.at /\ t.at <= now
          /\ sessions' = [sessions EXCEPT ![camera[t.session]] = NoSession]
      BY <2>3 DEF Expire
    <3>2. camera[t.session] = c
      BY <3>1 DEF TypeOK
    <3>3. QED
      BY <3>1, <3>2 DEF TypeOK
  <2>4. ASSUME NEW s \in Sessions, Remove(s) PROVE server[sessions[c]] = "returned"
    BY <2>4 DEF Remove, TypeOK
  <2>5. Close => closed' = "true"
    BY DEF Close
  <2>6. QED
    BY <2>1, <2>2, <2>3, <2>4, <2>5
       DEF Next, Locked, Dial, Refuse, Renew, CloseRemoved, Serve, AcceptFails, Tick
<1>2. QED
  BY <1>1, InvariantHolds, PTL DEF Spec, PromiseKept

=============================================================================
