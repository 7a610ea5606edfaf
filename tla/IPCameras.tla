----------------------------- MODULE IPCameras ------------------------------
(***************************************************************************)
(* The IP camera service (internal/ipcamera/service.go with its discovery  *)
(* backends). The list of cameras is a map under Service.mu and a file     *)
(* that is replaced on every change. Discover, CheckStatus (run by Monitor *)
(* every few seconds), RefreshVideoStreams and SaveWithCameraUpdate all    *)
(* talk to the cameras for seconds without that lock, so each is several   *)
(* actions here; Save and Delete are one lock section each. Any number of  *)
(* refreshes and saves may be in progress.                                 *)
(*                                                                         *)
(* Of a camera the model keeps what decides: its address, what only the    *)
(* operator knows (user name and password), and its initialization status. *)
(* Descriptive fields, stream paths and stream metadata are data.          *)
(***************************************************************************)
EXTENDS Naturals, Functions

CONSTANTS
  Dahua,      \* IDs of Dahua cameras, "mac:..."
  UNV,        \* IDs of UNV cameras
  Addrs,      \* IPv4 addresses
  Users,      \* user names
  Passwords,  \* and passwords an operator may enter
  Blank,      \* neither
  NoAddr,     \* the address of an entry that does not exist
  Start,      \* what the cameras may be at the start, see Cameras
  Faults,     \* the kinds of fault that may happen, see FaultKinds
  MaxFaults,  \* bound: how many of them happen in a behaviour
  MaxEdits    \* bound: how many refreshes, saves and deletes are started

\* "silent": answers of cameras are lost, "answer": a camera changes its address
\* and its answer is lost, "write": the file cannot be written, "sync": it is
\* replaced and the directory sync fails, "crash": the service restarts,
\* "world": a camera gets another address, is plugged in elsewhere, or is reset or
\* initialized.
FaultKinds == {"silent", "answer", "write", "sync", "crash", "world"}

Ids      == Dahua \cup UNV
Statuses == {"unknown", "required", "completed"}
Entries  == [addr : Addrs, user : Users \cup {Blank}, pass : Passwords \cup {Blank}, init : Statuses]
Heards   == [addr : Addrs, init : Statuses]
Books    == UNION {[S -> Entries] : S \in SUBSET Ids}

\* A camera: is it on the segment of the first usable interface, and does its
\* firmware state its initialization in words that isCameraInitialized knows?
Cameras == [addr : Addrs, init : {"required", "completed"}, near : BOOLEAN, tells : BOOLEAN]

ASSUME CamerasAssumption ==
  /\ Dahua \cap UNV = {}
  /\ Blank \notin Users \cup Passwords
  /\ NoAddr \notin Addrs
  /\ Start \subseteq [Ids -> Cameras]
  /\ Faults \subseteq FaultKinds
  /\ MaxFaults \in Nat
  /\ MaxEdits \in Nat

VARIABLES
  cameras,  \* Service.cameras
  online,   \* Service.online: the cameras shown as online
  disk,     \* the lists a start may read; one, unless a directory sync failed
  real,     \* the cameras themselves
  scan,     \* the Discover or CheckStatus that holds discoveryMu
  jobs,     \* the calls of RefreshVideoStreams and SaveWithCameraUpdate in progress
  faults,   \* faults so far
  edits     \* refreshes, saves and deletes so far

vars == <<cameras, online, disk, real, scan, jobs, faults, edits>>

NoScan   == [phase |-> "idle", ask |-> <<>>, heard |-> <<>>]
NoEntry  == [addr |-> NoAddr, user |-> Blank, pass |-> Blank, init |-> "unknown"]

\* A call that has the camera's answers ("refresh"), is about to change the camera
\* found at `at' ("change"), or to save its entry ("save"); n tells them apart.
Jobs == [n : Nat, kind : {"refresh", "change", "save"}, id : Ids, at : Addrs \cup {NoAddr},
         addr : Addrs \cup {NoAddr}, user : Users \cup {Blank}, pass : Passwords \cup {Blank}]

\* s.cameras[id]: the zero value when there is none.
Saved(id) == IF id \in DOMAIN cameras THEN cameras[id] ELSE NoEntry

Fault(kind) == kind \in Faults /\ faults < MaxFaults /\ faults' = faults + 1
EditNow     == edits < MaxEdits /\ edits' = edits + 1

Init ==
  /\ cameras = <<>>
  /\ online = {}
  /\ disk = {<<>>}
  /\ real \in Start
  /\ scan = NoScan
  /\ jobs = {}
  /\ faults = 0
  /\ edits = 0

\* Mutated form: the list in memory is replaced before the file is written.
writeJSONFile_MemoryFirst(next, on) ==
  /\ cameras' = next
  /\ online' = on
  /\ \/ disk' = {next} /\ UNCHANGED faults
     \/ Fault("write") /\ UNCHANGED disk

\* writeJSONFile and what its callers do with the result: temporary file,
\* rename, directory sync. On an error the caller returns with the old list.
writeJSONFile(next, on) ==
  \/ cameras' = next /\ online' = on /\ disk' = {next} /\ UNCHANGED faults
  \/ Fault("write") /\ UNCHANGED <<cameras, online, disk>>
  \/ Fault("sync") /\ disk' = disk \cup {next} /\ UNCHANGED <<cameras, online>>

-----------------------------------------------------------------------------
(* Discover and CheckStatus, one at a time under discoveryMu.               *)

\* Mutated form: a status the camera did not state makes a known one unknown.
initializationAfterDiscovery_Forget(previous, observed) == observed

initializationAfterDiscovery(previous, observed) ==
  IF observed # "unknown" THEN observed
  ELSE IF previous = "completed" THEN "completed" ELSE "unknown"

\* What Discover makes of an entry: the network's fields are replaced, the
\* operator's are kept.
updateGenericDiscoveredCamera(saved, h) ==
  [saved EXCEPT !.addr = h.addr, !.init = initializationAfterDiscovery(saved.init, h.init)]

\* What CheckStatus makes of the entry of a Dahua camera: the same.
updateDiscoveredCamera(saved, h) ==
  [saved EXCEPT !.addr = h.addr, !.init = initializationAfterDiscovery(saved.init, h.init)]

\* parseDahuaPacket and isCameraInitialized: the address, and the initialization
\* if the camera states it; a missing, numeric or firmware-specific Init is unknown.
DahuaAnswers ==
  [d \in Dahua |-> [addr |-> real[d].addr, init |-> IF real[d].tells THEN real[d].init ELSE "unknown"]]

\* UNVDiscoveryBackend.Discover: an answer or ARP frame says nothing of it.
UNVAnswers == [u \in UNV |-> [addr |-> real[u].addr, init |-> "unknown"]]

\* checkKnownUNVStatus: whatever accepts a connection at the saved address.
UNVReachable(u) == \E d \in Ids : real[d].addr = scan.ask[u]

DiscoverStart ==
  /\ scan.phase = "idle"
  /\ scan' = [NoScan EXCEPT !.phase = "discover"]
  /\ UNCHANGED <<cameras, online, disk, real, jobs, faults, edits>>

\* Whom to ask, and where, is read under mu; with nobody to ask all are offline.
StatusStart ==
  /\ scan.phase = "idle"
  /\ \/ /\ cameras # <<>>
        /\ scan' = [NoScan EXCEPT !.phase = "status",
                                  !.ask = [id \in DOMAIN cameras |-> cameras[id].addr]]
        /\ UNCHANGED online
     \/ cameras = <<>> /\ online' = {} /\ UNCHANGED scan
  /\ UNCHANGED <<cameras, disk, real, jobs, faults, edits>>

\* The answers to a scan that asked for A are those of S.
Hear(phase, A, S, answers) ==
  /\ scan' = [scan EXCEPT !.phase = phase, !.heard = [id \in S |-> answers[id]]]
  /\ \/ A \subseteq S /\ UNCHANGED faults
     \/ ~ (A \subseteq S) /\ Fault("silent")
  /\ UNCHANGED <<cameras, online, disk, real, jobs, edits>>

\* discoverWithBackends: the answers of both backends; lost ones are missed.
DiscoverHear ==
  /\ scan.phase = "discover"
  /\ \E S \in SUBSET Ids :
       Hear("discovered", Ids, S,
            [id \in Ids |-> IF id \in Dahua THEN DahuaAnswers[id] ELSE UNVAnswers[id]])

\* Both backends failed and nothing was found: the list is left alone.
DiscoverFail ==
  /\ scan.phase = "discover"
  /\ Fault("silent")
  /\ scan' = NoScan
  /\ UNCHANGED <<cameras, online, disk, real, jobs, edits>>

\* The question is a multicast on the first usable interface, so only the cameras
\* there hear it, and others than the expected ones may answer too; it ends early,
\* once every expected camera has answered.
discoverKnownDahua(expected) == IF expected = {} THEN {} ELSE {d \in Dahua : real[d].near}

\* Both vendors are asked; UNV cameras are only probed at their saved address.
StatusHear ==
  /\ scan.phase = "status"
  /\ LET known == Dahua \cap DOMAIN scan.ask
         open  == {u \in UNV \cap DOMAIN scan.ask : UNVReachable(u)}
         near  == discoverKnownDahua(known)
     IN  \E S \in SUBSET (open \cup near) :
           Hear("checked", open \cup (known \cap near), S,
                [id \in S |-> IF id \in Dahua THEN DahuaAnswers[id] ELSE UNVAnswers[id]])

\* Every camera that answered is added or updated.
AfterDiscover ==
  [id \in DOMAIN cameras \cup DOMAIN scan.heard |->
     IF id \in DOMAIN scan.heard THEN updateGenericDiscoveredCamera(Saved(id), scan.heard[id])
                                 ELSE cameras[id]]

\* Nothing found, nothing saved.
DiscoverFinish ==
  /\ scan.phase = "discovered"
  /\ scan' = NoScan
  /\ \/ DOMAIN scan.heard # {} /\ writeJSONFile(AfterDiscover, DOMAIN scan.heard)
     \/ DOMAIN scan.heard = {} /\ online' = {} /\ UNCHANGED <<cameras, disk, faults>>
  /\ UNCHANGED <<real, jobs, edits>>

\* Mutated form: the answers only decide who is online, addresses are not updated.
StatusFinish_NoUpdate ==
  /\ scan.phase = "checked"
  /\ scan' = NoScan
  /\ online' = DOMAIN scan.heard \cap DOMAIN cameras
  /\ UNCHANGED <<cameras, disk, real, jobs, faults, edits>>

\* Only cameras that are still in the list are updated and shown as online.
Hits == DOMAIN scan.heard \cap DOMAIN cameras

AfterStatus ==
  [id \in DOMAIN cameras |->
     IF id \in Hits \cap Dahua THEN updateDiscoveredCamera(cameras[id], scan.heard[id])
                               ELSE cameras[id]]

StatusFinish ==
  /\ scan.phase = "checked"
  /\ scan' = NoScan
  /\ \/ Hits # {} /\ writeJSONFile(AfterStatus, Hits)
     \/ Hits = {} /\ online' = {} /\ UNCHANGED <<cameras, disk, faults>>
  /\ UNCHANGED <<real, jobs, edits>>

-----------------------------------------------------------------------------
(* RefreshVideoStreams, SaveWithCameraUpdate and Delete.                    *)

\* The cameras of C that may answer a digest-authenticated request to an address:
\* those that are there and initialized, if the credentials are right.
getDigest(C, a) == {d \in C : real[d].addr = a /\ real[d].init = "completed"}

\* dahuaCGIClient.VideoStreams, and for UNV cameras unvLAPIClient.VideoStreams or,
\* where that says nothing, the RTSP stream that is served there.
DahuaVideoStreams(a)    == getDigest(Dahua, a) # {}
UNVVideoStreams(a)      == getDigest(UNV, a) # {}
probeRTSPVideoStream(a) == getDigest(Ids, a) # {}

\* A call goes on after its first step.
Begin(kind, id, at, addr, user, pass) ==
  jobs' = jobs \cup {[n |-> edits + 1, kind |-> kind, id |-> id, at |-> at, addr |-> addr,
                      user |-> user, pass |-> pass]}

\* The camera's entry is read and the camera asked. Errors change nothing.
RefreshStart(id) ==
  /\ id \in DOMAIN cameras
  /\ cameras[id].init # "required"
  /\ Blank \notin {cameras[id].user, cameras[id].pass}
  /\ \/ id \in Dahua /\ DahuaVideoStreams(cameras[id].addr)
     \/ id \in UNV /\ (UNVVideoStreams(cameras[id].addr) \/ probeRTSPVideoStream(cameras[id].addr))
  /\ Begin("refresh", id, NoAddr, NoAddr, Blank, Blank)
  /\ EditNow
  /\ UNCHANGED <<cameras, online, disk, real, scan, faults>>

\* The answers go into the entry as it is now, if it is still there.
RefreshFinish(j) ==
  /\ j.kind = "refresh"
  /\ jobs' = jobs \ {j}
  /\ \/ /\ j.id \in DOMAIN cameras
        /\ writeJSONFile([cameras EXCEPT ![j.id].init = "completed"], online)
     \/ /\ j.id \notin DOMAIN cameras
        /\ UNCHANGED <<cameras, online, disk, faults>>
  /\ UNCHANGED <<real, scan, edits>>

\* Requests that fail its checks change nothing; a blank password is completed, a
\* blank user name is taken as it is.
prepareSaveRequest(p, savedPassword) == IF p = Blank THEN savedPassword ELSE p

\* The entry is read under mu: a camera that must be initialized is refused, and
\* a known Dahua camera that is to get another address (or mask or gateway) needs
\* a user name and a password; only then a blank user name is completed too.
UpdateStart(id, a, u, p) ==
  /\ EditNow
  /\ Saved(id).init # "required"
  /\ LET user  == IF u = Blank THEN Saved(id).user ELSE u
         pass  == prepareSaveRequest(p, Saved(id).pass)
         known == id \in Dahua \cap DOMAIN cameras
     IN  \/ /\ known /\ Blank \notin {user, pass}
            /\ Begin("change", id, Saved(id).addr, a, user, pass)
         \/ /\ ~ known \/ a = Saved(id).addr
            /\ Begin("save", id, NoAddr, a, u, pass)
  /\ UNCHANGED <<cameras, online, disk, real, scan, faults>>

\* ChangeIPv4 at the address that was read: whichever camera is there now is
\* changed; the answer may be lost after it; or nobody answers.
UpdateChange(j) ==
  /\ j.kind = "change"
  /\ \/ /\ \E d \in getDigest(Dahua, j.at) : real' = [real EXCEPT ![d].addr = j.addr]
        /\ \/ jobs' = (jobs \ {j}) \cup {[j EXCEPT !.kind = "save"]} /\ UNCHANGED faults
           \/ jobs' = jobs \ {j} /\ Fault("answer")
     \/ jobs' = jobs \ {j} /\ UNCHANGED <<real, faults>>
  /\ UNCHANGED <<cameras, online, disk, scan, edits>>

\* Save: one lock section over the list as it is now.
AfterSave(id, a, u, p) ==
  [c \in DOMAIN cameras \cup {id} |->
     IF c = id THEN [Saved(id) EXCEPT !.addr = a, !.user = u, !.pass = prepareSaveRequest(p, @)]
               ELSE cameras[c]]

UpdateSave(j) ==
  /\ j.kind = "save"
  /\ jobs' = jobs \ {j}
  /\ writeJSONFile(AfterSave(j.id, j.addr, j.user, j.pass), online)
  /\ UNCHANGED <<real, scan, edits>>

\* Mutated form: the deleted camera stays in the map of online cameras.
Delete_KeepOnline(id) ==
  /\ id \in DOMAIN cameras
  /\ EditNow
  /\ writeJSONFile(Restrict(cameras, DOMAIN cameras \ {id}), online)
  /\ UNCHANGED <<real, scan, jobs>>

Delete(id) ==
  /\ id \in DOMAIN cameras
  /\ EditNow
  /\ writeJSONFile(Restrict(cameras, DOMAIN cameras \ {id}), online \ {id})
  /\ UNCHANGED <<real, scan, jobs>>

-----------------------------------------------------------------------------

\* NewService reads the file; nobody is online until the first scan.
Crash ==
  /\ Fault("crash")
  /\ cameras' \in disk
  /\ online' = {} /\ scan' = NoScan /\ jobs' = {}
  /\ UNCHANGED <<disk, real, edits>>

\* A camera gets another address, is plugged in elsewhere, is reset to factory state
\* or is initialized.
World(d) ==
  /\ Fault("world")
  /\ \E r \in Cameras :
       r # real[d] /\ r.tells = real[d].tells /\ real' = [real EXCEPT ![d] = r]
  /\ UNCHANGED <<cameras, online, disk, scan, jobs, edits>>

Scan == DiscoverHear \/ DiscoverFail \/ StatusHear \/ DiscoverFinish \/ StatusFinish

Job == \E j \in jobs : RefreshFinish(j) \/ UpdateChange(j) \/ UpdateSave(j)

Next ==
  \/ DiscoverStart \/ StatusStart \/ Scan \/ Job \/ Crash
  \/ \E id \in Ids :
       \/ RefreshStart(id) \/ Delete(id) \/ World(id)
       \/ \E a \in Addrs, u \in Users \cup {Blank}, p \in Passwords \cup {Blank} :
            UpdateStart(id, a, u, p)

Spec == Init /\ [][Next]_vars

\* Every network operation ends at its timeout. Monitor calls CheckStatus for
\* ever; it gets discoveryMu in the end, as a sync.Mutex is handed to a waiter
\* that starves.
FairSpec == Spec /\ WF_vars(Scan) /\ SF_vars(StatusStart) /\ WF_vars(Job)

-----------------------------------------------------------------------------

\* Every variable has its type, and a save under way has an address to save.
TypeOK ==
  /\ cameras \in Books
  /\ online \subseteq Ids
  /\ disk \subseteq Books
  /\ real \in [Ids -> Cameras]
  /\ scan \in [phase : {"idle", "discover", "discovered", "status", "checked"},
               ask   : UNION {[S -> Addrs] : S \in SUBSET Ids},
               heard : UNION {[S -> Heards] : S \in SUBSET Ids}]
  /\ jobs \subseteq Jobs
  /\ \A j \in jobs : j.kind # "refresh" => j.addr \in Addrs
  /\ faults \in Nat /\ edits \in Nat

\* No camera that is not in the list is shown as online, also when it is
\* deleted while CheckStatus or Discover waits for its answer.
OnlineIsKnown == online \subseteq DOMAIN cameras

\* A restart can always find the list that the service shows: memory is never
\* ahead of the file, whichever step of writeJSONFile failed before.
ListIsOnDisk == cameras \in disk

\* The service implements CameraBook: a failed directory sync leaves ghosts.
Book == INSTANCE CameraBook WITH Names <- Ids, book <- cameras, ghosts <- disk \ {cameras}

\* Overlapping scans, refreshes, saves and deletes appear as single steps: what
\* the network teaches keeps the operator's user names and passwords, and an edit
\* touches only the camera it is about and never blanks its password.
Implements == Book!BookSpec

\* PreviewStreamSource, RefreshVideoStreams and SaveWithCameraUpdate refuse a
\* camera that has to be initialized first.
Usable(id) == cameras[id].init # "required"

\* Whatever addresses operators save and cameras get, the list comes back to the
\* real address of every Dahua camera that CheckStatus can hear, and to whether it
\* must be initialized if its firmware states that. (Of the others `unknown' says
\* nothing: they are taken as usable.)
Converges ==
  []<>(\A d \in Dahua \cap DOMAIN cameras :
         real[d].near =>
           /\ cameras[d].addr = real[d].addr
           /\ real[d].tells => (Usable(d) <=> real[d].init = "completed"))

=============================================================================
