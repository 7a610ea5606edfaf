-------------------------- MODULE IPCamerasProofs ---------------------------
(***************************************************************************)
(* What holds of the IP camera service for any number of cameras, scans,   *)
(* edits and faults, and that it implements CameraBook.                    *)
(***************************************************************************)
EXTENDS IPCameras, TLAPS

-----------------------------------------------------------------------------
(* The list of cameras as a function.                                       *)

Answers == UNION {[S -> Heards] : S \in SUBSET Ids}
Asked   == UNION {[S -> Addrs] : S \in SUBSET Ids}

\* A list is a function from some cameras to entries.
LEMMA BookElim ==
  ASSUME NEW b \in Books
  PROVE  /\ DOMAIN b \subseteq Ids
         /\ b = [id \in DOMAIN b |-> b[id]]
         /\ \A id \in DOMAIN b : b[id] \in Entries
  BY DEF Books

LEMMA BookIntro ==
  ASSUME NEW S \in SUBSET Ids, NEW b \in [S -> Entries]
  PROVE  b \in Books
  BY DEF Books

\* So are the answers to a scan.
LEMMA HeardElim ==
  ASSUME NEW h \in Answers
  PROVE  /\ DOMAIN h \subseteq Ids
         /\ \A id \in DOMAIN h : h[id] \in Heards
  BY DEF Answers

\* The empty list is a list.
LEMMA EmptyBook == <<>> \in Books /\ <<>> \in Answers /\ <<>> \in Asked /\ DOMAIN <<>> = {}
<1>1. <<>> \in [{} -> Entries] /\ <<>> \in [{} -> Heards] /\ <<>> \in [{} -> Addrs] /\ DOMAIN <<>> = {}
  OBVIOUS
<1>2. QED
  BY <1>1 DEF Books, Answers, Asked

-----------------------------------------------------------------------------
(* What the operations write.                                               *)

\* A camera's entry, or the zero value of one that is not in the list.
LEMMA SavedType ==
  ASSUME cameras \in Books, NEW id
  PROVE  /\ Saved(id) \in [addr : Addrs \cup {NoAddr}, user : Users \cup {Blank},
                         pass : Passwords \cup {Blank}, init : Statuses]
         /\ id \in DOMAIN cameras => Saved(id) = cameras[id]
         /\ id \notin DOMAIN cameras => Saved(id).user = Blank /\ Saved(id).pass = Blank
  BY BookElim DEF Saved, NoEntry, Entries, Statuses

\* An answer replaces the address and keeps user name and password; a camera that was
\* initialized does not become one of which nothing is known.
LEMMA UpdatedType ==
  ASSUME NEW e \in [addr : Addrs \cup {NoAddr}, user : Users \cup {Blank},
                pass : Passwords \cup {Blank}, init : Statuses],
         NEW h \in Heards
  PROVE  /\ updateGenericDiscoveredCamera(e, h) = updateDiscoveredCamera(e, h)
         /\ updateDiscoveredCamera(e, h) \in Entries
         /\ updateDiscoveredCamera(e, h).user = e.user
         /\ updateDiscoveredCamera(e, h).pass = e.pass
         /\ e.init = "completed" => updateDiscoveredCamera(e, h).init # "unknown"
  BY DEF updateGenericDiscoveredCamera, updateDiscoveredCamera, initializationAfterDiscovery, Entries, Heards, Statuses

\* The list after Discover is one the network may teach.
LEMMA DiscoverLearns ==
  ASSUME cameras \in Books, scan.heard \in Answers
  PROVE  /\ AfterDiscover \in Books
         /\ DOMAIN AfterDiscover = DOMAIN cameras \cup DOMAIN scan.heard
         /\ Book!Learned(AfterDiscover)
<1> DEFINE D == DOMAIN cameras \cup DOMAIN scan.heard
<1>1. D \in SUBSET Ids /\ \A id \in DOMAIN scan.heard : scan.heard[id] \in Heards
  BY BookElim, HeardElim
<1>2. ASSUME NEW id \in D
      PROVE  /\ AfterDiscover[id] \in Entries
             /\ id \notin DOMAIN cameras => AfterDiscover[id].user = Blank /\ AfterDiscover[id].pass = Blank
             /\ id \in DOMAIN cameras =>
                  /\ AfterDiscover[id].user = cameras[id].user /\ AfterDiscover[id].pass = cameras[id].pass
                  /\ cameras[id].init = "completed" => AfterDiscover[id].init # "unknown"
  <2>1. CASE id \in DOMAIN scan.heard
    <3>1. AfterDiscover[id] = updateGenericDiscoveredCamera(Saved(id), scan.heard[id])
      BY <2>1 DEF AfterDiscover
    <3>2. QED
      BY <1>1, <2>1, <3>1, SavedType, UpdatedType
  <2>2. CASE id \notin DOMAIN scan.heard
    <3>1. id \in DOMAIN cameras /\ AfterDiscover[id] = cameras[id]
      BY <2>2 DEF AfterDiscover
    <3>2. QED
      BY <3>1, BookElim DEF Entries
  <2>3. QED
    BY <2>1, <2>2
<1>3. AfterDiscover \in [D -> Entries] /\ DOMAIN AfterDiscover = D
  BY <1>2 DEF AfterDiscover
<1>4. QED
  BY <1>1, <1>2, <1>3, BookIntro DEF Book!Learned

\* So is the list after CheckStatus, which adds nobody.
LEMMA StatusLearns ==
  ASSUME cameras \in Books, scan.heard \in Answers
  PROVE  /\ AfterStatus \in Books
         /\ DOMAIN AfterStatus = DOMAIN cameras
         /\ Book!Learned(AfterStatus)
<1>1. DOMAIN cameras \in SUBSET Ids /\ \A id \in DOMAIN scan.heard : scan.heard[id] \in Heards
  BY BookElim, HeardElim
<1>2. ASSUME NEW id \in DOMAIN cameras
      PROVE  /\ AfterStatus[id] \in Entries
             /\ AfterStatus[id].user = cameras[id].user /\ AfterStatus[id].pass = cameras[id].pass
             /\ cameras[id].init = "completed" => AfterStatus[id].init # "unknown"
  <2>1. CASE id \in Hits \cap Dahua
    <3>1. AfterStatus[id] = updateDiscoveredCamera(Saved(id), scan.heard[id])
      BY <2>1 DEF AfterStatus, Saved
    <3>2. id \in DOMAIN scan.heard /\ Saved(id) = cameras[id]
      BY <2>1 DEF Hits, Saved
    <3>3. QED
      BY <1>1, <3>1, <3>2, SavedType, UpdatedType
  <2>2. CASE id \notin Hits \cap Dahua
    <3>1. AfterStatus[id] = cameras[id]
      BY <2>2 DEF AfterStatus
    <3>2. QED
      BY <3>1, BookElim DEF Entries
  <2>3. QED
    BY <2>1, <2>2
<1>3. AfterStatus \in [DOMAIN cameras -> Entries] /\ DOMAIN AfterStatus = DOMAIN cameras
  BY <1>2 DEF AfterStatus
<1>4. QED
  BY <1>1, <1>2, <1>3, BookIntro DEF Book!Learned

AfterRefresh(c) == [cameras EXCEPT ![c].init = "completed"]

\* The answers to RefreshVideoStreams are learned as well.
LEMMA RefreshLearns ==
  ASSUME cameras \in Books, NEW c \in DOMAIN cameras
  PROVE  /\ AfterRefresh(c) \in Books
         /\ DOMAIN AfterRefresh(c) = DOMAIN cameras
         /\ Book!Learned(AfterRefresh(c))
<1>1. DOMAIN cameras \in SUBSET Ids /\ DOMAIN AfterRefresh(c) = DOMAIN cameras
  BY BookElim DEF AfterRefresh
<1>2. ASSUME NEW id \in DOMAIN cameras
      PROVE  /\ AfterRefresh(c)[id] \in Entries
             /\ AfterRefresh(c)[id].user = cameras[id].user /\ AfterRefresh(c)[id].pass = cameras[id].pass
             /\ cameras[id].init = "completed" => AfterRefresh(c)[id].init # "unknown"
  BY BookElim DEF AfterRefresh, Entries, Statuses
<1>3. AfterRefresh(c) \in [DOMAIN cameras -> Entries]
  BY <1>1, <1>2, BookElim DEF AfterRefresh
<1>4. QED
  BY <1>1, <1>2, <1>3, BookIntro DEF Book!Learned

\* Save edits one camera and never blanks its password.
LEMMA SaveEdits ==
  ASSUME cameras \in Books, NEW id \in Ids, NEW a \in Addrs,
         NEW u \in Users \cup {Blank}, NEW p \in Passwords \cup {Blank}
  PROVE  /\ AfterSave(id, a, u, p) \in Books
         /\ DOMAIN cameras \subseteq DOMAIN AfterSave(id, a, u, p)
         /\ Book!Edited(AfterSave(id, a, u, p))
<1> DEFINE D == DOMAIN cameras \cup {id}
           next == AfterSave(id, a, u, p)
           entry == [Saved(id) EXCEPT !.addr = a, !.user = u, !.pass = prepareSaveRequest(p, @)]
<1>1. D \in SUBSET Ids
  BY BookElim
<1>2. entry \in Entries /\ (Saved(id).pass # Blank => entry.pass # Blank)
  BY SavedType DEF Entries, prepareSaveRequest
<1>3. next = [c \in D |-> IF c = id THEN entry ELSE cameras[c]]
  BY DEF AfterSave
<1> HIDE DEF next, entry
<1>4. next \in [D -> Entries] /\ DOMAIN next = D
  BY <1>2, <1>3, BookElim
<1>5. Book!Agree(cameras, next, Ids \ {id})
  BY <1>3 DEF Book!Agree
<1>6. id \in DOMAIN cameras /\ cameras[id].pass # Blank => next[id].pass # Blank
  BY <1>2, <1>3, SavedType
<1>7. Book!Edited(next)
  BY <1>5, <1>6 DEF Book!Edited
<1>8. QED
  BY <1>1, <1>4, <1>7, BookIntro DEF next

\* Delete edits one camera.
LEMMA DeleteEdits ==
  ASSUME cameras \in Books, NEW id \in DOMAIN cameras
  PROVE  LET next == Restrict(cameras, DOMAIN cameras \ {id})
         IN  /\ next \in Books
             /\ DOMAIN next = DOMAIN cameras \ {id}
             /\ Book!Edited(next)
<1> DEFINE next == Restrict(cameras, DOMAIN cameras \ {id})
<1>1. next = [c \in DOMAIN cameras \ {id} |-> cameras[c]]
  BY DEF Restrict
<1> HIDE DEF next
<1>2. id \in Ids /\ DOMAIN cameras \ {id} \in SUBSET Ids
  BY BookElim
<1>3. next \in [DOMAIN cameras \ {id} -> Entries] /\ DOMAIN next = DOMAIN cameras \ {id}
  BY <1>1, BookElim
<1>4. Book!Agree(cameras, next, Ids \ {id})
  BY <1>1 DEF Book!Agree
<1>5. Book!Edited(next)
  BY <1>2, <1>3, <1>4 DEF Book!Edited
<1>6. QED
  BY <1>2, <1>3, <1>5, BookIntro DEF next

-----------------------------------------------------------------------------
(* The list, who is online, and the file.                                   *)

\* What the service keeps, apart from the operations in progress.
ListOK ==
  /\ cameras \in Books
  /\ disk \subseteq Books
  /\ OnlineIsKnown
  /\ ListIsOnDisk

\* writeJSONFile keeps it when the next list is one, and knows who is online.
LEMMA WriteKeepsList ==
  ASSUME ListOK, NEW next \in Books, NEW on \in SUBSET DOMAIN next, writeJSONFile(next, on)
  PROVE  ListOK'
  BY DEF ListOK, OnlineIsKnown, ListIsOnDisk, writeJSONFile

\* Seen from CameraBook it stores the next list, or does nothing.
LEMMA WriteStores ==
  ASSUME ListIsOnDisk, NEW next, NEW on, writeJSONFile(next, on)
  PROVE  \/ UNCHANGED <<cameras, disk>>
         \/ /\ Book!Store(next)
            /\ next \in {cameras'} \cup (disk' \ {cameras'})
<1>1. CASE cameras' = next /\ disk' = {next}
  BY <1>1 DEF Book!Store
<1>2. CASE cameras' = cameras /\ disk' = disk \cup {next}
  BY <1>2 DEF Book!Store
<1>3. QED
  BY <1>1, <1>2 DEF writeJSONFile

\* What a step of the service does to the list: it is a step of CameraBook, and
\* it leaves a list with its file.
ListStep ==
  /\ ListOK'
  /\ [Book!BookNext]_<<cameras, disk \ {cameras}>>

LEMMA LearnStep ==
  ASSUME ListOK, NEW next \in Books, NEW on \in SUBSET DOMAIN next,
         Book!Learned(next), writeJSONFile(next, on)
  PROVE  ListStep
  BY WriteKeepsList, WriteStores DEF ListStep, ListOK, Book!BookNext, Book!Learn

LEMMA EditStep ==
  ASSUME ListOK, NEW next \in Books, NEW on \in SUBSET DOMAIN next,
         Book!Edited(next), writeJSONFile(next, on)
  PROVE  ListStep
  BY WriteKeepsList, WriteStores DEF ListStep, ListOK, Book!BookNext, Book!Edit

LEMMA QuietStep ==
  ASSUME ListOK, UNCHANGED <<cameras, disk>>, online' \subseteq DOMAIN cameras
  PROVE  ListStep
  BY DEF ListStep, ListOK, OnlineIsKnown, ListIsOnDisk

\* Every step of the service is one of these.
LEMMA EveryListStep ==
  ASSUME ListOK, TypeOK, [Next]_vars
  PROVE  ListStep
<1> USE DEF ListOK
<1>q. online \subseteq DOMAIN cameras
  BY DEF OnlineIsKnown
<1>a. scan.heard \in Answers
  BY DEF TypeOK, Answers
<1>1. CASE UNCHANGED vars
  BY <1>1, <1>q, QuietStep DEF vars
<1>2. CASE DiscoverStart \/ StatusStart
  BY <1>2, <1>q, QuietStep DEF DiscoverStart, StatusStart
<1>3. CASE DiscoverHear \/ StatusHear \/ DiscoverFail
  BY <1>3, <1>q, QuietStep DEF DiscoverHear, StatusHear, DiscoverFail, Hear
<1>4. CASE DiscoverFinish
  <2>1. CASE writeJSONFile(AfterDiscover, DOMAIN scan.heard)
    <3>1. DOMAIN scan.heard \in SUBSET DOMAIN AfterDiscover
      BY <1>a, DiscoverLearns
    <3>2. QED
      BY <1>a, <2>1, <3>1, DiscoverLearns, LearnStep
  <2>2. CASE online' = {} /\ UNCHANGED <<cameras, disk>>
    BY <2>2, QuietStep
  <2>3. QED
    BY <1>4, <2>1, <2>2 DEF DiscoverFinish
<1>5. CASE StatusFinish
  <2>1. CASE writeJSONFile(AfterStatus, Hits)
    <3>1. Hits \in SUBSET DOMAIN AfterStatus
      BY <1>a, StatusLearns DEF Hits
    <3>2. QED
      BY <1>a, <2>1, <3>1, StatusLearns, LearnStep
  <2>2. CASE online' = {} /\ UNCHANGED <<cameras, disk>>
    BY <2>2, QuietStep
  <2>3. QED
    BY <1>5, <2>1, <2>2 DEF StatusFinish
<1>6. ASSUME NEW j \in jobs, RefreshFinish(j) PROVE ListStep
  <2>1. CASE j.id \in DOMAIN cameras /\ writeJSONFile(AfterRefresh(j.id), online)
    BY <1>q, <2>1, RefreshLearns, LearnStep
  <2>2. CASE UNCHANGED <<cameras, online, disk>>
    BY <1>q, <2>2, QuietStep
  <2>3. QED
    BY <1>6, <2>1, <2>2 DEF RefreshFinish, AfterRefresh
<1>7. ASSUME NEW j \in jobs, UpdateSave(j) PROVE ListStep
  <2> DEFINE next == AfterSave(j.id, j.addr, j.user, j.pass)
  <2>1. /\ j.id \in Ids /\ j.addr \in Addrs
        /\ j.user \in Users \cup {Blank} /\ j.pass \in Passwords \cup {Blank}
    BY <1>7 DEF TypeOK, Jobs, UpdateSave
  <2>2. next \in Books /\ DOMAIN cameras \subseteq DOMAIN next /\ Book!Edited(next)
    BY <2>1, SaveEdits
  <2>3. writeJSONFile(next, online)
    BY <1>7 DEF UpdateSave
  <2>4. QED
    BY <1>q, <2>2, <2>3, EditStep
<1>8. ASSUME NEW id \in Ids, Delete(id) PROVE ListStep
  <2> DEFINE next == Restrict(cameras, DOMAIN cameras \ {id})
  <2>1. id \in DOMAIN cameras /\ writeJSONFile(next, online \ {id})
    BY <1>8 DEF Delete
  <2>2. next \in Books /\ DOMAIN next = DOMAIN cameras \ {id} /\ Book!Edited(next)
    BY <2>1, DeleteEdits
  <2>3. online \ {id} \in SUBSET DOMAIN next
    BY <1>q, <2>2
  <2>4. QED
    BY <2>1, <2>2, <2>3, EditStep
<1>9. CASE Crash
  <2>1. cameras' \in disk /\ UNCHANGED disk /\ online' = {} /\ cameras \in disk
    BY <1>9 DEF Crash, ListIsOnDisk
  <2>2. ListOK'
    BY <2>1 DEF OnlineIsKnown, ListIsOnDisk
  <2>3. CASE cameras' = cameras
    BY <2>1, <2>3, QuietStep
  <2>4. CASE cameras' # cameras
    <3>1. Book!Restart
      BY <2>1, <2>4 DEF Book!Restart
    <3>2. QED
      BY <2>2, <3>1 DEF ListStep, Book!BookNext
  <2>5. QED
    BY <2>3, <2>4
<1>10. ASSUME NEW j \in jobs, UpdateChange(j) PROVE ListStep
  BY <1>10, <1>q, QuietStep DEF UpdateChange
<1>11. ASSUME NEW id \in Ids, RefreshStart(id) \/ World(id) PROVE ListStep
  BY <1>11, <1>q, QuietStep DEF RefreshStart, World
<1>12. ASSUME NEW id \in Ids, NEW a, NEW u, NEW p, UpdateStart(id, a, u, p)
       PROVE  ListStep
  BY <1>12, <1>q, QuietStep DEF UpdateStart
<1>13. QED
  BY <1>1, <1>2, <1>3, <1>4, <1>5, <1>6, <1>7, <1>8, <1>9, <1>10, <1>11, <1>12 DEF Next, Scan, Job

-----------------------------------------------------------------------------
(* Type correctness, which the operations in progress need.                 *)

LEMMA TypeInit == Init => TypeOK /\ ListOK
<1> SUFFICES ASSUME Init PROVE TypeOK /\ ListOK
  OBVIOUS
<1>1. real \in [Ids -> Cameras]
  BY CamerasAssumption DEF Init
<1>2. NoScan \in [phase : {"idle", "discover", "discovered", "status", "checked"},
                  ask : Asked, heard : Answers]
  BY EmptyBook DEF NoScan
<1>3. QED
  BY <1>1, <1>2, EmptyBook DEF Init, TypeOK, ListOK, OnlineIsKnown, ListIsOnDisk, Asked, Answers

ScanType == [phase : {"idle", "discover", "discovered", "status", "checked"},
             ask : Asked, heard : Answers]

JobsOK == jobs \subseteq Jobs /\ \A j \in jobs : j.kind # "refresh" => j.addr \in Addrs

LEMMA IdleTypes == NoScan \in ScanType
  BY EmptyBook DEF NoScan, ScanType

\* Who is asked and what is heard are functions over cameras.
LEMMA ScanStep == TypeOK /\ [Next]_vars => scan' \in ScanType
<1> SUFFICES ASSUME TypeOK, [Next]_vars PROVE scan' \in ScanType
  OBVIOUS
<1>0. scan \in ScanType
  BY DEF TypeOK, ScanType, Asked, Answers
<1>1. CASE UNCHANGED scan \/ scan' = NoScan
  BY <1>0, <1>1, IdleTypes
<1>2. CASE DiscoverStart
  BY <1>2, IdleTypes DEF DiscoverStart, ScanType
<1>3. CASE StatusStart
  <2>1. [id \in DOMAIN cameras |-> cameras[id].addr] \in Asked
    <3>1. DOMAIN cameras \in SUBSET Ids /\ \A id \in DOMAIN cameras : cameras[id].addr \in Addrs
      BY BookElim DEF TypeOK, Entries
    <3>2. QED
      BY <3>1 DEF Asked
  <2>2. QED
    BY <1>0, <1>3, <2>1, IdleTypes DEF StatusStart, ScanType
<1>4. ASSUME NEW phase \in {"discovered", "checked"}, NEW A, NEW S \in SUBSET Ids, NEW answers,
             \A id \in S : answers[id] \in Heards, Hear(phase, A, S, answers)
      PROVE  scan' \in ScanType
  <2>1. [id \in S |-> answers[id]] \in Answers
    BY <1>4 DEF Answers
  <2>2. QED
    BY <1>0, <1>4, <2>1 DEF Hear, ScanType
<1>5. /\ \A d \in Dahua : DahuaAnswers[d] \in Heards
      /\ \A u \in UNV : UNVAnswers[u] \in Heards
  BY DEF TypeOK, DahuaAnswers, UNVAnswers, Heards, Statuses, Ids, Cameras
<1>6. CASE DiscoverHear
  <2> DEFINE answers == [id \in Ids |-> IF id \in Dahua THEN DahuaAnswers[id] ELSE UNVAnswers[id]]
  <2>1. PICK S \in SUBSET Ids : Hear("discovered", Ids, S, answers)
    BY <1>6 DEF DiscoverHear
  <2>2. \A id \in S : answers[id] \in Heards
    BY <1>5 DEF Ids
  <2>3. QED
    BY <1>4, <2>1, <2>2
<1>7. CASE StatusHear
  <2> DEFINE known == Dahua \cap DOMAIN scan.ask
             open  == {u \in UNV \cap DOMAIN scan.ask : UNVReachable(u)}
             near  == discoverKnownDahua(known)
  <2>1. PICK S \in SUBSET (open \cup near) :
          Hear("checked", open \cup (known \cap near), S,
               [id \in S |-> IF id \in Dahua THEN DahuaAnswers[id] ELSE UNVAnswers[id]])
    BY <1>7 DEF StatusHear
  <2> DEFINE answers == [id \in S |-> IF id \in Dahua THEN DahuaAnswers[id] ELSE UNVAnswers[id]]
  <2>2. S \subseteq Dahua \cup UNV
    BY <2>1 DEF discoverKnownDahua
  <2>3. \A id \in S : answers[id] \in Heards
    BY <1>5, <2>2
  <2>4. QED
    BY <1>4, <2>1, <2>2, <2>3 DEF Ids
<1>8. QED
  BY <1>1, <1>2, <1>3, <1>6, <1>7, ZenonT(60)
  DEF Next, vars, Scan, DiscoverFail, DiscoverFinish, StatusFinish, Job, RefreshFinish, UpdateChange,
      UpdateSave, Crash, RefreshStart, Delete, World, UpdateStart

\* A save in progress is about a camera and one of the addresses.
LEMMA JobStep == TypeOK /\ [Next]_vars => JobsOK'
<1> SUFFICES ASSUME TypeOK, [Next]_vars PROVE JobsOK'
  OBVIOUS
<1>0. JobsOK /\ edits + 1 \in Nat
  BY DEF TypeOK, JobsOK
<1>1. CASE jobs' \subseteq jobs
  BY <1>0, <1>1 DEF JobsOK
<1>2. ASSUME NEW j \in jobs, UpdateChange(j) PROVE JobsOK'
  <2>1. [j EXCEPT !.kind = "save"] \in Jobs /\ [j EXCEPT !.kind = "save"].addr \in Addrs
    BY <1>0, <1>2 DEF UpdateChange, JobsOK, Jobs
  <2>2. QED
    BY <1>0, <1>2, <2>1 DEF UpdateChange, JobsOK
<1>3. ASSUME NEW kind \in {"refresh", "change", "save"}, NEW id \in Ids, NEW at \in Addrs \cup {NoAddr},
             NEW a \in Addrs \cup {NoAddr}, kind # "refresh" => a \in Addrs,
             NEW u \in Users \cup {Blank}, NEW p \in Passwords \cup {Blank},
             Begin(kind, id, at, a, u, p)
      PROVE  JobsOK'
  BY <1>0, <1>3 DEF Begin, JobsOK, Jobs
<1>4. ASSUME NEW id \in Ids, RefreshStart(id) PROVE JobsOK'
  BY <1>3, <1>4 DEF RefreshStart
<1>5. ASSUME NEW id \in Ids, NEW a \in Addrs, NEW u \in Users \cup {Blank},
             NEW p \in Passwords \cup {Blank}, UpdateStart(id, a, u, p)
      PROVE  JobsOK'
  <2>1. /\ Saved(id).addr \in Addrs \cup {NoAddr} /\ Saved(id).user \in Users \cup {Blank}
        /\ Saved(id).pass \in Passwords \cup {Blank}
    BY SavedType DEF TypeOK
  <2>2. prepareSaveRequest(p, Saved(id).pass) \in Passwords \cup {Blank}
    BY <2>1 DEF prepareSaveRequest
  <2>3. (IF u = Blank THEN Saved(id).user ELSE u) \in Users \cup {Blank}
    BY <2>1
  <2>4. QED
    BY <1>3, <1>5, <2>1, <2>2, <2>3 DEF UpdateStart
<1>6. QED
  BY <1>1, <1>2, <1>4, <1>5
  DEF Next, vars, Scan, DiscoverStart, StatusStart, DiscoverHear, StatusHear, Hear, DiscoverFail,
      DiscoverFinish, StatusFinish, Job, RefreshFinish, UpdateSave, Crash, Delete, World

\* The cameras stay where addresses are.
LEMMA RealStep == TypeOK /\ [Next]_vars => real' \in [Ids -> Cameras]
<1> SUFFICES ASSUME TypeOK, [Next]_vars PROVE real' \in [Ids -> Cameras]
  OBVIOUS
<1>0. real \in [Ids -> Cameras]
  BY DEF TypeOK
<1>1. CASE UNCHANGED real
  BY <1>0, <1>1
<1>2. ASSUME NEW j \in jobs, UpdateChange(j), real' # real
      PROVE  real' \in [Ids -> Cameras]
  <2>1. PICK d \in Dahua : real' = [real EXCEPT ![d].addr = j.addr]
    BY <1>2 DEF UpdateChange, getDigest
  <2>2. d \in Ids /\ real[d] \in Cameras /\ j.addr \in Addrs
    BY <1>0, <1>2 DEF Ids, TypeOK, UpdateChange
  <2>3. [real[d] EXCEPT !.addr = j.addr] \in Cameras
    BY <2>2 DEF Cameras
  <2>4. QED
    BY <1>0, <2>1, <2>2, <2>3
<1>3. ASSUME NEW d \in Ids, World(d)
      PROVE  real' \in [Ids -> Cameras]
  BY <1>0, <1>3 DEF World
<1>4. QED
  BY <1>1, <1>2, <1>3, ZenonT(60)
  DEF Next, vars, Scan, DiscoverStart, StatusStart, DiscoverHear, StatusHear, Hear, DiscoverFail,
      DiscoverFinish, StatusFinish, Job, RefreshFinish, UpdateSave, Crash, RefreshStart, Delete, UpdateStart

\* The counters only count.
LEMMA CountStep ==
  TypeOK /\ [Next]_vars => faults' \in Nat /\ edits' \in Nat
<1> SUFFICES ASSUME TypeOK, [Next]_vars
             PROVE  faults' \in Nat /\ edits' \in Nat
  OBVIOUS
<1>1. faults' = faults \/ faults' = faults + 1
  BY ZenonT(60) DEF Next, vars, Scan, DiscoverStart, StatusStart, DiscoverHear, StatusHear, Hear, DiscoverFail,
      DiscoverFinish, StatusFinish, Job, RefreshFinish, UpdateChange, UpdateSave, Crash, RefreshStart, Delete,
      World, UpdateStart, writeJSONFile, Fault
<1>2. edits' = edits \/ edits' = edits + 1
  BY ZenonT(60) DEF Next, vars, Scan, DiscoverStart, StatusStart, DiscoverHear, StatusHear, Hear, DiscoverFail,
      DiscoverFinish, StatusFinish, Job, RefreshFinish, UpdateChange, UpdateSave, Crash, RefreshStart, Delete,
      World, UpdateStart, EditNow
<1>3. QED
  BY <1>1, <1>2 DEF TypeOK

-----------------------------------------------------------------------------
(* The theorems.                                                            *)

\* The inductive invariant: the list's part rests on what the operations in
\* progress may hold, and the other way round.
IInv == TypeOK /\ ListOK

LEMMA Inductive == IInv /\ [Next]_vars => IInv' /\ ListStep
<1> SUFFICES ASSUME TypeOK, ListOK, [Next]_vars PROVE TypeOK' /\ ListOK' /\ ListStep
  BY DEF IInv
<1>1. ListStep /\ ListOK'
  BY EveryListStep DEF ListStep
<1>2. cameras' \in Books /\ disk' \subseteq Books /\ online' \subseteq DOMAIN cameras'
  BY <1>1 DEF ListOK, OnlineIsKnown
<1>3. online' \subseteq Ids
  BY <1>2, BookElim
<1>4. QED
  BY <1>1, <1>2, <1>3, ScanStep, JobStep, RealStep, CountStep
  DEF TypeOK, JobsOK, ScanType, Asked, Answers

LEMMA InvariantHolds == Spec => []IInv
<1>1. Init => IInv
  BY TypeInit DEF IInv
<1>2. IInv /\ [Next]_vars => IInv'
  BY Inductive
<1>3. QED
  BY <1>1, <1>2, PTL DEF Spec

\* Every variable of the service keeps its type.
THEOREM TypeCorrect == Spec => []TypeOK
<1>1. IInv => TypeOK
  BY DEF IInv
<1>2. QED
  BY <1>1, InvariantHolds, PTL

\* However scans, saves and deletes overlap, nobody is shown as online who is
\* not in the list (Service.online and Service.cameras).
THEOREM OnlineCorrect == Spec => []OnlineIsKnown
<1>1. IInv => OnlineIsKnown
  BY DEF IInv, ListOK
<1>2. QED
  BY <1>1, InvariantHolds, PTL

\* Whichever writes fail, a restart can find the list that is shown
\* (writeJSONFile comes before the assignment to Service.cameras).
THEOREM DiskCorrect == Spec => []ListIsOnDisk
<1>1. IInv => ListIsOnDisk
  BY DEF IInv, ListOK
<1>2. QED
  BY <1>1, InvariantHolds, PTL

\* The service implements CameraBook, for any number of cameras, operations
\* in progress, faults and restarts.
THEOREM Refinement == Spec => Implements
<1>1. Init => Book!BookInit
  BY DEF Init, Book!BookInit
<1>2. IInv /\ [Next]_vars => [Book!BookNext]_<<cameras, disk \ {cameras}>>
  BY Inductive DEF ListStep
<1>3. QED
  BY <1>1, <1>2, InvariantHolds, PTL DEF Spec, Implements, Book!BookSpec, Book!bookVars

=============================================================================
