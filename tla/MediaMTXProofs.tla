--------------------------- MODULE MediaMTXProofs ---------------------------
(***************************************************************************)
(* What holds of the parts of internal/mediamtx, for any number of         *)
(* cameras, names, files, clients, requests and faults: the request files  *)
(* of the installer (InstallRequests), and the editor of mediamtx.yml      *)
(* (Streams). The two share no state: each has its own invariant.          *)
(***************************************************************************)
EXTENDS InstallRequests, Streams, SequenceTheorems, WellFoundedInduction, TLAPS

-----------------------------------------------------------------------------
(* The request files of MediaMTX and ZeroTier.                              *)

ClientType == [pc : {"idle", "create", "write"}, tag : Tags \cup {Nothing}]

\* The request files, the handlers and the scripts have their types; a handler past its lookup has a version.
RequestsType ==
  /\ request \in [Jobs -> Tags \cup {Nothing, Empty}]
  /\ clients \in [Clients -> ClientType]
  /\ \A c \in Clients : clients[c].pc # "idle" => clients[c].tag \in Tags
  /\ script \in [Jobs -> Tags \cup {Nothing, Empty}]
  /\ at \in [Jobs -> Steps \cup {"none", "exit"}]
  /\ \A j \in Jobs : at[j] = "none" <=> script[j] = Nothing

\* A running script removes the very request it has read: nobody has written
\* another version into the file meanwhile, so that no request is dropped unread.
ServesItsRequest == \A j \in Jobs : script[j] # Nothing => request[j] = script[j]

\* Nothing is downloaded or installed that the script's version pattern refuses,
\* and the service is enabled only with the version of the request, in one piece,
\* although failures and power losses may leave half a binary behind.
OnlyAccepted ==
  /\ script["mediamtx"] \in ScriptTags \cup {Nothing}
  /\ binary \in ScriptTags \cup {Nothing, Half}
  /\ at["mediamtx"] \in {"config", "fill", "enable"} => binary = script["mediamtx"]

\* The inductive invariant.
RequestInv == RequestsType /\ ServesItsRequest /\ OnlyAccepted

-----------------------------------------------------------------------------

\* No file, no script, nothing installed.
LEMMA RequestInitOK == RequestInit => RequestInv
  BY RequestsAssumption
     DEF RequestInit, RequestInv, RequestsType, ServesItsRequest, OnlyAccepted, ClientType, Idle, Jobs, Steps

\* Installer.Request.
LEMMA ClientStep ==
  ASSUME RequestInv, NEW c \in Clients, Ask(c) \/ Create(c) \/ WriteVersion(c)
  PROVE  RequestInv'
<1> USE DEF RequestInv
<1>1. Idle \in ClientType /\ clients[c] \in ClientType
  BY DEF RequestsType, ClientType, Idle
<1>2. CASE Ask(c)
  <2>1. latestVersion # Nothing => latestVersion \in Tags
    BY DEF latestVersion
  <2>2. RequestsType'
    BY <1>1, <1>2, <2>1 DEF Ask, RequestsType, ClientType, Idle, root
  <2>3. QED
    BY <1>2, <2>2 DEF Ask, ServesItsRequest, OnlyAccepted, root
<1>3. CASE Create(c)
  <2>1. clients' \in [Clients -> ClientType]
    BY <1>1, <1>3 DEF Create, RequestsType, ClientType
  <2>2. \A d \in Clients : clients'[d].pc # "idle" => clients'[d].tag \in Tags
    BY <1>1, <1>3 DEF Create, RequestsType, ClientType, Idle
  <2>3. request' \in [Jobs -> Tags \cup {Nothing, Empty}]
    BY <1>3 DEF Create, RequestsType
  <2>4. ServesItsRequest'
    BY <1>3 DEF Create, RequestsType, ServesItsRequest, root
  <2>5. QED
    BY <1>3, <2>1, <2>2, <2>3, <2>4 DEF Create, RequestsType, OnlyAccepted, root
<1>4. CASE WriteVersion(c)
  <2>1. clients[c].tag \in Tags
    BY <1>4 DEF WriteVersion, RequestsType
  <2>2. clients' \in [Clients -> ClientType]
    BY <1>1, <1>4 DEF WriteVersion, RequestsType
  <2>3. \A d \in Clients : clients'[d].pc # "idle" => clients'[d].tag \in Tags
    BY <1>1, <1>4 DEF WriteVersion, RequestsType, Idle
  <2>4. request' \in [Jobs -> Tags \cup {Nothing, Empty}]
    BY <1>4, <2>1 DEF WriteVersion, RequestsType
  <2>5. ServesItsRequest'
    BY <1>4, RequestsAssumption DEF WriteVersion, RequestsType, ServesItsRequest, OnlyAccepted, Jobs, root
  <2>6. QED
    BY <1>4, <2>2, <2>3, <2>4, <2>5 DEF WriteVersion, RequestsType, OnlyAccepted, root
<1>5. QED
  BY <1>2, <1>3, <1>4

\* The path unit.
LEMMA StartStep ==
  ASSUME RequestInv, NEW j \in Jobs, Start(j)
  PROVE  RequestInv'
<1> USE DEF RequestInv
<1>1. CASE script' = script /\ at' = at
  BY <1>1 DEF Start, RequestsType, ServesItsRequest, OnlyAccepted
<1>2. CASE /\ j = "mediamtx" => request[j] \in ScriptTags
           /\ script' = [script EXCEPT ![j] = request[j]]
           /\ at' = [at EXCEPT ![j] = "fetch"]
  <2>1. RequestsType'
    BY <1>2 DEF Start, PathExists, RequestsType, Steps
  <2>2. ServesItsRequest'
    BY <1>2 DEF Start, RequestsType, ServesItsRequest
  <2>3. OnlyAccepted'
    BY <1>2 DEF Start, RequestsType, OnlyAccepted, Jobs
  <2>4. QED
    BY <2>1, <2>2, <2>3
<1>3. QED
  BY <1>1, <1>2 DEF Start

\* A command of a script that is followed by another one keeps the types, and the
\* script keeps its request.
LEMMA ThenStep ==
  ASSUME RequestInv, NEW j \in Jobs, NEW from \in Steps, NEW to \in Steps \cup {"exit"},
         Then(j, from, to)
  PROVE  /\ RequestsType' /\ ServesItsRequest'
         /\ \A k \in Jobs \ {j} : at'[k] = at[k]
         /\ at[j] = from /\ at'[j] = to /\ script' = script
<1>1. from # "none" /\ to # "none"
  BY DEF Steps
<1>2. QED
  BY <1>1 DEF Then, RequestInv, RequestsType, ServesItsRequest

\* The commands of the scripts.
LEMMA RunStep ==
  ASSUME RequestInv, NEW j \in Jobs, Run(j)
  PROVE  RequestInv'
<1>0. "mediamtx" \in Jobs /\ {"fetch", "install", "copy", "config", "fill", "enable"} = Steps
  BY DEF Jobs, Steps
<1>1. CASE End(j)
  BY <1>1 DEF End, RequestInv, RequestsType, ServesItsRequest, OnlyAccepted
<1>2. CASE Download \/ Upgrade
  <2>1. PICK k \in Jobs, to \in {"install", "exit"} : Then(k, "fetch", to)
    BY <1>2 DEF Download, Upgrade, Jobs
  <2>2. /\ RequestsType' /\ ServesItsRequest' /\ script' = script /\ at'[k] = to
        /\ \A l \in Jobs \ {k} : at'[l] = at[l]
    BY <1>0, <2>1, ThenStep
  <2>3. QED
    BY <1>0, <1>2, <2>2 DEF Download, Upgrade, RequestInv, OnlyAccepted
<1>3. CASE Fail(j)
  <2>1. PICK from \in Steps : Then(j, from, "exit")
    BY <1>3 DEF Fail
  <2>2. RequestsType' /\ ServesItsRequest' /\ script' = script /\ at'[j] = "exit"
        /\ \A k \in Jobs \ {j} : at'[k] = at[k]
    BY <2>1, ThenStep
  <2>3. QED
    BY <1>0, <1>3, <2>2 DEF Fail, RequestInv, OnlyAccepted
<1>4. CASE RemoveBinary
  BY <1>0, <1>4, ThenStep DEF RemoveBinary, RequestInv, OnlyAccepted
<1>5. CASE CopyBinary
  <2>1. RequestsType' /\ ServesItsRequest' /\ script' = script /\ at["mediamtx"] = "copy"
    BY <1>0, <1>5, ThenStep DEF CopyBinary
  <2>2. script["mediamtx"] # Nothing
    BY <1>0, <2>1 DEF RequestInv, RequestsType
  <2>3. QED
    BY <1>5, <2>1, <2>2 DEF CopyBinary, RequestInv, OnlyAccepted
<1>6. CASE KeepConfig \/ CreateConfig
  <2>1. PICK to \in {"enable", "fill"} : Then("mediamtx", "config", to)
    BY <1>6 DEF KeepConfig, CreateConfig
  <2>2. RequestsType' /\ ServesItsRequest' /\ script' = script /\ at["mediamtx"] = "config"
    BY <1>0, <2>1, ThenStep
  <2>3. QED
    BY <1>6, <2>2 DEF KeepConfig, CreateConfig, RequestInv, OnlyAccepted
<1>7. CASE FillConfig
  BY <1>0, <1>7, ThenStep DEF FillConfig, RequestInv, OnlyAccepted
<1>8. CASE Enable
  BY <1>0, <1>8, ThenStep DEF Enable, RequestInv, OnlyAccepted
<1>9. QED
  BY <1>1, <1>2, <1>3, <1>4, <1>5, <1>6, <1>7, <1>8 DEF Run

\* ZeroTier, outages and new releases.
LEMMA EnvironmentStep ==
  ASSUME RequestInv, AskZeroTier \/ PowerLoss \/ ServiceCrash \/ Release \/ UNCHANGED requestVars
  PROVE  RequestInv'
<1> USE DEF RequestInv
<1>1. CASE AskZeroTier
  BY <1>1 DEF AskZeroTier, RequestsType, ServesItsRequest, OnlyAccepted, root
<1>2. CASE PowerLoss
  <2>1. script' = [k \in Jobs |-> Nothing] /\ at' = [k \in Jobs |-> "none"] /\ "mediamtx" \in Jobs
    BY <1>2 DEF PowerLoss, Jobs
  <2>2. request' \in [Jobs -> Tags \cup {Nothing, Empty}]
    BY <1>2 DEF PowerLoss, RequestsType
  <2>3. RequestsType'
    BY <1>2, <2>1, <2>2 DEF PowerLoss, RequestsType, ClientType, Idle
  <2>4. QED
    BY <1>2, <2>1, <2>3 DEF PowerLoss, ServesItsRequest, OnlyAccepted
<1>3. CASE ServiceCrash
  BY <1>3 DEF ServiceCrash, RequestsType, ClientType, Idle, ServesItsRequest, OnlyAccepted, root
<1>4. CASE Release \/ UNCHANGED requestVars
  BY <1>4 DEF Release, requestVars, RequestsType, ServesItsRequest, OnlyAccepted, root
<1>5. QED
  BY <1>1, <1>2, <1>3, <1>4

\* The inductive invariant holds in every state.
LEMMA RequestInvariant == RequestSpec => []RequestInv
<1>1. RequestInv /\ [RequestNext]_requestVars => RequestInv'
  BY ClientStep, StartStep, RunStep, EnvironmentStep DEF RequestNext
<1>2. QED
  BY <1>1, RequestInitOK, PTL DEF RequestSpec

-----------------------------------------------------------------------------

\* The file a script removes at its end holds the request it has read: two
\* clients, a crash or a power loss cannot slip another one in (O_EXCL, and a
\* write that goes to a file the handler has created itself).
THEOREM NoRequestUnread == RequestSpec => []ServesItsRequest
<1>1. RequestInv => ServesItsRequest
  BY DEF RequestInv
<1>2. QED
  BY <1>1, RequestInvariant, PTL

\* Whatever tag GitHub names and wherever the script fails or the power does, only
\* a version that matches the script's pattern is ever installed, and MediaMTX is
\* enabled only when the very version of the request is there in one piece.
THEOREM AcceptedIsInstalled == RequestSpec => []OnlyAccepted
<1>1. RequestInv => OnlyAccepted
  BY DEF RequestInv
<1>2. QED
  BY <1>1, RequestInvariant, PTL

\* A requested version stays in its file until the script removes it, or a power
\* loss does.
THEOREM VersionIsKept == RequestSpec => RequestNotReplaced
<1> DEFINE Kept ==
      \A t \in Tags :
        request["mediamtx"] = t => request'["mediamtx"] \in {t, Nothing} \/ PowerLoss
<1>1. ASSUME RequestInv, [RequestNext]_requestVars PROVE Kept
  <2> SUFFICES ASSUME NEW t \in Tags, request["mediamtx"] = t, ~PowerLoss
               PROVE  request'["mediamtx"] \in {t, Nothing}
    OBVIOUS
  <2>1. t # Nothing /\ t # Empty /\ request \in [Jobs -> Tags \cup {Nothing, Empty}] /\ "mediamtx" \in Jobs
    BY <1>1, RequestsAssumption DEF RequestInv, RequestsType, Jobs
  <2>2. ASSUME NEW c \in Clients, Ask(c) \/ Create(c) \/ WriteVersion(c)
        PROVE  request'["mediamtx"] \in {t, Nothing}
    BY <2>1, <2>2 DEF Ask, Create, WriteVersion
  <2>3. ASSUME NEW j \in Jobs, Start(j) \/ Run(j) PROVE request'["mediamtx"] \in {t, Nothing}
    BY <2>1, <2>3
       DEF Start, Run, End, Download, Upgrade, Fail, RemoveBinary, CopyBinary, KeepConfig, CreateConfig,
           FillConfig, Enable, Then
  <2>4. ASSUME AskZeroTier \/ ServiceCrash \/ Release \/ UNCHANGED requestVars
        PROVE  request'["mediamtx"] \in {t, Nothing}
    BY <2>1, <2>4 DEF AskZeroTier, ServiceCrash, Release, requestVars, root
  <2>5. QED
    BY <1>1, <2>2, <2>3, <2>4 DEF RequestNext
<1>2. RequestInv /\ [RequestNext]_requestVars => [Kept]_requestVars
  BY <1>1
<1>3. QED
  BY <1>2, RequestInvariant, PTL DEF RequestSpec, RequestNotReplaced

-----------------------------------------------------------------------------
(* Searching lines.                                                         *)

\* Every set of natural numbers that is not empty has a least element.
LEMMA Least ==
  ASSUME NEW T \in SUBSET Nat, T # {}
  PROVE  \E x \in T : \A y \in T : x <= y
<1> DEFINE R == OpToRel(<, Nat)
<1>1. \A x, y \in Nat : <<y, x>> \in R <=> y < x
  BY DEF OpToRel
<1>2. IsWellFoundedOn(R, Nat)
  BY NatLessThanWellFounded
<1> HIDE DEF R
<1>3. PICK x \in T : \A y \in T : ~(<<y, x>> \in R)
  BY <1>2, WFMin
<1>4. \A y \in T : x <= y
  <2> TAKE y \in T
  <2>1. x \in Nat /\ y \in Nat
    OBVIOUS
  <2>2. ~(y < x)
    BY <1>1, <1>3, <2>1
  <2>3. QED
    BY <2>1, <2>2
<1>5. QED
  BY <1>4

\* The search of First ends at the first index that is wanted, or behind the last.
LEMMA FirstExists ==
  ASSUME NEW a \in Nat, NEW b \in Nat, a <= b + 1, NEW B \in SUBSET (a .. b)
  PROVE  \E i \in a .. b + 1 : (i = b + 1 \/ i \in B) /\ \A j \in a .. i - 1 : j \notin B
<1>1. B \cup {b + 1} \in SUBSET Nat
  OBVIOUS
<1>2. PICK i \in B \cup {b + 1} : \A y \in B \cup {b + 1} : i <= y
  BY <1>1, Least
<1>3. i \in a .. b + 1
  BY <1>1
<1>4. \A j \in a .. i - 1 : j \notin B
  BY <1>2, <1>3
<1>5. QED
  BY <1>2, <1>3, <1>4

\* pathsSection: the line "paths:" is found when there is one.
LEMMA StartIs ==
  ASSUME NEW f \in Seq(Lines), NEW s \in 1 .. Len(f), f[s].kind = "paths",
         \A i \in 1 .. Len(f) : f[i].kind = "paths" => i = s
  PROVE  pathsStart(f) = s
<1>1. DOMAIN f = 1 .. Len(f)
  BY LenProperties
<1>2. QED
  BY <1>1 DEF pathsStart

\* pathsSection: the section ends before the next key of column 0.
LEMMA EndExists ==
  ASSUME NEW f \in Seq(Lines), pathsStart(f) \in 1 .. Len(f)
  PROVE  /\ pathsEnd(f) \in pathsStart(f) .. Len(f)
         /\ \A j \in pathsStart(f) + 1 .. pathsEnd(f) : f[j].kind \notin {"top", "paths"}
         /\ pathsEnd(f) = Len(f) \/ f[pathsEnd(f) + 1].kind \in {"top", "paths"}
<1> DEFINE a == pathsStart(f) + 1
           b == Len(f)
           B == {j \in a .. b : f[j].kind \in {"top", "paths"}}
           x == CHOOSE i \in a .. b + 1 : /\ i = b + 1 \/ f[i].kind \in {"top", "paths"}
                                          /\ \A j \in a .. i - 1 : ~ (f[j].kind \in {"top", "paths"})
<1>1. b \in Nat /\ a \in Nat /\ a <= b + 1
  BY LenProperties
<1>2. pathsEnd(f) = x - 1
  BY DEF pathsEnd, First
<1>3. \E i \in a .. b + 1 : (i = b + 1 \/ i \in B) /\ \A j \in a .. i - 1 : j \notin B
  <2>1. B \in SUBSET (a .. b)
    OBVIOUS
  <2> HIDE DEF a, b, B
  <2>2. QED
    BY <1>1, <2>1, FirstExists
<1>4. \E i \in a .. b + 1 : /\ i = b + 1 \/ f[i].kind \in {"top", "paths"}
                            /\ \A j \in a .. i - 1 : ~ (f[j].kind \in {"top", "paths"})
  <2>1. PICK i \in a .. b + 1 : (i = b + 1 \/ i \in B) /\ \A j \in a .. i - 1 : j \notin B
    BY <1>3
  <2>2. \A j \in a .. i - 1 : j \in a .. b
    BY <1>1
  <2> HIDE DEF a, b
  <2>3. \A j \in a .. i - 1 : ~ (f[j].kind \in {"top", "paths"})
    BY <2>1, <2>2
  <2>4. QED
    BY <2>1, <2>3
<1>5. /\ x \in a .. b + 1
      /\ x = b + 1 \/ f[x].kind \in {"top", "paths"}
      /\ \A j \in a .. x - 1 : ~ (f[j].kind \in {"top", "paths"})
  <2> HIDE DEF a, b
  <2>1. QED
    BY <1>4
<1> HIDE DEF x
<1>6. QED
  BY <1>1, <1>2, <1>5

LEMMA EndIs ==
  ASSUME NEW f \in Seq(Lines), pathsStart(f) \in 1 .. Len(f), NEW e \in pathsStart(f) .. Len(f),
         \A j \in pathsStart(f) + 1 .. e : f[j].kind \notin {"top", "paths"},
         e = Len(f) \/ f[e + 1].kind \in {"top", "paths"}
  PROVE  pathsEnd(f) = e
<1>1. Len(f) \in Nat
  BY LenProperties
<1>2. PICK s \in Nat, d \in Nat : s = pathsStart(f) /\ d = pathsEnd(f) /\ d \in s .. Len(f)
  BY <1>1, EndExists
<1>3. /\ \A j \in s + 1 .. d : f[j].kind \notin {"top", "paths"}
      /\ d = Len(f) \/ f[d + 1].kind \in {"top", "paths"}
  BY <1>2, EndExists
<1>4. ~ (d < e)
  <2> SUFFICES ASSUME d < e PROVE FALSE
    OBVIOUS
  <2>1. d + 1 \in s + 1 .. e /\ d # Len(f)
    BY <1>1, <1>2
  <2>2. QED
    BY <1>2, <1>3, <2>1
<1>5. ~ (e < d)
  <2> SUFFICES ASSUME e < d PROVE FALSE
    OBVIOUS
  <2>1. e + 1 \in s + 1 .. d /\ e # Len(f)
    BY <1>1, <1>2
  <2>2. QED
    BY <1>2, <1>3, <2>1
<1>6. QED
  BY <1>1, <1>2, <1>4, <1>5

-----------------------------------------------------------------------------
(* The form of a file, with the section of its paths named.                 *)

Form(f, s, e) ==
  /\ f \in Seq(Lines)
  /\ s \in 1 .. Len(f) /\ e \in s .. Len(f)
  /\ \A i \in 1 .. Len(f) : f[i].kind = "paths" <=> i = s
  /\ \A i \in s + 1 .. e : f[i].kind # "top"
  /\ e < Len(f) => f[e + 1].kind = "top"
  /\ \A i \in 1 .. Len(f) : f[i].kind \in {"path", "opt"} => i \in s + 1 .. e
  /\ \A i \in 1 .. Len(f) :
       f[i].kind = "opt" => f[i].arg \notin Names /\ f[i - 1].kind \in {"path", "opt"}
  /\ \A i, j \in 1 .. Len(f) : f[i].kind = "path" /\ f[j] = f[i] => i = j

\* A well-formed file has this form, with the section that pathsSection finds.
LEMMA FormOf ==
  ASSUME NEW f, WellFormed(f)
  PROVE  Form(f, pathsStart(f), pathsEnd(f))
<1>1. f \in Seq(Lines)
  BY DEF WellFormed
<1>2. Len(f) \in Nat /\ DOMAIN f = 1 .. Len(f)
  BY <1>1, LenProperties
<1>3. PICK s \in 1 .. Len(f) : /\ f[s].kind = "paths"
                               /\ \A i \in 1 .. Len(f) : f[i].kind = "paths" => i = s
  BY <1>2 DEF WellFormed
<1>4. pathsStart(f) = s
  BY <1>1, <1>3, StartIs
<1>5. PICK e : e = pathsEnd(f)
  OBVIOUS
<1>6. /\ e \in s .. Len(f)
      /\ \A j \in s + 1 .. e : f[j].kind \notin {"top", "paths"}
      /\ e = Len(f) \/ f[e + 1].kind \in {"top", "paths"}
  BY <1>1, <1>4, <1>5, EndExists
<1>7. e < Len(f) => f[e + 1].kind = "top"
  <2> SUFFICES ASSUME e < Len(f) PROVE f[e + 1].kind = "top"
    OBVIOUS
  <2>e. e \in s .. Len(f) /\ Len(f) \in Nat
    BY <1>2, <1>6
  <2>1. e + 1 \in 1 .. Len(f) /\ e + 1 # s /\ e # Len(f)
    BY <2>e
  <2>2. f[e + 1].kind \in {"top", "paths"}
    BY <1>6, <2>1
  <2>3. f[e + 1].kind # "paths"
    BY <1>3, <2>1
  <2>4. QED
    BY <2>2, <2>3
<1>8. \A i \in 1 .. Len(f) : f[i].kind \in {"path", "opt"} => i \in s + 1 .. e
  BY <1>2, <1>4, <1>5 DEF WellFormed
<1>9. \A i \in 1 .. Len(f) :
        f[i].kind = "opt" => f[i].arg \notin Names /\ f[i - 1].kind \in {"path", "opt"}
  BY <1>2 DEF WellFormed
<1>10. ASSUME NEW i \in 1 .. Len(f), NEW j \in 1 .. Len(f), f[i].kind = "path", f[j] = f[i]
       PROVE  i = j
  <2>1. f[j].kind = "path"
    BY <1>10
  <2>2. /\ \A k \in 1 .. i - 1 : f[k] # f[i]
        /\ \A k \in 1 .. j - 1 : f[k] # f[j]
    BY <1>2, <1>10, <2>1 DEF WellFormed, NoPathTwice
  <2>3. i \in 1 .. j - 1 \/ j \in 1 .. i - 1 \/ i = j
    BY <1>2
  <2>4. QED
    BY <1>10, <2>2, <2>3
<1>11. \A i \in 1 .. Len(f) : f[i].kind = "paths" <=> i = s
  BY <1>3
<1>12. QED
  BY <1>1, <1>3, <1>4, <1>5, <1>6, <1>7, <1>8, <1>9, <1>10, <1>11 DEF Form

\* What pathsSection finds in a file of this form.
LEMMA SectionOf ==
  ASSUME NEW f, NEW s, NEW e, Form(f, s, e)
  PROVE  /\ f \in Seq(Lines) /\ Len(f) \in Nat /\ DOMAIN f = 1 .. Len(f)
         /\ s \in Nat /\ e \in Nat /\ pathsStart(f) = s /\ pathsEnd(f) = e
<1>1. f \in Seq(Lines) /\ Len(f) \in Nat /\ DOMAIN f = 1 .. Len(f)
  <2>1. f \in Seq(Lines)
    BY DEF Form
  <2>2. QED
    BY <2>1, LenProperties
<1>2. s \in 1 .. Len(f) /\ e \in s .. Len(f) /\ s \in Nat /\ e \in Nat
  BY <1>1 DEF Form
<1>3. pathsStart(f) = s
  BY <1>1, <1>2, StartIs DEF Form
<1>4. \A j \in s + 1 .. e : f[j].kind \notin {"top", "paths"}
  <2>1. \A j \in s + 1 .. e : j \in 1 .. Len(f) /\ j # s
    BY <1>1, <1>2
  <2>2. QED
    BY <2>1 DEF Form
<1>5. e = Len(f) \/ f[e + 1].kind \in {"top", "paths"}
  <2>1. Len(f) \in Nat /\ e \in Nat /\ e <= Len(f)
    BY <1>1, <1>2
  <2>2. e = Len(f) \/ e < Len(f)
    BY <2>1
  <2>3. QED
    BY <2>2 DEF Form
<1>6. pathsEnd(f) = e
  BY <1>1, <1>2, <1>3, <1>4, <1>5, EndIs
<1>7. QED
  BY <1>1, <1>2, <1>3, <1>6

LEMMA WellFormedOf ==
  ASSUME NEW f, NEW s, NEW e, Form(f, s, e)
  PROVE  WellFormed(f)
<1>1. /\ f \in Seq(Lines) /\ Len(f) \in Nat /\ DOMAIN f = 1 .. Len(f)
      /\ s \in Nat /\ e \in Nat /\ pathsStart(f) = s /\ pathsEnd(f) = e
  BY SectionOf
<1>2. NoPathTwice(f)
  <2> SUFFICES ASSUME NEW i \in 1 .. Len(f), f[i].kind = "path", NEW j \in 1 .. i - 1, f[j] = f[i]
               PROVE  FALSE
    BY <1>1 DEF NoPathTwice
  <2>1. j \in 1 .. Len(f) /\ j # i
    BY <1>1
  <2>2. QED
    BY <2>1 DEF Form
<1>3. \E t \in DOMAIN f : /\ f[t].kind = "paths"
                          /\ \A i \in DOMAIN f : f[i].kind = "paths" => i = t
  BY <1>1 DEF Form
<1>4. QED
  BY <1>1, <1>2, <1>3 DEF WellFormed, Form

-----------------------------------------------------------------------------
(* Cutting lines out of a file.                                             *)

\* g is f without the lines from p to q - 1.
Cut(f, g, p, q) ==
  /\ g \in Seq(Lines)
  /\ Len(g) = Len(f) - (q - p)
  /\ \A i \in 1 .. p - 1 : g[i] = f[i]
  /\ \A i \in p .. Len(g) : g[i] = f[i + (q - p)]

LEMMA CutIs ==
  ASSUME NEW f \in Seq(Lines), NEW p \in 1 .. Len(f) + 1, NEW q \in p .. Len(f) + 1
  PROVE  Cut(f, SubSeq(f, 1, p - 1) \o SubSeq(f, q, Len(f)), p, q)
<1> DEFINE a == SubSeq(f, 1, p - 1)
           b == SubSeq(f, q, Len(f))
<1>1. Len(f) \in Nat /\ p \in Nat /\ q \in Nat
  BY LenProperties
<1>2. \A i \in 1 .. Len(f) : f[i] \in Lines
  BY ElementOfSeq
<1>3. /\ a \in Seq(Lines) /\ Len(a) = p - 1
      /\ \A i \in 1 .. p - 1 : a[i] = f[i]
  <2>1. \A i \in 1 .. p - 1 : f[i] \in Lines
    BY <1>1, <1>2
  <2>2. /\ a \in Seq(Lines) /\ Len(a) = IF 1 <= p - 1 THEN p - 1 - 1 + 1 ELSE 0
        /\ \A i \in 1 .. p - 1 - 1 + 1 : a[i] = f[1 + i - 1]
    BY <1>1, <2>1, SubSeqProperties
  <2>3. QED
    BY <1>1, <2>2
<1>4. /\ b \in Seq(Lines) /\ Len(b) = Len(f) - q + 1
      /\ \A i \in 1 .. Len(f) - q + 1 : b[i] = f[q + i - 1]
  <2>1. \A i \in q .. Len(f) : f[i] \in Lines
    BY <1>1, <1>2
  <2>2. /\ b \in Seq(Lines) /\ Len(b) = IF q <= Len(f) THEN Len(f) - q + 1 ELSE 0
        /\ \A i \in 1 .. Len(f) - q + 1 : b[i] = f[q + i - 1]
    BY <1>1, <2>1, SubSeqProperties
  <2>3. QED
    BY <1>1, <2>2
<1> HIDE DEF a, b
<1>5. /\ a \o b \in Seq(Lines) /\ Len(a \o b) = Len(a) + Len(b)
      /\ \A i \in 1 .. Len(a) + Len(b) : (a \o b)[i] = IF i <= Len(a) THEN a[i] ELSE b[i - Len(a)]
  BY <1>3, <1>4, ConcatProperties
<1>6. Len(a \o b) = Len(f) - (q - p)
  BY <1>1, <1>3, <1>4, <1>5
<1>7. \A i \in 1 .. p - 1 : (a \o b)[i] = f[i]
  BY <1>1, <1>3, <1>4, <1>5
<1>8. ASSUME NEW i \in p .. Len(a \o b) PROVE (a \o b)[i] = f[i + (q - p)]
  <2>1. /\ i \in 1 .. Len(a) + Len(b) /\ ~(i <= Len(a))
        /\ i - Len(a) \in 1 .. Len(f) - q + 1 /\ q + (i - Len(a)) - 1 = i + (q - p)
    BY <1>1, <1>3, <1>4, <1>5, <1>8
  <2>2. QED
    BY <1>4, <1>5, <2>1
<1>9. Cut(f, a \o b, p, q)
  BY <1>5, <1>6, <1>7, <1>8 DEF Cut
<1>10. QED
  BY <1>9 DEF a, b

\* Cutting whole blocks out of the section of a file keeps its form.
LEMMA CutForm ==
  ASSUME NEW f, NEW s, NEW e, Form(f, s, e), NEW p \in s + 1 .. e + 1, NEW q \in p .. e + 1,
         q <= Len(f) => f[q].kind # "opt", NEW g, Cut(f, g, p, q)
  PROVE  Form(g, s, e - (q - p))
<1>1. /\ f \in Seq(Lines) /\ Len(f) \in Nat /\ s \in Nat /\ e \in Nat
      /\ s \in 1 .. Len(f) /\ e \in s .. Len(f)
  <2>1. /\ f \in Seq(Lines) /\ s \in 1 .. Len(f) /\ e \in s .. Len(f)
    BY DEF Form
  <2>2. Len(f) \in Nat
    BY <2>1, LenProperties
  <2>3. QED
    BY <2>1, <2>2
<1>2. /\ p \in Nat /\ q \in Nat /\ p <= q /\ q <= e + 1 /\ s < p
  BY <1>1
<1>3. PICK d \in Nat : d = q - p
  BY <1>2
<1>4. /\ g \in Seq(Lines) /\ Len(g) = Len(f) - d /\ Len(g) \in Nat
      /\ \A i \in 1 .. p - 1 : g[i] = f[i]
      /\ \A i \in p .. Len(g) : g[i] = f[i + d]
  BY <1>1, <1>2, <1>3, LenProperties DEF Cut
<1>5. PICK m : m = [i \in 1 .. Len(g) |-> IF i < p THEN i ELSE i + d]
  OBVIOUS
<1>6. \A i \in 1 .. Len(g) : m[i] \in 1 .. Len(f) /\ g[i] = f[m[i]]
  BY <1>1, <1>2, <1>3, <1>4, <1>5
<1>L. Len(g) = Len(f) - d /\ Len(g) \in Nat /\ d <= e - s /\ q = p + d
  BY <1>1, <1>2, <1>3, <1>4
<1>M. \A i \in 1 .. Len(g) : \/ i < p /\ m[i] = i
                             \/ p <= i /\ m[i] = i + d
  BY <1>1, <1>2, <1>5, <1>L
<1>7. s \in 1 .. Len(g) /\ e - d \in s .. Len(g)
  BY <1>1, <1>2, <1>3, <1>4
<1>8. ASSUME NEW i \in 1 .. Len(g) PROVE g[i].kind = "paths" <=> i = s
  <2>1. f[m[i]].kind = "paths" <=> m[i] = s
    BY <1>6 DEF Form
  <2>2. m[i] = s <=> i = s
    BY <1>1, <1>2, <1>L, <1>M, SMTT(30)
  <2>3. QED
    BY <1>6, <2>1, <2>2
<1>9. ASSUME NEW i \in s + 1 .. e - d PROVE g[i].kind # "top"
  <2>1. i \in 1 .. Len(g) /\ m[i] \in s + 1 .. e
    BY <1>1, <1>2, <1>L, <1>M
  <2>2. QED
    BY <1>6, <2>1 DEF Form
<1>10. ASSUME e - d < Len(g) PROVE g[e - d + 1].kind = "top"
  <2>1. e - d + 1 \in 1 .. Len(g) /\ m[e - d + 1] = e + 1 /\ e < Len(f)
    BY <1>1, <1>2, <1>L, <1>M, <1>10
  <2>2. QED
    BY <1>6, <2>1 DEF Form
<1>11. ASSUME NEW i \in 1 .. Len(g), g[i].kind \in {"path", "opt"} PROVE i \in s + 1 .. e - d
  <2>1. m[i] \in s + 1 .. e
    BY <1>6, <1>11 DEF Form
  <2>2. QED
    BY <1>1, <1>2, <1>L, <1>M, <2>1
<1>12. ASSUME NEW i \in 1 .. Len(g), g[i].kind = "opt"
       PROVE  g[i].arg \notin Names /\ g[i - 1].kind \in {"path", "opt"}
  <2>1. f[m[i]].kind = "opt" /\ g[i].arg = f[m[i]].arg
    BY <1>6, <1>12
  <2>2. f[m[i]].arg \notin Names /\ f[m[i] - 1].kind \in {"path", "opt"}
    BY <1>6, <2>1 DEF Form
  <2>3. m[i] \in s + 1 .. e /\ m[i] # q
    BY <1>2, <1>6, <2>1 DEF Form
  <2>4. i # p
    BY <1>2, <1>L, <1>M, <2>3
  <2>5. i # 1 /\ i \in Nat
    BY <1>1, <1>2, <1>M, <2>3, <2>4
  <2>6. i - 1 \in 1 .. Len(g)
    BY <1>L, <2>5
  <2>7. m[i - 1] = m[i] - 1
    <3>1. CASE i < p
      BY <1>1, <1>2, <1>L, <1>M, <2>5, <2>6, <3>1
    <3>2. CASE p <= i
      <4>1. p <= i - 1 /\ m[i] = i + d
        BY <1>2, <1>M, <2>4, <2>5, <3>2
      <4>2. m[i - 1] = (i - 1) + d
        BY <1>2, <1>M, <2>5, <2>6, <4>1
      <4>3. QED
        BY <1>L, <2>5, <4>1, <4>2
    <3>3. QED
      BY <1>2, <2>5, <3>1, <3>2
  <2>8. QED
    BY <1>6, <2>1, <2>2, <2>6, <2>7
<1>13. ASSUME NEW i \in 1 .. Len(g), NEW j \in 1 .. Len(g), g[i].kind = "path", g[j] = g[i]
       PROVE  i = j
  <2>1. m[i] = m[j]
    <3>1. /\ m[i] \in 1 .. Len(f) /\ m[j] \in 1 .. Len(f)
          /\ f[m[i]].kind = "path" /\ f[m[j]] = f[m[i]]
      BY <1>6, <1>13
    <3>2. QED
      BY <3>1 DEF Form
  <2>2. i \in Nat /\ j \in Nat
    BY <1>L
  <2>3. (i < p /\ m[i] = i) \/ (p <= i /\ m[i] = i + d)
    BY <1>M
  <2>4. (j < p /\ m[j] = j) \/ (p <= j /\ m[j] = j + d)
    BY <1>M
  <2>5. QED
    BY <1>2, <2>1, <2>2, <2>3, <2>4
<1>14. QED
  BY <1>3, <1>4, <1>7, <1>8, <1>9, <1>10, <1>11, <1>12, <1>13 DEF Form

\* Lines from p to q - 1 that are the block of one path.
IsBlock(g, p, q, n) ==
  /\ g[p].kind = "mark"
  /\ g[p + 1].kind = "path" /\ g[p + 1].arg = n
  /\ \A i \in p + 2 .. q - 1 : g[i].kind = "opt" /\ g[i].arg \notin Names

\* Putting the block of a new path before a line that is no option keeps the form.
LEMMA PasteForm ==
  ASSUME NEW f, NEW s, NEW e, Form(f, s, e), NEW p \in s + 1 .. e + 1,
         p <= Len(f) => f[p].kind # "opt", NEW q \in Nat, p + 2 <= q,
         NEW g \in Seq(Lines), Cut(g, f, p, q), NEW n, IsBlock(g, p, q, n),
         \A i \in 1 .. Len(f) : f[i].kind = "path" => f[i].arg # n
  PROVE  Form(g, s, e + (q - p))
<1>1. /\ f \in Seq(Lines) /\ Len(f) \in Nat /\ s \in Nat /\ e \in Nat
      /\ s \in 1 .. Len(f) /\ e \in s .. Len(f)
  <2>1. /\ f \in Seq(Lines) /\ s \in 1 .. Len(f) /\ e \in s .. Len(f)
    BY DEF Form
  <2>2. Len(f) \in Nat
    BY <2>1, LenProperties
  <2>3. QED
    BY <2>1, <2>2
<1>N. Len(f) \in Nat /\ s \in Nat /\ e \in Nat
  BY <1>1
<1>2. p \in Nat /\ s < p /\ p <= e + 1 /\ 1 <= s /\ s <= e /\ e <= Len(f)
  BY <1>1
<1>3. PICK d \in Nat : d = q - p
  BY <1>2
<1>4. q = p + d /\ 2 <= d
  BY <1>2, <1>3
<1>5. Len(g) \in Nat /\ Len(g) = Len(f) + d
  <2>1. Len(g) \in Nat /\ Len(f) = Len(g) - (q - p)
    BY LenProperties DEF Cut
  <2>2. QED
    BY <1>1, <1>2, <1>4, <2>1
<1>6. /\ \A i \in 1 .. p - 1 : g[i] = f[i]
      /\ \A i \in p .. Len(f) : g[i + d] = f[i]
  <2>1. /\ \A i \in 1 .. p - 1 : f[i] = g[i]
        /\ \A i \in p .. Len(f) : f[i] = g[i + (q - p)]
    BY DEF Cut
  <2>2. QED
    BY <1>3, <2>1
<1>7. ASSUME NEW i \in 1 .. Len(g)
      PROVE  \/ i < p /\ i \in 1 .. Len(f) /\ g[i] = f[i]
             \/ i = p /\ g[i].kind = "mark"
             \/ i = p + 1 /\ g[i].kind = "path" /\ g[i].arg = n
             \/ i \in p + 2 .. q - 1 /\ g[i].kind = "opt" /\ g[i].arg \notin Names
             \/ i >= q /\ i - d \in p .. Len(f) /\ g[i] = f[i - d]
  <2>1. i \in Nat /\ 1 <= i /\ i <= Len(g)
    BY <1>5
  <2>2. CASE i < p
    <3>1. i \in 1 .. p - 1 /\ i \in 1 .. Len(f)
      BY <1>1, <1>2, <2>1, <2>2
    <3>2. g[i] = f[i]
      BY <1>6, <3>1
    <3>3. QED
      BY <2>2, <3>1, <3>2
  <2>3. CASE i = p \/ i = p + 1 \/ i \in p + 2 .. q - 1
    BY <2>3 DEF IsBlock
  <2>4. CASE i >= q
    <3>1. i - d \in p .. Len(f) /\ (i - d) + d = i
      BY <1>1, <1>2, <1>4, <1>5, <2>1, <2>4
    <3>2. g[(i - d) + d] = f[i - d]
      BY <1>6, <3>1
    <3>3. QED
      BY <2>4, <3>1, <3>2
  <2>5. i < p \/ i = p \/ i = p + 1 \/ i \in p + 2 .. q - 1 \/ i >= q
    BY <1>2, <1>4, <2>1
  <2>6. QED
    BY <2>2, <2>3, <2>4, <2>5
<1>8. ASSUME NEW i \in 1 .. Len(g) PROVE g[i].kind = "paths" <=> i = s
  <2>1. i \in Nat
    BY <1>5
  <2>2. CASE i < p /\ i \in 1 .. Len(f) /\ g[i] = f[i]
    BY <2>2 DEF Form
  <2>3. CASE i >= q /\ i - d \in p .. Len(f) /\ g[i] = f[i - d]
    <3>i. i >= q /\ i - d \in p .. Len(f)
      BY <2>3
    <3>1. i - d \in 1 .. Len(f) /\ i - d # s /\ i # s
      BY <1>N, <1>2, <1>4, <2>1, <3>i
    <3>2. QED
      BY <2>3, <3>1 DEF Form
  <2>4. CASE g[i].kind \in {"mark", "path", "opt"} /\ i >= p
    BY <1>2, <2>1, <2>4
  <2>5. QED
    BY <1>2, <1>7, <2>1, <2>2, <2>3, <2>4
<1>9. ASSUME NEW i \in s + 1 .. e + d PROVE g[i].kind # "top"
  <2>1. i \in Nat /\ i \in 1 .. Len(g) /\ i <= e + d
    BY <1>1, <1>2, <1>5
  <2>2. CASE i < p /\ i \in 1 .. Len(f) /\ g[i] = f[i]
    <3>1. i \in s + 1 .. e
      BY <1>1, <1>2, <2>1, <2>2
    <3>2. QED
      BY <2>2, <3>1 DEF Form
  <2>3. CASE i >= q /\ i - d \in p .. Len(f) /\ g[i] = f[i - d]
    <3>i. i - d \in p .. Len(f)
      BY <2>3
    <3>1. i - d \in Nat /\ i - d >= p /\ i - d <= e
      BY <1>N, <1>2, <2>1, <3>i
    <3>2. i - d \in s + 1 .. e
      BY <1>N, <1>2, <3>1
    <3>3. QED
      BY <2>3, <3>2 DEF Form
  <2>4. QED
    BY <1>7, <2>1, <2>2, <2>3
<1>10. ASSUME e + d < Len(g) PROVE g[e + d + 1].kind = "top"
  <2>1. e < Len(f) /\ e + 1 \in p .. Len(f) /\ (e + 1) + d = e + d + 1
    BY <1>1, <1>2, <1>5, <1>10
  <2>2. g[(e + 1) + d] = f[e + 1]
    BY <1>6, <2>1
  <2>3. QED
    BY <2>1, <2>2 DEF Form
<1>11. ASSUME NEW i \in 1 .. Len(g), g[i].kind \in {"path", "opt"} PROVE i \in s + 1 .. e + d
  <2>1. i \in Nat
    BY <1>5
  <2>2. CASE i < p /\ i \in 1 .. Len(f) /\ g[i] = f[i]
    <3>1. i \in s + 1 .. e
      BY <1>11, <2>2 DEF Form
    <3>2. QED
      BY <1>1, <3>1
  <2>3. CASE i >= q /\ i - d \in p .. Len(f) /\ g[i] = f[i - d]
    <3>1. i - d \in 1 .. Len(f)
      BY <1>1, <1>2, <2>3
    <3>2. i - d \in s + 1 .. e
      BY <1>11, <2>3, <3>1 DEF Form
    <3>3. QED
      BY <1>1, <2>1, <3>2
  <2>4. CASE i >= p /\ i < q
    BY <1>N, <1>2, <1>4, <2>1, <2>4, SMTT(30)
  <2>5. QED
    BY <1>2, <1>4, <1>7, <2>1, <2>2, <2>3, <2>4
<1>12. ASSUME NEW i \in 1 .. Len(g), g[i].kind = "opt"
       PROVE  g[i].arg \notin Names /\ g[i - 1].kind \in {"path", "opt"}
  <2>1. i \in Nat /\ i \in s + 1 .. e + d
    BY <1>5, <1>11, <1>12
  <2>2. CASE i < p /\ i \in 1 .. Len(f) /\ g[i] = f[i]
    <3>1. f[i].arg \notin Names /\ f[i - 1].kind \in {"path", "opt"}
      BY <1>12, <2>2 DEF Form
    <3>2. i - 1 \in 1 .. p - 1
      <4>i. i < p
        BY <2>2
      <4>1. QED
        BY <1>N, <1>2, <2>1, <4>i, SMTT(30)
    <3>3. QED
      BY <1>6, <2>2, <3>1, <3>2
  <2>3. CASE i \in p + 2 .. q - 1 /\ g[i].arg \notin Names
    <3>1. i - 1 = p + 1 \/ i - 1 \in p + 2 .. q - 1
      BY <1>2, <2>1, <2>3
    <3>2. QED
      BY <2>3, <3>1 DEF IsBlock
  <2>4. CASE i >= q /\ i - d \in p .. Len(f) /\ g[i] = f[i - d]
    <3>1. i - d \in 1 .. Len(f) /\ i - d \in Nat
      BY <1>1, <1>2, <2>4
    <3>2. f[i - d].kind = "opt" /\ f[i - d].arg \notin Names /\ f[i - d - 1].kind \in {"path", "opt"}
      BY <1>12, <2>4, <3>1 DEF Form
    <3>k. ASSUME i - d = p PROVE FALSE
      <4>1. p <= Len(f)
        BY <3>1, <3>k, <1>1
      <4>2. f[p].kind = "opt"
        BY <3>2, <3>k
      <4>3. QED
        BY <4>1, <4>2
    <3>3. i - d # p
      BY <3>k
    <3>4. i - d - 1 \in p .. Len(f) /\ (i - d - 1) + d = i - 1
      <4>i. i - d \in p .. Len(f)
        BY <2>4
      <4>1. QED
        BY <1>N, <1>2, <2>1, <3>3, <4>i
    <3>5. g[(i - d - 1) + d] = f[i - d - 1]
      BY <1>6, <3>4
    <3>6. QED
      BY <2>4, <3>2, <3>4, <3>5
  <2>5. QED
    BY <1>7, <1>12, <2>2, <2>3, <2>4
<1>13. ASSUME NEW i \in 1 .. Len(g), NEW j \in 1 .. Len(g), g[i].kind = "path", g[j] = g[i]
       PROVE  i = j
  <2> DEFINE Old(k, h) == k \in Nat /\ h \in 1 .. Len(f) /\ g[k] = f[h]
                          /\ ((k < p /\ h = k) \/ (h >= p /\ k = h + d))
  <2>1. ASSUME NEW k \in 1 .. Len(g), g[k].kind = "path"
        PROVE  (k = p + 1 /\ g[k].arg = n) \/ \E h \in 1 .. Len(f) : Old(k, h)
    <3>1. k \in Nat
      BY <1>5
    <3>2. CASE k < p /\ k \in 1 .. Len(f) /\ g[k] = f[k]
      BY <3>1, <3>2
    <3>3. CASE k >= q /\ k - d \in p .. Len(f) /\ g[k] = f[k - d]
      <4>k. k - d \in p .. Len(f)
        BY <3>3
      <4>1. k - d \in 1 .. Len(f) /\ k = (k - d) + d /\ k - d >= p
        BY <1>N, <1>2, <3>1, <4>k
      <4>2. QED
        BY <3>1, <3>3, <4>1
    <3>4. QED
      BY <1>7, <2>1, <3>2, <3>3
  <2>2. g[j].kind = "path"
    BY <1>13
  <2>3. CASE i = p + 1 /\ g[i].arg = n
    <3>1. ~ \E h \in 1 .. Len(f) : Old(j, h)
      BY <1>13, <2>2, <2>3
    <3>2. QED
      BY <2>1, <2>2, <2>3, <3>1
  <2>4. ASSUME NEW h \in 1 .. Len(f), Old(i, h)
        PROVE  i = j
    <3>1. g[j].arg # n
      BY <1>13, <2>4
    <3>2. PICK k \in 1 .. Len(f) : Old(j, k)
      BY <2>1, <2>2, <3>1
    <3>3. h = k
      BY <1>13, <2>4, <3>2 DEF Form
    <3>4. h \in Nat
      BY <1>1
    <3>5. QED
      BY <1>2, <2>4, <3>2, <3>3, <3>4
  <2>5. QED
    BY <1>13, <2>1, <2>3, <2>4
<1>14. s \in 1 .. Len(g) /\ e + d \in s .. Len(g)
  BY <1>1, <1>2, <1>5
<1>15. Form(g, s, e + d)
  BY <1>8, <1>9, <1>10, <1>11, <1>12, <1>13, <1>14 DEF Form
<1>16. QED
  BY <1>3, <1>15

\* The first key with this name.
LEMMA FirstKey ==
  ASSUME NEW f, NEW n, NEW a \in Nat, NEW b \in Nat, a <= b + 1
  PROVE  \E x \in a .. b + 1 :
           /\ First(f, a, b, LAMBDA l : IsKey(l, n)) = x
           /\ x = b + 1 \/ IsKey(f[x], n)
           /\ \A j \in a .. x - 1 : ~ (IsKey(f[j], n))
<1> DEFINE B == {j \in a .. b : IsKey(f[j], n)}
           x == CHOOSE i \in a .. b + 1 : /\ i = b + 1 \/ IsKey(f[i], n)
                                          /\ \A j \in a .. i - 1 : ~ (IsKey(f[j], n))
<1>1. First(f, a, b, LAMBDA l : IsKey(l, n)) = x
  BY DEF First
<1>2. PICK i \in a .. b + 1 : (i = b + 1 \/ i \in B) /\ \A j \in a .. i - 1 : j \notin B
  <2>1. B \in SUBSET (a .. b)
    OBVIOUS
  <2> HIDE DEF B
  <2>2. QED
    BY <2>1, FirstExists
<1>3. \A j \in a .. i - 1 : j \in a .. b
  OBVIOUS
<1>4. \A j \in a .. i - 1 : ~ (IsKey(f[j], n))
  BY <1>2, <1>3
<1>5. /\ x \in a .. b + 1
      /\ x = b + 1 \/ IsKey(f[x], n)
      /\ \A j \in a .. x - 1 : ~ (IsKey(f[j], n))
  BY <1>2, <1>4
<1> HIDE DEF x
<1>6. QED
  BY <1>1, <1>5

\* The first line that is no option.
LEMMA FirstNoOption ==
  ASSUME NEW f, NEW a \in Nat, NEW b \in Nat, a <= b + 1
  PROVE  \E x \in a .. b + 1 :
           /\ First(f, a, b, LAMBDA l : l.kind \notin {"opt", "cut"}) = x
           /\ x = b + 1 \/ f[x].kind \notin {"opt", "cut"}
           /\ \A j \in a .. x - 1 : f[j].kind \in {"opt", "cut"}
<1> DEFINE B == {j \in a .. b : f[j].kind \notin {"opt", "cut"}}
           x == CHOOSE i \in a .. b + 1 : /\ i = b + 1 \/ f[i].kind \notin {"opt", "cut"}
                                          /\ \A j \in a .. i - 1 : f[j].kind \in {"opt", "cut"}
<1>1. First(f, a, b, LAMBDA l : l.kind \notin {"opt", "cut"}) = x
  <2>1. \A i : (~ (f[i].kind \notin {"opt", "cut"})) <=> f[i].kind \in {"opt", "cut"}
    OBVIOUS
  <2>2. QED
    BY <2>1 DEF First
<1>2. PICK i \in a .. b + 1 : (i = b + 1 \/ i \in B) /\ \A j \in a .. i - 1 : j \notin B
  <2>1. B \in SUBSET (a .. b)
    OBVIOUS
  <2> HIDE DEF B
  <2>2. QED
    BY <2>1, FirstExists
<1>3. \A j \in a .. i - 1 : j \in a .. b
  OBVIOUS
<1>4. \A j \in a .. i - 1 : f[j].kind \in {"opt", "cut"}
  BY <1>2, <1>3
<1>5. /\ x \in a .. b + 1
      /\ x = b + 1 \/ f[x].kind \notin {"opt", "cut"}
      /\ \A j \in a .. x - 1 : f[j].kind \in {"opt", "cut"}
  BY <1>2, <1>4
<1> HIDE DEF x
<1>6. QED
  BY <1>1, <1>5

\* The path all_others.
LEMMA FirstAllOthers ==
  ASSUME NEW f, NEW a \in Nat, NEW b \in Nat, a <= b + 1
  PROVE  \E x \in a .. b + 1 :
           /\ First(f, a, b, LAMBDA l : l.kind \in PathKeys /\ l.arg = AllOthers) = x
           /\ x = b + 1 \/ (f[x].kind \in PathKeys /\ f[x].arg = AllOthers)
           /\ \A j \in a .. x - 1 : ~ (f[j].kind \in PathKeys /\ f[j].arg = AllOthers)
<1> DEFINE B == {j \in a .. b : (f[j].kind \in PathKeys /\ f[j].arg = AllOthers)}
           x == CHOOSE i \in a .. b + 1 : /\ i = b + 1 \/ (f[i].kind \in PathKeys /\ f[i].arg = AllOthers)
                                          /\ \A j \in a .. i - 1 : ~ (f[j].kind \in PathKeys /\ f[j].arg = AllOthers)
<1>1. First(f, a, b, LAMBDA l : l.kind \in PathKeys /\ l.arg = AllOthers) = x
  BY DEF First
<1>2. PICK i \in a .. b + 1 : (i = b + 1 \/ i \in B) /\ \A j \in a .. i - 1 : j \notin B
  <2>1. B \in SUBSET (a .. b)
    OBVIOUS
  <2> HIDE DEF B
  <2>2. QED
    BY <2>1, FirstExists
<1>3. \A j \in a .. i - 1 : j \in a .. b
  OBVIOUS
<1>4. \A j \in a .. i - 1 : ~ (f[j].kind \in PathKeys /\ f[j].arg = AllOthers)
  BY <1>2, <1>3
<1>5. /\ x \in a .. b + 1
      /\ x = b + 1 \/ (f[x].kind \in PathKeys /\ f[x].arg = AllOthers)
      /\ \A j \in a .. x - 1 : ~ (f[j].kind \in PathKeys /\ f[j].arg = AllOthers)
  BY <1>2, <1>4
<1> HIDE DEF x
<1>6. QED
  BY <1>1, <1>5

-----------------------------------------------------------------------------
(* removePathBlock and replacePathBlock.                                    *)

\* In a file of the form, only the path itself is a key with its name.
LEMMA KeyIsPath ==
  ASSUME NEW f, NEW s, NEW e, Form(f, s, e), NEW n \in Names, NEW i \in 1 .. Len(f)
  PROVE  IsKey(f[i], n) <=> f[i].kind = "path" /\ f[i].arg = n
  BY DEF Form, IsKey

\* A name is found if and only if there is a path with it.
LEMMA FoundIs ==
  ASSUME NEW f, NEW s, NEW e, Form(f, s, e), NEW n \in Names
  PROVE  found(f, n) <=> \E i \in 1 .. Len(f) : f[i].kind = "path" /\ f[i].arg = n
<1>1. Len(f) \in Nat /\ s \in Nat /\ e \in Nat /\ pathsStart(f) = s /\ pathsEnd(f) = e
  BY SectionOf
<1>2. \A i \in s + 1 .. e : i \in 1 .. Len(f)
  BY <1>1 DEF Form
<1>3. found(f, n) => \E i \in 1 .. Len(f) : f[i].kind = "path" /\ f[i].arg = n
  BY <1>1, <1>2, KeyIsPath DEF found
<1>4. ASSUME NEW i \in 1 .. Len(f), f[i].kind = "path", f[i].arg = n
      PROVE  found(f, n)
  <2>1. i \in s + 1 .. e
    BY <1>4 DEF Form
  <2>2. IsKey(f[i], n)
    BY <1>4, KeyIsPath
  <2>3. QED
    BY <1>1, <2>1, <2>2 DEF found
<1>5. QED
  BY <1>3, <1>4

\* The block of the path n: its key at k, its options up to q, and the comment
\* that marks it, when it has one.
BlockAt(f, e, n, p, k, q) ==
  /\ f[k].kind = "path" /\ f[k].arg = n
  /\ \/ p = k /\ f[k - 1] # Line("mark", n)
     \/ p = k - 1 /\ f[k - 1] = Line("mark", n)
  /\ \A i \in k + 1 .. q - 1 : f[i].kind = "opt"
  /\ q = e + 1 \/ f[q].kind # "opt"

\* removePathBlock cuts this block out.
LEMMA RemoveIs ==
  ASSUME NEW f, NEW s, NEW e, Form(f, s, e), NEW n \in Names, found(f, n)
  PROVE  \E p \in s + 1 .. e, k \in s + 1 .. e, q \in s + 2 .. e + 1 :
           /\ p <= k /\ k < q
           /\ BlockAt(f, e, n, p, k, q)
           /\ Cut(f, removePathBlock(f, n), p, q)
<1> DEFINE index == First(f, pathsStart(f) + 1, pathsEnd(f), LAMBDA l : IsKey(l, n))
           begin == IF f[index - 1] = Line("mark", n) THEN index - 1 ELSE index
           after == First(f, index + 1, pathsEnd(f), LAMBDA l : l.kind \notin {"opt", "cut"})
<1>1. /\ f \in Seq(Lines) /\ Len(f) \in Nat /\ s \in Nat /\ e \in Nat
      /\ pathsStart(f) = s /\ pathsEnd(f) = e
  BY SectionOf
<1>2. 1 <= s /\ s <= e /\ e <= Len(f)
  BY <1>1 DEF Form
<1>3. removePathBlock(f, n) = SubSeq(f, 1, begin - 1) \o SubSeq(f, after, Len(f))
  BY DEF removePathBlock, First
<1>4. PICK k \in s + 1 .. e + 1 : /\ index = k
                                  /\ k = e + 1 \/ IsKey(f[k], n)
                                  /\ \A j \in s + 1 .. k - 1 : ~ IsKey(f[j], n)
  <2>1. s + 1 \in Nat /\ s + 1 <= e + 1
    BY <1>1, <1>2
  <2>2. \E x \in pathsStart(f) + 1 .. pathsEnd(f) + 1 :
          /\ index = x
          /\ x = pathsEnd(f) + 1 \/ IsKey(f[x], n)
          /\ \A j \in pathsStart(f) + 1 .. x - 1 : ~ IsKey(f[j], n)
    <3>1. pathsStart(f) + 1 \in Nat /\ pathsEnd(f) \in Nat /\ pathsStart(f) + 1 <= pathsEnd(f) + 1
      BY <1>1, <2>1
    <3>2. QED
      BY <3>1, FirstKey DEF First
  <2> HIDE DEF index
  <2>3. QED
    BY <1>1, <2>2
<1>5. k \in Nat /\ k \in s + 1 .. e /\ IsKey(f[k], n)
  <2>1. PICK i \in s + 1 .. e : IsKey(f[i], n)
    BY <1>1 DEF found
  <2>2. k # e + 1
    BY <1>1, <1>4, <2>1
  <2>3. QED
    BY <1>1, <1>4, <2>2
<1>6. f[k].kind = "path" /\ f[k].arg = n
  <2>1. k \in 1 .. Len(f)
    BY <1>1, <1>2, <1>5
  <2>2. QED
    BY <1>5, <2>1, KeyIsPath
<1>7. PICK q \in k + 1 .. e + 1 : /\ after = q
                                  /\ q = e + 1 \/ f[q].kind # "opt"
                                  /\ \A j \in k + 1 .. q - 1 : f[j].kind = "opt"
  <2> HIDE DEF index
  <2>1. index + 1 \in Nat /\ index + 1 <= pathsEnd(f) + 1 /\ pathsEnd(f) \in Nat
    BY <1>1, <1>4, <1>5
  <2>2. \E x \in index + 1 .. pathsEnd(f) + 1 :
          /\ after = x
          /\ x = pathsEnd(f) + 1 \/ f[x].kind \notin {"opt", "cut"}
          /\ \A j \in index + 1 .. x - 1 : f[j].kind \in {"opt", "cut"}
    BY <2>1, FirstNoOption DEF First
  <2> HIDE DEF after
  <2>3. PICK q \in k + 1 .. e + 1 : /\ after = q
                                    /\ q = e + 1 \/ f[q].kind \notin {"opt", "cut"}
                                    /\ \A j \in k + 1 .. q - 1 : f[j].kind \in {"opt", "cut"}
    BY <1>1, <1>4, <2>2
  <2>4. ASSUME NEW j \in k + 1 .. q - 1
        PROVE  f[j].kind # "cut"
    <3>1. j \in 1 .. Len(f)
      BY <1>1, <1>2, <1>5
    <3>2. f[j] \in Lines
      BY <1>1, <3>1, ElementOfSeq
    <3>3. QED
      BY <3>2 DEF Lines, LineKinds
  <2>5. QED
    BY <2>3, <2>4
<1> HIDE DEF index, after
<1>8. PICK p : p = begin
  OBVIOUS
<1>9. /\ p \in s + 1 .. e /\ p <= k
      /\ \/ p = k /\ f[k - 1] # Line("mark", n)
         \/ p = k - 1 /\ f[k - 1] = Line("mark", n)
  <2>1. CASE f[k - 1] # Line("mark", n)
    BY <1>1, <1>4, <1>5, <1>8, <2>1
  <2>2. CASE f[k - 1] = Line("mark", n)
    <3>1. f[k - 1].kind # "paths"
      BY <2>2 DEF Line
    <3>2. f[s].kind = "paths"
      BY DEF Form
    <3>3. k - 1 # s
      BY <3>1, <3>2
    <3>4. p = k - 1
      BY <1>4, <1>8, <2>2
    <3>5. p \in s + 1 .. e /\ p <= k
      BY <1>1, <1>5, <3>3, <3>4
    <3>6. QED
      BY <2>2, <3>4, <3>5
  <2>3. QED
    BY <2>1, <2>2
<1>10. removePathBlock(f, n) = SubSeq(f, 1, p - 1) \o SubSeq(f, q, Len(f))
  BY <1>3, <1>7, <1>8
<1>11. p \in 1 .. Len(f) + 1 /\ q \in p .. Len(f) + 1 /\ q \in s + 2 .. e + 1 /\ k < q
  BY <1>1, <1>2, <1>5, <1>7, <1>9
<1>12. Cut(f, removePathBlock(f, n), p, q)
  BY <1>1, <1>10, <1>11, CutIs
<1>13. BlockAt(f, e, n, p, k, q)
  BY <1>6, <1>7, <1>9 DEF BlockAt
<1>14. QED
  BY <1>5, <1>9, <1>11, <1>12, <1>13

\* What an update consists of.
LEMMA UpdateIs ==
  ASSUME NEW u \in Updates
  PROVE  /\ u \in Seq(Args) /\ Len(u) \in Nat /\ DOMAIN u = 1 .. Len(u)
         /\ \A i \in 1 .. Len(u) : u[i] \notin Names
<1>1. PICK source \in Sources : u = mediaMTXUpdate(source) /\ u # <<>>
  BY DEF Updates
<1>2. source.type \in {"ip", "analog"}
  BY StreamsAssumption
<1>3. source.input # None
  BY <1>1 DEF mediaMTXUpdate
<1>4. \A i \in DOMAIN u : u[i] \in ToSet(u)
  BY DEF ToSet
<1>5. ToSet(u) \subseteq Args /\ ToSet(u) \cap Names = {}
  BY StreamsAssumption DEF Args
<1>6. u \in Seq(Args)
  <2>1. CASE source.type = "ip"
    <3>1. u = <<source.input, "sourceOnDemand">>
      BY <1>1, <1>3, <2>1 DEF mediaMTXUpdate
    <3>2. QED
      BY <1>4, <1>5, <3>1
  <2>2. CASE source.type = "analog"
    <3>1. u = <<"publisher", source.input, "runOnDemandRestart",
                "runOnDemandStartTimeout", "runOnDemandCloseAfter">>
      BY <1>1, <1>3, <2>2 DEF mediaMTXUpdate
    <3>2. DOMAIN u = 1 .. 5
      BY <3>1
    <3>3. u[1] \in Args /\ u[2] \in Args /\ u[3] \in Args /\ u[4] \in Args /\ u[5] \in Args
      BY <1>4, <1>5, <3>2
    <3>4. QED
      BY <3>1, <3>3
  <2>3. QED
    BY <1>2, <2>1, <2>2
<1>7. Len(u) \in Nat /\ DOMAIN u = 1 .. Len(u)
  BY <1>6, LenProperties
<1>8. \A i \in 1 .. Len(u) : u[i] \notin Names
  BY <1>4, <1>5, <1>7
<1>9. QED
  BY <1>6, <1>7, <1>8

\* What renderPathBlock makes of it.
LEMMA RenderIs ==
  ASSUME NEW u \in Updates, NEW n \in Names
  PROVE  /\ renderPathBlock(n, u) \in Seq(Lines)
         /\ Len(renderPathBlock(n, u)) = Len(u) + 2
         /\ renderPathBlock(n, u)[1] = Line("mark", n)
         /\ renderPathBlock(n, u)[2] = Line("path", n)
         /\ \A i \in 1 .. Len(u) : renderPathBlock(n, u)[i + 2] = OptionLines(u)[i]
         /\ OptionLines(u) \in Seq(Lines) /\ Len(OptionLines(u)) = Len(u)
         /\ \A i \in 1 .. Len(u) : OptionLines(u)[i] = Line("opt", u[i]) /\ u[i] \notin Names
<1>1. /\ u \in Seq(Args) /\ Len(u) \in Nat /\ DOMAIN u = 1 .. Len(u)
      /\ \A i \in 1 .. Len(u) : u[i] \notin Names
  BY UpdateIs
<1>2. \A kind \in LineKinds, a \in Args : Line(kind, a) \in Lines
  BY DEF Line, Lines
<1>3. \A i \in 1 .. Len(u) : u[i] \in Args
  BY <1>1, ElementOfSeq
<1>4. n \in Args /\ "opt" \in LineKinds /\ "mark" \in LineKinds /\ "path" \in LineKinds
  BY DEF Args, LineKinds
<1>5. OptionLines(u) = [i \in 1 .. Len(u) |-> Line("opt", u[i])]
  BY <1>1 DEF OptionLines
<1>6. OptionLines(u) \in Seq(Lines) /\ Len(OptionLines(u)) = Len(u)
  <2>1. \A i \in 1 .. Len(u) : Line("opt", u[i]) \in Lines
    BY <1>2, <1>3, <1>4
  <2>2. OptionLines(u) \in [1 .. Len(u) -> Lines]
    BY <1>5, <2>1
  <2>3. QED
    BY <1>1, <2>2
<1> DEFINE head == <<Line("mark", n), Line("path", n)>>
<1>7. head \in Seq(Lines) /\ Len(head) = 2 /\ head[1] = Line("mark", n) /\ head[2] = Line("path", n)
  <2>1. Line("mark", n) \in Lines /\ Line("path", n) \in Lines
    BY <1>2, <1>4
  <2>2. QED
    BY <2>1
<1>8. renderPathBlock(n, u) = head \o OptionLines(u)
  BY DEF renderPathBlock
<1> HIDE DEF head
<1>9. /\ head \o OptionLines(u) \in Seq(Lines)
      /\ Len(head \o OptionLines(u)) = Len(head) + Len(OptionLines(u))
      /\ \A i \in 1 .. Len(head) + Len(OptionLines(u)) :
           (head \o OptionLines(u))[i] =
             IF i <= Len(head) THEN head[i] ELSE OptionLines(u)[i - Len(head)]
  BY <1>6, <1>7, ConcatProperties
<1>10. Len(renderPathBlock(n, u)) = Len(u) + 2
  BY <1>1, <1>6, <1>7, <1>8, <1>9
<1>11. renderPathBlock(n, u)[1] = Line("mark", n) /\ renderPathBlock(n, u)[2] = Line("path", n)
  <2>1. 1 \in 1 .. 2 + Len(u) /\ 2 \in 1 .. 2 + Len(u)
    BY <1>1
  <2>2. QED
    BY <1>6, <1>7, <1>8, <1>9, <2>1
<1>12. ASSUME NEW i \in 1 .. Len(u)
       PROVE  renderPathBlock(n, u)[i + 2] = OptionLines(u)[i]
  <2>1. i + 2 \in 1 .. 2 + Len(u) /\ ~(i + 2 <= 2) /\ (i + 2) - 2 = i
    BY <1>1
  <2>2. QED
    BY <1>6, <1>7, <1>8, <1>9, <2>1
<1>13. QED
  BY <1>1, <1>5, <1>6, <1>8, <1>9, <1>10, <1>11, <1>12

\* g is f with the lines new in front of line p.
Between(f, g, p, new) ==
  /\ g \in Seq(Lines)
  /\ Cut(g, f, p, p + Len(new))
  /\ \A i \in 1 .. Len(new) : g[p - 1 + i] = new[i]

\* Lines put in between can be cut out again.
LEMMA PasteIs ==
  ASSUME NEW f \in Seq(Lines), NEW new \in Seq(Lines), NEW p \in 1 .. Len(f) + 1, NEW g,
         g = SubSeq(f, 1, p - 1) \o new \o SubSeq(f, p, Len(f))
  PROVE  Between(f, g, p, new)
<1> DEFINE a == SubSeq(f, 1, p - 1)
           b == SubSeq(f, p, Len(f))
<1>1. Len(f) \in Nat /\ p \in Nat /\ Len(new) \in Nat
  BY LenProperties
<1>2. \A i \in 1 .. Len(f) : f[i] \in Lines
  BY ElementOfSeq
<1>3. /\ a \in Seq(Lines) /\ Len(a) = p - 1
      /\ \A i \in 1 .. p - 1 : a[i] = f[i]
  <2>1. \A i \in 1 .. p - 1 : f[i] \in Lines
    BY <1>1, <1>2
  <2>2. /\ a \in Seq(Lines) /\ Len(a) = IF 1 <= p - 1 THEN p - 1 - 1 + 1 ELSE 0
        /\ \A i \in 1 .. p - 1 - 1 + 1 : a[i] = f[1 + i - 1]
    BY <1>1, <2>1, SubSeqProperties
  <2>3. QED
    BY <1>1, <2>2
<1>4. /\ b \in Seq(Lines) /\ Len(b) = Len(f) - p + 1
      /\ \A i \in 1 .. Len(f) - p + 1 : b[i] = f[p + i - 1]
  <2>1. \A i \in p .. Len(f) : f[i] \in Lines
    BY <1>1, <1>2
  <2>2. /\ b \in Seq(Lines) /\ Len(b) = IF p <= Len(f) THEN Len(f) - p + 1 ELSE 0
        /\ \A i \in 1 .. Len(f) - p + 1 : b[i] = f[p + i - 1]
    BY <1>1, <2>1, SubSeqProperties
  <2>3. QED
    BY <1>1, <2>2
<1> HIDE DEF a, b
<1>5. /\ a \o new \in Seq(Lines) /\ Len(a \o new) = Len(a) + Len(new)
      /\ \A i \in 1 .. Len(a) + Len(new) : (a \o new)[i] = IF i <= Len(a) THEN a[i] ELSE new[i - Len(a)]
  BY <1>3, ConcatProperties
<1>6. PICK c : c = a \o new
  OBVIOUS
<1>7. /\ c \in Seq(Lines) /\ Len(c) = p - 1 + Len(new)
      /\ \A i \in 1 .. p - 1 : c[i] = f[i]
      /\ \A i \in 1 .. Len(new) : c[p - 1 + i] = new[i]
  <2>1. c \in Seq(Lines) /\ Len(c) = p - 1 + Len(new)
    BY <1>1, <1>3, <1>5, <1>6
  <2>2. ASSUME NEW i \in 1 .. p - 1 PROVE c[i] = f[i]
    <3>1. i \in 1 .. Len(a) + Len(new) /\ i <= Len(a)
      BY <1>1, <1>3
    <3>2. QED
      BY <1>3, <1>5, <1>6, <3>1
  <2>3. ASSUME NEW i \in 1 .. Len(new) PROVE c[p - 1 + i] = new[i]
    <3>1. Len(a) = p - 1 /\ i \in Nat
      BY <1>1, <1>3
    <3>2. p - 1 + i \in 1 .. Len(a) + Len(new) /\ ~(p - 1 + i <= Len(a)) /\ (p - 1 + i) - Len(a) = i
      BY <1>1, <3>1
    <3>3. QED
      BY <1>5, <1>6, <3>2
  <2>4. QED
    BY <2>1, <2>2, <2>3
<1>8. g = c \o b
  BY <1>6 DEF a, b
<1>9. /\ c \o b \in Seq(Lines) /\ Len(c \o b) = Len(c) + Len(b)
      /\ \A i \in 1 .. Len(c) + Len(b) : (c \o b)[i] = IF i <= Len(c) THEN c[i] ELSE b[i - Len(c)]
  <2>1. c \in Seq(Lines) /\ b \in Seq(Lines)
    BY <1>4, <1>7
  <2>2. QED
    BY <2>1, ConcatProperties
<1>10. Len(g) = Len(f) + Len(new) /\ Len(g) \in Nat
  <2>1. PICK x \in Nat, y \in Nat : x = Len(f) /\ y = Len(new)
    BY <1>1
  <2>2. Len(g) = (p - 1 + y) + (x - p + 1)
    BY <1>4, <1>7, <1>8, <1>9, <2>1
  <2>3. (p - 1 + y) + (x - p + 1) = x + y /\ x + y \in Nat
    BY <1>1
  <2>4. QED
    BY <2>1, <2>2, <2>3
<1>11. ASSUME NEW i \in 1 .. Len(c) PROVE g[i] = c[i]
  <2>1. i \in 1 .. Len(c) + Len(b) /\ i <= Len(c)
    BY <1>1, <1>4, <1>7
  <2>2. QED
    BY <1>8, <1>9, <2>1
<1>12. ASSUME NEW i \in p .. Len(f) PROVE f[i] = g[i + Len(new)]
  <2>1. /\ i + Len(new) \in 1 .. Len(c) + Len(b) /\ ~(i + Len(new) <= Len(c))
        /\ (i + Len(new)) - Len(c) = i - p + 1
    BY <1>1, <1>4, <1>7
  <2>2. i - p + 1 \in 1 .. Len(f) - p + 1 /\ p + (i - p + 1) - 1 = i
    BY <1>1
  <2>3. b[i - p + 1] = f[i]
    BY <1>4, <2>2
  <2>4. QED
    BY <1>8, <1>9, <2>1, <2>3
<1>13. ASSUME NEW i \in 1 .. p - 1 PROVE f[i] = g[i]
  <2>1. i \in 1 .. Len(c)
    BY <1>1, <1>7
  <2>2. QED
    BY <1>7, <1>11, <2>1
<1>14. ASSUME NEW i \in 1 .. Len(new) PROVE g[p - 1 + i] = new[i]
  <2>1. p - 1 + i \in 1 .. Len(c)
    BY <1>1, <1>7, SMTT(30)
  <2>2. QED
    BY <1>7, <1>11, <2>1
<1>15. /\ (p + Len(new)) - p = Len(new)
       /\ Len(f) = Len(g) - Len(new)
  <2>1. PICK x \in Nat, y \in Nat, z \in Nat : x = Len(f) /\ y = Len(new) /\ z = Len(g)
    BY <1>1, <1>10
  <2>2. z = x + y
    BY <1>10, <2>1
  <2>3. (p + y) - p = y /\ x = z - y
    BY <1>1, <2>2
  <2>4. QED
    BY <2>1, <2>3
<1>16. QED
  BY <1>8, <1>9, <1>12, <1>13, <1>14, <1>15 DEF Cut, Between

\* Removing a path keeps the form, and the path is gone.
LEMMA RemoveForm ==
  ASSUME NEW f, NEW s, NEW e, Form(f, s, e), NEW n \in Names
  PROVE  /\ \E d \in Nat : Form(removePathBlock(f, n), s, d)
         /\ \A i \in 1 .. Len(removePathBlock(f, n)) :
              removePathBlock(f, n)[i].kind = "path" => removePathBlock(f, n)[i].arg # n
<1>1. /\ f \in Seq(Lines) /\ Len(f) \in Nat /\ s \in Nat /\ e \in Nat
  BY SectionOf
<1>2. CASE ~ found(f, n)
  <2>1. removePathBlock(f, n) = f
    BY <1>2 DEF removePathBlock, First
  <2>2. QED
    BY <1>1, <1>2, <2>1, FoundIs
<1>3. CASE found(f, n)
  <2>1. PICK p \in s + 1 .. e, k \in s + 1 .. e, q \in s + 2 .. e + 1 :
          /\ p <= k /\ k < q
          /\ BlockAt(f, e, n, p, k, q)
          /\ Cut(f, removePathBlock(f, n), p, q)
    BY <1>3, RemoveIs
  <2>2. PICK g : g = removePathBlock(f, n)
    OBVIOUS
  <2>3. /\ p \in Nat /\ k \in Nat /\ q \in Nat /\ 1 <= s /\ s < p /\ q <= e + 1 /\ e <= Len(f)
        /\ p <= k /\ k < q
    BY <1>1, <2>1 DEF Form
  <2>4. q <= Len(f) => f[q].kind # "opt"
    <3>1. CASE q = e + 1
      <4>1. q <= Len(f) => e < Len(f)
        BY <1>1, <2>3, <3>1
      <4>2. QED
        BY <3>1, <4>1 DEF Form
    <3>2. QED
      BY <2>1, <3>1 DEF BlockAt
  <2>5. Form(g, s, e - (q - p))
    <3>1. p \in s + 1 .. e + 1 /\ q \in p .. e + 1
      BY <1>1, <2>3
    <3>2. QED
      BY <2>1, <2>2, <2>4, <3>1, CutForm
  <2>6. e - (q - p) \in Nat
    BY <1>1, <2>3
  <2>7. ASSUME NEW i \in 1 .. Len(g), g[i].kind = "path", g[i].arg = n
        PROVE  FALSE
    <3>1. Len(g) = Len(f) - (q - p) /\ i \in Nat /\ 1 <= i /\ i <= Len(g)
      <4>1. Len(g) = Len(f) - (q - p)
        BY <2>1, <2>2 DEF Cut
      <4>2. QED
        BY <1>1, <2>3, <4>1
    <3>2. PICK j \in 1 .. Len(f) : g[i] = f[j] /\ j # k
      <4>1. CASE i < p
        <5>1. i \in 1 .. p - 1 /\ i \in 1 .. Len(f) /\ i # k
          BY <1>1, <2>3, <3>1, <4>1
        <5>2. QED
          BY <2>1, <2>2, <5>1 DEF Cut
      <4>2. CASE p <= i
        <5>1. i \in p .. Len(g) /\ i + (q - p) \in 1 .. Len(f) /\ i + (q - p) # k
          BY <1>1, <2>3, <3>1, <4>2
        <5>2. QED
          BY <2>1, <2>2, <5>1 DEF Cut
      <4>3. QED
        BY <2>3, <3>1, <4>1, <4>2
    <3>3. k \in 1 .. Len(f) /\ f[k].kind = "path" /\ f[k].arg = n
      BY <1>1, <2>1, <2>3 DEF BlockAt
    <3>4. f[j] = f[k]
      <4>1. f[j] \in Lines /\ f[k] \in Lines
        BY <1>1, <3>3, ElementOfSeq
      <4>2. f[j].kind = f[k].kind /\ f[j].arg = f[k].arg
        BY <2>7, <3>2, <3>3
      <4>3. QED
        BY <4>1, <4>2 DEF Lines
    <3>5. QED
      BY <3>2, <3>3, <3>4 DEF Form
  <2>8. QED
    BY <2>2, <2>5, <2>6, <2>7
<1>4. QED
  BY <1>2, <1>3

\* replacePathBlock from where the old block is gone.
Inserted(lines, name, update) == InsertBlock(lines, renderPathBlock(name, update))

\* The block stands in g, where f is g without it.
Pasted(f, g, p, n, u) ==
  /\ g \in Seq(Lines)
  /\ Cut(g, f, p, p + Len(u) + 2)
  /\ g[p] = Line("mark", n)
  /\ g[p + 1] = Line("path", n)
  /\ \A i \in 1 .. Len(u) : g[p + 1 + i] = Line("opt", u[i]) /\ u[i] \notin Names

\* The new block is put before all_others or at the end of the section, in front
\* of a line that is no option.
LEMMA InsertIs ==
  ASSUME NEW f, NEW s, NEW e, Form(f, s, e), NEW n \in Names, NEW u \in Updates
  PROVE  \E p \in s + 1 .. e + 1 : /\ Pasted(f, Inserted(f, n, u), p, n, u)
                                   /\ p <= Len(f) => f[p].kind # "opt"
<1> DEFINE insert == First(f, pathsStart(f) + 1, pathsEnd(f), LAMBDA l : l.kind \in PathKeys /\ l.arg = AllOthers)
           new == renderPathBlock(n, u)
           g == Inserted(f, n, u)
<1>1. /\ f \in Seq(Lines) /\ Len(f) \in Nat /\ s \in Nat /\ e \in Nat
      /\ pathsStart(f) = s /\ pathsEnd(f) = e
  BY SectionOf
<1>2. 1 <= s /\ s <= e /\ e <= Len(f)
  BY <1>1 DEF Form
<1>3. g = SubSeq(f, 1, insert - 1) \o new \o SubSeq(f, insert, Len(f))
  BY DEF Inserted, InsertBlock, insertIndex, First
<1>4. PICK p \in s + 1 .. e + 1 : insert = p /\ (p = e + 1 \/ f[p].kind \in PathKeys)
  <2>1. pathsStart(f) + 1 \in Nat /\ pathsEnd(f) \in Nat /\ pathsStart(f) + 1 <= pathsEnd(f) + 1
    BY <1>1, <1>2
  <2>2. \E x \in pathsStart(f) + 1 .. pathsEnd(f) + 1 :
          /\ insert = x
          /\ x = pathsEnd(f) + 1 \/ f[x].kind \in PathKeys
    BY <2>1, FirstAllOthers DEF First
  <2> HIDE DEF insert
  <2>3. QED
    BY <1>1, <2>2
<1> HIDE DEF insert, g
<1>5. /\ new \in Seq(Lines) /\ Len(new) = Len(u) + 2 /\ Len(u) \in Nat
      /\ new[1] = Line("mark", n) /\ new[2] = Line("path", n)
      /\ \A i \in 1 .. Len(u) : new[i + 2] = Line("opt", u[i]) /\ u[i] \notin Names
  <2>1. Len(u) \in Nat
    BY UpdateIs
  <2>2. ASSUME NEW i \in 1 .. Len(u)
        PROVE  new[i + 2] = Line("opt", u[i]) /\ u[i] \notin Names
    BY RenderIs
  <2>3. /\ new \in Seq(Lines) /\ Len(new) = Len(u) + 2
        /\ new[1] = Line("mark", n) /\ new[2] = Line("path", n)
    BY RenderIs
  <2>4. QED
    BY <2>1, <2>2, <2>3
<1> HIDE DEF new
<1>6. p \in 1 .. Len(f) + 1 /\ p \in Nat
  BY <1>1, <1>2, <1>4
<1>7. /\ g \in Seq(Lines) /\ Cut(g, f, p, p + Len(new))
      /\ \A i \in 1 .. Len(new) : g[p - 1 + i] = new[i]
  <2>1. g = SubSeq(f, 1, p - 1) \o new \o SubSeq(f, p, Len(f))
    BY <1>3, <1>4
  <2>2. new \in Seq(Lines) /\ f \in Seq(Lines) /\ p \in 1 .. Len(f) + 1
    BY <1>1, <1>5, <1>6
  <2>3. Between(f, g, p, new)
    BY <2>1, <2>2, PasteIs
  <2>4. QED
    BY <2>3 DEF Between
<1>8. p + Len(new) = p + Len(u) + 2 /\ p - 1 + 1 = p /\ p - 1 + 2 = p + 1
  BY <1>5, <1>6
<1>9. g[p] = Line("mark", n) /\ g[p + 1] = Line("path", n)
  <2>1. 1 \in 1 .. Len(new) /\ 2 \in 1 .. Len(new)
    BY <1>5
  <2>2. g[p - 1 + 1] = new[1] /\ g[p - 1 + 2] = new[2]
    BY <1>7, <2>1
  <2>3. QED
    BY <1>5, <1>8, <2>2
<1>10. ASSUME NEW i \in 1 .. Len(u)
       PROVE  g[p + 1 + i] = Line("opt", u[i]) /\ u[i] \notin Names
  <2>1. i + 2 \in 1 .. Len(new) /\ p - 1 + (i + 2) = p + 1 + i
    BY <1>5, <1>6
  <2>2. g[p - 1 + (i + 2)] = new[i + 2]
    BY <1>7, <2>1
  <2>3. QED
    BY <1>5, <2>1, <2>2
<1>11. p <= Len(f) => f[p].kind # "opt"
  <2>1. CASE p = e + 1
    <3>1. p <= Len(f) => e < Len(f)
      BY <1>1, <2>1
    <3>2. QED
      BY <2>1, <3>1 DEF Form
  <2>2. CASE f[p].kind \in PathKeys
    BY <2>2 DEF PathKeys
  <2>3. QED
    BY <1>4, <2>1, <2>2
<1>12. Pasted(f, g, p, n, u)
  BY <1>7, <1>8, <1>9, <1>10 DEF Pasted
<1>13. QED
  BY <1>11, <1>12 DEF g

LEMMA InsertForm ==
  ASSUME NEW f, NEW s, NEW e, Form(f, s, e), NEW n \in Names, NEW u \in Updates,
         \A i \in 1 .. Len(f) : f[i].kind = "path" => f[i].arg # n,
         NEW g, NEW p \in s + 1 .. e + 1, Pasted(f, g, p, n, u), p <= Len(f) => f[p].kind # "opt"
  PROVE  Form(g, s, e + Len(u) + 2)
<1>1. s \in Nat /\ e \in Nat /\ Len(u) \in Nat /\ p \in Nat
  <2>1. s \in Nat /\ e \in Nat /\ Len(u) \in Nat
    BY SectionOf, UpdateIs
  <2>2. QED
    BY <2>1
<1>2. PICK q \in Nat : q = p + Len(u) + 2
  BY <1>1
<1>3. p + 2 <= q /\ e + (q - p) = e + Len(u) + 2
  BY <1>1, <1>2
<1>4. g \in Seq(Lines) /\ Cut(g, f, p, q)
  BY <1>2 DEF Pasted
<1>5. IsBlock(g, p, q, n)
  <2>1. g[p].kind = "mark" /\ g[p + 1].kind = "path" /\ g[p + 1].arg = n
    BY DEF Pasted, Line
  <2>2. ASSUME NEW i \in p + 2 .. q - 1
        PROVE  g[i].kind = "opt" /\ g[i].arg \notin Names
    <3>u. PICK l \in Nat : l = Len(u) /\ q = p + l + 2 /\ p \in Nat
      BY <1>1, <1>2
    <3>i. i - (p + 1) \in 1 .. l /\ p + 1 + (i - (p + 1)) = i
      BY <3>u
    <3>1. i - (p + 1) \in 1 .. Len(u) /\ p + 1 + (i - (p + 1)) = i
      BY <3>u, <3>i
    <3>2. PICK j \in 1 .. Len(u) : p + 1 + j = i
      BY <3>1
    <3>3. g[i] = Line("opt", u[j]) /\ u[j] \notin Names
      BY <3>2 DEF Pasted
    <3>4. QED
      BY <3>3 DEF Line
  <2>3. QED
    BY <2>1, <2>2 DEF IsBlock
<1>6. Form(g, s, e + (q - p))
  BY <1>3, <1>4, <1>5, PasteForm
<1>7. QED
  BY <1>3, <1>6

\* In a file where every line has a newline, that is all there is to it.
LEMMA ReplaceIs ==
  ASSUME NEW f, NEW n, NEW u, NEW s, NEW d, Form(removePathBlock(f, n), s, d)
  PROVE  replacePathBlock(f, n, u) = Inserted(removePathBlock(f, n), n, u)
<1>1. PICK h : h = removePathBlock(f, n)
  OBVIOUS
<1>2. h \in Seq(Lines) /\ Len(h) \in Nat /\ Len(h) \in 1 .. Len(h)
  <2>1. Form(h, s, d)
    BY <1>1
  <2>2. h \in Seq(Lines) /\ Len(h) \in Nat
    BY <2>1, SectionOf
  <2>3. QED
    BY <2>1, <2>2 DEF Form
<1>3. Last(h) \in Lines
  BY <1>2, ElementOfSeq DEF Last
<1>4. ~ NoNewline(h)
  BY <1>3 DEF NoNewline, Lines, LineKinds
<1>5. QED
  BY <1>1, <1>4 DEF replacePathBlock, Inserted

-----------------------------------------------------------------------------
(* The inductive invariant is about the requests alone: whether the file is  *)
(* tidy is up to the operator, and the edits keep it so when it is.          *)

RequestType == [pc : {"idle", "set", "delete", "undo"}, new : Names \cup {None},
                old : Names \cup {None}, update : Updates \cup {<<>>}, had : BOOLEAN]

\* A request in progress has a name and options; one that goes on to delete has
\* an old name.
RequestsOK ==
  /\ reqs \in [Requests -> RequestType]
  /\ \A r \in Requests :
       /\ reqs[r].pc # "idle" => reqs[r].new \in Names /\ reqs[r].update \in Updates
       /\ reqs[r].pc = "delete" => reqs[r].old \in Names

\* Removing a path leaves a well-formed file.
LEMMA RemoveWellFormed ==
  ASSUME NEW f, WellFormed(f), NEW n \in Names
  PROVE  WellFormed(removePathBlock(f, n))
<1>1. Form(f, pathsStart(f), pathsEnd(f))
  BY FormOf
<1>2. PICK d \in Nat : Form(removePathBlock(f, n), pathsStart(f), d)
  BY <1>1, RemoveForm
<1>3. QED
  BY <1>2, WellFormedOf

\* So does putting one in.
LEMMA ReplaceWellFormed ==
  ASSUME NEW f, WellFormed(f), NEW n \in Names, NEW u \in Updates
  PROVE  WellFormed(replacePathBlock(f, n, u))
<1>1. Form(f, pathsStart(f), pathsEnd(f))
  BY FormOf
<1>2. PICK h, s : h = removePathBlock(f, n) /\ s = pathsStart(f)
  OBVIOUS
<1>3. /\ \E d \in Nat : Form(h, s, d)
      /\ \A i \in 1 .. Len(h) : h[i].kind = "path" => h[i].arg # n
  BY <1>1, <1>2, RemoveForm
<1>4. PICK d \in Nat : Form(h, s, d)
  BY <1>3
<1>5. replacePathBlock(f, n, u) = Inserted(h, n, u)
  BY <1>2, <1>4, ReplaceIs
<1>6. PICK p \in s + 1 .. d + 1 : /\ Pasted(h, Inserted(h, n, u), p, n, u)
                                  /\ p <= Len(h) => h[p].kind # "opt"
  BY <1>4, InsertIs
<1>7. Form(Inserted(h, n, u), s, d + Len(u) + 2)
  BY <1>3, <1>4, <1>6, InsertForm
<1>8. QED
  BY <1>5, <1>7, WellFormedOf

LEMMA EditorInit == Init => RequestsOK
  BY DEF Init, RequestsOK, RequestType, NoRequest

\* What the edits of one request leave of the request.
LEMMA RequestStep ==
  ASSUME RequestsOK, NEW r \in Requests, SetPath(r) \/ DeleteOld(r) \/ UndoNew(r)
  PROVE  RequestsOK'
<1>1. /\ reqs \in [Requests -> RequestType] /\ reqs[r] \in RequestType
      /\ reqs[r].pc # "idle" => reqs[r].new \in Names /\ reqs[r].update \in Updates
      /\ reqs[r].pc = "delete" => reqs[r].old \in Names
  BY DEF RequestsOK
<1>2. PICK x : x = reqs[r]
  OBVIOUS
<1>3. x.pc # "idle"
  BY <1>2 DEF SetPath, DeleteOld, UndoNew
<1>4. \E y \in RequestType :
        /\ reqs' = [reqs EXCEPT ![r] = y]
        /\ y.pc # "idle" => y.new \in Names /\ y.update \in Updates
        /\ y.pc = "delete" => y.old \in Names
  <2>1. NoRequest \in RequestType /\ NoRequest.pc = "idle"
    BY DEF NoRequest, RequestType
  <2>2. CASE reqs' = [reqs EXCEPT ![r] = NoRequest]
    BY <2>1, <2>2
  <2>3. ASSUME NEW b \in BOOLEAN, x.old \notin {None, x.new},
               reqs' = [reqs EXCEPT ![r] = [x EXCEPT !.pc = "delete", !.had = b]]
        PROVE  \E y \in RequestType :
                 /\ reqs' = [reqs EXCEPT ![r] = y]
                 /\ y.pc # "idle" => y.new \in Names /\ y.update \in Updates
                 /\ y.pc = "delete" => y.old \in Names
    <3>1. PICK y : y = [x EXCEPT !.pc = "delete", !.had = b]
      OBVIOUS
    <3>2. y \in RequestType /\ y.pc = "delete" /\ y.new = x.new /\ y.old = x.old /\ y.update = x.update
      BY <1>1, <1>2, <3>1 DEF RequestType
    <3>3. x.old \in Names
      BY <1>1, <1>2, <2>3 DEF RequestType
    <3>4. QED
      BY <1>1, <1>2, <1>3, <2>3, <3>1, <3>2, <3>3
  <2>4. CASE reqs' = [reqs EXCEPT ![r] = [x EXCEPT !.pc = "undo"]]
    <3>1. PICK y : y = [x EXCEPT !.pc = "undo"]
      OBVIOUS
    <3>2. y \in RequestType /\ y.pc = "undo" /\ y.new = x.new /\ y.update = x.update
      BY <1>1, <1>2, <3>1 DEF RequestType
    <3>3. QED
      BY <1>1, <1>2, <1>3, <2>4, <3>1, <3>2
  <2>5. CASE SetPath(r)
    <3>1. PICK b \in BOOLEAN : b = found(file, x.new)
      BY DEF found
    <3>2. \/ reqs' = [reqs EXCEPT ![r] = NoRequest]
          \/ /\ x.old \notin {None, x.new}
             /\ reqs' = [reqs EXCEPT ![r] = [x EXCEPT !.pc = "delete", !.had = b]]
      BY <1>1, <1>2, <2>5, <3>1 DEF SetPath
    <3>3. QED
      BY <2>2, <2>3, <3>2
  <2>6. CASE DeleteOld(r)
    BY <1>1, <1>2, <2>2, <2>4, <2>6 DEF DeleteOld
  <2>7. CASE UndoNew(r)
    BY <2>2, <2>7 DEF UndoNew
  <2>8. QED
    BY <2>5, <2>6, <2>7
<1>5. QED
  BY <1>1, <1>4 DEF RequestsOK

\* A new request, the edits that are one step, and a crash.
LEMMA OtherStep ==
  ASSUME RequestsOK,
         \/ \E r \in Requests, new \in Names, old \in Names \cup {None}, source \in Sources :
              Apply(r, new, old, source)
         \/ \E n \in Names : DeleteConfig(n)
         \/ \E lines \in HandFiles : Write(lines)
         \/ Crash
         \/ UNCHANGED vars
  PROVE  RequestsOK'
<1>1. ASSUME NEW r \in Requests, NEW new \in Names, NEW old \in Names \cup {None},
             NEW source \in Sources, Apply(r, new, old, source)
      PROVE  RequestsOK'
  <2>1. PICK y : y = [pc |-> "set", new |-> new, old |-> old, update |-> mediaMTXUpdate(source),
                      had |-> FALSE]
    OBVIOUS
  <2>2. mediaMTXUpdate(source) \in Updates
    BY <1>1 DEF Apply, Updates
  <2>3. y \in RequestType /\ y.pc = "set" /\ y.new \in Names /\ y.update \in Updates
    BY <2>1, <2>2 DEF RequestType
  <2>4. reqs' = [reqs EXCEPT ![r] = y]
    BY <1>1, <2>1 DEF Apply
  <2>5. QED
    BY <2>3, <2>4 DEF RequestsOK
<1>2. ASSUME reqs' = reqs
      PROVE  RequestsOK'
  BY <1>2 DEF RequestsOK
<1>3. CASE Crash
  <2>1. reqs' = [r \in Requests |-> NoRequest]
    BY <1>3 DEF Crash
  <2>2. QED
    BY <2>1 DEF RequestsOK, RequestType, NoRequest
<1>4. QED
  BY <1>1, <1>2, <1>3 DEF DeleteConfig, Write, vars

LEMMA RequestsInvariant == Spec => []RequestsOK
<1>1. RequestsOK /\ [Next]_vars => RequestsOK'
  BY RequestStep, OtherStep DEF Next, PutConfigFile
<1>2. QED
  BY <1>1, EditorInit, PTL DEF Spec

\* What a step does to the text: nothing, or one edit, or what the operator saves.
LEMMA FileStep ==
  ASSUME RequestsOK, [Next]_vars
  PROVE  \/ file' = file
         \/ file' \in HandFiles
         \/ \E n \in Names : file' = removePathBlock(file, n)
         \/ \E n \in Names, u \in Updates : file' = replacePathBlock(file, n, u)
<1>1. ASSUME NEW r \in Requests, SetPath(r)
      PROVE  \/ file' = file
             \/ \E n \in Names, u \in Updates : file' = replacePathBlock(file, n, u)
  <2>1. reqs[r].new \in Names /\ reqs[r].update \in Updates
    BY <1>1 DEF SetPath, RequestsOK
  <2>2. QED
    BY <1>1, <2>1 DEF SetPath, writeConfigFile, WriteFails
<1>2. ASSUME NEW r \in Requests, DeleteOld(r) \/ UndoNew(r)
      PROVE  file' = file \/ \E n \in Names : file' = removePathBlock(file, n)
  <2>1. reqs[r].new \in Names /\ (DeleteOld(r) => reqs[r].old \in Names)
    BY <1>2 DEF DeleteOld, UndoNew, RequestsOK
  <2>2. QED
    BY <1>2, <2>1 DEF DeleteOld, UndoNew, writeConfigFile, WriteFails
<1>3. ASSUME NEW n \in Names, DeleteConfig(n)
      PROVE  file' = file \/ file' = removePathBlock(file, n)
  BY <1>3 DEF DeleteConfig, writeConfigFile, WriteFails
<1>4. ASSUME NEW lines \in HandFiles, Write(lines)
      PROVE  file' = file \/ file' = lines
  BY <1>4 DEF Write, writeConfigFile, WriteFails
<1>5. ASSUME NEW r, NEW new, NEW old, NEW source, Apply(r, new, old, source)
      PROVE  file' = file
  BY <1>5 DEF Apply
<1>6. (Crash \/ UNCHANGED vars) => file' = file
  BY DEF Crash, vars
<1>7. QED
  BY <1>1, <1>2, <1>3, <1>4, <1>5, <1>6 DEF Next, PutConfigFile

\* A well-formed file with a path passes the checks of a manual save.
LEMMA WellFormedIsValid ==
  ASSUME NEW f, WellFormed(f), PathNames(f) # {}
  PROVE  validateConfigText(f)
<1>1. PICK s, e : s = pathsStart(f) /\ e = pathsEnd(f)
  OBVIOUS
<1>2. Form(f, s, e)
  BY <1>1, FormOf
<1>3. /\ Len(f) \in Nat /\ DOMAIN f = 1 .. Len(f) /\ s \in Nat /\ e \in Nat
      /\ 1 <= s /\ s <= e /\ e <= Len(f)
  <2>1. /\ Len(f) \in Nat /\ DOMAIN f = 1 .. Len(f) /\ s \in Nat /\ e \in Nat
    BY <1>2, SectionOf
  <2>2. QED
    BY <1>2, <2>1 DEF Form
<1>4. /\ \E i \in DOMAIN f : f[i].kind = "paths"
      /\ \A i \in DOMAIN f : f[i].kind = "paths" => i = s
  BY <1>2, <1>3 DEF Form
<1>5. \E i \in s + 1 .. e : f[i].kind = "path"
  <2>1. PICK i \in 1 .. Len(f) : f[i].kind = "path"
    BY <1>3 DEF PathNames, ToSet
  <2>2. QED
    BY <1>2, <2>1 DEF Form
<1>6. ASSUME NEW i \in s + 1 .. e, f[i].kind = "opt",
             \A j \in s + 1 .. i : f[j].kind # "path"
      PROVE  FALSE
  <2> DEFINE T == {j \in s + 1 .. i : f[j].kind = "opt"}
  <2>1. T \in SUBSET Nat /\ i \in T
    BY <1>3, <1>6
  <2>2. PICK j \in T : \A k \in T : j <= k
    BY <2>1, Least
  <2>3. j \in s + 1 .. i /\ f[j].kind = "opt" /\ j \in Nat
    BY <2>1, <2>2
  <2> HIDE DEF T
  <2>4. j \in 1 .. Len(f) /\ j - 1 \in 1 .. Len(f) /\ j - 1 <= i
    BY <1>3, <2>3
  <2>5. f[j - 1].kind \in {"path", "opt"}
    BY <1>2, <2>3, <2>4 DEF Form
  <2>6. j - 1 \in s + 1 .. e
    BY <1>2, <2>4, <2>5 DEF Form
  <2>7. j - 1 \in s + 1 .. i
    BY <1>3, <2>3, <2>6
  <2>8. f[j - 1].kind = "opt"
    BY <1>6, <2>5, <2>7
  <2>9. j - 1 \in T
    BY <2>7, <2>8 DEF T
  <2>10. QED
    BY <2>2, <2>3, <2>9
<1>7. QED
  BY <1>1, <1>4, <1>5, <1>6 DEF validateConfigText, PathKeys

\* A path that is put into a file without it and removed again leaves no trace.
LEMMA UndoOne ==
  ASSUME NEW f, WellFormed(f), NEW n \in Names, n \notin PathNames(f), NEW u \in Updates
  PROVE  removePathBlock(replacePathBlock(f, n, u), n) = f
<1>1. PICK s, e : s = pathsStart(f) /\ e = pathsEnd(f)
  OBVIOUS
<1>2. Form(f, s, e)
  BY <1>1, FormOf
<1>3. /\ f \in Seq(Lines) /\ Len(f) \in Nat /\ DOMAIN f = 1 .. Len(f) /\ s \in Nat /\ e \in Nat
      /\ 1 <= s /\ s <= e /\ e <= Len(f)
  <2>1. f \in Seq(Lines) /\ Len(f) \in Nat /\ DOMAIN f = 1 .. Len(f) /\ s \in Nat /\ e \in Nat
    BY <1>2, SectionOf
  <2>2. QED
    BY <1>2, <2>1 DEF Form
<1>4. \A i \in 1 .. Len(f) : f[i].kind = "path" => f[i].arg # n
  BY <1>3 DEF PathNames, ToSet
<1>5. removePathBlock(f, n) = f
  <2>1. ~ found(f, n)
    BY <1>2, <1>4, FoundIs
  <2>2. QED
    BY <2>1 DEF removePathBlock, First
<1>6. PICK g : g = replacePathBlock(f, n, u)
  OBVIOUS
<1>7. g = Inserted(f, n, u)
  <2>1. replacePathBlock(f, n, u) = Inserted(removePathBlock(f, n), n, u)
    BY <1>2, <1>5, ReplaceIs
  <2>2. QED
    BY <1>5, <1>6, <2>1
<1>8. PICK p \in s + 1 .. e + 1 : Pasted(f, g, p, n, u) /\ (p <= Len(f) => f[p].kind # "opt")
  BY <1>2, <1>7, InsertIs
<1>9. Len(u) \in Nat /\ p \in Nat
  <2>1. Len(u) \in Nat
    BY UpdateIs
  <2>2. QED
    BY <1>3, <2>1
<1>10. PICK q \in Nat, d \in Nat : q = p + Len(u) + 2 /\ d = e + Len(u) + 2
  BY <1>3, <1>9
<1>11. Form(g, s, d)
  BY <1>2, <1>4, <1>8, <1>10, InsertForm
<1>12. g \in Seq(Lines) /\ Len(g) = Len(f) + (q - p) /\ Len(g) \in Nat /\ q <= Len(g) + 1 /\ p + 2 <= q /\ q <= d + 1
  <2>1. g \in Seq(Lines) /\ Len(g) \in Nat
    BY <1>11, SectionOf
  <2>2. Len(f) = Len(g) - (q - p)
    BY <1>8, <1>10 DEF Pasted, Cut
  <2>3. QED
    BY <1>3, <1>9, <1>10, <2>1, <2>2
<1>13. /\ g[p] = Line("mark", n) /\ g[p + 1].kind = "path" /\ g[p + 1].arg = n
       /\ \A i \in p + 2 .. q - 1 : g[i].kind = "opt"
       /\ q <= Len(g) => g[q].kind # "opt"
  <2>1. g[p] = Line("mark", n) /\ g[p + 1].kind = "path" /\ g[p + 1].arg = n
    BY <1>8 DEF Pasted, Line
  <2>2. ASSUME NEW i \in p + 2 .. q - 1 PROVE g[i].kind = "opt"
    <3>1. i - (p + 1) \in 1 .. Len(u) /\ p + 1 + (i - (p + 1)) = i
      BY <1>9, <1>10
    <3>2. PICK j \in 1 .. Len(u) : p + 1 + j = i
      BY <3>1
    <3>3. g[i] = Line("opt", u[j])
      BY <1>8, <3>2 DEF Pasted
    <3>4. QED
      BY <3>3 DEF Line
  <2>3. ASSUME q <= Len(g) PROVE g[q].kind # "opt"
    <3>1. p \in p .. Len(f) /\ p + (q - p) = q /\ p <= Len(f)
      BY <1>3, <1>9, <1>12, <2>3
    <3>2. f[p] = g[p + (q - p)]
      BY <1>8, <1>10, <3>1 DEF Pasted, Cut
    <3>3. QED
      BY <1>8, <3>1, <3>2
  <2>4. QED
    BY <2>1, <2>2, <2>3
<1>14. p + 1 \in 1 .. Len(g)
  BY <1>9, <1>12
<1>15. found(g, n)
  BY <1>11, <1>13, <1>14, FoundIs
<1>16. PICK p1 \in s + 1 .. d, k1 \in s + 1 .. d, q1 \in s + 2 .. d + 1 :
         /\ p1 <= k1 /\ k1 < q1
         /\ BlockAt(g, d, n, p1, k1, q1)
         /\ Cut(g, removePathBlock(g, n), p1, q1)
  BY <1>11, <1>15, RemoveIs
<1>17. p1 \in Nat /\ k1 \in Nat /\ q1 \in Nat /\ k1 \in 1 .. Len(g) /\ k1 < q1 /\ q1 <= d + 1 /\ d <= Len(g)
  <2>1. d <= Len(g)
    BY <1>11, <1>12 DEF Form
  <2>2. QED
    BY <1>3, <1>12, <1>16, <2>1
<1>18. k1 = p + 1
  <2>1. g[k1].kind = "path" /\ g[k1].arg = n
    BY <1>16 DEF BlockAt
  <2>2. g[k1] \in Lines /\ g[p + 1] \in Lines
    BY <1>12, <1>14, <1>17, ElementOfSeq
  <2>3. g[k1] = g[p + 1]
    BY <1>13, <2>1, <2>2 DEF Lines
  <2>4. QED
    BY <1>11, <1>13, <1>14, <1>17, <2>3 DEF Form
<1>19. p1 = p
  <2>1. k1 - 1 = p
    BY <1>9, <1>18
  <2>2. QED
    BY <1>13, <1>16, <2>1 DEF BlockAt
<1>20. q1 = q
  <2>1. ~ (q1 < q)
    <3> SUFFICES ASSUME q1 < q PROVE FALSE
      OBVIOUS
    <3>1. q1 \in p + 2 .. q - 1 /\ q1 # d + 1
      BY <1>9, <1>12, <1>17, <1>18
    <3>2. QED
      BY <1>13, <1>16, <3>1 DEF BlockAt
  <2>2. ~ (q < q1)
    <3> SUFFICES ASSUME q < q1 PROVE FALSE
      OBVIOUS
    <3>1. q \in k1 + 1 .. q1 - 1 /\ q <= Len(g)
      BY <1>9, <1>12, <1>17, <1>18
    <3>2. QED
      BY <1>13, <1>16, <3>1 DEF BlockAt
  <2>3. QED
    BY <1>17, <2>1, <2>2
<1>21. PICK h : h = removePathBlock(g, n)
  OBVIOUS
<1>22. Cut(g, h, p, q) /\ Cut(g, f, p, q)
  BY <1>8, <1>10, <1>16, <1>19, <1>20, <1>21 DEF Pasted
<1>23. h \in Seq(Lines) /\ Len(h) = Len(f)
  BY <1>22 DEF Cut
<1>24. ASSUME NEW i \in 1 .. Len(h) PROVE h[i] = f[i]
  <2>1. i \in 1 .. p - 1 \/ (i \in p .. Len(f) /\ i \in p .. Len(h))
    BY <1>3, <1>9, <1>23
  <2>2. QED
    BY <1>22, <2>1 DEF Cut
<1>25. h = f
  BY <1>3, <1>23, <1>24, SeqEqual
<1>26. QED
  BY <1>6, <1>21, <1>25

-----------------------------------------------------------------------------

\* An edit of a tidy file leaves a tidy file, which a manual save would accept as
\* long as a path is left in it. What the operator saves is not the editor's edit.
THEOREM FileStaysValid == Spec => StaysValid
<1> DEFINE A == WellFormed(file) =>
                  \/ file' \in HandFiles
                  \/ WellFormed(file') /\ (PathNames(file') # {} => validateConfigText(file'))
<1>1. RequestsOK /\ [Next]_vars => A
  <2> SUFFICES ASSUME RequestsOK, [Next]_vars, WellFormed(file), file' \notin HandFiles
               PROVE  WellFormed(file') /\ (PathNames(file') # {} => validateConfigText(file'))
    OBVIOUS
  <2>1. WellFormed(file')
    BY FileStep, RemoveWellFormed, ReplaceWellFormed
  <2>2. QED
    BY <2>1, WellFormedIsValid
<1>2. RequestsOK /\ [Next]_vars => [A]_vars
  BY <1>1
<1>3. QED
  BY <1>2, RequestsInvariant, PTL DEF Spec, StaysValid

\* In every tidy file, adding a path and deleting it again is the identity.
THEOREM AddedPathIsUndone == Spec => []UndoIsExact
<1>1. UndoIsExact
  BY UndoOne DEF UndoIsExact
<1>2. QED
  BY <1>1, PTL

-----------------------------------------------------------------------------
(* The lines of some kinds.                                                 *)

\* Induction up to n, for a set instead of a predicate.
LEMMA Induct ==
  ASSUME NEW n \in Nat, NEW S, 0 \in S, \A k \in 0 .. n : k < n /\ k \in S => k + 1 \in S
  PROVE  \A k \in 0 .. n : k \in S
<1> DEFINE bad == {k \in 0 .. n : k \notin S}
<1> SUFFICES ASSUME bad # {} PROVE FALSE
  OBVIOUS
<1>1. bad \in SUBSET Nat
  OBVIOUS
<1>2. PICK k \in bad : \A j \in bad : k <= j
  BY <1>1, Least
<1>3. k \in 0 .. n /\ k \notin S /\ k # 0
  OBVIOUS
<1>4. k - 1 \in 0 .. n /\ k - 1 < n /\ (k - 1) + 1 = k /\ ~(k <= k - 1)
  BY <1>3
<1>5. k - 1 \in S
  BY <1>2, <1>4
<1>6. QED
  BY <1>3, <1>4, <1>5

\* The equation that OfKinds computes with, on the first k lines.
Selects(g, s, K, k) ==
  g = [i \in 0 .. k |-> IF i = 0 THEN <<>>
                        ELSE IF s[i].kind \in K THEN Append(g[i - 1], s[i])
                        ELSE g[i - 1]]

\* The equation has a solution, which is built line by line.
LEMMA SelectionExists ==
  ASSUME NEW s, NEW K, NEW n \in Nat
  PROVE  \E g : Selects(g, s, K, n)
<1> DEFINE S == {k \in 0 .. n : \E g : Selects(g, s, K, k)}
<1>1. 0 \in S
  <2> DEFINE g == [i \in 0 .. 0 |-> <<>>]
  <2>1. \A i \in 0 .. 0 : i = 0
    OBVIOUS
  <2>2. g = [i \in 0 .. 0 |-> IF i = 0 THEN <<>>
                              ELSE IF s[i].kind \in K THEN Append(g[i - 1], s[i])
                              ELSE g[i - 1]]
    BY <2>1
  <2>3. Selects(g, s, K, 0)
    BY <2>2 DEF Selects
  <2> HIDE DEF g
  <2>4. QED
    BY <2>3
<1>2. ASSUME NEW k \in 0 .. n, k < n, k \in S
      PROVE  k + 1 \in S
  <2>1. PICK g : Selects(g, s, K, k)
    BY <1>2
  <2> DEFINE h == [i \in 0 .. k + 1 |->
                     IF i <= k THEN g[i]
                     ELSE IF s[i].kind \in K THEN Append(g[i - 1], s[i])
                     ELSE g[i - 1]]
  <2>2. \A i \in 0 .. k : g[i] = IF i = 0 THEN <<>>
                                 ELSE IF s[i].kind \in K THEN Append(g[i - 1], s[i])
                                 ELSE g[i - 1]
    BY <2>1 DEF Selects
  <2>3. ASSUME NEW i \in 0 .. k + 1
        PROVE  h[i] = IF i = 0 THEN <<>>
                      ELSE IF s[i].kind \in K THEN Append(h[i - 1], s[i])
                      ELSE h[i - 1]
    <3>1. CASE i = 0
      <4>1. 0 \in 0 .. k /\ 0 \in 0 .. k + 1
        BY <1>2
      <4>2. h[0] = g[0]
        BY <1>2, <4>1
      <4>3. QED
        BY <2>2, <3>1, <4>1, <4>2
    <3>2. CASE i # 0
      <4>1. i - 1 \in 0 .. k /\ i - 1 \in 0 .. k + 1 /\ i - 1 <= k
        BY <1>2, <3>2
      <4>2. h[i - 1] = g[i - 1]
        BY <4>1
      <4>3. CASE i <= k
        <5>1. h[i] = g[i] /\ i \in 0 .. k
          BY <4>3
        <5> HIDE DEF h
        <5>2. QED
          BY <2>2, <3>2, <4>2, <5>1
      <4>4. CASE ~(i <= k)
        <5>1. h[i] = IF s[i].kind \in K THEN Append(g[i - 1], s[i]) ELSE g[i - 1]
          BY <4>4
        <5> HIDE DEF h
        <5>2. QED
          BY <3>2, <4>2, <5>1
      <4>5. QED
        BY <4>3, <4>4
    <3>3. QED
      BY <3>1, <3>2
  <2>4. PICK x : x = h
    OBVIOUS
  <2>5. x = [i \in 0 .. k + 1 |-> x[i]]
    BY <2>4
  <2>6. \A i \in 0 .. k + 1 : x[i] = IF i = 0 THEN <<>>
                                     ELSE IF s[i].kind \in K THEN Append(x[i - 1], s[i])
                                     ELSE x[i - 1]
    BY <2>3, <2>4, Zenon
  <2> HIDE DEF h
  <2>7. Selects(x, s, K, k + 1)
    BY <2>5, <2>6 DEF Selects
  <2>8. k + 1 \in 0 .. n
    BY <1>2
  <2>9. QED
    BY <2>7, <2>8
<1> HIDE DEF S
<1>3. \A k \in 0 .. n : k \in S
  BY <1>1, <1>2, Induct
<1>4. n \in S
  BY <1>3
<1>5. QED
  BY <1>4 DEF S

\* What OfKinds returns, step by step: g[i] is what is left of the first i lines.
SelectedUpTo(g, s, K, n) ==
  /\ OfKinds(s, K) = g[n]
  /\ g[0] = <<>>
  /\ \A i \in 1 .. n : g[i] = IF s[i].kind \in K THEN Append(g[i - 1], s[i]) ELSE g[i - 1]
  /\ \A i \in 0 .. n : g[i] \in Seq(Lines)

LEMMA OfKindsIs ==
  ASSUME NEW s \in Seq(Lines), NEW K
  PROVE  \E g : SelectedUpTo(g, s, K, Len(s))
<1>1. Len(s) \in Nat
  BY LenProperties
<1>2. \E g : Selects(g, s, K, Len(s))
  BY <1>1, SelectionExists
<1>3. PICK g : g = CHOOSE x : Selects(x, s, K, Len(s))
  OBVIOUS
<1>4. Selects(g, s, K, Len(s))
  BY <1>2, <1>3
<1>5. OfKinds(s, K) = g[Len(s)]
  BY <1>3 DEF OfKinds, Selects
<1>6. \A i \in 0 .. Len(s) : g[i] = IF i = 0 THEN <<>>
                                    ELSE IF s[i].kind \in K THEN Append(g[i - 1], s[i])
                                    ELSE g[i - 1]
  BY <1>4 DEF Selects
<1>7. g[0] = <<>>
  <2>1. 0 \in 0 .. Len(s)
    BY <1>1
  <2>2. QED
    BY <1>6, <2>1
<1>8. \A i \in 1 .. Len(s) :
        g[i] = IF s[i].kind \in K THEN Append(g[i - 1], s[i]) ELSE g[i - 1]
  <2> TAKE i \in 1 .. Len(s)
  <2>1. i \in 0 .. Len(s) /\ i # 0
    BY <1>1
  <2>2. QED
    BY <1>6, <2>1
<1>9. \A i \in 0 .. Len(s) : g[i] \in Seq(Lines)
  <2> DEFINE S == {i \in 0 .. Len(s) : g[i] \in Seq(Lines)}
  <2>1. 0 \in S
    <3>1. g[0] \in Seq(Lines) /\ 0 \in 0 .. Len(s)
      BY <1>1, <1>7, EmptySeq
    <3>2. QED
      BY <3>1
  <2>2. ASSUME NEW k \in 0 .. Len(s), k < Len(s), k \in S
        PROVE  k + 1 \in S
    <3>1. k + 1 \in 1 .. Len(s) /\ k + 1 \in 0 .. Len(s) /\ (k + 1) - 1 = k
      BY <1>1, <2>2
    <3>2. g[k] \in Seq(Lines) /\ s[k + 1] \in Lines
      BY <2>2, <3>1, ElementOfSeq
    <3>3. Append(g[k], s[k + 1]) \in Seq(Lines)
      BY <3>2, AppendProperties
    <3>4. g[k + 1] = Append(g[k], s[k + 1]) \/ g[k + 1] = g[k]
      BY <1>8, <3>1
    <3>5. QED
      BY <3>1, <3>2, <3>3, <3>4
  <2> HIDE DEF S
  <2>3. \A k \in 0 .. Len(s) : k \in S
    BY <1>1, <2>1, <2>2, Induct
  <2>4. QED
    BY <2>3 DEF S
<1>10. QED
  BY <1>5, <1>7, <1>8, <1>9 DEF SelectedUpTo

\* Of no line of these kinds nothing is left.
LEMMA OfKindsNone ==
  ASSUME NEW s \in Seq(Lines), NEW K, \A i \in 1 .. Len(s) : s[i].kind \notin K
  PROVE  OfKinds(s, K) = <<>>
<1>1. PICK g : /\ OfKinds(s, K) = g[Len(s)]
               /\ g[0] = <<>>
               /\ \A i \in 1 .. Len(s) :
                    g[i] = IF s[i].kind \in K THEN Append(g[i - 1], s[i]) ELSE g[i - 1]
  BY OfKindsIs DEF SelectedUpTo
<1>2. Len(s) \in Nat
  BY LenProperties
<1> DEFINE S == {i \in 0 .. Len(s) : g[i] = <<>>}
<1>3. 0 \in S
  BY <1>1, <1>2
<1>4. ASSUME NEW k \in 0 .. Len(s), k < Len(s), k \in S
      PROVE  k + 1 \in S
  <2>1. k + 1 \in 1 .. Len(s) /\ k + 1 \in 0 .. Len(s) /\ (k + 1) - 1 = k
    BY <1>2, <1>4
  <2>2. g[k + 1] = g[k]
    BY <1>1, <2>1
  <2>3. QED
    BY <1>4, <2>1, <2>2
<1> HIDE DEF S
<1>5. \A k \in 0 .. Len(s) : k \in S
  BY <1>2, <1>3, <1>4, Induct
<1>6. g[Len(s)] = <<>>
  BY <1>2, <1>5 DEF S
<1>7. QED
  BY <1>1, <1>6

\* Of lines that are all of these kinds all are left.
LEMMA OfKindsAll ==
  ASSUME NEW s \in Seq(Lines), NEW K, \A i \in 1 .. Len(s) : s[i].kind \in K
  PROVE  OfKinds(s, K) = s
<1>1. PICK g : /\ OfKinds(s, K) = g[Len(s)]
               /\ g[0] = <<>>
               /\ \A i \in 1 .. Len(s) :
                    g[i] = IF s[i].kind \in K THEN Append(g[i - 1], s[i]) ELSE g[i - 1]
  BY OfKindsIs DEF SelectedUpTo
<1>2. Len(s) \in Nat
  BY LenProperties
<1> DEFINE S == {i \in 0 .. Len(s) : g[i] = SubSeq(s, 1, i)}
<1>3. 0 \in S
  <2>1. SubSeq(s, 1, 0) = <<>>
    BY SubSeqEmpty
  <2>2. g[0] = SubSeq(s, 1, 0) /\ 0 \in 0 .. Len(s)
    BY <1>1, <1>2, <2>1
  <2>3. QED
    BY <2>2
<1>4. ASSUME NEW k \in 0 .. Len(s), k < Len(s), k \in S
      PROVE  k + 1 \in S
  <2>1. k + 1 \in 1 .. Len(s) /\ k + 1 \in 0 .. Len(s) /\ (k + 1) - 1 = k
    BY <1>2, <1>4
  <2>2. g[k + 1] = Append(g[k], s[k + 1]) /\ g[k] = SubSeq(s, 1, k)
    BY <1>1, <1>4, <2>1
  <2>3. SubSeq(s, 1, k + 1) = SubSeq(s, 1, k) \o <<s[k + 1]>>
    <3>1. 1 \in 1 .. Len(s) /\ k + 1 \in 1 .. Len(s)
      BY <1>2, <2>1
    <3>2. SubSeq(s, 1, k + 1) = SubSeq(s, 1, (k + 1) - 1) \o <<s[k + 1]>>
      BY <3>1, SubSeqRecursiveSecond
    <3>3. QED
      BY <2>1, <3>2
  <2>4. SubSeq(s, 1, k) \in Seq(Lines) /\ s[k + 1] \in Lines
    <3>1. \A i \in 1 .. k : s[i] \in Lines
      <4> TAKE i \in 1 .. k
      <4>1. i \in 1 .. Len(s)
        BY <1>2
      <4>2. QED
        BY <4>1, ElementOfSeq
    <3>2. QED
      BY <2>1, <3>1, SubSeqProperties, ElementOfSeq
  <2>5. Append(g[k], s[k + 1]) = SubSeq(s, 1, k) \o <<s[k + 1]>>
    BY <2>2, <2>4, AppendIsConcat
  <2>6. QED
    BY <2>1, <2>2, <2>3, <2>5
<1> HIDE DEF S
<1>5. \A k \in 0 .. Len(s) : k \in S
  BY <1>2, <1>3, <1>4, Induct
<1>6. g[Len(s)] = SubSeq(s, 1, Len(s))
  BY <1>2, <1>5 DEF S
<1>7. QED
  BY <1>1, <1>6, SubSeqFull

\* The text w is s, and then t.
Joined(w, s, t) == w = s \o t

\* What is left of two texts in a row.
LEMMA OfKindsJoined ==
  ASSUME NEW s \in Seq(Lines), NEW t \in Seq(Lines), NEW w, Joined(w, s, t), NEW K
  PROVE  Joined(OfKinds(w, K), OfKinds(s, K), OfKinds(t, K))
<1>1. w = s \o t
  BY DEF Joined
<1>2. /\ w \in Seq(Lines) /\ Len(w) = Len(s) + Len(t) /\ Len(s) \in Nat /\ Len(t) \in Nat
      /\ \A i \in 1 .. Len(s) + Len(t) : w[i] = IF i <= Len(s) THEN s[i] ELSE t[i - Len(s)]
  BY <1>1, ConcatProperties, LenProperties
<1>3. PICK m \in Nat, n \in Nat : m = Len(s) /\ n = Len(t)
  BY <1>2
<1>4. /\ \A i \in 1 .. m : w[i] = s[i]
      /\ \A i \in 1 .. n : w[m + i] = t[i]
  <2>1. ASSUME NEW i \in 1 .. m PROVE w[i] = s[i]
    <3>1. i \in 1 .. m + n /\ i <= m
      OBVIOUS
    <3>2. QED
      BY <1>2, <1>3, <3>1
  <2>2. ASSUME NEW i \in 1 .. n PROVE w[m + i] = t[i]
    <3>1. m + i \in 1 .. m + n /\ ~(m + i <= m) /\ (m + i) - m = i
      OBVIOUS
    <3>2. QED
      BY <1>2, <1>3, <3>1
  <2>3. QED
    BY <2>1, <2>2
<1>5. PICK g : SelectedUpTo(g, w, K, m + n)
  <2>1. m + n = Len(w)
    BY <1>2, <1>3
  <2>2. QED
    BY <1>2, <2>1, OfKindsIs
<1>6. PICK a : SelectedUpTo(a, s, K, m)
  BY <1>3, OfKindsIs
<1>7. PICK b : SelectedUpTo(b, t, K, n)
  BY <1>3, OfKindsIs
<1>8. g[m] = a[m]
  <2> DEFINE S == {i \in 0 .. m : g[i] = a[i]}
  <2>1. 0 \in S
    BY <1>5, <1>6 DEF SelectedUpTo
  <2>2. ASSUME NEW k \in 0 .. m, k < m, k \in S
        PROVE  k + 1 \in S
    <3>1. k + 1 \in 1 .. m /\ k + 1 \in 1 .. m + n /\ k + 1 \in 0 .. m /\ (k + 1) - 1 = k
      BY <2>2
    <3>2. w[k + 1] = s[k + 1] /\ g[k] = a[k]
      BY <1>4, <2>2, <3>1
    <3>3. g[k + 1] = a[k + 1]
      BY <1>5, <1>6, <3>1, <3>2 DEF SelectedUpTo
    <3>4. QED
      BY <3>1, <3>3
  <2> HIDE DEF S
  <2>3. \A k \in 0 .. m : k \in S
    BY <2>1, <2>2, Induct
  <2>4. QED
    BY <2>3 DEF S
<1>9. g[m + n] = a[m] \o b[n]
  <2>1. PICK c \in Seq(Lines) : c = a[m]
    BY <1>6 DEF SelectedUpTo
  <2> DEFINE S == {i \in 0 .. n : g[m + i] = c \o b[i]}
  <2>2. 0 \in S
    <3>1. c \o <<>> = c
      BY ConcatEmptySeq
    <3>2. m + 0 = m /\ 0 \in 0 .. n
      OBVIOUS
    <3>3. QED
      BY <1>7, <1>8, <2>1, <3>1, <3>2 DEF SelectedUpTo
  <2>3. ASSUME NEW k \in 0 .. n, k < n, k \in S
        PROVE  k + 1 \in S
    <3>1. /\ k + 1 \in 1 .. n /\ m + (k + 1) \in 1 .. m + n /\ k + 1 \in 0 .. n
          /\ (m + (k + 1)) - 1 = m + k /\ (k + 1) - 1 = k
      BY <2>3
    <3>2. w[m + (k + 1)] = t[k + 1] /\ g[m + k] = c \o b[k]
      BY <1>4, <2>3, <3>1
    <3>3. b[k] \in Seq(Lines) /\ t[k + 1] \in Lines
      BY <1>3, <1>7, <3>1, ElementOfSeq DEF SelectedUpTo
    <3>4. CASE t[k + 1].kind \in K
      <4>1. g[m + (k + 1)] = Append(c \o b[k], t[k + 1]) /\ b[k + 1] = Append(b[k], t[k + 1])
        BY <1>5, <1>7, <3>1, <3>2, <3>4, ZenonT(60) DEF SelectedUpTo
      <4>2. c \o b[k] \in Seq(Lines)
        BY <3>3, ConcatProperties
      <4>3. /\ Append(c \o b[k], t[k + 1]) = (c \o b[k]) \o <<t[k + 1]>>
            /\ Append(b[k], t[k + 1]) = b[k] \o <<t[k + 1]>>
        BY <3>3, <4>2, AppendIsConcat
      <4>4. <<t[k + 1]>> \in Seq(Lines)
        BY <3>3
      <4>5. (c \o b[k]) \o <<t[k + 1]>> = c \o (b[k] \o <<t[k + 1]>>)
        <5>1. PICK x \in Seq(Lines), y \in Seq(Lines) : x = b[k] /\ y = <<t[k + 1]>>
          BY <3>3, <4>4
        <5>2. (c \o x) \o y = c \o (x \o y)
          BY ConcatAssociative, SMTT(30)
        <5>3. QED
          BY <5>1, <5>2
      <4>6. QED
        BY <3>1, <4>1, <4>3, <4>5
    <3>5. CASE t[k + 1].kind \notin K
      <4>1. g[m + (k + 1)] = c \o b[k] /\ b[k + 1] = b[k]
        BY <1>5, <1>7, <3>1, <3>2, <3>5 DEF SelectedUpTo
      <4>2. QED
        BY <3>1, <4>1
    <3>6. QED
      BY <3>4, <3>5
  <2> HIDE DEF S
  <2>4. \A k \in 0 .. n : k \in S
    BY <2>2, <2>3, Induct
  <2>5. n \in S
    BY <2>4
  <2>6. g[m + n] = c \o b[n]
    BY <2>5 DEF S
  <2>7. QED
    BY <2>1, <2>6
<1>10. QED
  BY <1>5, <1>6, <1>7, <1>9 DEF SelectedUpTo, Joined

LEMMA OfKindsType ==
  ASSUME NEW s \in Seq(Lines), NEW K
  PROVE  OfKinds(s, K) \in Seq(Lines)
<1>1. Len(s) \in Nat /\ Len(s) \in 0 .. Len(s)
  BY LenProperties
<1>2. QED
  BY <1>1, OfKindsIs DEF SelectedUpTo

-----------------------------------------------------------------------------
(* The table that a file stands for.                                        *)

\* Parts of a file.
LEMMA PartIs ==
  ASSUME NEW f \in Seq(Lines), NEW a \in 1 .. Len(f) + 1, NEW b \in a - 1 .. Len(f)
  PROVE  /\ SubSeq(f, a, b) \in Seq(Lines)
         /\ Len(SubSeq(f, a, b)) = b - a + 1
         /\ \A i \in 1 .. b - a + 1 : SubSeq(f, a, b)[i] = f[a + i - 1] /\ a + i - 1 \in a .. b
<1>1. Len(f) \in Nat
  BY LenProperties
<1>2. a \in Int /\ b \in Int /\ a <= b + 1 /\ 1 <= a /\ b <= Len(f)
  BY <1>1
<1>3. \A i \in a .. b : f[i] \in Lines
  <2> TAKE i \in a .. b
  <2>1. i \in 1 .. Len(f)
    BY <1>1, <1>2
  <2>2. QED
    BY <2>1, ElementOfSeq
<1>4. /\ SubSeq(f, a, b) \in Seq(Lines)
      /\ Len(SubSeq(f, a, b)) = IF a <= b THEN b - a + 1 ELSE 0
      /\ \A i \in 1 .. b - a + 1 : SubSeq(f, a, b)[i] = f[a + i - 1]
  BY <1>2, <1>3, SubSeqProperties, SMTT(30)
<1>5. Len(SubSeq(f, a, b)) = b - a + 1
  BY <1>2, <1>4
<1>6. \A i \in 1 .. b - a + 1 : a + i - 1 \in a .. b
  BY <1>2
<1>7. QED
  BY <1>4, <1>5, <1>6

\* Lines that are no settings leave no trace in the rest.
LEMMA NoTrace ==
  ASSUME NEW a \in Seq(Lines), NEW b \in Seq(Lines), NEW c \in Seq(Lines), NEW x \in Seq(Lines),
         Joined(x, b, c), NEW f, Joined(f, a, x), NEW g, Joined(g, a, c), NEW K,
         OfKinds(b, K) = <<>>
  PROVE  OfKinds(f, K) = OfKinds(g, K)
<1>1. Joined(OfKinds(x, K), OfKinds(b, K), OfKinds(c, K))
  BY OfKindsJoined
<1>2. Joined(OfKinds(f, K), OfKinds(a, K), OfKinds(x, K))
  BY OfKindsJoined
<1>3. Joined(OfKinds(g, K), OfKinds(a, K), OfKinds(c, K))
  BY OfKindsJoined
<1>4. OfKinds(x, K) = OfKinds(c, K)
  BY <1>1, OfKindsType, ConcatEmptySeq DEF Joined
<1>5. QED
  BY <1>2, <1>3, <1>4 DEF Joined

\* Lines that are no settings can be cut out without a trace in the rest.
LEMMA CutRest ==
  ASSUME NEW f \in Seq(Lines), NEW p \in 1 .. Len(f) + 1, NEW q \in p .. Len(f) + 1,
         NEW g, Cut(f, g, p, q), \A i \in p .. q - 1 : f[i].kind \notin RestKinds
  PROVE  Rest(g) = Rest(f)
<1>1. Len(f) \in Nat /\ p \in Nat /\ q \in Nat /\ 1 <= p /\ p <= q /\ q <= Len(f) + 1
  <2>1. Len(f) \in Nat
    BY LenProperties
  <2>2. QED
    BY <2>1
<1>2. PICK a, b, c : a = SubSeq(f, 1, p - 1) /\ b = SubSeq(f, p, q - 1) /\ c = SubSeq(f, q, Len(f))
  OBVIOUS
<1>3. a \in Seq(Lines) /\ b \in Seq(Lines) /\ c \in Seq(Lines)
  <2>1. /\ 1 \in 1 .. Len(f) + 1 /\ p - 1 \in 1 - 1 .. Len(f)
        /\ p \in 1 .. Len(f) + 1 /\ q - 1 \in p - 1 .. Len(f)
        /\ q \in 1 .. Len(f) + 1 /\ Len(f) \in q - 1 .. Len(f)
    BY <1>1
  <2>2. QED
    BY <1>2, <2>1, PartIs
<1>4. f = a \o (b \o c)
  <2>1. b \o c = SubSeq(f, p, Len(f))
    <3>1. q - 1 \in p - 1 .. Len(f) /\ Len(f) \in q - 1 .. Len(f) /\ (q - 1) + 1 = q
      BY <1>1
    <3>2. SubSeq(f, p, q - 1) \o SubSeq(f, (q - 1) + 1, Len(f)) = SubSeq(f, p, Len(f))
      BY <3>1, ConcatAdjacentSubSeq
    <3>3. QED
      BY <1>2, <3>1, <3>2
  <2>2. a \o SubSeq(f, p, Len(f)) = SubSeq(f, 1, Len(f))
    <3>1. 1 \in 1 .. Len(f) + 1 /\ p - 1 \in 1 - 1 .. Len(f) /\ Len(f) \in p - 1 .. Len(f) /\ (p - 1) + 1 = p
      BY <1>1
    <3>2. SubSeq(f, 1, p - 1) \o SubSeq(f, (p - 1) + 1, Len(f)) = SubSeq(f, 1, Len(f))
      BY <3>1, ConcatAdjacentSubSeq
    <3>3. QED
      BY <1>2, <3>1, <3>2
  <2>3. SubSeq(f, 1, Len(f)) = f
    BY SubSeqFull
  <2>4. QED
    BY <2>1, <2>2, <2>3
<1>5. g = a \o c
  <2>1. PICK h : h = a \o c
    OBVIOUS
  <2>2. Cut(f, h, p, q)
    BY <1>2, <2>1, CutIs
  <2>3. g \in Seq(Lines) /\ h \in Seq(Lines) /\ Len(g) = Len(h) /\ Len(g) \in Nat
    <3>1. g \in Seq(Lines) /\ h \in Seq(Lines) /\ Len(g) = Len(h)
      BY <2>2 DEF Cut
    <3>2. QED
      BY <3>1, LenProperties
  <2>4. ASSUME NEW i \in 1 .. Len(g) PROVE g[i] = h[i]
    <3>1. i \in 1 .. p - 1 \/ (i \in p .. Len(g) /\ i \in p .. Len(h))
      BY <1>1, <2>3
    <3>2. QED
      BY <2>2, <3>1 DEF Cut
  <2>5. QED
    BY <2>1, <2>3, <2>4, SeqEqual
<1>6. \A i \in 1 .. Len(b) : b[i].kind \notin RestKinds
  <2> TAKE i \in 1 .. Len(b)
  <2>1. p \in 1 .. Len(f) + 1 /\ q - 1 \in p - 1 .. Len(f)
    BY <1>1
  <2>2. Len(b) = (q - 1) - p + 1
    BY <1>2, <2>1, PartIs
  <2>3. b[i] = f[p + i - 1] /\ p + i - 1 \in p .. q - 1
    BY <1>2, <2>1, <2>2, PartIs
  <2>4. QED
    BY <2>3
<1>7. OfKinds(b, RestKinds) = <<>>
  BY <1>3, <1>6, OfKindsNone
<1>8. PICK x \in Seq(Lines) : x = b \o c
  BY <1>3, ConcatProperties
<1>9. Joined(x, b, c) /\ Joined(f, a, x) /\ Joined(g, a, c)
  BY <1>4, <1>5, <1>8 DEF Joined
<1>10. QED
  BY <1>3, <1>7, <1>9, NoTrace DEF Rest

\* The first path from a line on.
LEMMA FirstPath ==
  ASSUME NEW f, NEW a \in Nat, NEW b \in Nat, a <= b + 1
  PROVE  \E x \in a .. b + 1 :
           /\ First(f, a, b, LAMBDA l : l.kind = "path") = x
           /\ x = b + 1 \/ f[x].kind = "path"
           /\ \A j \in a .. x - 1 : ~ (f[j].kind = "path")
<1> DEFINE B == {j \in a .. b : f[j].kind = "path"}
           x == CHOOSE i \in a .. b + 1 : /\ i = b + 1 \/ f[i].kind = "path"
                                          /\ \A j \in a .. i - 1 : ~ (f[j].kind = "path")
<1>1. First(f, a, b, LAMBDA l : l.kind = "path") = x
  BY DEF First
<1>2. PICK i \in a .. b + 1 : (i = b + 1 \/ i \in B) /\ \A j \in a .. i - 1 : j \notin B
  <2>1. B \in SUBSET (a .. b)
    OBVIOUS
  <2> HIDE DEF B
  <2>2. QED
    BY <2>1, FirstExists
<1>3. \A j \in a .. i - 1 : j \in a .. b
  OBVIOUS
<1>4. \A j \in a .. i - 1 : ~ (f[j].kind = "path")
  BY <1>2, <1>3
<1>5. /\ x \in a .. b + 1
      /\ x = b + 1 \/ f[x].kind = "path"
      /\ \A j \in a .. x - 1 : ~ (f[j].kind = "path")
  BY <1>2, <1>4
<1> HIDE DEF x
<1>6. QED
  BY <1>1, <1>5

\* The options of the path at k are the lines up to q.
Options(f, k, q) ==
  /\ k \in 1 .. Len(f) /\ q \in k + 1 .. Len(f) + 1
  /\ f[k].kind = "path"
  /\ \A i \in k + 1 .. q - 1 : f[i].kind = "opt"
  /\ q <= Len(f) => f[q].kind # "opt"

\* Every path has its options.
LEMMA OptionsExist ==
  ASSUME NEW f \in Seq(Lines), NEW k \in 1 .. Len(f), f[k].kind = "path"
  PROVE  \E q \in k + 1 .. Len(f) + 1 : Options(f, k, q)
<1>1. Len(f) \in Nat
  BY LenProperties
<1>2. k + 1 \in Nat /\ k + 1 <= Len(f) + 1
  BY <1>1
<1> DEFINE after == First(f, k + 1, Len(f), LAMBDA l : l.kind \notin {"opt", "cut"})
<1>3. \E q \in k + 1 .. Len(f) + 1 : /\ after = q
                                     /\ q = Len(f) + 1 \/ f[q].kind \notin {"opt", "cut"}
                                     /\ \A j \in k + 1 .. q - 1 : f[j].kind \in {"opt", "cut"}
  BY <1>1, <1>2, FirstNoOption DEF First
<1> HIDE DEF after
<1>t. ASSUME NEW j \in 1 .. Len(f)
      PROVE  f[j].kind # "cut"
  <2>1. f[j] \in Lines
    BY ElementOfSeq
  <2>2. QED
    BY <2>1 DEF Lines, LineKinds
<1>4. PICK q \in k + 1 .. Len(f) + 1 : /\ q = Len(f) + 1 \/ f[q].kind # "opt"
                                       /\ \A j \in k + 1 .. q - 1 : ~ (f[j].kind # "opt")
  <2>1. PICK q \in k + 1 .. Len(f) + 1 : /\ q = Len(f) + 1 \/ f[q].kind \notin {"opt", "cut"}
                                         /\ \A j \in k + 1 .. q - 1 : f[j].kind \in {"opt", "cut"}
    BY <1>3
  <2>2. \A j \in k + 1 .. q - 1 : j \in 1 .. Len(f)
    BY <1>1, <2>1
  <2>3. QED
    BY <1>t, <2>1, <2>2
<1>5. q <= Len(f) => f[q].kind # "opt"
  BY <1>1, <1>4
<1>6. QED
  BY <1>4, <1>5 DEF Options

\* The names of a file, and where a name stands.
LEMMA NamesOf ==
  ASSUME NEW f \in Seq(Lines), NEW n
  PROVE  n \in PathNames(f) <=> \E k \in 1 .. Len(f) : f[k].kind = "path" /\ f[k].arg = n
<1>1. DOMAIN f = 1 .. Len(f)
  BY LenProperties
<1>2. QED
  BY <1>1 DEF PathNames, ToSet

\* The table has these options under the name of the path.
LEMMA TableIs ==
  ASSUME NEW f, NEW s, NEW e, Form(f, s, e), NEW k, NEW q, Options(f, k, q), NEW n, f[k].arg = n
  PROVE  Table(f)[n] = SubSeq(f, k + 1, q - 1)
<1> DEFINE key  == CHOOSE i \in DOMAIN f : f[i] = Line("path", n)
           next == First(f, key + 1, Len(f), LAMBDA l : l.kind = "path")
<1>1. f \in Seq(Lines) /\ Len(f) \in Nat /\ DOMAIN f = 1 .. Len(f)
  BY SectionOf
<1>2. /\ k \in 1 .. Len(f) /\ q \in k + 1 .. Len(f) + 1 /\ k \in Nat /\ q \in Nat
      /\ f[k].kind = "path"
      /\ \A i \in k + 1 .. q - 1 : f[i].kind = "opt"
      /\ q <= Len(f) => f[q].kind # "opt"
  BY <1>1 DEF Options
<1>3. n \in PathNames(f)
  BY <1>1, <1>2, NamesOf
<1>4. Table(f)[n] = OfKinds(SubSeq(f, key, next - 1), {"opt"})
  BY <1>3 DEF Table, First
<1>5. key = k
  <2>1. f[k] \in Lines
    BY <1>1, <1>2, ElementOfSeq
  <2>2. f[k] = Line("path", n)
    BY <1>2, <2>1 DEF Lines, Line
  <2>3. \A i \in 1 .. Len(f) : f[i] = Line("path", n) => i = k
    BY <1>2, <2>2 DEF Form
  <2>4. QED
    BY <1>1, <1>2, <2>2, <2>3
<1> HIDE DEF key
<1>6. PICK x \in k + 1 .. Len(f) + 1 : /\ next = x
                                       /\ x = Len(f) + 1 \/ f[x].kind = "path"
                                       /\ \A j \in k + 1 .. x - 1 : ~ (f[j].kind = "path")
  <2>1. key + 1 \in Nat /\ key + 1 <= Len(f) + 1
    BY <1>1, <1>2, <1>5
  <2>2. \E y \in key + 1 .. Len(f) + 1 : /\ next = y
                                         /\ y = Len(f) + 1 \/ f[y].kind = "path"
                                         /\ \A j \in key + 1 .. y - 1 : ~ (f[j].kind = "path")
    BY <1>1, <2>1, FirstPath, ZenonT(60) DEF First
  <2> HIDE DEF next
  <2>3. QED
    BY <1>5, <2>2
<1> HIDE DEF next
<1>7. x \in Nat /\ q <= x
  <2>1. x \in Nat
    BY <1>1, <1>2
  <2>2. ~ (x < q)
    <3> SUFFICES ASSUME x < q PROVE FALSE
      OBVIOUS
    <3>1. x \in k + 1 .. q - 1 /\ x # Len(f) + 1
      BY <1>1, <1>2, <1>6, <2>1
    <3>2. QED
      BY <1>2, <1>6, <3>1
  <2>3. QED
    BY <1>2, <2>1, <2>2
<1>8. \A i \in q .. x - 1 : f[i].kind # "opt"
  <2> DEFINE T == {i \in q .. x - 1 : f[i].kind = "opt"}
  <2> SUFFICES ASSUME T # {} PROVE FALSE
    OBVIOUS
  <2>1. T \in SUBSET Nat
    BY <1>2, <1>7
  <2>2. PICK i \in T : \A j \in T : i <= j
    BY <2>1, Least
  <2>3. i \in q .. x - 1 /\ f[i].kind = "opt" /\ i \in Nat
    BY <2>1, <2>2
  <2> HIDE DEF T
  <2>4. i \in 1 .. Len(f) /\ q <= Len(f)
    BY <1>1, <1>2, <1>6, <1>7, <2>3
  <2>5. i # q
    BY <1>2, <2>3, <2>4
  <2>6. f[i - 1].kind \in {"path", "opt"}
    BY <2>3, <2>4 DEF Form
  <2>7. i - 1 \in k + 1 .. x - 1 /\ i - 1 \in q .. x - 1 /\ ~(i <= i - 1)
    BY <1>2, <1>7, <2>3, <2>5
  <2>8. f[i - 1].kind = "opt"
    BY <1>6, <2>6, <2>7
  <2>9. i - 1 \in T
    BY <2>7, <2>8 DEF T
  <2>10. QED
    BY <2>2, <2>7, <2>9
<1>9. PICK a, b, c : a = SubSeq(f, k, k) /\ b = SubSeq(f, k + 1, q - 1) /\ c = SubSeq(f, q, x - 1)
  OBVIOUS
<1>10. /\ k \in 1 .. Len(f) + 1 /\ k \in k - 1 .. Len(f)
       /\ k + 1 \in 1 .. Len(f) + 1 /\ q - 1 \in (k + 1) - 1 .. Len(f)
       /\ q \in 1 .. Len(f) + 1 /\ x - 1 \in q - 1 .. Len(f)
       /\ x - 1 \in k .. Len(f) /\ (q - 1) + 1 = q
  BY <1>1, <1>2, <1>6, <1>7
<1>11. a \in Seq(Lines) /\ b \in Seq(Lines) /\ c \in Seq(Lines)
  BY <1>1, <1>9, <1>10, PartIs
<1>12. SubSeq(f, k, x - 1) = a \o (b \o c)
  <2>1. q - 1 \in k .. Len(f) /\ x - 1 \in q - 1 .. Len(f)
    BY <1>1, <1>2, <1>10
  <2>2. SubSeq(f, k + 1, q - 1) \o SubSeq(f, (q - 1) + 1, x - 1) = SubSeq(f, k + 1, x - 1)
    BY <1>1, <1>10, ConcatAdjacentSubSeq
  <2>3. SubSeq(f, k, k) \o SubSeq(f, k + 1, x - 1) = SubSeq(f, k, x - 1)
    BY <1>1, <1>10, ConcatAdjacentSubSeq
  <2>4. QED
    BY <1>9, <1>10, <2>2, <2>3
<1>13. OfKinds(a, {"opt"}) = <<>>
  <2>1. ASSUME NEW i \in 1 .. Len(a) PROVE a[i].kind \notin {"opt"}
    <3>1. Len(a) = k - k + 1
      BY <1>1, <1>9, <1>10, PartIs
    <3>2. i \in 1 .. k - k + 1
      BY <3>1
    <3>3. a[i] = f[k + i - 1] /\ k + i - 1 \in k .. k
      BY <1>1, <1>9, <1>10, <3>2, PartIs
    <3>4. k + i - 1 = k
      BY <1>2, <3>3
    <3>5. QED
      BY <1>2, <3>3, <3>4
  <2>2. QED
    BY <1>11, <2>1, OfKindsNone
<1>14. OfKinds(c, {"opt"}) = <<>>
  <2>1. ASSUME NEW i \in 1 .. Len(c) PROVE c[i].kind \notin {"opt"}
    <3>1. Len(c) = (x - 1) - q + 1
      BY <1>1, <1>9, <1>10, PartIs
    <3>2. i \in 1 .. (x - 1) - q + 1
      BY <3>1
    <3>3. c[i] = f[q + i - 1] /\ q + i - 1 \in q .. x - 1
      BY <1>1, <1>9, <1>10, <3>2, PartIs
    <3>4. QED
      BY <1>8, <3>3
  <2>2. QED
    BY <1>11, <2>1, OfKindsNone
<1>15. OfKinds(b, {"opt"}) = b
  <2>1. ASSUME NEW i \in 1 .. Len(b) PROVE b[i].kind \in {"opt"}
    <3>1. Len(b) = (q - 1) - (k + 1) + 1
      BY <1>1, <1>9, <1>10, PartIs
    <3>2. i \in 1 .. (q - 1) - (k + 1) + 1
      BY <3>1
    <3>3. b[i] = f[(k + 1) + i - 1] /\ (k + 1) + i - 1 \in k + 1 .. q - 1
      BY <1>1, <1>9, <1>10, <3>2, PartIs
    <3>4. QED
      BY <1>2, <3>3
  <2>2. QED
    BY <1>11, <2>1, OfKindsAll
<1>16. OfKinds(SubSeq(f, k, x - 1), {"opt"}) = <<>> \o (b \o <<>>)
  <2>1. PICK w : w = a \o (b \o c)
    OBVIOUS
  <2>2. PICK y \in Seq(Lines) : y = b \o c
    BY <1>11, ConcatProperties
  <2>3. Joined(y, b, c) /\ Joined(w, a, y)
    BY <2>1, <2>2 DEF Joined
  <2>4. Joined(OfKinds(y, {"opt"}), OfKinds(b, {"opt"}), OfKinds(c, {"opt"}))
    BY <1>11, <2>3, OfKindsJoined
  <2>5. Joined(OfKinds(w, {"opt"}), OfKinds(a, {"opt"}), OfKinds(y, {"opt"}))
    BY <1>11, <2>3, OfKindsJoined
  <2>6. QED
    BY <1>12, <1>13, <1>14, <1>15, <2>1, <2>4, <2>5 DEF Joined
<1>17. <<>> \o (b \o <<>>) = b
  BY <1>11, ConcatEmptySeq
<1>18. QED
  BY <1>4, <1>5, <1>6, <1>9, <1>16, <1>17

\* Equal parts of two files.
LEMMA PartEqual ==
  ASSUME NEW f \in Seq(Lines), NEW g \in Seq(Lines), NEW c \in Nat,
         NEW a \in 1 .. Len(g) + 1, NEW b \in a - 1 .. Len(g), b + c <= Len(f),
         \A x \in a .. b : g[x] = f[x + c]
  PROVE  SubSeq(g, a, b) = SubSeq(f, a + c, b + c)
<1>1. Len(f) \in Nat /\ Len(g) \in Nat
  BY LenProperties
<1>2. a \in Nat /\ b \in Nat /\ 1 <= a /\ a <= b + 1
  BY <1>1
<1>3. a + c \in 1 .. Len(f) + 1 /\ b + c \in (a + c) - 1 .. Len(f)
  BY <1>1, <1>2
<1>4. PICK v, w : v = SubSeq(g, a, b) /\ w = SubSeq(f, a + c, b + c)
  OBVIOUS
<1>5. /\ v \in Seq(Lines) /\ Len(v) = b - a + 1
      /\ \A i \in 1 .. b - a + 1 : v[i] = g[a + i - 1] /\ a + i - 1 \in a .. b
  BY <1>4, PartIs
<1>6. /\ w \in Seq(Lines) /\ Len(w) = (b + c) - (a + c) + 1
      /\ \A i \in 1 .. (b + c) - (a + c) + 1 : w[i] = f[(a + c) + i - 1]
  BY <1>3, <1>4, PartIs
<1>7. (b + c) - (a + c) + 1 = b - a + 1
  BY <1>2
<1>8. ASSUME NEW i \in 1 .. b - a + 1 PROVE v[i] = w[i]
  <2>1. (a + c) + i - 1 = (a + i - 1) + c
    BY <1>2
  <2>2. QED
    BY <1>5, <1>6, <1>7, <2>1
<1>9. v = w
  BY <1>5, <1>6, <1>7, <1>8, SeqEqual
<1>10. QED
  BY <1>4, <1>9

\* The options of the path at i in g are the same lines as those c lines below in f.
SameOptions(f, g, i, r, c) ==
  Options(f, i + c, r + c) /\ \A x \in i .. r - 1 : g[x] = f[x + c]

\* The options of a path are the same lines in a file that lacks another block.
LEMMA CutOptions ==
  ASSUME NEW f \in Seq(Lines), NEW p \in 1 .. Len(f), NEW q \in p + 1 .. Len(f) + 1,
         f[p].kind # "opt", q <= Len(f) => f[q].kind # "opt",
         NEW g, Cut(f, g, p, q), NEW i, NEW r, Options(g, i, r)
  PROVE  \E c \in Nat : SameOptions(f, g, i, r, c)
<1>1. PICK n \in Nat, m \in Nat : n = Len(f) /\ m = Len(g)
  <2>1. g \in Seq(Lines)
    BY DEF Cut
  <2>2. QED
    BY <2>1, LenProperties
<1>2. p \in Nat /\ q \in Nat /\ 1 <= p /\ p < q /\ q <= n + 1
  BY <1>1
<1>3. PICK d \in Nat : d = q - p /\ q = p + d /\ n = m + d
  <2>1. m = n - (q - p)
    BY <1>1 DEF Cut
  <2>2. q - p \in Nat /\ q = p + (q - p) /\ n = m + (q - p)
    BY <1>2, <2>1
  <2>3. QED
    BY <2>2
<1>4. /\ \A x \in 1 .. p - 1 : g[x] = f[x]
      /\ \A x \in p .. m : g[x] = f[x + d]
  BY <1>1, <1>3 DEF Cut
<1>5. /\ i \in 1 .. m /\ r \in i + 1 .. m + 1
      /\ g[i].kind = "path"
      /\ \A x \in i + 1 .. r - 1 : g[x].kind = "opt"
      /\ r <= m => g[r].kind # "opt"
  BY <1>1 DEF Options
<1>6. i \in Nat /\ r \in Nat /\ 1 <= i /\ i < r /\ r <= m + 1
  BY <1>5
<1>7. f[p].kind # "opt" /\ (q <= n => f[q].kind # "opt")
  BY <1>1
<1>8. CASE i < p
  <2>1. r <= p
    <3> SUFFICES ASSUME p < r PROVE FALSE
      BY <1>2, <1>6
    <3>1. p \in i + 1 .. r - 1 /\ p \in p .. m /\ q <= n
      BY <1>2, <1>3, <1>6, <1>8
    <3>2. g[p] = f[p + d] /\ g[p].kind = "opt"
      BY <1>4, <1>5, <3>1
    <3>3. QED
      BY <1>3, <1>7, <3>1, <3>2
  <2>2. \A x \in i .. r - 1 : g[x] = f[x]
    <3> TAKE x \in i .. r - 1
    <3>1. x \in 1 .. p - 1
      BY <1>2, <1>6, <2>1
    <3>2. QED
      BY <1>4, <3>1
  <2>3. \A x \in i + 1 .. r - 1 : f[x].kind = "opt"
    <3> TAKE x \in i + 1 .. r - 1
    <3>1. x \in i .. r - 1
      BY <1>6
    <3>2. QED
      BY <1>5, <2>2, <3>1
  <2>4. f[i].kind = "path"
    <3>1. i \in i .. r - 1
      BY <1>6
    <3>2. QED
      BY <1>5, <2>2, <3>1
  <2>5. f[r].kind # "opt"
    <3>1. CASE r = p
      BY <1>7, <3>1
    <3>2. CASE r # p
      <4>1. r \in 1 .. p - 1 /\ r <= m
        BY <1>2, <1>3, <1>6, <2>1, <3>2
      <4>2. QED
        BY <1>4, <1>5, <4>1
    <3>3. QED
      BY <3>1, <3>2
  <2>6. i \in 1 .. n /\ r \in i + 1 .. n + 1
    BY <1>2, <1>3, <1>6
  <2>7. Options(f, i, r)
    BY <1>1, <2>3, <2>4, <2>5, <2>6 DEF Options
  <2>8. i + 0 = i /\ r + 0 = r /\ \A x \in i .. r - 1 : x + 0 = x
    BY <1>6
  <2>9. Options(f, i + 0, r + 0) /\ \A x \in i .. r - 1 : g[x] = f[x + 0]
    BY <2>2, <2>7, <2>8
  <2>10. QED
    BY <2>9 DEF SameOptions
<1>9. CASE p <= i
  <2>1. \A x \in i .. m : g[x] = f[x + d]
    <3> TAKE x \in i .. m
    <3>1. x \in p .. m
      BY <1>2, <1>6, <1>9
    <3>2. QED
      BY <1>4, <3>1
  <2>2. \A x \in i .. r - 1 : g[x] = f[x + d]
    <3> TAKE x \in i .. r - 1
    <3>1. x \in i .. m
      BY <1>6
    <3>2. QED
      BY <2>1, <3>1
  <2>3. ASSUME NEW y \in (i + d) + 1 .. (r + d) - 1 PROVE f[y].kind = "opt"
    <3>1. y - d \in i + 1 .. r - 1 /\ y - d \in i .. m /\ (y - d) + d = y
      BY <1>6
    <3>2. QED
      BY <1>5, <2>1, <3>1
  <2>4. f[i + d].kind = "path"
    <3>1. i \in i .. r - 1
      BY <1>6
    <3>2. QED
      BY <1>5, <2>2, <3>1
  <2>5. r + d <= n => f[r + d].kind # "opt"
    <3>1. r + d <= n => r <= m /\ r \in i .. m
      BY <1>3, <1>6
    <3>2. QED
      BY <1>5, <2>1, <3>1
  <2>6. i + d \in 1 .. n /\ r + d \in (i + d) + 1 .. n + 1
    BY <1>3, <1>6
  <2>7. Options(f, i + d, r + d)
    BY <1>1, <2>3, <2>4, <2>5, <2>6 DEF Options
  <2>8. QED
    BY <2>2, <2>7 DEF SameOptions
<1>10. QED
  BY <1>2, <1>6, <1>8, <1>9

\* A table is a function on the names of the file.
LEMMA TableFun ==
  ASSUME NEW f
  PROVE  DOMAIN Table(f) = PathNames(f) /\ Table(f) = [m \in PathNames(f) |-> Table(f)[m]]
  BY DEF Table, First

\* Then the entries of the path are the same.
LEMMA SameEntry ==
  ASSUME NEW f, NEW s, NEW e, Form(f, s, e), NEW g, NEW t, NEW d, Form(g, t, d),
         NEW i, NEW r, Options(g, i, r), NEW c \in Nat, SameOptions(f, g, i, r, c),
         NEW m, g[i].arg = m
  PROVE  Table(g)[m] = Table(f)[m]
<1>1. f \in Seq(Lines) /\ g \in Seq(Lines) /\ Len(f) \in Nat /\ Len(g) \in Nat
  BY SectionOf
<1>2. i \in Nat /\ r \in Nat /\ 1 <= i /\ i < r /\ r <= Len(g) + 1 /\ r + c <= Len(f) + 1
  <2>1. r + c \in (i + c) + 1 .. Len(f) + 1
    BY DEF SameOptions, Options
  <2>2. i \in 1 .. Len(g) /\ r \in i + 1 .. Len(g) + 1
    BY DEF Options
  <2>3. QED
    BY <1>1, <2>1, <2>2
<1>3. f[i + c].arg = m
  <2>1. i \in i .. r - 1
    BY <1>2
  <2>2. QED
    BY <2>1 DEF SameOptions
<1>4. Table(g)[m] = SubSeq(g, i + 1, r - 1)
  BY TableIs
<1>5. Table(f)[m] = SubSeq(f, (i + c) + 1, (r + c) - 1)
  <2>1. PICK k, q : k = i + c /\ q = r + c
    OBVIOUS
  <2>2. Options(f, k, q) /\ f[k].arg = m
    BY <1>3, <2>1 DEF SameOptions
  <2>3. Table(f)[m] = SubSeq(f, k + 1, q - 1)
    BY <2>2, TableIs
  <2>4. QED
    BY <2>1, <2>3
<1>6. SubSeq(g, i + 1, r - 1) = SubSeq(f, (i + 1) + c, (r - 1) + c)
  <2>1. /\ i + 1 \in 1 .. Len(g) + 1 /\ r - 1 \in (i + 1) - 1 .. Len(g) /\ (r - 1) + c <= Len(f)
        /\ \A x \in i + 1 .. r - 1 : x \in i .. r - 1
    BY <1>1, <1>2
  <2>2. \A x \in i + 1 .. r - 1 : g[x] = f[x + c]
    BY <2>1 DEF SameOptions
  <2>3. QED
    BY <1>1, <2>1, <2>2, PartEqual
<1>7. (i + 1) + c = (i + c) + 1 /\ (r - 1) + c = (r + c) - 1
  BY <1>2
<1>8. QED
  BY <1>4, <1>5, <1>6, <1>7

\* Without the block of one path, the file stands for the table without its entry.
LEMMA CutTable ==
  ASSUME NEW f, NEW s, NEW e, Form(f, s, e), NEW g, NEW t, NEW d, Form(g, t, d),
         NEW p \in 1 .. Len(f), NEW q \in p + 1 .. Len(f) + 1, NEW k \in p .. q - 1, NEW n,
         f[k].kind = "path", f[k].arg = n,
         \A i \in p .. q - 1 : f[i].kind = "path" => i = k,
         f[p].kind # "opt", q <= Len(f) => f[q].kind # "opt", Cut(f, g, p, q)
  PROVE  /\ PathNames(g) = PathNames(f) \ {n}
         /\ n \in PathNames(f)
         /\ \A m \in PathNames(g) : Table(g)[m] = Table(f)[m]
<1>1. f \in Seq(Lines) /\ g \in Seq(Lines) /\ Len(f) \in Nat /\ Len(g) \in Nat
  BY SectionOf
<1>2. p \in Nat /\ q \in Nat /\ k \in Nat /\ 1 <= p /\ p <= k /\ k < q /\ q <= Len(f) + 1
  BY <1>1
<1>3. k \in 1 .. Len(f)
  BY <1>1, <1>2
<1>4. n \in PathNames(f)
  BY <1>1, <1>3, NamesOf
<1>5. /\ Len(g) = Len(f) - (q - p)
      /\ \A i \in 1 .. p - 1 : g[i] = f[i]
      /\ \A i \in p .. Len(g) : g[i] = f[i + (q - p)]
  BY DEF Cut
<1>6. ASSUME NEW m \in PathNames(g) PROVE m # n /\ Table(g)[m] = Table(f)[m]
  <2>1. PICK i \in 1 .. Len(g) : g[i].kind = "path" /\ g[i].arg = m
    BY <1>1, NamesOf
  <2>2. PICK r \in i + 1 .. Len(g) + 1 : Options(g, i, r)
    BY <1>1, <2>1, OptionsExist
  <2>3. PICK c \in Nat : SameOptions(f, g, i, r, c)
    BY <1>1, <2>2, CutOptions
  <2>4. Table(g)[m] = Table(f)[m]
    BY <2>1, <2>2, <2>3, SameEntry
  <2>0. i \in Nat /\ 1 <= i /\ i <= Len(g)
    BY <1>1, <2>1
  <2>5. m # n
    <3>1. PICK j \in 1 .. Len(f) : g[i] = f[j] /\ j # k
      <4>1. CASE i < p
        <5>1. i \in 1 .. p - 1 /\ i \in 1 .. Len(f) /\ i # k
          BY <1>1, <1>2, <2>0, <4>1
        <5>2. QED
          BY <1>5, <5>1
      <4>2. CASE p <= i
        <5>1. i \in p .. Len(g) /\ i + (q - p) \in 1 .. Len(f) /\ i + (q - p) # k
          BY <1>1, <1>2, <1>5, <2>1, <2>0, <4>2
        <5>2. QED
          BY <1>5, <5>1
      <4>3. QED
        BY <1>2, <2>0, <4>1, <4>2
    <3>2. f[j] \in Lines /\ f[k] \in Lines
      BY <1>1, <1>3, ElementOfSeq
    <3>3. f[j] # f[k]
      BY <1>3, <3>1 DEF Form
    <3>4. f[j].kind = f[k].kind /\ f[j].arg = m
      BY <2>1, <3>1
    <3>5. QED
      BY <3>2, <3>3, <3>4 DEF Lines
  <2>6. QED
    BY <2>4, <2>5
<1>7. PathNames(g) \subseteq PathNames(f)
  <2> SUFFICES ASSUME NEW m \in PathNames(g) PROVE m \in PathNames(f)
    OBVIOUS
  <2>1. PICK i \in 1 .. Len(g) : g[i].kind = "path" /\ g[i].arg = m
    BY <1>1, NamesOf
  <2>2. i \in Nat /\ 1 <= i /\ i <= Len(g)
    BY <1>1
  <2>3. PICK j \in 1 .. Len(f) : g[i] = f[j]
    <3>1. CASE i < p
      <4>1. i \in 1 .. p - 1 /\ i \in 1 .. Len(f)
        BY <1>1, <1>2, <2>2, <3>1
      <4>2. QED
        BY <1>5, <4>1
    <3>2. CASE p <= i
      <4>1. i \in p .. Len(g) /\ i + (q - p) \in 1 .. Len(f)
        BY <1>1, <1>2, <1>5, <2>2, <3>2
      <4>2. QED
        BY <1>5, <4>1
    <3>3. QED
      BY <1>2, <2>2, <3>1, <3>2
  <2>4. QED
    BY <1>1, <2>1, <2>3, NamesOf
<1>8. ASSUME NEW m \in PathNames(f), m # n PROVE m \in PathNames(g)
  <2>1. PICK j \in 1 .. Len(f) : f[j].kind = "path" /\ f[j].arg = m
    BY <1>1, NamesOf
  <2>2. j \in Nat /\ 1 <= j /\ j <= Len(f) /\ (j < p \/ q <= j)
    <3>1. j \notin p .. q - 1
      BY <1>8, <2>1
    <3>2. QED
      BY <1>1, <1>2, <3>1
  <2>3. PICK i \in 1 .. Len(g) : g[i] = f[j]
    <3>1. CASE j < p
      <4>1. j \in 1 .. p - 1 /\ j \in 1 .. Len(g)
        BY <1>1, <1>2, <1>5, <2>2, <3>1
      <4>2. QED
        BY <1>5, <4>1
    <3>2. CASE q <= j
      <4>1. j - (q - p) \in p .. Len(g) /\ j - (q - p) \in 1 .. Len(g) /\ (j - (q - p)) + (q - p) = j
        BY <1>1, <1>2, <1>5, <2>2, <3>2
      <4>2. QED
        BY <1>5, <4>1
    <3>3. QED
      BY <2>2, <3>1, <3>2
  <2>4. QED
    BY <1>1, <2>1, <2>3, NamesOf
<1>9. PathNames(g) = PathNames(f) \ {n}
  BY <1>6, <1>7, <1>8
<1>10. QED
  BY <1>4, <1>6, <1>9

-----------------------------------------------------------------------------
(* The edits of the text are edits of the table.                            *)

\* Removing a path drops its entry.
LEMMA RemoveTable ==
  ASSUME NEW f, WellFormed(f), NEW n \in Names, found(f, n)
  PROVE  /\ Rest(removePathBlock(f, n)) = Rest(f)
         /\ n \in PathNames(f)
         /\ PathNames(removePathBlock(f, n)) = PathNames(f) \ {n}
         /\ \A m \in PathNames(removePathBlock(f, n)) :
              Table(removePathBlock(f, n))[m] = Table(f)[m]
<1>1. PICK s, e, g : s = pathsStart(f) /\ e = pathsEnd(f) /\ g = removePathBlock(f, n)
  OBVIOUS
<1>2. Form(f, s, e)
  BY <1>1, FormOf
<1>3. /\ f \in Seq(Lines) /\ Len(f) \in Nat /\ s \in Nat /\ e \in Nat
  BY <1>2, SectionOf
<1>4. PICK p \in s + 1 .. e, k \in s + 1 .. e, q \in s + 2 .. e + 1 :
        p <= k /\ k < q /\ BlockAt(f, e, n, p, k, q) /\ Cut(f, g, p, q)
  BY <1>1, <1>2, RemoveIs
<1>5. /\ p \in Nat /\ k \in Nat /\ q \in Nat /\ 1 <= s /\ s < p /\ p <= k /\ k < q /\ q <= e + 1
      /\ e <= Len(f)
  BY <1>2, <1>3, <1>4 DEF Form
<1>6. /\ p \in 1 .. Len(f) /\ p \in 1 .. Len(f) + 1 /\ q \in p + 1 .. Len(f) + 1
      /\ q \in p .. Len(f) + 1 /\ k \in p .. q - 1
  BY <1>3, <1>5
<1>7. PICK d \in Nat : Form(g, s, d)
  BY <1>1, <1>2, RemoveForm
<1>8. /\ f[k].kind = "path" /\ f[k].arg = n
      /\ p = k \/ (p = k - 1 /\ f[p].kind = "mark")
      /\ \A i \in k + 1 .. q - 1 : f[i].kind = "opt"
  BY <1>4 DEF BlockAt, Line
<1>9. ASSUME NEW i \in p .. q - 1
      PROVE  i = k \/ f[i].kind \in {"mark", "opt"}
  <2>1. i = k \/ (i = p /\ p = k - 1) \/ i \in k + 1 .. q - 1
    BY <1>5, <1>8
  <2>2. QED
    BY <1>8, <2>1
<1>10. f[p].kind # "opt"
  BY <1>8
<1>11. q <= Len(f) => f[q].kind # "opt"
  <2>1. CASE q = e + 1
    <3>1. q <= Len(f) => e < Len(f)
      BY <1>3, <1>5, <2>1
    <3>2. QED
      BY <1>2, <2>1, <3>1 DEF Form
  <2>2. QED
    BY <1>4, <2>1 DEF BlockAt
<1>12. \A i \in p .. q - 1 : f[i].kind \notin RestKinds
  BY <1>8, <1>9 DEF RestKinds
<1>13. Rest(g) = Rest(f)
  BY <1>3, <1>4, <1>6, <1>12, CutRest
<1>14. \A i \in p .. q - 1 : f[i].kind = "path" => i = k
  BY <1>9
<1>15. /\ PathNames(g) = PathNames(f) \ {n}
       /\ n \in PathNames(f)
       /\ \A m \in PathNames(g) : Table(g)[m] = Table(f)[m]
  BY <1>2, <1>4, <1>6, <1>7, <1>8, <1>10, <1>11, <1>14, CutTable
<1>16. QED
  BY <1>1, <1>13, <1>15

\* Putting in a block puts in its entry.
LEMMA InsertTable ==
  ASSUME NEW f, NEW s, NEW e, Form(f, s, e), NEW n \in Names, NEW u \in Updates,
         \A i \in 1 .. Len(f) : f[i].kind = "path" => f[i].arg # n
  PROVE  /\ Rest(Inserted(f, n, u)) = Rest(f)
         /\ PathNames(Inserted(f, n, u)) = PathNames(f) \cup {n}
         /\ Table(Inserted(f, n, u))[n] = OptionLines(u)
         /\ \A m \in PathNames(f) : Table(Inserted(f, n, u))[m] = Table(f)[m]
<1>1. PICK g : g = Inserted(f, n, u)
  OBVIOUS
<1>2. PICK p \in s + 1 .. e + 1 : Pasted(f, g, p, n, u) /\ (p <= Len(f) => f[p].kind # "opt")
  BY <1>1, InsertIs
<1>3. /\ f \in Seq(Lines) /\ Len(f) \in Nat /\ s \in Nat /\ e \in Nat /\ Len(u) \in Nat
  BY SectionOf, UpdateIs
<1>4. p \in Nat /\ 1 <= s /\ s < p /\ p <= e + 1 /\ e <= Len(f)
  BY <1>3 DEF Form
<1>5. Form(g, s, e + Len(u) + 2)
  BY <1>2, InsertForm
<1>6. PICK q \in Nat : q = p + Len(u) + 2
  BY <1>3, <1>4
<1>7. g \in Seq(Lines) /\ Cut(g, f, p, q) /\ Len(g) \in Nat
  <2>1. g \in Seq(Lines) /\ Cut(g, f, p, q)
    BY <1>2, <1>6 DEF Pasted
  <2>2. QED
    BY <2>1, LenProperties
<1>8. Len(g) = Len(f) + Len(u) + 2
  <2>1. Len(f) = Len(g) - (q - p)
    BY <1>7 DEF Cut
  <2>2. Len(f) \in Nat /\ Len(g) \in Nat /\ Len(u) \in Nat
    BY <1>3, <1>7
  <2>3. QED
    BY <1>4, <1>6, <2>1, <2>2
<1>9. /\ p \in 1 .. Len(g) /\ p \in 1 .. Len(g) + 1 /\ q \in p + 1 .. Len(g) + 1
      /\ q \in p .. Len(g) + 1 /\ p + 1 \in p .. q - 1 /\ p + 1 \in 1 .. Len(g)
      /\ q \in (p + 1) + 1 .. Len(g) + 1
  BY <1>3, <1>4, <1>6, <1>8
<1>10. g[p].kind = "mark" /\ g[p + 1].kind = "path" /\ g[p + 1].arg = n
  BY <1>2 DEF Pasted, Line
<1>11. ASSUME NEW i \in (p + 1) + 1 .. q - 1
       PROVE  g[i].kind = "opt"
  <2>1. i - (p + 1) \in 1 .. Len(u) /\ p + 1 + (i - (p + 1)) = i
    BY <1>3, <1>4, <1>6, SMTT(30)
  <2>2. PICK j \in 1 .. Len(u) : p + 1 + j = i
    BY <2>1
  <2>3. g[i] = Line("opt", u[j])
    BY <1>2, <2>2 DEF Pasted
  <2>4. QED
    BY <2>3 DEF Line
<1>12. ASSUME NEW i \in p .. q - 1
       PROVE  i = p + 1 \/ g[i].kind \in {"mark", "opt"}
  <2>1. i = p \/ i = p + 1 \/ i \in (p + 1) + 1 .. q - 1
    BY <1>4
  <2>2. QED
    BY <1>10, <1>11, <2>1
<1>13. q <= Len(g) => g[q].kind # "opt"
  <2> SUFFICES ASSUME q <= Len(g) PROVE g[q].kind # "opt"
    OBVIOUS
  <2>1. p \in p .. Len(f) /\ p + (q - p) = q /\ p <= Len(f)
    BY <1>3, <1>4, <1>6, <1>8
  <2>2. f[p] = g[p + (q - p)]
    BY <1>7, <2>1 DEF Cut
  <2>3. QED
    BY <1>2, <2>1, <2>2
<1>14. Rest(f) = Rest(g)
  <2>1. \A i \in p .. q - 1 : g[i].kind \notin RestKinds
    BY <1>10, <1>12 DEF RestKinds
  <2>2. QED
    BY <1>7, <1>9, <2>1, CutRest
<1>15. /\ PathNames(f) = PathNames(g) \ {n}
       /\ n \in PathNames(g)
       /\ \A m \in PathNames(f) : Table(f)[m] = Table(g)[m]
  <2>a. PICK a \in 1 .. Len(g) : a = p
    BY <1>9
  <2>b. PICK b \in a + 1 .. Len(g) + 1 : b = q
    BY <1>9, <2>a
  <2>k. PICK k \in a .. b - 1 : k = p + 1
    BY <1>9, <2>a, <2>b
  <2>1. a = p /\ b = q /\ k = p + 1
    BY <2>a, <2>b, <2>k
  <2>2. \A i \in a .. b - 1 : g[i].kind = "path" => i = k
    BY <1>12, <2>1
  <2>3. g[k].kind = "path" /\ g[k].arg = n /\ g[a].kind # "opt"
    BY <1>10, <2>1
  <2>4. (b <= Len(g) => g[b].kind # "opt") /\ Cut(g, f, a, b)
    BY <1>7, <1>13, <2>1
  <2>5. PICK d : Form(g, s, d)
    BY <1>5
  <2>6. QED
    BY <2>2, <2>3, <2>4, <2>5, CutTable, SMTT(60)
<1>16. Table(g)[n] = OptionLines(u)
  <2>1. PICK k : k = p + 1
    OBVIOUS
  <2>2. Options(g, k, q) /\ g[k].arg = n
    BY <1>9, <1>10, <1>11, <1>13, <2>1 DEF Options
  <2>3. Table(g)[n] = SubSeq(g, k + 1, q - 1)
    BY <1>5, <2>2, TableIs
  <2>4. /\ k + 1 \in 1 .. Len(g) + 1 /\ q - 1 \in (k + 1) - 1 .. Len(g)
        /\ (q - 1) - (k + 1) + 1 = Len(u) /\ \A i \in 1 .. Len(u) : (k + 1) + i - 1 = p + 1 + i
    BY <1>3, <1>4, <1>6, <1>8, <2>1
  <2>5. PICK v : v = SubSeq(g, k + 1, q - 1)
    OBVIOUS
  <2>6. /\ v \in Seq(Lines) /\ Len(v) = (q - 1) - (k + 1) + 1
        /\ \A i \in 1 .. (q - 1) - (k + 1) + 1 : v[i] = g[(k + 1) + i - 1]
    BY <1>7, <2>4, <2>5, PartIs
  <2>7. \A i \in 1 .. Len(u) : v[i] = Line("opt", u[i])
    <3> TAKE i \in 1 .. Len(u)
    <3>1. v[i] = g[p + 1 + i]
      BY <2>4, <2>6
    <3>2. g[p + 1 + i] = Line("opt", u[i])
      BY <1>2 DEF Pasted
    <3>3. QED
      BY <3>1, <3>2
  <2>8. v = [i \in 1 .. Len(u) |-> v[i]]
    <3>1. v \in [1 .. Len(v) -> Lines]
      BY <2>6, LenProperties
    <3>2. Len(v) = Len(u)
      BY <2>4, <2>6
    <3>3. v \in [1 .. Len(u) -> Lines]
      BY <3>1, <3>2
    <3>4. QED
      BY <3>3
  <2>9. DOMAIN u = 1 .. Len(u)
    BY UpdateIs
  <2>10. v = OptionLines(u)
    BY <2>7, <2>8, <2>9 DEF OptionLines
  <2>11. QED
    BY <2>3, <2>5, <2>10
<1>17. QED
  BY <1>1, <1>14, <1>15, <1>16

\* So the old entry goes, and the new one comes.
LEMMA ReplaceTable ==
  ASSUME NEW f, WellFormed(f), NEW n \in Names, NEW u \in Updates
  PROVE  /\ Rest(replacePathBlock(f, n, u)) = Rest(f)
         /\ PathNames(replacePathBlock(f, n, u)) = PathNames(f) \cup {n}
         /\ Table(replacePathBlock(f, n, u))[n] = OptionLines(u)
         /\ \A m \in PathNames(f) : m # n => Table(replacePathBlock(f, n, u))[m] = Table(f)[m]
<1>1. Form(f, pathsStart(f), pathsEnd(f))
  BY FormOf
<1>2. PICK h, s : h = removePathBlock(f, n) /\ s = pathsStart(f)
  OBVIOUS
<1>3. /\ \E d \in Nat : Form(h, s, d)
      /\ \A i \in 1 .. Len(h) : h[i].kind = "path" => h[i].arg # n
  BY <1>1, <1>2, RemoveForm
<1>4. PICK d \in Nat : Form(h, s, d)
  BY <1>3
<1>5. PICK g : g = replacePathBlock(f, n, u)
  OBVIOUS
<1>6. g = Inserted(h, n, u)
  BY <1>2, <1>4, <1>5, ReplaceIs
<1>7. /\ Rest(g) = Rest(h)
      /\ PathNames(g) = PathNames(h) \cup {n}
      /\ Table(g)[n] = OptionLines(u)
      /\ \A m \in PathNames(h) : Table(g)[m] = Table(h)[m]
  BY <1>3, <1>4, <1>6, InsertTable
<1>8. /\ Rest(h) = Rest(f)
      /\ PathNames(h) = PathNames(f) \ {n}
      /\ \A m \in PathNames(h) : Table(h)[m] = Table(f)[m]
  <2>1. CASE found(f, n)
    BY <1>2, <2>1, RemoveTable
  <2>2. CASE ~ found(f, n)
    <3>1. h = f
      BY <1>2, <2>2 DEF removePathBlock, First
    <3>2. f \in Seq(Lines)
      BY DEF WellFormed
    <3>3. n \notin PathNames(f)
      BY <1>1, <2>2, <3>2, FoundIs, NamesOf
    <3>4. QED
      BY <3>1, <3>3
  <2>3. QED
    BY <2>1, <2>2
<1>9. QED
  BY <1>5, <1>7, <1>8

\* The same, as steps of the table.
LEMMA RemoveDrops ==
  ASSUME NEW n \in Names, found(file, n), file' = removePathBlock(file, n)
  PROVE  Promise!Drop(n)
<1> SUFFICES ASSUME WellFormed(file)
             PROVE  /\ WellFormed(file') /\ Rest(file') = Rest(file)
                    /\ n \in DOMAIN Table(file)
                    /\ Table(file') = Restrict(Table(file), DOMAIN Table(file) \ {n})
  BY DEF Promise!Drop, Promise!Restrict, Restrict
<1>1. PICK f, h : f = file /\ h = file'
  OBVIOUS
<1>2. WellFormed(f) /\ found(f, n) /\ h = removePathBlock(f, n)
  BY <1>1
<1>3. /\ Rest(h) = Rest(f)
      /\ n \in PathNames(f)
      /\ PathNames(h) = PathNames(f) \ {n}
      /\ \A m \in PathNames(h) : Table(h)[m] = Table(f)[m]
  BY <1>2, RemoveTable
<1>4. n \in DOMAIN Table(f) /\ Table(h) = Restrict(Table(f), DOMAIN Table(f) \ {n})
  <2>1. PICK T, U : T = Table(f) /\ U = Table(h)
    OBVIOUS
  <2>2. /\ DOMAIN T = PathNames(f)
        /\ U = [m \in PathNames(h) |-> U[m]]
    BY <2>1, TableFun
  <2>3. \A m \in PathNames(h) : U[m] = T[m]
    BY <1>3, <2>1
  <2>4. n \in DOMAIN T /\ U = Restrict(T, DOMAIN T \ {n})
    BY <1>3, <2>2, <2>3 DEF Restrict
  <2>5. QED
    BY <2>1, <2>4
<1>5. WellFormed(h)
  BY <1>2, RemoveWellFormed
<1>6. QED
  BY <1>1, <1>3, <1>4, <1>5

LEMMA ReplacePuts ==
  ASSUME NEW n \in Names, NEW u \in Updates, file' = replacePathBlock(file, n, u)
  PROVE  Promise!Put(n, Rendered[u])
<1>0. Rendered[u] = OptionLines(u)
  BY DEF Rendered
<1> SUFFICES ASSUME WellFormed(file)
             PROVE  /\ WellFormed(file') /\ Rest(file') = Rest(file)
                    /\ Table(file') = [m \in DOMAIN Table(file) \cup {n} |->
                                        IF m = n THEN OptionLines(u) ELSE Table(file)[m]]
  BY <1>0 DEF Promise!Put
<1>1. PICK f, h : f = file /\ h = file'
  OBVIOUS
<1>2. WellFormed(f) /\ h = replacePathBlock(f, n, u)
  BY <1>1
<1>3. /\ Rest(h) = Rest(f)
      /\ PathNames(h) = PathNames(f) \cup {n}
      /\ Table(h)[n] = OptionLines(u)
      /\ \A m \in PathNames(f) : m # n => Table(h)[m] = Table(f)[m]
  BY <1>2, ReplaceTable
<1>4. Table(h) = [m \in DOMAIN Table(f) \cup {n} |-> IF m = n THEN OptionLines(u) ELSE Table(f)[m]]
  <2>1. PICK T, U : T = Table(f) /\ U = Table(h)
    OBVIOUS
  <2>2. /\ DOMAIN T = PathNames(f)
        /\ U = [m \in PathNames(h) |-> U[m]]
    BY <2>1, TableFun
  <2>3. U[n] = OptionLines(u) /\ \A m \in PathNames(f) : m # n => U[m] = T[m]
    BY <1>3, <2>1
  <2>4. U = [m \in DOMAIN T \cup {n} |-> IF m = n THEN OptionLines(u) ELSE T[m]]
    BY <1>3, <2>2, <2>3
  <2>5. QED
    BY <2>1, <2>4
<1>5. WellFormed(h)
  BY <1>2, ReplaceWellFormed
<1>6. QED
  BY <1>1, <1>3, <1>4, <1>5

\* Nothing is changed in the file.
LEMMA FileSame ==
  ASSUME file' = file
  PROVE  Promise!Same
  BY DEF Promise!Same

\* Every step of a request is a step of the table's.
LEMMA RequestOfTable ==
  ASSUME RequestsOK, NEW r \in Requests, SetPath(r) \/ DeleteOld(r) \/ UndoNew(r)
  PROVE  Promise!Step(r)
<1>1. /\ reqs \in [Requests -> RequestType] /\ reqs[r] \in RequestType
      /\ reqs[r].pc # "idle" => reqs[r].new \in Names /\ reqs[r].update \in Updates
      /\ reqs[r].pc = "delete" => reqs[r].old \in Names
  BY DEF RequestsOK
<1>2. PICK x : x = reqs[r]
  OBVIOUS
<1>3. \A q \in Requests \ {r} : reqs'[q] = reqs[q]
  BY <1>1 DEF SetPath, DeleteOld, UndoNew
<1>4. ASSUME reqs' = [reqs EXCEPT ![r] = NoRequest]
      PROVE  Promise!Ends(r)
  BY <1>1, <1>4 DEF Promise!Ends, NoRequest
<1>5. CASE SetPath(r)
  <2>0. x.pc = "set" /\ x.new \in Names /\ x.update \in Updates
    BY <1>1, <1>2, <1>5 DEF SetPath
  <2>1. CASE WriteFails /\ reqs' = [reqs EXCEPT ![r] = NoRequest]
    <3>1. Promise!Fail(r)
      BY <1>2, <1>4, <2>0, <2>1, FileSame DEF Promise!Fail, WriteFails
    <3>2. QED
      BY <1>3, <3>1 DEF Promise!Step
  <2>2. CASE /\ writeConfigFile(replacePathBlock(file, reqs[r].new, reqs[r].update))
             /\ reqs' = [reqs EXCEPT ![r] =
                           IF @.old \in {None, @.new} THEN NoRequest
                           ELSE [@ EXCEPT !.pc = "delete", !.had = found(file, reqs[r].new)]]
    <3>1. file' = replacePathBlock(file, x.new, x.update)
      BY <1>2, <2>2 DEF writeConfigFile
    <3>2. Promise!Put(x.new, Rendered[x.update])
      BY <2>0, <3>1, ReplacePuts
    <3>3. CASE x.old \in {None, x.new}
      <4>1. reqs' = [reqs EXCEPT ![r] = NoRequest]
        BY <1>1, <1>2, <2>2, <3>3
      <4>2. Promise!Set(r)
        BY <1>2, <1>4, <2>0, <3>2, <3>3, <4>1 DEF Promise!Set
      <4>3. QED
        BY <1>3, <4>2 DEF Promise!Step
    <3>4. CASE x.old \notin {None, x.new}
      <4>1. PICK y : y = [x EXCEPT !.pc = "delete", !.had = found(file, x.new)]
        OBVIOUS
      <4>2. reqs'[r] = y
        BY <1>1, <1>2, <2>2, <3>4, <4>1
      <4>3. y.pc = "delete" /\ y.new = x.new /\ y.old = x.old
        BY <1>1, <1>2, <4>1 DEF RequestType
      <4>4. Promise!GoesOn(r, "delete")
        BY <1>2, <4>2, <4>3 DEF Promise!GoesOn
      <4>5. Promise!Set(r)
        BY <1>2, <2>0, <3>2, <3>4, <4>4 DEF Promise!Set
      <4>6. QED
        BY <1>3, <4>5 DEF Promise!Step
    <3>5. QED
      BY <3>3, <3>4
  <2>3. QED
    BY <1>5, <2>1, <2>2 DEF SetPath
<1>6. CASE DeleteOld(r)
  <2>0. x.pc = "delete" /\ x.old \in Names
    BY <1>1, <1>2, <1>6 DEF DeleteOld
  <2>1. CASE /\ found(file, reqs[r].old)
             /\ writeConfigFile(removePathBlock(file, reqs[r].old))
             /\ reqs' = [reqs EXCEPT ![r] = NoRequest]
    <3>1. Promise!Drop(x.old)
      BY <1>2, <2>0, <2>1, RemoveDrops DEF writeConfigFile
    <3>2. Promise!DropOld(r)
      BY <1>2, <1>4, <2>0, <2>1, <3>1 DEF Promise!DropOld
    <3>3. QED
      BY <1>3, <3>2 DEF Promise!Step
  <2>2. CASE file' = file /\ reqs' = [reqs EXCEPT ![r].pc = "undo"]
    <3>1. reqs'[r] = [x EXCEPT !.pc = "undo"]
      BY <1>1, <1>2, <2>2
    <3>2. Promise!GoesOn(r, "undo")
      BY <1>1, <1>2, <3>1 DEF Promise!GoesOn, RequestType
    <3>3. Promise!GiveUp(r)
      BY <1>2, <2>0, <2>2, <3>2, FileSame DEF Promise!GiveUp
    <3>4. QED
      BY <1>3, <3>3 DEF Promise!Step
  <2>3. QED
    BY <1>6, <2>1, <2>2 DEF DeleteOld, WriteFails
<1>7. CASE UndoNew(r)
  <2>0. x.pc = "undo" /\ x.new \in Names /\ Promise!Ends(r)
    BY <1>1, <1>2, <1>4, <1>7 DEF UndoNew
  <2>1. Promise!Drop(x.new) \/ Promise!Same
    <3>1. file' = file \/ (found(file, x.new) /\ file' = removePathBlock(file, x.new))
      BY <1>2, <1>7 DEF UndoNew, writeConfigFile, WriteFails
    <3>2. QED
      BY <2>0, <3>1, RemoveDrops, FileSame
  <2>2. Promise!Undo(r)
    BY <1>2, <2>0, <2>1 DEF Promise!Undo
  <2>3. QED
    BY <1>3, <2>2 DEF Promise!Step
<1>8. QED
  BY <1>5, <1>6, <1>7

\* Every step of the editor is a step of the table, or changes nothing in it.
LEMMA EditorStep ==
  ASSUME RequestsOK, [Next]_vars
  PROVE  Promise!TableNext \/ (file' = file /\ reqs' = reqs)
<1>1. ASSUME NEW r \in Requests, SetPath(r) \/ DeleteOld(r) \/ UndoNew(r)
      PROVE  Promise!TableNext
  BY <1>1, RequestOfTable DEF Promise!TableNext
<1>2. ASSUME NEW n \in Names, DeleteConfig(n)
      PROVE  Promise!TableNext \/ (file' = file /\ reqs' = reqs)
  <2>1. reqs' = reqs /\ (file' = file \/ (found(file, n) /\ file' = removePathBlock(file, n)))
    BY <1>2 DEF DeleteConfig, writeConfigFile, WriteFails
  <2>2. found(file, n) /\ file' = removePathBlock(file, n) => Promise!Drop(n)
    BY RemoveDrops
  <2>3. Promise!Drop(n) => Promise!Delete(n)
    BY <2>1 DEF Promise!Delete
  <2>4. QED
    BY <2>1, <2>2, <2>3 DEF Promise!TableNext
<1>3. ASSUME NEW lines \in HandFiles, Write(lines)
      PROVE  Promise!TableNext \/ (file' = file /\ reqs' = reqs)
  <2>1. reqs' = reqs /\ (file' = file \/ file' = lines)
    BY <1>3 DEF Write, writeConfigFile, WriteFails
  <2>2. CASE file' = lines
    <3>1. <<Table(lines), Rest(lines), WellFormed(lines)>> \in Saved
      BY DEF Saved
    <3>2. <<Table(file'), Rest(file'), WellFormed(file')>> \in Saved
      BY <2>2, <3>1
    <3>3. Promise!Rewrite
      BY <2>1, <3>2 DEF Promise!Rewrite
    <3>4. QED
      BY <3>3 DEF Promise!TableNext
  <2>3. QED
    BY <2>1, <2>2
<1>4. ASSUME NEW r \in Requests, NEW new, NEW old, NEW source, Apply(r, new, old, source)
      PROVE  Promise!TableNext
  <2>1. /\ reqs[r].pc = "idle" /\ reqs'[r].pc = "set" /\ file' = file
        /\ \A q \in Requests \ {r} : reqs'[q] = reqs[q]
    BY <1>4 DEF Apply, NoRequest, RequestsOK
  <2>2. Promise!Ask(r)
    BY <2>1, FileSame DEF Promise!Ask
  <2>3. Promise!Step(r)
    BY <2>1, <2>2 DEF Promise!Step
  <2>4. QED
    BY <2>3 DEF Promise!TableNext
<1>5. CASE Crash
  <2>1. file' = file /\ \A r \in Requests : Promise!Ends(r)
    BY <1>5 DEF Crash, Promise!Ends, NoRequest
  <2>2. Promise!Die
    BY <2>1, FileSame DEF Promise!Die
  <2>3. QED
    BY <2>2 DEF Promise!TableNext
<1>6. UNCHANGED vars => file' = file /\ reqs' = reqs
  BY DEF vars
<1>7. QED
  BY <1>1, <1>2, <1>3, <1>4, <1>5, <1>6 DEF Next, PutConfigFile

\* The editor implements StreamTable, for any number of cameras, names, requests
\* in progress and files that a save accepts, tidy or not, and however requests
\* fail, overlap or are cut short: as long as the file is tidy it stays tidy, and
\* a request changes the entries it names, in its order, and nothing else.
THEOREM EditorImplementsTable == Spec => Implements
<1>1. Init => Promise!TableInit
  <2> SUFFICES ASSUME Init PROVE Promise!TableInit
    OBVIOUS
  <2>1. <<Table(file), Rest(file), WellFormed(file)>> \in Saved
    BY DEF Init, Saved
  <2>2. \A r \in Requests : reqs[r].pc = "idle"
    BY DEF Init, NoRequest
  <2>3. QED
    BY <2>1, <2>2 DEF Promise!TableInit
<1>2. RequestsOK /\ [Next]_vars
        => [Promise!TableNext]_<<Table(file), Rest(file), WellFormed(file), reqs>>
  <2> SUFFICES ASSUME RequestsOK, [Next]_vars
               PROVE  [Promise!TableNext]_<<Table(file), Rest(file), WellFormed(file), reqs>>
    OBVIOUS
  <2>1. file' = file => /\ Table(file)' = Table(file) /\ Rest(file)' = Rest(file)
                        /\ WellFormed(file)' = WellFormed(file)
    OBVIOUS
  <2>2. QED
    BY <2>1, EditorStep
<1>3. QED
  BY <1>1, <1>2, RequestsInvariant, PTL
     DEF Spec, Implements, Promise!TableSpec, Promise!tableVars

=============================================================================
