------------------------ MODULE CameraNetworkProofs ------------------------
(***************************************************************************)
(* What holds of the temporary camera network for subnets of any size, any *)
(* hosts on them, any window of candidates, any lifetime and any number of *)
(* requests and faults.                                                    *)
(***************************************************************************)
EXTENDS CameraNetwork, WellFoundedInduction, TLAPS

(* selectAddress.                                                           *)

\* Every set of naturals that is not empty has a least element: induction over
\* the naturals in a form without an operator parameter.
LEMMA Least ==
  ASSUME NEW T \in SUBSET Nat, T # {}
  PROVE  \E x \in T : \A y \in T : x <= y
<1> DEFINE R == OpToRel(<, Nat)
<1>1. \A x, y \in Nat : <<y, x>> \in R <=> y < x
  BY DEF OpToRel
<1>2. IsWellFoundedOn(R, Nat)
  BY NatLessThanWellFounded
<1> HIDE DEF R
<1>3. PICK x \in T : \A y \in T : ~(<<y, x>> \in R)
  BY <1>2, WFMin
<1>4. \A y \in T : x <= y
  <2> TAKE y \in T
  <2>1. x \in Nat /\ y \in Nat
    OBVIOUS
  <2>2. ~(y < x)
    BY <1>1, <1>3, <2>1
  <2>3. QED
    BY <2>1, <2>2
<1>5. QED
  BY <1>4

\* The maximum of a bounded set of naturals is one of its elements.
LEMMA Greatest ==
  ASSUME NEW n \in Nat, NEW T \in SUBSET (0 .. n), T # {}
  PROVE  /\ Max(T) \in T
         /\ \A y \in T : y <= Max(T)
<1> DEFINE B == {k \in Nat : \E m \in T : k = n - m}
<1>1. PICK m \in T : TRUE
  OBVIOUS
<1>2. n - m \in B /\ B \in SUBSET Nat
  OBVIOUS
<1>3. PICK x \in B : \A y \in B : x <= y
  BY <1>2, Least
<1>4. PICK z \in T : x = n - z
  BY <1>3
<1>5. \A y \in T : z >= y
  <2> TAKE y \in T
  <2>1. n - y \in B
    OBVIOUS
  <2>2. x <= n - y
    BY <1>3, <2>1
  <2>3. y \in Nat /\ z \in Nat
    OBVIOUS
  <2> HIDE DEF B
  <2>4. QED
    BY <1>4, <2>2, <2>3
<1>6. \E w \in T : \A y \in T : w >= y
  BY <1>5
<1>7. Max(T) \in T /\ \A y \in T : Max(T) >= y
  BY <1>6 DEF Max
<1>8. QED
  BY <1>7

\* The loop of selectAddress, from the top down, returns the highest address of
\* its window that is not in use: the function that does so satisfies the
\* recursion, and no other one does, as two solutions that differ would differ at
\* a least address, whose predecessor decides both.
LEMMA SelectAddress ==
  ASSUME NEW camera, NEW gateway, NEW assigned
  PROVE  LET free == (1 .. (Size - 2)) \ ({camera, gateway} \cup assigned)
             candidates == {a \in free : Size - 2 - a < Tries}
         IN  selectAddress(camera, gateway, assigned) =
               IF candidates = {} THEN NoAddress ELSE Max(candidates)
<1> DEFINE used  == {camera, 0, Size - 1, gateway} \cup assigned
           start == Size - 2
           C(v)  == {a \in 1 .. v : a \notin used /\ start - a < Tries}
           Best(v) == IF C(v) = {} THEN NoAddress ELSE Max(C(v))
           Def(f) == [v \in 0 .. start |->
                        IF v < 1 \/ start - v >= Tries THEN NoAddress
                        ELSE IF v \notin used THEN v
                        ELSE f[v - 1]]
           best == [v \in 0 .. start |-> Best(v)]
<1>1. start \in Nat /\ start >= 2 /\ Tries \in Nat
  BY NetworkAssumption
<1>2. selectAddress(camera, gateway, assigned) = (CHOOSE f : f = Def(f))[start]
  BY DEF selectAddress
<1>3. ASSUME NEW v \in 0 .. start
      PROVE  Best(v) = IF v < 1 \/ start - v >= Tries THEN NoAddress
                       ELSE IF v \notin used THEN v
                       ELSE Best(v - 1)
  <2>1. CASE v < 1 \/ start - v >= Tries
    <3>1. C(v) = {}
      BY <1>1, <2>1
    <3>2. QED
      BY <2>1, <3>1
  <2>2. CASE ~(v < 1 \/ start - v >= Tries) /\ v \notin used
    <3>1. v \in C(v) /\ C(v) \in SUBSET (0 .. v) /\ v \in Nat
      BY <1>1, <2>2
    <3>2. Max(C(v)) \in 1 .. v /\ v <= Max(C(v))
      BY <3>1, Greatest
    <3>3. Max(C(v)) = v
      BY <3>1, <3>2
    <3>4. QED
      BY <2>2, <3>1, <3>3
  <2>3. CASE ~(v < 1 \/ start - v >= Tries) /\ v \in used
    <3>1. C(v) = C(v - 1)
      BY <1>1, <2>3
    <3>2. QED
      BY <2>3, <3>1
  <2>4. QED
    BY <2>1, <2>2, <2>3
<1> HIDE DEF Best
<1>4. best = Def(best)
  <2>1. \A v \in 1 .. start : v - 1 \in 0 .. start /\ best[v - 1] = Best(v - 1)
    BY <1>1
  <2>2. QED
    BY <1>1, <1>3, <2>1
<1> HIDE DEF best
<1>5. ASSUME NEW f, f = Def(f) PROVE f = best
  <2> DEFINE bad == {v \in 0 .. start : f[v] # best[v]}
  <2>1. bad = {}
    <3> SUFFICES ASSUME bad # {} PROVE FALSE
      OBVIOUS
    <3>1. bad \in SUBSET Nat
      BY <1>1
    <3>2. PICK v \in bad : \A w \in bad : v <= w
      BY <3>1, Least
    <3>3. v \in 0 .. start /\ f[v] # best[v]
      OBVIOUS
    <3>4. v - 1 \in 0 .. start => f[v - 1] = best[v - 1]
      <4> SUFFICES ASSUME v - 1 \in 0 .. start, v - 1 \in bad PROVE FALSE
        OBVIOUS
      <4>1. v <= v - 1
        BY <3>2
      <4>2. QED
        BY <1>1, <3>3, <4>1
    <3>5. f[v] = Def(f)[v] /\ best[v] = Def(best)[v]
      BY <1>4, <1>5
    <3>6. QED
      BY <1>1, <3>3, <3>4, <3>5
  <2>2. f = [v \in 0 .. start |-> f[v]]
    BY <1>5
  <2>3. best = [v \in 0 .. start |-> best[v]]
    BY DEF best
  <2>4. QED
    BY <2>1, <2>2, <2>3
<1>6. (CHOOSE f : f = Def(f)) = best
  BY <1>4, <1>5
<1>7. selectAddress(camera, gateway, assigned) = Best(start)
  <2> HIDE DEF Def
  <2>1. selectAddress(camera, gateway, assigned) = best[start]
    BY <1>2, <1>6
  <2>2. best[start] = Best(start)
    BY <1>1 DEF best
  <2>3. QED
    BY <2>1, <2>2
<1>8. C(start) = {a \in (1 .. (Size - 2)) \ ({camera, gateway} \cup assigned) : Size - 2 - a < Tries}
  <2>1. \A a \in 1 .. (Size - 2) : a # 0 /\ a # Size - 1
    BY NetworkAssumption
  <2>2. QED
    BY <2>1
<1>9. QED
  BY <1>7, <1>8 DEF Best

\* The address is a host address of the subnet that the kernel does not have.
LEMMA SelectedIsHost ==
  ASSUME NEW camera, NEW gateway, NEW assigned,
         selectAddress(camera, gateway, assigned) # NoAddress
  PROVE  selectAddress(camera, gateway, assigned) \in (1 .. (Size - 2)) \ assigned
<1> DEFINE candidates == {a \in (1 .. (Size - 2)) \ ({camera, gateway} \cup assigned) :
                            Size - 2 - a < Tries}
<1>1. /\ selectAddress(camera, gateway, assigned) = Max(candidates)
      /\ candidates # {}
  BY SelectAddress
<1>2. Size - 2 \in Nat /\ candidates \in SUBSET (0 .. (Size - 2))
  BY NetworkAssumption
<1>3. Max(candidates) \in candidates
  BY <1>1, <1>2, Greatest
<1>4. QED
  BY <1>1, <1>3

-----------------------------------------------------------------------------
(* The inductive invariant.                                                 *)

HostRequest == [id : IDs, address : 1 .. (Size - 2)]

\* The helper works on a request for a host address that nobody else answers for.
HelperOK ==
  /\ helper \in [pc : {"idle", "read", "probe", "add", "record", "answer"},
                 request : HostRequest \cup {NoRequest}, leases : SUBSET StatusType, at : Nat]
  /\ helper.at <= now
  /\ request \in HostRequest \cup {NoRequest}
  /\ trigger = "pending" \/ helper.pc = "read" => request \in HostRequest
  /\ helper.pc \notin {"idle", "read"} => helper.request \in HostRequest
  /\ helper.pc = "add" => helper.request.address \notin Hosts

\* What the client may be answered with, now or later.
Records == {status} \cup leases \cup helper.leases

\* No file and no process knows an ID that has not been handed out.
IdsOK ==
  /\ request.id <= requests
  /\ helper.request.id <= requests
  /\ ensure <= requests
  /\ \A l \in Records : l.id <= requests

\* The kernel keeps the address at least as long as the lease says.
Backed(l) == now < l.expires => l.address \in Addresses /\ kernel[l.address] >= l.expires

\* So it is for the lease that was granted, and for every record of the request
\* that the client is waiting for. It is not so for the other records: the files
\* survive a reboot, and the addresses do not.
BackedOK ==
  /\ Backed(granted)
  /\ ensure # 0 => \A l \in Records : l.id = ensure => Backed(l)

IInv ==
  /\ TypeOK
  /\ HelperOK
  /\ IdsOK
  /\ BackedOK
  /\ AddressIsFree

-----------------------------------------------------------------------------
(* The steps.                                                               *)

\* A request that has an ID is not NoRequest.
LEMMA RequestFields ==
  /\ \A r \in HostRequest : r.id \in IDs /\ r.address \in Addresses /\ r # NoRequest
  /\ HostRequest \subseteq [id : IDs, address : Addresses]
  /\ 0 \notin IDs /\ IDs \subseteq Nat /\ Addresses \subseteq Nat /\ 1 .. (Size - 2) \subseteq Addresses
<1>1. 0 \notin IDs /\ IDs \subseteq Nat /\ Addresses \subseteq Nat /\ 1 .. (Size - 2) \subseteq Addresses
  BY NetworkAssumption DEF IDs, Addresses
<1>2. QED
  BY <1>1 DEF HostRequest, NoRequest

\* A failed answer, and the one of the first start, is no lease.
LEMMA FailedAnswer ==
  ASSUME NEW id \in IDs \cup {0}
  PROVE  /\ NoStatus \in StatusType /\ NoStatus.id = 0 /\ NoStatus.expires = 0
         /\ [NoStatus EXCEPT !.id = id, !.state = "failed"] \in StatusType
         /\ [NoStatus EXCEPT !.id = id, !.state = "failed"].id = id
         /\ [NoStatus EXCEPT !.id = id, !.state = "failed"].expires = 0
<1>1. NoStatus \in StatusType /\ NoStatus.id = 0 /\ NoStatus.expires = 0
  BY DEF NoStatus, StatusType
<1>2. QED
  BY <1>1 DEF StatusType

\* A fault is counted up to the bound.
LEMMA FaultType ==
  ASSUME TypeOK, NEW kind, Fault(kind)
  PROVE  faults' \in 0 .. MaxFaults
  BY NetworkAssumption DEF Fault, TypeOK

\* An idle helper has nothing that could be wrong.
LEMMA IdleHelperOK ==
  /\ IdleHelper \in [pc : {"idle", "read", "probe", "add", "record", "answer"},
                     request : HostRequest \cup {NoRequest}, leases : SUBSET StatusType, at : Nat]
  /\ IdleHelper.pc = "idle" /\ IdleHelper.request = NoRequest
  /\ IdleHelper.leases = {} /\ IdleHelper.at = 0
  BY DEF IdleHelper

\* No address, no file, no helper.
LEMMA InitOK == Init => IInv
<1> SUFFICES ASSUME Init PROVE IInv
  OBVIOUS
<1> USE DEF Init
<1>1. NoStatus \in StatusType /\ NoStatus.expires = 0 /\ NoStatus.id = 0
  BY FailedAnswer
<1>2. kernel \in [Addresses -> Nat]
  OBVIOUS
<1>3. TypeOK
  BY <1>1, <1>2, NetworkAssumption, IdleHelperOK DEF TypeOK
<1>4. HelperOK
  <2>1. now = 1 /\ helper = IdleHelper /\ request = NoRequest /\ trigger = "none"
    OBVIOUS
  <2> HIDE DEF Init
  <2>2. QED
    BY <2>1, IdleHelperOK DEF HelperOK
<1>5. IdsOK
  BY <1>1, IdleHelperOK DEF IdsOK, Records, NoRequest
<1>6. BackedOK
  BY <1>1 DEF BackedOK, Backed
<1>7. AddressIsFree
  BY DEF AddressIsFree, Assigned
<1>8. QED
  BY <1>3, <1>4, <1>5, <1>6, <1>7 DEF IInv

\* Client.Ensure publishes a request: its ID is new, so that no record answers it.
LEMMA RequestStep ==
  ASSUME IInv, NEW camera, NEW gateway, Request(camera, gateway)
  PROVE  IInv'
<1> USE DEF IInv
<1> DEFINE address == selectAddress(camera, gateway, Assigned)
<1>1. requests' \in IDs /\ requests' = requests + 1 /\ requests \in Nat
  BY NetworkAssumption DEF Request, TypeOK, IDs, atomicJSON
<1>2. faults' \in 0 .. MaxFaults
  BY FaultType DEF Request, TypeOK, atomicJSON
<1>3. address # NoAddress => [id |-> requests', address |-> address] \in HostRequest
  BY <1>1, SelectedIsHost DEF HostRequest
<1>4. /\ UNCHANGED <<now, kernel, status, leases, helper, granted>>
      /\ \/ /\ request' \in HostRequest /\ request'.id = requests'
            /\ trigger' = "pending" \/ (helper.pc # "idle" /\ trigger' = trigger)
            /\ ensure' = requests'
         \/ UNCHANGED <<request, trigger, ensure>>
  <2> HIDE DEF address
  <2>1. QED
    BY <1>3 DEF Request, address, atomicJSON
<1>5. request' \in HostRequest \cup {NoRequest}
  BY <1>4 DEF HelperOK
<1>6. TypeOK'
  <2>1. request' \in [id : IDs, address : Addresses] \cup {NoRequest}
    BY <1>5, RequestFields
  <2>2. QED
    BY <1>1, <1>2, <1>4, <2>1 DEF TypeOK, IDs
<1>7. HelperOK'
  BY <1>4, <1>5 DEF HelperOK
<1>8. IdsOK'
  <2>1. request.id \in Int /\ helper.request.id \in Int
    BY NetworkAssumption DEF HelperOK, NoRequest, HostRequest, IDs
  <2>2. \A l \in Records : l.id \in Int
    BY NetworkAssumption DEF Records, TypeOK, StatusType, IDs
  <2>3. request'.id <= requests'
    <3>1. request.id <= requests
      BY DEF IdsOK
    <3>2. request'.id = requests' \/ request'.id = request.id
      BY <1>4
    <3>3. QED
      BY <1>1, <2>1, <3>1, <3>2
  <2>4. helper'.request.id <= requests' /\ ensure' <= requests'
    <3>1. helper.request.id <= requests /\ ensure <= requests /\ ensure \in Int
      BY RequestFields DEF IdsOK, TypeOK
    <3>2. helper' = helper /\ ensure' \in {ensure, requests'}
      BY <1>4
    <3>3. QED
      BY <1>1, <2>1, <3>1, <3>2
  <2>5. Records' = Records
    BY <1>4 DEF Records
  <2>6. QED
    BY <1>1, <2>2, <2>3, <2>4, <2>5 DEF IdsOK
<1>9. BackedOK'
  <2>1. Records' = Records /\ \A l : Backed(l)' <=> Backed(l)
    BY <1>4 DEF Records, Backed
  <2>2. CASE ensure' = ensure
    BY <1>4, <2>1, <2>2 DEF BackedOK
  <2>3. CASE ensure' = requests'
    <3>1. \A l \in Records : l.id # requests'
      BY <1>1, RequestFields DEF Records, TypeOK, StatusType, IdsOK
    <3>2. QED
      BY <1>4, <2>1, <2>3, <3>1 DEF BackedOK, Backed
  <2>4. QED
    BY <1>4, <2>2, <2>3
<1>10. AddressIsFree'
  BY <1>4 DEF AddressIsFree, Assigned
<1>11. QED
  BY <1>6, <1>7, <1>8, <1>9, <1>10

\* Client.Ensure ends. The status it returns is one of its own request.
LEMMA EnsureEnds ==
  ASSUME IInv, Answered \/ GiveUp
  PROVE  IInv'
<1> USE DEF IInv
<1>1. /\ granted' \in {granted, status}
      /\ granted' # granted => status.id = ensure /\ ensure # 0
      /\ ensure' = 0 /\ UNCHANGED <<now, kernel, files, trigger, helper, requests, faults>>
  BY DEF Answered, GiveUp
<1>2. TypeOK'
  BY <1>1 DEF TypeOK, files
<1>3. HelperOK'
  BY <1>1 DEF HelperOK, files
<1>4. IdsOK'
  BY <1>1 DEF IdsOK, Records, TypeOK, files
<1>5. BackedOK'
  BY <1>1 DEF BackedOK, Backed, Records, files
<1>6. AddressIsFree'
  BY <1>1 DEF AddressIsFree, Assigned
<1>7. QED
  BY <1>2, <1>3, <1>4, <1>5, <1>6

\* The helper reads the files, or ends without an answer.
LEMMA HelperIdles ==
  ASSUME IInv, UNCHANGED <<now, kernel, files, ensure, granted, requests>>,
         helper' = IdleHelper, UNCHANGED trigger, faults' \in 0 .. MaxFaults
  PROVE  IInv'
<1> USE DEF IInv
<1>1. TypeOK'
  BY IdleHelperOK DEF TypeOK, files
<1>2. HelperOK'
  BY IdleHelperOK DEF HelperOK, TypeOK, files
<1>3. IdsOK'
  BY IdleHelperOK DEF IdsOK, Records, TypeOK, NoRequest, files
<1>4. BackedOK'
  BY IdleHelperOK DEF BackedOK, Backed, Records, files
<1>5. AddressIsFree'
  BY DEF AddressIsFree, Assigned
<1>6. QED
  BY <1>1, <1>2, <1>3, <1>4, <1>5

\* Helper.fail, and a command that fails: the request has its answer.
LEMMA FailStep ==
  ASSUME IInv, helper.pc \in {"probe", "add"}, Fail(helper.request.id) \/ CommandFails,
         UNCHANGED <<now, request, trigger, ensure, granted, requests>>
  PROVE  IInv'
<1> USE DEF IInv
<1>1. faults' \in 0 .. MaxFaults
  BY FaultType DEF Fail, CommandFails, TypeOK, atomicJSON
<1>2. helper' = IdleHelper /\ UNCHANGED <<kernel, leases>>
  BY DEF Fail, CommandFails, atomicJSON
<1>3. CASE UNCHANGED status
  BY <1>1, <1>2, <1>3, HelperIdles DEF files
<1>4. CASE status' = [NoStatus EXCEPT !.id = helper.request.id, !.state = "failed"]
  <2>1. helper.request \in HostRequest /\ helper.request.id \in IDs
    BY RequestFields DEF HelperOK
  <2>2. status' \in StatusType /\ status'.id = helper.request.id /\ status'.expires = 0
    BY <1>4, <2>1, FailedAnswer
  <2>3. TypeOK'
    BY <1>1, <1>2, <2>2, IdleHelperOK DEF TypeOK
  <2>4. HelperOK'
    BY <1>2, IdleHelperOK DEF HelperOK, TypeOK
  <2>5. IdsOK'
    BY <1>2, <2>2, IdleHelperOK DEF IdsOK, Records, TypeOK, NoRequest
  <2>6. BackedOK'
    BY <1>2, <2>2, IdleHelperOK DEF BackedOK, Backed, Records, TypeOK
  <2>7. AddressIsFree'
    BY <1>2 DEF AddressIsFree, Assigned
  <2>8. QED
    BY <2>3, <2>4, <2>5, <2>6, <2>7
<1>5. QED
  BY <1>3, <1>4 DEF Fail, CommandFails, atomicJSON

\* The path unit starts the helper on the request that has changed.
LEMMA StartStep == ASSUME IInv, StartHelper PROVE IInv'
<1> USE DEF IInv
<1> DEFINE h == [IdleHelper EXCEPT !.pc = "read"]
<1>1. /\ h \in [pc : {"idle", "read", "probe", "add", "record", "answer"},
                request : HostRequest \cup {NoRequest}, leases : SUBSET StatusType, at : Nat]
      /\ h.pc = "read" /\ h.request = NoRequest /\ h.leases = {} /\ h.at = 0
  BY IdleHelperOK
<1>2. /\ helper' = h /\ trigger' = "none" /\ trigger = "pending"
      /\ UNCHANGED <<now, kernel, files, ensure, granted, requests, faults>>
  BY DEF StartHelper
<1> HIDE DEF h
<1>3. TypeOK'
  BY <1>1, <1>2 DEF TypeOK, files
<1>4. HelperOK'
  BY <1>1, <1>2 DEF HelperOK, TypeOK, files
<1>5. IdsOK'
  BY <1>1, <1>2 DEF IdsOK, Records, TypeOK, NoRequest, files
<1>6. BackedOK'
  BY <1>1, <1>2 DEF BackedOK, Backed, Records, files
<1>7. AddressIsFree'
  BY <1>2 DEF AddressIsFree, Assigned
<1>8. QED
  BY <1>3, <1>4, <1>5, <1>6, <1>7

\* The helper takes over the request and the leases of the files.
LEMMA ReadStep == ASSUME IInv, ReadRequest PROVE IInv'
<1> USE DEF IInv
<1> DEFINE live == {l \in leases : l.expires > now}
<1>1. /\ helper'.pc \in {"record", "probe"} /\ helper'.request = request
      /\ helper'.leases = live /\ helper'.at = now
      /\ helper' = [pc |-> helper'.pc, request |-> request, leases |-> live, at |-> now]
      /\ helper.pc = "read"
      /\ UNCHANGED <<now, kernel, files, trigger, ensure, granted, requests, faults>>
  BY DEF ReadRequest, readState
<1>2. request \in HostRequest /\ live \subseteq leases
  BY <1>1 DEF HelperOK
<1> HIDE DEF live
<1>3. TypeOK'
  BY <1>1, <1>2 DEF TypeOK, files
<1>4. HelperOK'
  <2>1. helper' \in [pc : {"idle", "read", "probe", "add", "record", "answer"},
                     request : HostRequest \cup {NoRequest}, leases : SUBSET StatusType, at : Nat]
    BY <1>1, <1>2 DEF TypeOK
  <2>2. helper'.at <= now'
    BY <1>1 DEF TypeOK
  <2>3. QED
    BY <1>1, <1>2, <2>1, <2>2 DEF HelperOK, files
<1>5. IdsOK'
  BY <1>1, <1>2 DEF IdsOK, Records, files
<1>6. BackedOK'
  BY <1>1, <1>2 DEF BackedOK, Backed, Records, files
<1>7. AddressIsFree'
  BY <1>1 DEF AddressIsFree, Assigned
<1>8. QED
  BY <1>3, <1>4, <1>5, <1>6, <1>7

\* Duplicate address detection.
LEMMA ProbeStep == ASSUME IInv, Probe PROVE IInv'
<1> USE DEF IInv
<1>1. CASE Fail(helper.request.id) \/ CommandFails
  BY <1>1, FailStep DEF Probe
<1>2. CASE /\ helper.request.address \notin Hosts
           /\ helper' = [helper EXCEPT !.pc = "add"]
           /\ UNCHANGED <<kernel, status, leases, faults>>
  <2>1. /\ helper' \in [pc : {"idle", "read", "probe", "add", "record", "answer"},
                        request : HostRequest \cup {NoRequest}, leases : SUBSET StatusType, at : Nat]
        /\ helper'.pc = "add" /\ helper'.request = helper.request
        /\ helper'.leases = helper.leases /\ helper'.at = helper.at
    BY <1>2 DEF HelperOK
  <2>2. UNCHANGED <<now, request, trigger, ensure, granted, requests>> /\ helper.pc = "probe"
    BY DEF Probe
  <2>3. TypeOK'
    BY <1>2, <2>1, <2>2 DEF TypeOK
  <2>4. HelperOK'
    BY <1>2, <2>1, <2>2 DEF HelperOK
  <2>5. IdsOK'
    BY <1>2, <2>1, <2>2 DEF IdsOK, Records
  <2>6. BackedOK'
    BY <1>2, <2>1, <2>2 DEF BackedOK, Backed, Records
  <2>7. AddressIsFree'
    BY <1>2 DEF AddressIsFree, Assigned
  <2>8. QED
    BY <2>3, <2>4, <2>5, <2>6, <2>7
<1>3. QED
  BY <1>1, <1>2 DEF Probe

\* The kernel gets the address, with a lifetime that starts later than that of
\* the lease; no lease that is still good has the same address.
LEMMA AddStep == ASSUME IInv, AddAddress PROVE IInv'
<1> USE DEF IInv
<1> DEFINE r == helper.request
           lease == [id |-> r.id, state |-> "ready", address |-> r.address, expires |-> helper.at + TTL]
<1>1. CASE Fail(r.id) \/ CommandFails
  BY <1>1, FailStep DEF AddAddress
<1>2. CASE /\ kernel[r.address] = 0
           /\ kernel' = [kernel EXCEPT ![r.address] = now + TTL]
           /\ helper' = [helper EXCEPT !.pc = "record", !.leases = @ \cup {lease}]
           /\ UNCHANGED <<status, leases, faults>>
  <2>1. r \in HostRequest /\ r.address \notin Hosts
    BY DEF AddAddress, HelperOK
  <2>2. r.id \in IDs /\ r.address \in Addresses /\ r.address \in 1 .. (Size - 2)
    BY <2>1, RequestFields DEF HostRequest
  <2>3. /\ now \in Nat /\ helper.at \in Nat /\ helper.at <= now /\ TTL \in Nat /\ TTL > 0
        /\ helper.at + TTL <= now + TTL
    BY NetworkAssumption DEF TypeOK, HelperOK
  <2>4. /\ lease \in StatusType /\ lease.id = r.id
        /\ lease.address = r.address /\ lease.expires = helper.at + TTL
    BY <2>2, <2>3 DEF StatusType
  <2> HIDE DEF lease
  <2>5. /\ helper' \in [pc : {"idle", "read", "probe", "add", "record", "answer"},
                        request : HostRequest \cup {NoRequest}, leases : SUBSET StatusType, at : Nat]
        /\ helper'.pc = "record" /\ helper'.request = helper.request
        /\ helper'.leases = helper.leases \cup {lease} /\ helper'.at = helper.at
    <3>1. helper.leases \cup {lease} \in SUBSET StatusType
      BY <2>4 DEF HelperOK
    <3>2. QED
      BY <1>2, <3>1 DEF HelperOK
  <2>6. UNCHANGED <<now, request, trigger, ensure, granted, requests>> /\ helper.pc = "add"
    BY DEF AddAddress
  <2>7. /\ kernel' \in [Addresses -> Nat] /\ kernel'[r.address] = now + TTL
        /\ \A a \in Addresses \ {r.address} : kernel'[a] = kernel[a]
    BY <1>2, <2>2, <2>3 DEF TypeOK
  <2>8. TypeOK'
    BY <1>2, <2>5, <2>6, <2>7 DEF TypeOK
  <2>9. HelperOK'
    BY <2>1, <2>5, <2>6 DEF HelperOK
  <2>10. IdsOK'
    BY <1>2, <2>4, <2>5, <2>6 DEF IdsOK, Records
  <2>11. BackedOK'
    <3>1. ASSUME NEW l \in StatusType, Backed(l) PROVE Backed(l)'
      <4> SUFFICES ASSUME now < l.expires PROVE l.address \in Addresses /\ kernel'[l.address] >= l.expires
        BY <2>6 DEF Backed
      <4>1. l.address \in Addresses /\ kernel[l.address] >= l.expires /\ l.expires \in Nat
        BY <3>1 DEF Backed, StatusType
      <4>2. l.address # r.address
        BY <1>2, <2>3, <4>1
      <4>3. QED
        BY <2>7, <4>1, <4>2
    <3> PICK new \in StatusType : new = lease
      BY <2>4
    <3>2. Backed(new)'
      <4>1. /\ new.address = r.address /\ new.expires = helper.at + TTL
            /\ kernel'[new.address] = now + TTL
        BY <2>4, <2>7
      <4>2. kernel'[new.address] >= new.expires
        BY <2>3, <4>1
      <4>3. QED
        BY <2>2, <4>1, <4>2 DEF Backed
    <3>3. granted \in StatusType /\ Records \subseteq StatusType
      BY DEF TypeOK, HelperOK, Records
    <3>4. Records' = Records \cup {new}
      BY <1>2, <2>5 DEF Records
    <3>5. QED
      BY <2>6, <3>1, <3>2, <3>3, <3>4 DEF BackedOK
  <2>12. AddressIsFree'
    <3>1. Assigned' \subseteq Assigned \cup {r.address}
      BY <2>7 DEF Assigned
    <3>2. r.address \notin Hosts \cup {0, Size - 1}
      BY <2>1, <2>2, NetworkAssumption
    <3>3. QED
      BY <3>1, <3>2 DEF AddressIsFree
  <2>13. QED
    BY <2>8, <2>9, <2>10, <2>11, <2>12
<1>3. QED
  BY <1>1, <1>2 DEF AddAddress

\* Helper.finish writes what the helper has in memory, first the leases.
LEMMA FinishStep == ASSUME IInv, Record \/ Answer PROVE IInv'
<1> USE DEF IInv
<1>1. faults' \in 0 .. MaxFaults
  BY FaultType DEF Record, Answer, TypeOK, atomicJSON
<1>2. UNCHANGED <<now, kernel, request, trigger, ensure, granted, requests>>
  BY DEF Record, Answer, atomicJSON
<1>3. CASE helper' = IdleHelper /\ UNCHANGED <<status, leases>>
  BY <1>1, <1>2, <1>3, HelperIdles DEF files
<1>4. CASE Record /\ leases' = helper.leases /\ helper' = [helper EXCEPT !.pc = "answer"]
  <2>1. /\ helper' \in [pc : {"idle", "read", "probe", "add", "record", "answer"},
                        request : HostRequest \cup {NoRequest}, leases : SUBSET StatusType, at : Nat]
        /\ helper'.pc = "answer" /\ helper'.request = helper.request
        /\ helper'.leases = helper.leases /\ helper'.at = helper.at
    BY <1>4 DEF HelperOK
  <2>2. helper.pc = "record" /\ UNCHANGED status
    BY <1>4 DEF Record, atomicJSON
  <2>3. TypeOK'
    BY <1>1, <1>2, <1>4, <2>1, <2>2 DEF TypeOK
  <2>4. HelperOK'
    BY <1>2, <2>1, <2>2 DEF HelperOK
  <2>5. IdsOK'
    BY <1>2, <1>4, <2>1, <2>2 DEF IdsOK, Records
  <2>6. BackedOK'
    BY <1>2, <1>4, <2>1, <2>2 DEF BackedOK, Backed, Records
  <2>7. AddressIsFree'
    BY <1>2 DEF AddressIsFree, Assigned
  <2>8. QED
    BY <2>3, <2>4, <2>5, <2>6, <2>7
<1>5. CASE Answer /\ \E l \in helper.leases : status' = l
  <2>1. status' \in helper.leases /\ helper' = IdleHelper /\ UNCHANGED leases
    BY <1>5 DEF Answer, atomicJSON
  <2>2. TypeOK'
    BY <1>1, <1>2, <2>1, IdleHelperOK DEF TypeOK
  <2>3. HelperOK'
    BY <1>2, <2>1, IdleHelperOK DEF HelperOK, TypeOK
  <2>4. IdsOK'
    BY <1>2, <2>1, IdleHelperOK DEF IdsOK, Records, TypeOK, NoRequest
  <2>5. BackedOK'
    BY <1>2, <2>1, IdleHelperOK DEF BackedOK, Backed, Records
  <2>6. AddressIsFree'
    BY <1>2 DEF AddressIsFree, Assigned
  <2>7. QED
    BY <2>2, <2>3, <2>4, <2>5, <2>6
<1>6. QED
  BY <1>3, <1>4, <1>5 DEF Record, Answer, atomicJSON

\* The kernel drops an address only when its lease is over, too.
LEMMA TickStep == ASSUME IInv, Tick PROVE IInv'
<1> USE DEF IInv
<1>1. /\ now' = now + 1 /\ now \in Nat /\ kernel \in [Addresses -> Nat]
      /\ kernel' = [a \in Addresses |-> IF kernel[a] <= now' THEN 0 ELSE kernel[a]]
      /\ UNCHANGED <<files, trigger, helper, ensure, granted, requests, faults>>
  BY DEF Tick, TypeOK
<1>2. kernel' \in [Addresses -> Nat] /\ now' \in Nat
  BY <1>1
<1>3. TypeOK'
  BY <1>1, <1>2 DEF TypeOK, files
<1>4. HelperOK'
  BY <1>1 DEF HelperOK, files
<1>5. IdsOK'
  BY <1>1 DEF IdsOK, Records, files
<1>6. BackedOK'
  <2>1. ASSUME NEW l \in StatusType, Backed(l) PROVE Backed(l)'
    <3> SUFFICES ASSUME now' < l.expires PROVE l.address \in Addresses /\ kernel'[l.address] >= l.expires
      BY DEF Backed
    <3>1. l.expires \in Nat
      BY DEF StatusType
    <3>2. l.address \in Addresses /\ kernel[l.address] >= l.expires /\ kernel[l.address] \in Nat
      BY <1>1, <2>1, <3>1 DEF Backed
    <3>3. QED
      BY <1>1, <3>1, <3>2
  <2>2. granted \in StatusType /\ Records \subseteq StatusType
    BY DEF TypeOK, HelperOK, Records
  <2>3. Records' = Records
    BY <1>1 DEF Records, files
  <2>4. QED
    BY <1>1, <2>1, <2>2, <2>3 DEF BackedOK
<1>7. AddressIsFree'
  BY <1>1 DEF AddressIsFree, Assigned
<1>8. QED
  BY <1>3, <1>4, <1>5, <1>6, <1>7

\* A reboot ends the client's wait together with what the kernel had.
LEMMA RebootStep == ASSUME IInv, Reboot PROVE IInv'
<1> USE DEF IInv
<1>1. faults' \in 0 .. MaxFaults
  BY FaultType DEF Reboot
<1>2. /\ kernel' = [a \in Addresses |-> 0] /\ helper' = IdleHelper /\ trigger' = "none"
      /\ ensure' = 0 /\ granted' = NoStatus /\ UNCHANGED <<now, files, requests>>
  BY DEF Reboot
<1>3. NoStatus \in StatusType /\ NoStatus.expires = 0
  BY FailedAnswer
<1>4. TypeOK'
  BY <1>1, <1>2, <1>3, IdleHelperOK DEF TypeOK, files
<1>5. HelperOK'
  BY <1>2, IdleHelperOK DEF HelperOK, TypeOK, files
<1>6. IdsOK'
  BY <1>2, IdleHelperOK DEF IdsOK, Records, TypeOK, NoRequest, files
<1>7. BackedOK'
  BY <1>2, <1>3 DEF BackedOK, Backed, TypeOK
<1>8. AddressIsFree'
  BY <1>2 DEF AddressIsFree, Assigned
<1>9. QED
  BY <1>4, <1>5, <1>6, <1>7, <1>8

\* The inductive invariant holds in every state.
LEMMA Invariant == Spec => []IInv
<1>1. ASSUME IInv, HelperDies PROVE IInv'
  <2>1. faults' \in 0 .. MaxFaults
    BY <1>1, FaultType DEF IInv, HelperDies
  <2>2. QED
    BY <1>1, <2>1, HelperIdles DEF HelperDies
<1>2. ASSUME IInv, UNCHANGED vars PROVE IInv'
  BY <1>2 DEF vars, files, IInv, TypeOK, HelperOK, IdsOK, BackedOK, Backed, Records, AddressIsFree,
              Assigned
<1>3. IInv /\ [Next]_vars => IInv'
  BY <1>1, <1>2, RequestStep, EnsureEnds, StartStep, ReadStep, ProbeStep, AddStep, FinishStep,
     TickStep, RebootStep DEF Next
<1>4. QED
  BY <1>3, InitOK, PTL DEF Spec

-----------------------------------------------------------------------------

\* Every variable of the client, the helper, the files and the kernel has its type.
THEOREM TypeCorrect == Spec => []TypeOK
<1>1. IInv => TypeOK
  BY DEF IInv
<1>2. QED
  BY <1>1, Invariant, PTL

\* A lease that Client.Ensure returned is good until the time it names, whatever
\* the helper, the clock and earlier requests did meanwhile: the answer carries
\* the ID of the request, and the recorded expiry counts from before the probe.
THEOREM GrantedIsBacked == Spec => []LeaseBacked
<1>1. IInv => LeaseBacked
  <2> SUFFICES ASSUME IInv, now < granted.expires PROVE kernel[granted.address] # 0
    BY DEF LeaseBacked
  <2>1. granted.address \in Addresses /\ kernel[granted.address] >= granted.expires
    BY DEF IInv, BackedOK, Backed
  <2>2. now \in Nat /\ granted.expires \in Nat /\ kernel[granted.address] \in Nat
    BY <2>1 DEF IInv, TypeOK, StatusType
  <2>3. QED
    BY <2>1, <2>2
<1>2. QED
  BY <1>1, Invariant, PTL

\* The helper never adds the address of a host that answers its probe, nor an
\* end of the subnet.
THEOREM AddedIsFree == Spec => []AddressIsFree
<1>1. IInv => AddressIsFree
  BY DEF IInv
<1>2. QED
  BY <1>1, Invariant, PTL

\* selectAddress returns the highest free host address among the last Tries, for
\* a subnet of any size and whatever the kernel has.
THEOREM HighestFreeIsSelected == Spec => []SelectsHighestFree
<1>1. SelectsHighestFree
  BY SelectAddress DEF SelectsHighestFree
<1>2. QED
  BY <1>1, PTL

=============================================================================
