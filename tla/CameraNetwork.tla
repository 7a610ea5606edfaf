--------------------------- MODULE CameraNetwork ---------------------------
(***************************************************************************)
(* The temporary camera network (internal/cameranetwork): the unprivileged *)
(* Client.Ensure writes a request file and polls a status file; a path     *)
(* unit starts the helper, which probes the address, adds it to the kernel *)
(* with a lifetime and then records it in the lease and the status file.   *)
(* The client may give up at any time while the helper goes on, the helper *)
(* may die between two of its steps, and the host may reboot.              *)
(*                                                                         *)
(* The camera's subnet is 0 .. Size - 1: 0 is the network address and      *)
(* Size - 1 the broadcast address.                                         *)
(***************************************************************************)
EXTENDS Integers, FiniteSetsExt

CONSTANTS
  Size,         \* addresses of the camera's subnet
  Hosts,        \* addresses other hosts answer ARP for, cameras and gateway included
  Tries,        \* how many candidates selectAddress looks at (1024)
  TTL,          \* lifetime of a lease in clock ticks
  MaxRequests,  \* bound: requests of a behaviour; their numbers are the IDs
  MaxTime,      \* bound of the clock
  Faults,       \* the kinds of fault that may happen, see FaultKinds
  MaxFaults     \* how many of them happen in a behaviour

\* "command": validate, arping or ip fails, "write": a file cannot be written,
\* "crash": the helper dies, "reboot": the host restarts.
FaultKinds == {"command", "write", "crash", "reboot"}

ASSUME NetworkAssumption ==
  /\ Size \in Nat /\ Size >= 4 /\ Hosts \subseteq 1 .. (Size - 2)
  /\ Tries \in Nat /\ TTL \in Nat \ {0} /\ MaxRequests \in Nat /\ MaxTime \in Nat
  /\ MaxFaults \in Nat /\ Faults \subseteq FaultKinds

Addresses == 0 .. (Size - 1)
NoAddress == -1
IDs       == 1 .. MaxRequests

VARIABLES
  now,       \* the clock
  kernel,    \* when the kernel drops a temporary address; 0 if it has none
  request,   \* camera-network.request.json
  status,    \* camera-network.status.json
  leases,    \* camera-network.leases.json
  trigger,   \* the path unit has seen a change: "none", "pending"
  helper,    \* the helper process: next step, request, leases read, time read
  ensure,    \* the Ensure that holds Client.mu: the ID it waits for, or 0
  granted,   \* the last lease Ensure returned
  requests,  \* requests so far
  faults     \* faults so far

files == <<request, status, leases>>
vars  == <<now, kernel, files, trigger, helper, ensure, granted, requests, faults>>

NoRequest  == [id |-> 0, address |-> NoAddress]
NoStatus   == [id |-> 0, state |-> "none", address |-> NoAddress, expires |-> 0]
IdleHelper == [pc |-> "idle", request |-> NoRequest, leases |-> {}, at |-> 0]

Init ==
  /\ now = 1
  /\ kernel = [a \in Addresses |-> 0]
  /\ request = NoRequest
  /\ status = NoStatus
  /\ leases = {}
  /\ trigger = "none"
  /\ helper = IdleHelper
  /\ ensure = 0
  /\ granted = NoStatus
  /\ requests = 0
  /\ faults = 0

Fault(kind) == kind \in Faults /\ faults < MaxFaults /\ faults' = faults + 1

\* atomicJSON: a file is replaced by a rename, or stays as it was.
atomicJSON(file, value, written) ==
  \/ written /\ file' = value /\ UNCHANGED faults
  \/ ~ written /\ Fault("write") /\ UNCHANGED file

-----------------------------------------------------------------------------
(* Client.Ensure.                                                           *)

Assigned == {a \in Addresses : kernel[a] # 0}

\* Mutated form: the window is one candidate too long.
selectAddress_OffByOne(camera, gateway, assigned) ==
  LET used  == {camera, 0, Size - 1, gateway} \cup assigned
      start == Size - 2
      search[value \in 0 .. start] ==
        IF value < 1 \/ start - value > Tries THEN NoAddress
        ELSE IF value \notin used THEN value
        ELSE search[value - 1]
  IN  search[start]

\* Downwards from the address below the broadcast address.
selectAddress(camera, gateway, assigned) ==
  LET used  == {camera, 0, Size - 1, gateway} \cup assigned
      start == Size - 2
      end   == 1
      search[value \in 0 .. start] ==
        IF value < end \/ start - value >= Tries THEN NoAddress
        ELSE IF value \notin used THEN value
        ELSE search[value - 1]
  IN  search[start]

\* Mutated form: the error of selectAddress is ignored.
Request_IgnoreError(camera, gateway) ==
  /\ ensure = 0
  /\ requests < MaxRequests
  /\ requests' = requests + 1
  /\ request' = [id |-> requests', address |-> selectAddress(camera, gateway, Assigned)]
  /\ trigger' = "pending"
  /\ ensure' = requests'
  /\ UNCHANGED <<now, kernel, status, leases, helper, granted, faults>>

\* The request is published by a rename. Whether the path unit notices a change
\* while the helper is running is systemd's choice: it may start it once more.
Request(camera, gateway) ==
  /\ ensure = 0
  /\ requests < MaxRequests
  /\ requests' = requests + 1
  /\ LET address == selectAddress(camera, gateway, Assigned) IN
       \/ /\ address # NoAddress
          /\ atomicJSON(request, [id |-> requests', address |-> address], TRUE)
          /\ trigger' = "pending" \/ (helper.pc # "idle" /\ trigger' = trigger)
          /\ ensure' = requests'
       \/ address = NoAddress /\ UNCHANGED <<request, trigger, ensure, faults>>
       \/ /\ address # NoAddress
          /\ atomicJSON(request, [id |-> requests', address |-> address], FALSE)
          /\ UNCHANGED <<trigger, ensure>>
  /\ UNCHANGED <<now, kernel, status, leases, helper, granted>>

\* Mutated form: whatever the status file says is taken for the answer.
Answered_AnyStatus ==
  /\ ensure # 0
  /\ status.id # 0
  /\ granted' = IF status.state = "ready" THEN status ELSE granted
  /\ ensure' = 0
  /\ UNCHANGED <<now, kernel, files, trigger, helper, requests, faults>>

\* A status of another request is not an answer.
Answered ==
  /\ ensure # 0
  /\ status.id = ensure
  /\ granted' = IF status.state = "ready" THEN status ELSE granted
  /\ ensure' = 0
  /\ UNCHANGED <<now, kernel, files, trigger, helper, requests, faults>>

\* The 10 second timeout, or the browser went away.
GiveUp ==
  /\ ensure # 0
  /\ ensure' = 0
  /\ UNCHANGED <<now, kernel, files, trigger, helper, granted, requests, faults>>

-----------------------------------------------------------------------------
(* Helper.Process. systemd runs one helper at a time; the lock file is then *)
(* always free.                                                             *)

StartHelper ==
  /\ trigger = "pending"
  /\ helper.pc = "idle"
  /\ trigger' = "none"
  /\ helper' = [IdleHelper EXCEPT !.pc = "read"]
  /\ UNCHANGED <<now, kernel, files, ensure, granted, requests, faults>>

\* Helper.fail.
Fail(id) ==
  /\ \E written \in BOOLEAN :
       atomicJSON(status, [NoStatus EXCEPT !.id = id, !.state = "failed"], written)
  /\ helper' = IdleHelper
  /\ UNCHANGED <<kernel, leases>>

\* A command that failed without effect.
CommandFails ==
  /\ Fault("command")
  /\ status' = [NoStatus EXCEPT !.id = helper.request.id, !.state = "failed"]
  /\ helper' = IdleHelper
  /\ UNCHANGED <<kernel, leases>>

\* What the lease file says of leases that have not expired.
readState == {l \in leases : l.expires > now}

\* Expired leases are forgotten; a request that has a lease is answered with it.
ReadRequest ==
  /\ helper.pc = "read"
  /\ helper' = [pc |-> IF \E l \in readState : l.id = request.id THEN "record" ELSE "probe",
                request |-> request, leases |-> readState, at |-> now]
  /\ UNCHANGED <<now, kernel, files, trigger, ensure, granted, requests, faults>>

\* Mutated form: the address is not probed.
Probe_NoDetection ==
  /\ helper.pc = "probe"
  /\ helper' = [helper EXCEPT !.pc = "add"]
  /\ UNCHANGED <<now, kernel, files, trigger, ensure, granted, requests, faults>>

\* Duplicate address detection, after validate.
Probe ==
  /\ helper.pc = "probe"
  /\ \/ /\ helper.request.address \notin Hosts
        /\ helper' = [helper EXCEPT !.pc = "add"]
        /\ UNCHANGED <<kernel, status, leases, faults>>
     \/ helper.request.address \in Hosts /\ Fail(helper.request.id)
     \/ CommandFails
  /\ UNCHANGED <<now, request, trigger, ensure, granted, requests>>

\* `ip address add ... valid_lft TTL'; the recorded expiry counts from the
\* time before the probe.
AddAddress ==
  /\ helper.pc = "add"
  /\ LET r == helper.request
         lease == [id |-> r.id, state |-> "ready", address |-> r.address, expires |-> helper.at + TTL] IN
       \/ /\ kernel[r.address] = 0
          /\ kernel' = [kernel EXCEPT ![r.address] = now + TTL]
          /\ helper' = [helper EXCEPT !.pc = "record", !.leases = @ \cup {lease}]
          /\ UNCHANGED <<status, leases, faults>>
       \/ kernel[r.address] # 0 /\ Fail(r.id)
       \/ CommandFails
  /\ UNCHANGED <<now, request, trigger, ensure, granted, requests>>

\* Helper.finish: the lease file first, then the status.
Record ==
  /\ helper.pc = "record"
  /\ \E written \in BOOLEAN :
       /\ atomicJSON(leases, helper.leases, written)
       /\ helper' = IF written THEN [helper EXCEPT !.pc = "answer"] ELSE IdleHelper
  /\ UNCHANGED <<now, kernel, request, status, trigger, ensure, granted, requests>>

Answer ==
  /\ helper.pc = "answer"
  /\ \E l \in helper.leases, written \in BOOLEAN :
       l.id = helper.request.id /\ atomicJSON(status, l, written)
  /\ helper' = IdleHelper
  /\ UNCHANGED <<now, kernel, request, leases, trigger, ensure, granted, requests>>

HelperDies ==
  /\ helper.pc # "idle"
  /\ Fault("crash")
  /\ helper' = IdleHelper
  /\ UNCHANGED <<now, kernel, files, trigger, ensure, granted, requests>>

-----------------------------------------------------------------------------

\* The kernel drops an address when its valid_lft is over.
Tick ==
  /\ now < MaxTime
  /\ now' = now + 1
  /\ kernel' = [a \in Addresses |-> IF kernel[a] <= now' THEN 0 ELSE kernel[a]]
  /\ UNCHANGED <<files, trigger, helper, ensure, granted, requests, faults>>

\* The files survive; the addresses, the processes and the proxies do not.
Reboot ==
  /\ Fault("reboot")
  /\ kernel' = [a \in Addresses |-> 0]
  /\ helper' = IdleHelper
  /\ trigger' = "none"
  /\ ensure' = 0
  /\ granted' = NoStatus
  /\ UNCHANGED <<now, files, requests>>

Next ==
  \/ \E camera, gateway \in Hosts : Request(camera, gateway)
  \/ Answered \/ GiveUp
  \/ StartHelper \/ ReadRequest \/ Probe \/ AddAddress \/ Record \/ Answer \/ HelperDies
  \/ Tick \/ Reboot

Spec == Init /\ [][Next]_vars

-----------------------------------------------------------------------------
(* Properties.                                                              *)

StatusType == [id : IDs \cup {0}, state : {"none", "failed", "ready"},
               address : Addresses \cup {NoAddress}, expires : Nat]

\* Every variable of the client, the helper, the files and the kernel has its type.
TypeOK ==
  /\ now \in Nat
  /\ kernel \in [Addresses -> Nat]
  /\ request \in [id : IDs, address : Addresses] \cup {NoRequest}
  /\ status \in StatusType
  /\ leases \subseteq StatusType
  /\ trigger \in {"none", "pending"}
  /\ helper.pc \in {"idle", "read", "probe", "add", "record", "answer"}
  /\ helper.leases \subseteq StatusType
  /\ ensure \in IDs \cup {0}
  /\ granted \in StatusType
  /\ requests \in 0 .. MaxRequests
  /\ faults \in 0 .. MaxFaults

\* A lease that Ensure returned is good until the time it names: the kernel has
\* the address. The status the client polls may be of an earlier request, and
\* the helper may take its time between the probe and the answer.
LeaseBacked ==
  now < granted.expires => kernel[granted.address] # 0

\* The address the helper adds is nobody's: not that of a host that answers ARP
\* (the camera is one of them) and neither end of the subnet.
AddressIsFree ==
  Assigned \cap (Hosts \cup {0, Size - 1}) = {}

\* selectAddress returns the highest free host address among the last Tries.
SelectsHighestFree ==
  \A camera, gateway \in Addresses :
    LET free == (1 .. (Size - 2)) \ ({camera, gateway} \cup Assigned)
        candidates == {a \in free : Size - 2 - a < Tries} IN
      selectAddress(camera, gateway, Assigned) =
        IF candidates = {} THEN NoAddress ELSE Max(candidates)

=============================================================================
