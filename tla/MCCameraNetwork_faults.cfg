SPECIFICATION Spec
CONSTANTS
  Size = 8
  Hosts = {2, 5}
  Tries = 3
  TTL = 2
  MaxRequests = 3
  MaxTime = 5
  Faults = {"command", "write", "crash", "reboot"}
  MaxFaults = 2
INVARIANTS
  TypeOK
  LeaseBacked
  AddressIsFree
  SelectsHighestFree
\* The clock and the number of requests are bounded.
CHECK_DEADLOCK FALSE
