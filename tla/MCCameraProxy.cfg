SPECIFICATION FairSpec
CONSTANTS
  Cameras = {c1}
  Targets = {a1, a2}
  Sessions = {s1, s2, s3}
  NoSession = NoSession
  Handlers = {h1}
  Ports = 2
  TTL = 1
  LastStart = 1
  Faults = {"listen", "accept"}
  MaxFaults = 2
INVARIANTS NoOrphanListener MappedIsOpen ClosedStaysEmpty
PROPERTIES PromiseKept ProxyIsTemporary
CHECK_DEADLOCK FALSE
