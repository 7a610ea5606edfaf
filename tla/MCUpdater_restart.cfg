SPECIFICATION FairSpec
CONSTANTS
  MaxVersion = 3
  NumFiles = 1
  UpdaterFiles = {1}
  Handlers = {h1, h2}
  Faults = {"command", "activate", "power"}
  MaxFaults = 2
INVARIANTS RestIsSettled
PROPERTIES NoDowngrade RequestNotReplaced RequestServed
CHECK_DEADLOCK FALSE
