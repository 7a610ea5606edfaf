SPECIFICATION Spec
CONSTANTS
  MaxVersion = 2
  NumFiles = 2
  UpdaterFiles = {1}
  Handlers = {h1}
  Faults = {"command", "power"}
  MaxFaults = 2
INVARIANTS RollbackRestores
CHECK_DEADLOCK FALSE
