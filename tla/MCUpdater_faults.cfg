SPECIFICATION Spec
CONSTANTS
  MaxVersion = 2
  NumFiles = 2
  UpdaterFiles = {1}
  Handlers = {h1, h2}
  Faults = {"command", "activate", "rollback", "status", "term", "power"}
  MaxFaults = 3
SYMMETRY Symmetry
INVARIANTS TypeOK RunningIsVerified SucceededIsInstalled CleanFailureRestores
CHECK_DEADLOCK FALSE
