SPECIFICATION FairSpec
CONSTANTS
  Configs <- MCConfigs
  Systems = {1, 2}
  Autopilots = {1}
  Handlers = {h1, h2}
  MaxUpdates = 3
  Faults = {"save", "init", "node"}
  MaxFaults = 2
INVARIANTS TypeOK RestartPending
PROPERTIES OneVehicle ConfigApplied
