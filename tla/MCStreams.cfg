SPECIFICATION Spec
CONSTANTS
  n1 = n1
  n2 = n2
  v1 = v1
  w = w
  r1 = r1
  r2 = r2
  AllOthers = AllOthers
  None = None
  Names <- MCNames
  Sources <- MCSources
  Requests <- MCRequests
  HandFiles <- MCHandFiles
  MaxRequests = 3
  MaxFaults = 1
SYMMETRY MCSymmetry
INVARIANTS
  UndoIsExact
PROPERTIES
  Implements
  StaysValid
CHECK_DEADLOCK FALSE
