SPECIFICATION Spec
CONSTANTS
  Channels = {c1}
  Collectors = {w1, w2}
  Comments = {}
  None = None
  Seeds = {c1}
  Windows = {0, 2}
  Cap = 2
  PageSize = 1
  MaxMsg = 3
  MaxRows = 1
  MaxEdits = 1
  MaxFaults = 1
CHECK_DEADLOCK FALSE
SYMMETRY Symmetry
INVARIANTS
  TypeOK
  ScanKeepsItsJob
PROPERTIES
  RetiresOnlyGone
  ScanIsFaithful
