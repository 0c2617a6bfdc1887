SPECIFICATION Spec
CONSTANTS
  Channels = {c1}
  Collectors = {w1, w2}
  Comments = {}
  None = None
  Seeds = {}
  Windows = {0}
  Cap = 0
  PageSize = 1
  MaxMsg = 1
  MaxRows = 2
  MaxEdits = 0
  MaxFaults = 0
CHECK_DEADLOCK FALSE
INVARIANTS
  PolledIsResolved
