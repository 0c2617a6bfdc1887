SPECIFICATION FairSpec
CONSTANTS
  Runs = {r1}
  Conversations = {c1}
  Procs = {p1, p2}
  None = None
  MaxSlots = 1
  DbFails = TRUE
  MaxCancels = 2
  MaxCrashes = 1
CHECK_DEADLOCK FALSE
PROPERTIES
  RunsEnd
