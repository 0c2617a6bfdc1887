SPECIFICATION Spec
CONSTANTS
  Runs = {r1, r2}
  Conversations = {c1}
  Procs = {p1}
  None = None
  MaxSlots = 1
  DbFails = FALSE
  MaxCancels = 1
  MaxCrashes = 0
CHECK_DEADLOCK FALSE
INVARIANTS
  StreamEndsWithTask
