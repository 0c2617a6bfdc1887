SPECIFICATION Spec
CONSTANTS
  Runs = {r1, r2}
  Conversations = {c1}
  Procs = {p1}
  None = None
  MaxSlots = 1
  DbFails = TRUE
  MaxCancels = 1
  MaxCrashes = 0
SYMMETRY Symmetry
CHECK_DEADLOCK FALSE
INVARIANTS
  TypeOK
  OneAnswerPerRequest
  EndIsRecorded
  CancelledWasAsked
  SlotsAreReturned
PROPERTIES
  KeepsRunPromise
