SPECIFICATION ScenarioSpec
CONSTANTS
  Posts <- OnePost
  Parts <- TwoParts
  PostOf <- PhotoThenText
  Photos = {1}
  Contents = {c1, c2}
  Slot <- TwoSlots
  c1 = c1
  c2 = c2
  a1 = a1
  Workers = {w1, w2}
  Accounts = {a1, a2}
  None = None
  MaxCommands = 2
  MaxEdits = 1
  MaxCrashes = 1
INVARIANTS
  TypeOK
  NoBlindResend
  QueuedAndFailedAreUntouched
  ScheduledIsAccepted
  PublishedIsConfirmed
  CancelledLeavesNothing
  SnapshotIsConfirmed
  CommandMatchesStatus
  OwnAccountOnly
SYMMETRY WorkerSymmetry
PROPERTIES
  KeepsPromise
  CommandsAreNotOverwritten
