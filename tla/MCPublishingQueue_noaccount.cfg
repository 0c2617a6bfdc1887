SPECIFICATION Spec
CONSTANTS
  Posts <- OnePost
  Parts <- TwoParts
  PostOf <- PhotoThenText
  Photos = {1}
  Contents = {c1, c2}
  Slot <- TwoSlots
  c1 = c1
  c2 = c2
  Workers = {w1}
  Accounts = {a1}
  None = None
  MaxCommands = 2
  MaxEdits = 1
  MaxCrashes = 1
PROPERTY IntactScheduleStays
