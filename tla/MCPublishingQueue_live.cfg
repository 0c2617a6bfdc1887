SPECIFICATION FairSpec
CONSTANTS
  Posts <- OnePost
  Parts <- OnePart
  PostOf <- TextOnly
  Photos = {}
  Contents = {c1, c2}
  Slot <- TwoSlots
  c1 = c1
  c2 = c2
  Workers = {w1}
  Accounts = {a1}
  None = None
  MaxCommands = 2
  MaxEdits = 1
  MaxCrashes = 1
PROPERTIES
  CommandSettles
  VanishingIsNoticed
  EditIsAdopted
