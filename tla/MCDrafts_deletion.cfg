SPECIFICATION DraftsSpec
CONSTANTS
  Drafts = {d1}
  Texts = {x}
  Images = {}
  Tabs = {t1}
  Keys = {k1}
  Times = {m1}
  Reqs = {q1, q2}
  None = None
  Quota = 0
  MaxPics = 0
  MaxRevision = 1
CHECK_DEADLOCK FALSE
PROPERTIES
  DeletionIsBlocked
