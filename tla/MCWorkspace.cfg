SPECIFICATION Spec
CONSTANTS
  d1 = d1  t2 = t2  i1 = i1  x = x
  Drafts = {d1, d2}
  Texts = {x, y}
  Images = {i1, i2}
  Tabs = {t1, t2}
  Keys = {k1}
  Times = {m1, m2}
  Reqs = {q1, q2}
  None = None
  Quota = 1
  MaxPics = 1
  MaxRevision = 4
  s1 = s1  s2 = s2  u1 = u1  r1 = r1
  Attempts = {s1, s2, s3}
  Accounts = {u1, u2}
  AgentRuns = {r1, r2}
  Nothing = Nothing
  MaxToken = 3
  RefChannels = {g1, g2}
  MaxReferences = 1
  b2 = b2  g2 = g2
  Panels = {b1, b2}
  w1 = w1  w2 = w2  a1 = a1  c2 = c2
  Sources = {w1, w2}
  Articles = {a1, a2}
  Calls = {c1, c2}
  Nil = Nil
  MaxSources = 1
  MaxSearches = 1
  v1 = v1  v2 = v2  e1 = e1  e2 = e2  p1 = p1  raw = raw
  Windows = {v1, v2}
  Saves = {e1, e2}
  Words = {Blank, p1, raw}
  Blank = Blank
  Tidy <- Tidied
  Void = Void
  MaxVersion = 2
  Horizon = 6
  Zones = {"fall", "spring"}
  Walls = {0, 1, 2, 3, 4, 5, 6, 7}
  Wall <- Clocks
  Resolve <- Resolved
  Lead = 2
  Year = 4
  Patience = 1
  Unset = Unset
CHECK_DEADLOCK FALSE
INVARIANTS WorkspaceTypeOK DraftShowsItsVersion ScheduledIsConfirmed QuotaHolds
  RunIsConsented TokenIsSentOnce DueIsMeant NothingIsSentNow
PROPERTIES NothingUnseenIsReplaced AcceptedIsKept ClaimsWereRead
  NothingUngivenIsReplaced AccountIsTheOwners
