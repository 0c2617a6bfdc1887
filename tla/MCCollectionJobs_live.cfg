SPECIFICATION FairSpec
CONSTANTS
  Channels = {c1}
  Collectors = {w1, w2}
  Comments = {k1}
  None = None
  Seeds = {}
  Windows = {0}
  Cap = 0
  PageSize = 1
  MaxMsg = 1
  MaxRows = 1
  MaxEdits = 2
  MaxFaults = 1
CHECK_DEADLOCK FALSE
PROPERTIES
  ThreadIsFaithful
  ChannelsAreCollected
