SPECIFICATION FileSpec
CONSTANTS
  None = None
  Empty = Empty
  Torn = Torn
  Savers = {w1, w2}
  States = {s1, s2}
  SaveFails = TRUE
PROPERTY KeepsStateStore
CHECK_DEADLOCK FALSE
