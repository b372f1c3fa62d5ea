SPECIFICATION PathSpec
CONSTANTS
  None = None
  Empty = Empty
  Torn = Torn
  Savers <- MCSavers
  States <- MCStates
  SaveFails = FALSE
  MaxVersion = 2
  Size = 2
  MaxTicks <- MCTicks
  Faults = {"full", "error", "abandon", "kill", "powerloss"}
INVARIANTS OkIntact ClaimsHeld
CHECK_DEADLOCK FALSE
