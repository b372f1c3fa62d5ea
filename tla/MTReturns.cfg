SPECIFICATION FairSpec
CONSTANTS
  None = None
  MaxVersion = 2
  SizeOf <- MCSizeShrinks
  EtagOf <- MCNoDates
  LastModifiedOf <- MCNoDates
  ThreadChoices = {2}
  MinChunk = 1
  MaxRetries = 2
  MaxChunk = 2
  MaxCalls = 1
  DurableResume = FALSE
  Checksum = TRUE
  Leftovers <- MCNothing
  Faults = {"change", "full", "416", "error", "cancel", "writefail", "savefail", "syncfail"}
INVARIANTS
  CompletedIntact
PROPERTIES
  CallReturns
\* the call was made and has returned
CHECK_DEADLOCK FALSE
