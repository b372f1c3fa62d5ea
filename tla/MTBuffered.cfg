SPECIFICATION Spec
CONSTANTS
  None = None
  MaxVersion = 2
  SizeOf <- MCSizeSame
  EtagOf <- MCEtagStrong
  LastModifiedOf <- MCNoDates
  ThreadChoices = {2}
  MinChunk = 1
  MaxRetries = 2
  MaxChunk = 2
  MaxCalls = 2
  DurableResume = TRUE
  Checksum = FALSE
  Leftovers <- MCLegacy
  Faults = {"change", "revert", "cancel", "syncfail"}
INVARIANTS
  CompletedIntact
  SavedNotAheadAtRest
\* every call was made and has returned
CHECK_DEADLOCK FALSE
