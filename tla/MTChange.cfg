SPECIFICATION Spec
CONSTANTS
  None = None
  MaxVersion = 2
  SizeOf <- MCSizeSame
  EtagOf <- MCEtagWeak
  LastModifiedOf <- MCDates
  ThreadChoices = {2}
  MinChunk = 1
  MaxRetries = 2
  MaxChunk = 2
  MaxCalls = 2
  DurableResume = FALSE
  Checksum = FALSE
  Leftovers <- MCNothing
  Faults = {"change", "kill", "cancel", "error"}
INVARIANTS
  TypeOK
  CompletedSound
  SavedSound
  StateLoadable
  CountWithinPositions
PROPERTIES
  FailureKeepsProgress
  WritesStayInRange
  CheckpointsOnlyGrow
\* every call was made and has returned
CHECK_DEADLOCK FALSE
