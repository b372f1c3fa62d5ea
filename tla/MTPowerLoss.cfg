SPECIFICATION Spec
CONSTANTS
  None = None
  MaxVersion = 1
  SizeOf <- MCSizeOne
  EtagOf <- MCEtagOne
  LastModifiedOf <- MCNoDateOne
  ThreadChoices = {2}
  MinChunk = 1
  MaxRetries = 1
  MaxChunk = 1
  MaxCalls = 2
  DurableResume = TRUE
  Checksum = FALSE
  Leftovers <- MCNothing
  Faults = {"kill", "error", "cancel", "powerloss"}
INVARIANTS
  CompletedSound
  DurableSound
\* every call was made and has returned
CHECK_DEADLOCK FALSE
