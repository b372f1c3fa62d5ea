SPECIFICATION Spec
CONSTANTS
  None = None
  MaxVersion = 2
  SizeOf <- MCSizeSame
  EtagOf <- MCEtagStrong
  LastModifiedOf <- MCNoDates
  RangeSupport = {TRUE}
  MaxRetries = 2
  MaxChunk = 2
  MaxCalls = 2
  Checksum = FALSE
  Leftovers <- MCNoFile
  Faults = {"change", "error"}
INVARIANTS
  SingleVersion
\* every call was made and has returned
CHECK_DEADLOCK FALSE
