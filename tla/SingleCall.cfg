SPECIFICATION FairSpec
CONSTANTS
  None = None
  MaxVersion = 2
  SizeOf <- MCSizeShrinks
  EtagOf <- MCEtagStrong
  LastModifiedOf <- MCNoDates
  RangeSupport = {TRUE, FALSE}
  MaxRetries = 3
  MaxChunk = 2
  MaxCalls = 1
  Checksum = FALSE
  Leftovers <- MCNoFile
  Faults = {"change", "full", "success", "unsized", "short", "error", "writefail", "cancel", "kill"}
INVARIANTS
  TypeOK
  SingleVersion
  OkIsWhole
PROPERTIES
  CallReturns
\* every call was made and has returned
CHECK_DEADLOCK FALSE
