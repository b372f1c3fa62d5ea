SPECIFICATION RerunSpec
CONSTANTS
  None = None
  MaxVersion = 2
  SizeOf <- MCSizeShrinks
  EtagOf <- MCEtagStrong
  LastModifiedOf <- MCNoDates
  RangeSupport = {TRUE, FALSE}
  MaxRetries = 2
  MaxChunk = 2
  MaxCalls = 4
  Checksum = TRUE
  Leftovers <- MCAnyFile
  Faults = {"change", "full", "partial", "unsized", "hidden", "hashfail", "removefail"}
PROPERTIES
  RerunHeals
\* every call was made and has returned
CHECK_DEADLOCK FALSE
