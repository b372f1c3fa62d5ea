SPECIFICATION PlanSpec
CONSTANTS
  None = None
  MaxSize = 14
  MaxWanted = 7
  MaxChunk = 5
  Uneven = FALSE
  Setups <- MCSetups
INVARIANTS
  PlanTypeOK
  LoopIsClosedForm
  SplitIsLoadable
  SplitIsBalanced
  RangesFitSize
  DigestFits
\* the plan is made
CHECK_DEADLOCK FALSE
