SPECIFICATION HangingSpec
CONSTANTS
  Submission = {t1, t2}
  Stop = {s1, s2}
  TaskIds <- MCAssignedIds
  MaxConcurrent = 1
  QueueCapacity = 0
INVARIANTS
  TypeOK
  SlotsAccounted
  InFlightCancellable
  MapHoldsInFlight
PROPERTIES
  CancelSettles
  CallersReturn
  KeepsPromise
\* the queue may have been shut down, and every task has ended
CHECK_DEADLOCK FALSE
