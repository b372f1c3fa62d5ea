SPECIFICATION Spec
CONSTANTS
  Window = 2
  Interval = 2
  Capacity = 2
  Rate = 2
  Total = 5
  Attempts = 2
  MaxTime = 9
INVARIANTS EventsInOrder SpeedWithinRate
PROPERTIES StallShowsZero FlowShows
\* the call is over
CHECK_DEADLOCK FALSE
