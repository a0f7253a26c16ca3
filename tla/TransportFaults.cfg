SPECIFICATION FairSpec
CONSTANTS
  MaxCalls = 3
  MaxChanges = 1
  Deadline = 90
  Nap = 2
  Durations = {0, 15, 50, 51, 300}
  StartLimit = 300
CHECK_DEADLOCK FALSE
INVARIANT WaitInTime
PROPERTY KeepsPromise
PROPERTY RunEnds
