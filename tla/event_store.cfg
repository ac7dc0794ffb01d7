SPECIFICATION FairSpec
CONSTANTS
  MaxEvents = 3
  MaxBytes = 2
  MaxPendingWrites = 2
  MaxLimit = 2
  MaxPublished = 6
  MaxFailures = 1
  MaxTears = 1
  MaxCrashes = 1
INVARIANT FileIsOrdered
PROPERTY WholeLinesSurvive
INVARIANT NobodyWaitsForNews
PROPERTY NothingIsSkipped
PROPERTY ShedWritesAreReported
CHECK_DEADLOCK FALSE
