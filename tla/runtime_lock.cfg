SPECIFICATION FairSpec
CONSTANTS
  Process = {p1, p2, p3}
  p1 = p1
  p2 = p2
  p3 = p3
  Nobody = Nobody
  Gone = Gone
  MaxReleases = 1
  MaxLost = 1
  MaxAbandoned = 1
INVARIANT ExclusiveAmongStarters
INVARIANT OwnerIsRecorded
PROPERTY LoneStarterIsServed
CHECK_DEADLOCK FALSE
