SPECIFICATION Spec
CONSTANTS
  MaxUpdate = 3
  MaxCommands = 2
  MaxAttempts = 2
  MaxCrashes = 1
  MaxErrors = 0
  MaxUnreported = 0
  MaxWriteFaults = 1
  MaxFaults = 1
INVARIANT InOrder
INVARIANT StoppedTurnsStop
CHECK_DEADLOCK FALSE
