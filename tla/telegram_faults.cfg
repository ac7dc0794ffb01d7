SPECIFICATION FairSpec
CONSTANTS
  MaxUpdate = 2
  MaxCommands = 1
  MaxAttempts = 2
  MaxCrashes = 1
  MaxErrors = 1
  MaxUnreported = 1
  MaxWriteFaults = 0
  MaxFaults = 2
INVARIANT TypeOK
INVARIANT AnsweredUnlessDisturbed
INVARIANT TurnOnce
PROPERTY AcceptedIsSettled
CHECK_DEADLOCK FALSE
