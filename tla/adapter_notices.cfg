SPECIFICATION FairSpec
CONSTANTS
  MaxNotice = 2
  Routed = {1}
  Perishable = {2}
  Tick = {1, 2}
  MaxSignals = 2
  MaxWindows = 2
  MaxTroubles = 2
INVARIANT NoticesAreSentOnceAndInTime
INVARIANT DeathsAreAccounted
PROPERTY SpoolIsServed
CHECK_DEADLOCK FALSE
