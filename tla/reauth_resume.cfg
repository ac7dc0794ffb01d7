SPECIFICATION Spec
CONSTANTS
  Caller = {0, 1, 2}
  Device = Device
  Paste = Paste
  MaxMessage = 2
  MaxPending = 2
  MaxCodes = 1
  MaxTroubles = 1
INVARIANT ResumptionReruns
CHECK_DEADLOCK FALSE
