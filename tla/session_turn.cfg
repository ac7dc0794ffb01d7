SPECIFICATION FairSpec
CONSTANTS
  Turn = {t1}
  Interrupt = {i1}
  i1 = i1
  Control = {c1}
  Lookup = {}
  t1 = t1
  c1 = c1
  MaxIncarnation = 1
  MaxHistoryFaults = 1
  None = None
  MaxFaults = 0
  MayAttach = {}
INVARIANT TypeOK
INVARIANT ServedTurnsHaveAVerdict
PROPERTY TurnsAreAnswered
PROPERTY CallsReturn
CHECK_DEADLOCK FALSE
