SPECIFICATION Spec
CONSTANTS
  Turn = {t1, t2}
  Interrupt = {i1}
  Control = {}
  Lookup = {g1}
  t1 = t1
  t2 = t2
  i1 = i1
  g1 = g1
  MaxIncarnation = 1
  MaxHistoryFaults = 0
  None = None
  MaxFaults = 0
  MayAttach = {}
SYMMETRY CallSymmetry
INVARIANT OneTurnPerPane
INVARIANT NoStrandedSession
CHECK_DEADLOCK FALSE
