SPECIFICATION Spec
CONSTANTS
  Turn = {t1}
  Interrupt = {}
  Control = {c1, c2}
  Lookup = {}
  t1 = t1
  c1 = c1
  c2 = c2
  MaxIncarnation = 2
  MaxHistoryFaults = 0
  None = None
  MaxFaults = 1
  MayAttach = {2}
SYMMETRY CallSymmetry
INVARIANT HistoryAgrees
INVARIANT NamedWhileUnfinished
INVARIANT Serialized
INVARIANT ReplacementFindsNoTurn
PROPERTY VerdictNeverFlips
PROPERTY ImplementsSubmittedTurn
CHECK_DEADLOCK FALSE
