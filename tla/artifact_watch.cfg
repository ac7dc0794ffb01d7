SPECIFICATION FairSpec
CONSTANTS
  Mine = Mine
  Theirs = Theirs
  None = None
  Files = {Mine, Theirs}
  Chunk = 3
  Limit = 1
  MaxWrites = 3
  Old = {Mine}
INVARIANT WatchAgreesWithReplay
INVARIANT VerdictIsTheAgents
PROPERTY WatchEnds
CHECK_DEADLOCK FALSE
