SPECIFICATION FairSpec
CONSTANTS
  MaxTurn = 2
  Session = {s1}
  Output = {o1}
  Client = {c1}
  s1 = s1
  o1 = o1
  c1 = c1
  Window = 1
  Prune = Prune
  MaxFaults = 1
INVARIANT TypeOK
INVARIANT OneRecordPerTurn
INVARIANT LiveTurnsAreSpared
INVARIANT PendingIsKeptUnlessTorn
INVARIANT DeliveredIsLetGo
PROPERTY TurnsSettle
CHECK_DEADLOCK FALSE
