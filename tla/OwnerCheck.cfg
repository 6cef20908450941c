SPECIFICATION Spec
CONSTANTS
  Clients = {c1}
  Pids = {p1}
  Kinds <- MCKinds
  ServerLevel = 1
  NoProcess = NoProcess
  MaxTime = 3
  MaxBacks = 1
INVARIANTS TypeOK OwnersOnly ReportsPeer EveryoneScreened
PROPERTY OwnersServed
CHECK_DEADLOCK FALSE
