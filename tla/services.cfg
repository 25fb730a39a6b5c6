SPECIFICATION Spec
CONSTANTS
  ScMsg <- MCScMsg
  TgcfgInit <- MCTgcfgInit
  MaxMessages = 3
  MaxInbox = 1
  MaxConnects = 2
  MaxScCrashes = 1
  MaxImports = 1
  MaxRemoves = 1
  MaxRuns = 1
  MaxPdConnects = 2
  MaxPdFaults = 1
INVARIANTS
  StoredOnce
  ListTrue
  Consistent
PROPERTY
  ComesToRest
CHECK_DEADLOCK FALSE
