SPECIFICATION Spec
CONSTANTS
  c1 = c1
  c2 = c2
  Client = {c1, c2}
  Topics <- RestartTopics
  Filters <- RestartFilters
  Wanted <- RestartWanted
  Session <- RestartSession
  Published <- RestartPublished
  Published2 <- RestartPublished2
  DollarLevels <- MCDollar
  ReadAcl = {}
  MaxInflight = 1
  MaxQueued = 1
  MaxId = 2
  MaxBacklog = 0
  MaxRestarts = 1
INVARIANTS RefCountsExact IndexAgrees
PROPERTY KeepsPromise
CHECK_DEADLOCK FALSE
