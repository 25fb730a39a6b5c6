SPECIFICATION Spec
CONSTANTS
  c1 = c1
  c2 = c2
  Client = {c1, c2}
  Topics <- MCTopics
  Filters <- MCFilters
  Wanted <- MCWanted
  Session <- MCSession
  Published <- MCPublished
  Published2 <- MCPublished2
  DollarLevels <- MCDollar
  ReadAcl <- MCReadAcl
  MaxInflight = 1
  MaxQueued = 1
  MaxId = 2
  MaxBacklog = 0
  MaxRestarts = 0
INVARIANTS TypeOK RefCountsExact IndexAgrees FiltersPruned
PROPERTY KeepsPromise
CHECK_DEADLOCK FALSE
