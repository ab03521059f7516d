SPECIFICATION FairSpec
CONSTANTS
  q1 = q1  q2 = q2  k1 = k1
  Queries <- TwoQueries
  Catalogs <- OneCatalog
  ReadOnly = TRUE
  PoolSize = 3
  MaxLosses = 1
INVARIANTS PoolOK KillsOwn SessionIsReadOnly TimedOutIsStopped LossCostsOneQuery
PROPERTIES EventuallyDone
CHECK_DEADLOCK FALSE
