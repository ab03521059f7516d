SPECIFICATION FairSpec
CONSTANTS
  q1 = q1  q2 = q2  q3 = q3  k1 = k1
  Queries <- TwoQueries
  Catalogs <- OneCatalog
  MaxForks = 2
  MaxCrashes = 1
INVARIANTS TypeOK OwnReply Bookkeeping
PROPERTIES ExitIsolated IsService CallsSettle ChildrenExit
CHECK_DEADLOCK FALSE
