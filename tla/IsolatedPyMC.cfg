SPECIFICATION FairSpec
CONSTANTS
  q1 = q1  q2 = q2  q3 = q3  k1 = k1
  Queries <- TwoQueries
  Catalogs <- OneCatalog
  MaxForks = 3
  MaxCrashes = 1
INVARIANTS ChildrenOK IdleIsQuiet
PROPERTIES IsService CallsReturn
CHECK_DEADLOCK FALSE
