SPECIFICATION Spec
CONSTANTS
  q1 = q1  q2 = q2  q3 = q3  k1 = k1
  Queries <- ThreeQueries
  Catalogs <- OneCatalog
  MaxForks = 2
  MaxCrashes = 0
INVARIANTS NoCallBeforeInit
CHECK_DEADLOCK FALSE
