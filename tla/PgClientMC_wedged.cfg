SPECIFICATION Spec
CONSTANTS
  q1 = q1  q2 = q2  q3 = q3  k1 = k1
  Queries <- TwoQueries
  Catalogs <- OneCatalog
  Statements <- FewStatements
  MaxCancels = 1
INVARIANTS QueryNotAborted
CHECK_DEADLOCK FALSE
