SPECIFICATION FairSpec
CONSTANTS
  q1 = q1  q2 = q2  q3 = q3  k1 = k1
  Queries <- TwoQueries
  Catalogs <- OneCatalog
  Statements <- AllStatements
  MaxCancels = 1
INVARIANTS SessionOK NoWrite HonestResult
PROPERTIES OwnTransaction CallsReturn
CHECK_DEADLOCK FALSE
