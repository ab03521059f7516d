SPECIFICATION FairSpec
CONSTANTS
  q1 = q1  q2 = q2  q3 = q3  k1 = k1
  Queries <- TwoQueries
  Catalogs <- OneCatalog
  PoolSize = 2
  MaxLosses = 1
INVARIANTS ClientsOK NoWrite HonestResult LossCostsOneCall
PROPERTIES CallsReturn
CHECK_DEADLOCK FALSE
