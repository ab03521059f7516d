SPECIFICATION FairSpec
CONSTANTS
  q1 = q1  q2 = q2  k1 = k1
  Queries <- TwoQueries
  Catalogs <- OneCatalog
  Offered <- SomeStatements
  Engines <- AllEngines
  MaxRows = 1
INVARIANTS WatchdogsOK NoWrite HonestAnswer
PROPERTIES CallsReturn
CHECK_DEADLOCK FALSE
