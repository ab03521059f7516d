SPECIFICATION Spec
CONSTANTS
  MaxGiven = 0
  Results <- SomeResults
  Arrays <- SomeArrays
  Schemas <- SomeSchemas
  IndexSets <- SomeIndexSets
INVARIANTS ForeignKeysExact
CHECK_DEADLOCK FALSE
