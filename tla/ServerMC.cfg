SPECIFICATION Spec
CONSTANTS
  MaxGiven = 2
  Results <- SomeResults
  Arrays <- SomeArrays
  Schemas <- SomeSchemas
  IndexSets <- SomeIndexSets
INVARIANTS GuardrailsKept Masked StableErrors RowsExact DescribeExact
PROPERTIES Overrides
CHECK_DEADLOCK FALSE
