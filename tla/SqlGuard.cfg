SPECIFICATION Spec
CONSTANTS
  MaxChunks = 4
INVARIANTS OneStatement ReadsOnly SureIsExact
CHECK_DEADLOCK FALSE
