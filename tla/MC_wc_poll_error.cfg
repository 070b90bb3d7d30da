SPECIFICATION Spec
CONSTANTS
  MaxBatch = 3
  PollErrors = {1, 2}
  Faults = {}
INVARIANTS
  ResultIsCount
CHECK_DEADLOCK FALSE
