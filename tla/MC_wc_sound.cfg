SPECIFICATION Spec
CONSTANTS
  MaxBatch = 3
  PollErrors = {4}
  Faults = {"get", "arm", "status"}
INVARIANTS
  TypeOK
  WakeupInv
  NoLostWakeup
  CleanHandover
  ResultIsCount
PROPERTIES
  CallReturns
  ImplementsBatch
CHECK_DEADLOCK FALSE
