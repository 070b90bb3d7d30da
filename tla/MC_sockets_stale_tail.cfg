SPECIFICATION Spec
CONSTANTS
  Clients = {c1}
  None = None
  MAX_MSG_SIZE = 4
  Backlog = 2
  PortChoices = {8082}
  LineLengths = {5}
  Faults = {}
INVARIANTS
  LineIsWhatWasReceived
CHECK_DEADLOCK FALSE
