SPECIFICATION Spec
CONSTANTS
  Clients = {c1, c2}
  None = None
  MAX_MSG_SIZE = 4
  Backlog = 1
  PortChoices = {8082, 73618, 80}
  LineLengths = {0, 1, 5}
  Faults = {"call", "accept", "reset", "kill"}
INVARIANTS
  TypeOK
  LineContent
  StreamInv
PROPERTIES
  EveryoneServed
CHECK_DEADLOCK FALSE
