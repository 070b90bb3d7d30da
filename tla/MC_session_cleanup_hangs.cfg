SPECIFICATION Spec
CONSTANTS
  c1 = c1
  c2 = c2
  Server = Server
  Nobody = Nobody
  Clients <- OneClient
  MsgLen <- SameLength
  KeysCoincide = TRUE
  PollErrors = {}
  Faults = {"early"}
PROPERTIES
  CleanupFreesMessage
CHECK_DEADLOCK FALSE
