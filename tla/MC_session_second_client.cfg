SPECIFICATION Spec
CONSTANTS
  c1 = c1
  c2 = c2
  Server = Server
  Nobody = Nobody
  Clients <- TwoClients
  MsgLen <- SameLength
  KeysCoincide = TRUE
  PollErrors = {}
  Faults = {}
INVARIANTS
  NoFreedAccess
CHECK_DEADLOCK FALSE
