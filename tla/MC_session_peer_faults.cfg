SPECIFICATION Spec
CONSTANTS
  c1 = c1
  c2 = c2
  Server = Server
  Nobody = Nobody
  Clients <- OneClient
  MsgLen <- SameLength
  KeysCoincide = TRUE
  PollErrors = {}
  Faults = {"early", "call", "resolve", "timeout", "wc", "kill"}
INVARIANTS
  TypeOK
  EchoIntegrity
  RemoteAccessValid
  NoFreedAccess
  NoLostWakeup
  ReceiverReady
PROPERTIES
  ImplementsService
  ServerEnds
  AcceptEnds
CHECK_DEADLOCK FALSE
