SPECIFICATION Spec
CONSTANTS
  c1 = c1
  c2 = c2
  Server = Server
  Nobody = Nobody
  Clients <- OneClient
  MsgLen <- SameLength
  KeysCoincide = TRUE
  PollErrors = {3}
  Faults = {"call", "get_event", "notify", "errno"}
INVARIANTS
  ClientRegionsRegistered
  DependentsFirst
  ServerWaitsForClient
  NothingElseLeaked
CHECK_DEADLOCK FALSE
