SPECIFICATION Spec
CONSTANTS
  worker = worker
  k1 = k1
  k2 = k2
  Worker = worker
  Clients <- MCOneClient
  Callers <- MCCallers
  Nobody = Nobody
  MaxChannels = 2
INVARIANTS
  StaysDisconnected
CHECK_DEADLOCK FALSE
