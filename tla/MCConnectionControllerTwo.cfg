SPECIFICATION Spec
CONSTANTS
  worker = worker
  k1 = k1
  k2 = k2
  Worker = worker
  Clients <- MCTwoClients
  Callers <- MCCallers
  Nobody = Nobody
  MaxChannels = 2
INVARIANTS
  StartsOneWorker
CHECK_DEADLOCK FALSE
