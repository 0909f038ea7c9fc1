SPECIFICATION FairSpec
CONSTANTS
  worker = worker
  k1 = k1
  k2 = k2
  Worker = worker
  Clients <- MCOneClient
  Callers <- MCCallers
  Nobody = Nobody
  MaxChannels = 3
INVARIANTS
  TypeOK
  OneReceiver
  ReceivesFromOpenSocket
  NoNullCall
  RemovedIsQuiet
PROPERTIES
  ImplementsLink
  Retried
CHECK_DEADLOCK FALSE
