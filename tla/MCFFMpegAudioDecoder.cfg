SPECIFICATION Spec
CONSTANTS
  worker = worker
  owner = owner
  f1 = f1
  Worker = worker
  Owner = owner
  Feeders <- MCFeeders
  Threads <- MCThreads
  MaxItems = 7
  Items <- MCItems
  Null = 0
  Overload = 2
  Keep = 1
  Delay = 2
INVARIANTS
  TypeOK
  DroppingNeverWaits
  CaughtUp
PROPERTIES
  NewestAreKept
  SoundInOrder
CHECK_DEADLOCK FALSE
