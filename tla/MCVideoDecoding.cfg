SPECIFICATION FairSpec
CONSTANTS
  worker = worker
  owner = owner
  f1 = f1
  u1 = u1
  u2 = u2
  Worker = worker
  Owner = owner
  Feeders <- MCFeeders
  Flushers <- MCOneFlusher
  Threads <- MCThreads
  MaxItems = 4
  Items <- MCItems
  Null = 0
  Overload = 1
  Delay = 1
  Decoders <- MCBoth
  Keep = 0
INVARIANTS
  TypeOK
  CodecStaysValid
  CaughtUp
  SessionFits
  FlushedIsGone
  EndsFreed
PROPERTIES
  PicturesInOrder
  ImplementsStream
  QueuedIsTaken
  AwakeWorkerExits
CHECK_DEADLOCK FALSE
