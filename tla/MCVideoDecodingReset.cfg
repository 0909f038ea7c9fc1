SPECIFICATION StrongSpec
CONSTANTS
  worker = worker
  owner = owner
  f1 = f1
  u1 = u1
  u2 = u2
  Worker = worker
  Owner = owner
  Feeders <- MCFeeders
  Flushers <- MCOneFlusher
  Threads <- MCThreads
  MaxItems = 2
  Items <- MCItems
  Null = 0
  Overload = 1
  Delay = 1
  Decoders <- MCFFMpegOnly
  Keep = 0
PROPERTIES
  ResetClearsFrame
CHECK_DEADLOCK FALSE
