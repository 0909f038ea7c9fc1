SPECIFICATION Spec
CONSTANTS
  p1 = p1
  p2 = p2
  c1 = c1
  c2 = c2
  s1 = s1
  i1 = i1
  i2 = i2
  Null = Null
  Producers <- MCProducers
  Consumers <- MCConsumers
  Stoppers <- MCStoppers
  Threads <- MCThreads
  Items <- MCItems
  MaxAdds = 3
INVARIANTS
  TypeOK
  NoSleeperBesideWork
PROPERTIES
  ImplementsFifo
