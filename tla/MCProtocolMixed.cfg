SPECIFICATION Spec
CONSTANTS
  HeaderLength = 2
  PayloadSizes <- MCPayloadSizes
  Garbage <- MCGarbage
  MaxFrames = 3
  MaxStale = 6
INVARIANTS
  PacketsAreFrames
