SPECIFICATION Spec
CONSTANTS
  a = a
  b = b
  Nodes <- MCNodes
  Seeds <- MCSeeds
  Running <- MCRunning
  Starts <- ForkedOrLonger
  Gap = 1
  Tolerance = 1
  Batch = 4
  Lookback = 2
  ReorgDepth = 2
  Threshold = 1
  MaxAttempts = 2
  Harder <- TheThird
  MaxMined <- MostlyA
  MaxFaults = 1
  MaxWire = 1
INVARIANT HeightsInOrder
PROPERTIES BlocksGivenUpForMore DeepBlocksStay
CHECK_DEADLOCK FALSE
