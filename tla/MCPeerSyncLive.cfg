SPECIFICATION FairSpec
CONSTANTS
  a = a
  b = b
  Nodes <- MCNodes
  Seeds <- MCSeeds
  Running <- MCRunning
  Starts <- Fresh
  Gap = 1
  Tolerance = 1
  Batch = 3
  Lookback = 1
  ReorgDepth = 2
  Threshold = 1
  MaxAttempts = 2
  Harder <- NoneHarder
  MaxMined <- ManyB
  MaxFaults = 0
  MaxWire = 1
PROPERTIES SyncingNodeResumes AllCatchUpWithinOne
CHECK_DEADLOCK FALSE
