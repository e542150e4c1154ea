SPECIFICATION FairSpec
CONSTANTS
  m1 = m1
  m2 = m2
  Addrs <- MCMiners
  Miners <- MCMiners
  Reward = 21
  Exact = 16
  Grain = 2
  Timeout = 0
  Keep = 1
  Amounts = {8}
  MaxBlocks = 3
  MaxTransfers = 1
  MaxEnds = 1
  MaxFails = 1
INVARIANTS SilentMinersUnpaid HistoryExplainsBalances PayoutsAddUp
PROPERTIES RestartKeepsBalances KnownMinerComesBack
CHECK_DEADLOCK FALSE
