SPECIFICATION FairSpec
CONSTANTS
  g = g
  a1 = a1
  a2 = a2
  a3 = a3
  b1 = b1
  b2 = b2
  b3 = b3
  x = x
  y = y
  z = z
  h = h
  none = none
  t1 = t1
  t2 = t2
  Genesis = g
  NoBlock = none
  Blocks <- MCBlocks
  Parent <- MCParent
  Index <- MCIndex
  Stamp <- MCStamp
  Zeros <- MCZeros
  BridgeLocks <- MCBridgeLocks
  Sound <- MCSound
  ReorgSound <- MCReorgSound
  Txs <- MCTxs
  BlockTxs <- MCBlockTxs
  PeerChains <- MCPeerChains
  MaxOrphanPool = 2
  MaxReorgDepth = 1
  MaxFuture = 1
  MaxClock = 1
  RetargetInterval = 2
  Difficulties <- MCDifficulties
  BlockWork <- MCBlockWork
  LockWindow = 2
  LockCap = 1
INVARIANTS AncestorsFirst NoReadyOrphan
PROPERTIES NoTxLost DeepHistoryStable LockReleased
