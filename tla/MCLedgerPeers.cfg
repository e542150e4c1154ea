SPECIFICATION Spec
CONSTANTS
  M = M
  A = A
  t1 = t1
  t2 = t2
  t3 = t3
  Addrs <- MCAddrs
  Txs <- MCTxs
  From <- MCFrom
  To <- MCTo
  Amount <- MCSmallAmount
  Fee <- MCFee
  Nonce <- MCNonce
  Reward = 10
  ReorgDepth = 2
  Miners <- MCMiners
  PeerMiners <- MCPeerMiners
  Maturity = 1
  MaxMined = 3
INVARIANTS LedgerIsReplay LinkedUnlessRaced SupplyConserved
PROPERTIES ReplacedByLonger QueuedUnlessLate
