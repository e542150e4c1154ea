SPECIFICATION Spec
CONSTANTS
  M = M
  A = A
  t1 = t1
  t2 = t2
  t3 = t3
  Addrs <- MCAddrs
  Txs <- MCTxs
  From <- MCFrom
  To <- MCTo
  Amount <- MCAmount
  Fee <- MCFee
  Nonce <- MCNonce
  Reward = 10
  ReorgDepth = 2
  Miners <- MCMiners
  PeerMiners <- MCNoPeer
  Maturity = 2
  MaxMined = 5
INVARIANTS TypeOK NonceOrder MempoolGapless MirrorsAgreeUnlessShort SupplyConserved
PROPERTIES SavedBlocksSurvive
