------------------------------- MODULE MCLedger -------------------------------
(* A miner M and an account A.  M sends twice, A sends back.  A coinbase of *)
(* block n may be spent in block n + 2, so the first transfer may come too  *)
(* early, in time, or from several coins.                                   *)
EXTENDS Ledger

CONSTANTS M, A, t1, t2, t3

MCAddrs == {M, A}
MCTxs == {t1, t2, t3}
MCFrom == [t \in MCTxs |-> IF t = t3 THEN A ELSE M]
MCTo == [t \in MCTxs |-> IF t = t3 THEN M ELSE A]
MCAmount == [t \in MCTxs |-> IF t = t3 THEN 2 ELSE 9]
MCSmallAmount == [t \in MCTxs |-> IF t = t3 THEN 2 ELSE 6]
MCFee == [t \in MCTxs |-> IF t = t2 THEN 3 ELSE 1]
MCNonce == [t \in MCTxs |-> IF t = t2 THEN 1 ELSE 0]
MCMiners == {M}
MCNoPeer == << >>
MCPeerMiners == <<A, A, A>>
=============================================================================
