---------------------------- MODULE MCBlockIntake ----------------------------
(* Two branches from one genesis (a1-a2-a3 and b1-b2-b3), a block x on a1    *)
(* dated too far ahead for validateBlock until the clock ticks, a block z on  *)
(* a1 that fails every check but claims index 0, a block y that only the      *)
(* shorter check list of reorg accepts, and a foreign genesis h.  a2 and a3   *)
(* lock coins in the bridge, and b3 is too easy for difficulty 2.             *)
EXTENDS BlockIntake

CONSTANTS g, a1, a2, a3, b1, b2, b3, x, y, z, h, none, t1, t2

MCBlocks == {g, a1, a2, a3, b1, b2, b3, x, y, z, h}
MCParent == [b \in MCBlocks |->
  CASE b \in {a1, b1} -> g
    [] b \in {a2, x, z} -> a1
    [] b = a3 -> a2
    [] b = b2 -> b1
    [] b = b3 -> b2
    [] b = y -> b1
    [] OTHER -> none]
MCIndex == [b \in MCBlocks |->
  CASE b \in {g, z, h} -> 0
    [] b \in {a1, b1} -> 1
    [] b \in {a2, b2, x, y} -> 2
    [] OTHER -> 3]
MCStamp == [b \in MCBlocks |-> IF b = x THEN 2 ELSE 0]
MCZeros == [b \in MCBlocks |-> IF b = b3 THEN 1 ELSE 2]
MCBridgeLocks == {a2, a3}
MCSound == MCBlocks \ {y, z, h}
MCReorgSound == MCBlocks \ {z, h}
MCDifficulties == {1, 2}
MCBlockWork == [d \in MCDifficulties |-> 16 ^ d]
MCTxs == {t1, t2}
MCBlockTxs == [b \in MCBlocks |->
  CASE b \in {a1, b3} -> {t1}
    [] b \in {a2, b2} -> {t2}
    [] OTHER -> {}]
\* Honest chains of every length, one through x, one through y, one through z,
\* two that are not linked, and one from the foreign genesis.
MCPeerChains ==
  {<< >>, <<g>>, <<g, a1>>, <<g, a1, a2>>, <<g, a1, a2, a3>>, <<g, b1>>, <<g, b1, b2>>,
   <<g, b1, b2, b3>>, <<g, a1, x>>, <<g, b1, y>>, <<g, a1, b2>>, <<g, a1, z>>, <<g, b1, a2, a3>>,
   <<h, a1, a2>>}
=============================================================================
