------------------------------ MODULE MCPeerSync ------------------------------
(* Node a dials b, which already runs.  Both start from genesis, or b on a *)
(* longer chain than a, or they start on chains that part right after      *)
(* genesis.                                                                *)
EXTENDS PeerSync

CONSTANTS a, b

MCNodes == {a, b}
MCSeeds == [n \in MCNodes |-> IF n = a THEN {b} ELSE {}]
MCRunning == {b}

Mined(n, k) == [i \in 1 .. k |-> <<n, 0, TRUE>>]  \* the blocks from before the start

Fresh == {[n \in MCNodes |-> << >>]}
Longer == {[n \in MCNodes |-> IF n = a THEN << >> ELSE Mined(b, 3)]}
Forked == {[n \in MCNodes |-> IF n = a THEN Mined(a, 2) ELSE Mined(b, 3)]}
ForkedOrLonger == Forked \cup Longer

NoneHarder == {}
TheThird == {3}  \* RETARGET_INTERVAL is 2016

ManyB == [n \in MCNodes |-> IF n = b THEN 4 ELSE 0]
MostlyA == [n \in MCNodes |-> IF n = a THEN 2 ELSE 1]
=============================================================================
