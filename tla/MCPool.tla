-------------------------------- MODULE MCPool --------------------------------
(* Two miners that share a reward of 21, which halves do not make, and send  *)
(* each other transfers of 8.  From 16 on a balance has even values only.    *)
EXTENDS Pool

CONSTANTS m1, m2

MCMiners == {m1, m2}
=============================================================================
