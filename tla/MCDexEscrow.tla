----------------------------- MODULE MCDexEscrow -----------------------------
EXTENDS DexEscrow, TLC

CONSTANTS e1, c1, c2

MCSize == [o \in Orders |-> 1]
===============================================================================
