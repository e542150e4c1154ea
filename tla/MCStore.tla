------------------------------- MODULE MCStore -------------------------------
EXTENDS Store

CONSTANTS x, y
MCAddresses == {x, y}
=============================================================================
