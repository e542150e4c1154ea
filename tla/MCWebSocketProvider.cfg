SPECIFICATION FairSpec
CONSTANTS
  MaxSockets = 4
  None = None
  MaxUnmounts = 2
  MaxThrows = 2
INVARIANTS SocketsPerMount NeverStranded InStepUnlessRemounted
PROPERTY ConnectsAgain
CHECK_DEADLOCK FALSE
