SPECIFICATION Spec
CONSTANTS
  x = x
  y = y
  Addresses <- MCAddresses
  MaxBalance = 1
  MaxChanges = 1
  MaxFailures = 2
INVARIANTS DurableUnlessTorn AuditCoversBalances
PROPERTY RestartsAgree
CHECK_DEADLOCK FALSE
