SPECIFICATION Spec
CONSTANTS
  e1 = e1
  c1 = c1
  c2 = c2
  None = None
  Escrows = {e1}
  Chains = {c1, c2}
  First = c1
  Size <- MCSize
  Units = {1}
  MaxFills = 2
  MaxOrders = 3
  MaxBook = 0
  MaxRestarts = 1
  MaxMishaps = 1
PROPERTIES  NeverSentAgain
CHECK_DEADLOCK FALSE
