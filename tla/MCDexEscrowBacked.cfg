SPECIFICATION Spec
CONSTANTS
  e1 = e1
  c1 = c1
  c2 = c2
  None = None
  Escrows = {e1}
  Chains = {c1}
  First = c1
  Size <- MCSize
  Units = {1}
  MaxFills = 2
  MaxOrders = 3
  MaxBook = 0
  MaxRestarts = 1
  MaxMishaps = 0
INVARIANT MovesAreBacked
CHECK_DEADLOCK FALSE
