SPECIFICATION Spec
CONSTANTS
  c1 = c1
  c2 = c2
  Conns = {c1, c2}
  MaxRequests = 2
  Requests <- MCRequests
  Setups <- MCSetups
INVARIANTS
  ServerInv
  RefusedHasNoTask
PROPERTIES
  NoPeerHoldsUp
  UpgradeSettled
  RunEnds
CHECK_DEADLOCK FALSE
