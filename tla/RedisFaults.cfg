SPECIFICATION Spec
CONSTANTS
  Clients = {a, b}
  Requests = {r1, r2, r3}
  Ids = {i1, i2, i3}
  Fields = {f}
  Contents = {1}
  Values <- OwnValues
  NoValue = NoValue
  NoId = NoId
  Malformed = Malformed
  Overlaps = TRUE
  Faults = TRUE
  Timeout = TRUE
SYMMETRY Interchangeable
INVARIANTS
  SessionInv
  DeletedForGood
CHECK_DEADLOCK FALSE
