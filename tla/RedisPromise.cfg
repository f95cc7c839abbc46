SPECIFICATION Spec
CONSTANTS
  Clients = {a, b}
  Requests = {r1, r2, r3}
  Ids = {i1, i2, i3}
  Fields = {f}
  Contents = {1, 2}
  Values <- OwnValues
  NoValue = NoValue
  NoId = NoId
  Malformed = Malformed
  Overlaps = FALSE
  Faults = FALSE
  Timeout = TRUE
SYMMETRY Interchangeable
PROPERTY KeepsPromise
CHECK_DEADLOCK FALSE
