SPECIFICATION FairSpec
CONSTANTS
  Clients = {a, b}
  Requests = {r1, r2}
  Ids = {i1, i2}
  Fields = {f}
  Contents = {1}
  Values <- OwnValues
  NoValue = NoValue
  NoId = NoId
  Malformed = Malformed
  Overlaps = TRUE
  Faults = TRUE
  Timeout = TRUE
PROPERTY AllAnswered
CHECK_DEADLOCK FALSE
