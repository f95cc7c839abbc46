SPECIFICATION Spec
CONSTANTS
  Clients = {a, b}
  Requests = {r1, r2, r3}
  Fields = {f}
  Values = {1, 2}
  NoValue = NoValue
  NoCookie = NoCookie
  Malformed = Malformed
  Unverified = Unverified
  Faults = TRUE
SYMMETRY Interchangeable
INVARIANT TypeOK
PROPERTY KeepsPromise
CHECK_DEADLOCK FALSE
