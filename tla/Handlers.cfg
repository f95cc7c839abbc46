SPECIFICATION Spec
CONSTANTS
  Methods = {"GET", "PUT", "HEAD", "OPTIONS"}
  Origins = {"https://a.example", "https://b.example"}
  Headers = {"x-a", "x-b"}
  Sites <- MCSites
  Wants <- MCWants
  Requests <- MCRequests
  MaxPends = 2
INVARIANTS
  RefusedNotServed
  PreflightFaithful
  GrantedIsServed
  EachPolicySignsOnce
  AllowIsExact
  HandleInv
  ListMatchesDispatch
CHECK_DEADLOCK FALSE
