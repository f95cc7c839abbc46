SPECIFICATION Spec
CONSTANTS
  Letters = {"a", "b"}
  Patterns <- Patterns1
  Requests <- Short
  MaxRoutes = 3
INVARIANT SearchExact
CHECK_DEADLOCK FALSE
