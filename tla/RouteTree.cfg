SPECIFICATION Spec
CONSTANTS
  Letters = {"a", "b"}
  Patterns <- Patterns1
  Requests <- Requests1
  MaxRoutes = 3
INVARIANTS
  TypeOK
  LookupNeverPanics
  LeafSpellsRoute
  OneWayDown
  SearchComplete
  SearchSound
PROPERTY RoutesAreStable
CHECK_DEADLOCK FALSE
