SPECIFICATION AppSpec
CONSTANTS
  Letters = {"a", "b", "c"}
  Patterns <- Routes2
  MountPoints <- Mounts2
  Requests <- Asked2
  Modifiers = {"m"}
  MaxRoutes = 2
  MaxScopes = 3
  MaxFrames = 3
  Lenient = TRUE
INVARIANTS
  AppInv
  ScopesNest
  FallbackCovers
  FallbackIsLocal
CHECK_DEADLOCK FALSE
