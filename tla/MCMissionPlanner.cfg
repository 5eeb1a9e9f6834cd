CONSTANTS
  A = A
  A2 = A2
  Loop = Loop
  m1 = m1
  m2 = m2
  NoRoute = NoRoute
  NoMap = NoMap
  Routes <- MCRoutes
  LoopedRoutes <- MCLooped
  Uuid <- MCUuid
  Maps <- MCMaps
  ValidOn <- MCValidOn
  ArrivalDuration = 1
  BufferTime = 2
  AllowReroute = TRUE
  Periods = {1, 2}
  Speeds = {"stopped", "moving"}
SPECIFICATION MCSpec
INVARIANTS
  TypeOK
  RouteMatchesState
  PlannerFollowsRoute
  HandlerCoherent
  OriginalPoseTracksUuid
PROPERTIES
  FailedRequestKeepsRoute
  ArrivesOnlyWhenStill
  ImplementsRouteService
  InitializationCompletes
  ParkedIsNoticed
