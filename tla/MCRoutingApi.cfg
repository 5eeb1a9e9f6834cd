CONSTANTS
  r1 = r1
  r2 = r2
  NoRoute = NoRoute
  Routes <- MCRoutes
SPECIFICATION MCSpec
INVARIANTS
  ShownRouteIsRight
PROPERTIES
  CallsMeanWhatTheySay
  ApiCatchesUp
  ApiNeverHangs
  ArrivalStops
