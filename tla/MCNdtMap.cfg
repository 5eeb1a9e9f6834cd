SPECIFICATION Spec
CONSTANTS
  Positions = {0, 2, 4, 11}
  Cells = {0, 1, 2, 3, 4, 5, 6, 7}
  MapRadius = 3
  LidarRadius = 1
  UpdateDistance = 1
INVARIANTS
  NdtTypeOK
  MapIsWhereItSays
  MatchesWholeMaps
PROPERTIES
  MapFollows
