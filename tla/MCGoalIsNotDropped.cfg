CONSTANTS
  g1 = g1
  NoRoute = NoRoute
  Goals <- MCGoals
  Routes <- RequestedRoutes
  MaxInputs = 3
SPECIFICATION WantedSpec
PROPERTIES
  GoalIsNotDropped
