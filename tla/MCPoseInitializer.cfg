CONSTANTS
  p1 = p1
  p2 = p2
  NoPose = NoPose
  Poses <- MCPoses
  UserDefinedPose = p1
  SmoothingSteps <- MCQueues
  MaxQueueSize <- MCQueues
  MaxCrashes = 2
SPECIFICATION Spec
INVARIANTS
  LocalizesFromHandedPose
  InitializedLocalizes
  FailureStopsLocalization
  SilentUntilReset
PROPERTIES
  ImplementsLocalizationService
  InitializationEnds
CHECK_DEADLOCK FALSE
