CONSTANTS
  NoPose = NoPose
  ResetPose = ResetPose
  SmoothingSteps <- MCSmoothingSteps
  MaxQueueSize <- MCMaxQueueSize
  ExtendStateStep = 3
  MaxDt = 3
  Never = 1000
  MaxTime = 5
  MaxMeasurements = 4
  MaxEras = 2
SPECIFICATION Spec
INVARIANTS
  EkfTypeOK
  MeasurementMeetsItsPrediction
  UsedInFewUpdates
  AtMostOneStalePose
CHECK_DEADLOCK FALSE
