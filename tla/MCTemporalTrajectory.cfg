CONSTANTS
  Span = 2
  Durations = {0, 1, 2}
  Offsets <- MCOffsets
  MaxTime = 3
SPECIFICATION Spec
INVARIANTS
  WindowsAgree
  ConversionsAgree
PROPERTIES
  ImplementsSchedule
  UncroppedKeepsStopsShown
