CONSTANTS
  Span = 3
  Durations = {0, 1, 2}
  Offsets <- MCOffsets
  MaxTime = 4
SPECIFICATION Spec
INVARIANTS
  StopsAreShown
