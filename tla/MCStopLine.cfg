SPECIFICATION Spec
CONSTANTS
  Lines = {3, 4, 9}
  Lap = 14
  Laps = 3
  LaneBefore = 1
  LaneAfter = 1
  Horizon = 4
  Behind = 2
  HoldMargin = 4
  RequiredDuration = 3
  StoppedDuration = 0
  MaxMissed = 2
  MaxRestarts = 2
INVARIANTS
  StopsAtEveryLine
PROPERTIES
  GetsRound
