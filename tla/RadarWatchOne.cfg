\* One radar, with restarts that repeat the old frames.
SPECIFICATION Spec
CONSTANTS
  Timeout = 4
  Period = 2
  PollGap = 1
  SameScene = TRUE
  FaultTimes = {4}
  MaxTime = 13
  r1 = r1
  r2 = r2
  Units = {r1}
INVARIANTS
  DeadIsReported
  LiveIsFresh
PROPERTIES
  RecoveryIsReal
VIEW OneRadarView
