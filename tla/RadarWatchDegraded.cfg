\* What the command loop may be told of a single radar that comes back.
SPECIFICATION Spec
CONSTANTS
  Timeout = 3
  Period = 1
  PollGap = 1
  SameScene = FALSE
  FaultTimes = {}
  MaxTime = 6
  r1 = r1
  r2 = r2
  Units = {r1}
INVARIANTS
  DegradedHasBoth
