\* Two radars whose frames all differ, read and asked about in every order.
SPECIFICATION Spec
CONSTANTS
  Timeout = 3
  Period = 1
  PollGap = 1
  SameScene = FALSE
  FaultTimes = {4}
  MaxTime = 5
  r1 = r1
  r2 = r2
  Units = {r1, r2}
PROPERTIES
  VerdictIsReal
SYMMETRY RadarSymmetry
VIEW RadarView
