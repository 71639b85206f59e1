\* The actor's read may fail.
SPECIFICATION Spec
CONSTANTS
  Sensors <- RadarOnly
  MaxSpeed = 1
  MaxLoopTime = 2
  MaxGap = 6
INVARIANTS
  DopplerReal
