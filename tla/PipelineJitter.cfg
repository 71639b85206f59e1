\* Jittered latency, Gilbert-Elliott dropout and DropOldest overflow.
SPECIFICATION Spec
CONSTANTS
  LatencyMean = 2
  Jitter <- JitterSpread
  LatencyMin = 0
  LatencyMax = 3
  DropoutModel = "gilbert_elliott"
  DropOutcomes <- Never
  GoodToBad <- Sometimes
  BadToGood <- Sometimes
  QueueDepth = 2
  OverflowPolicy = "drop_oldest"
  StaleAfter = 2
  Faults <- NoFaults
  MaxTime = 5
  MaxAttempts = 4
INVARIANTS
  TypeOK
  EveryAttemptAccounted
  JoinKeyUnique
  LossReportedByNextPublish
  ReorderBounded
PROPERTY
  KeepsContract
