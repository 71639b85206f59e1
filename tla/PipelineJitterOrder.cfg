\* The sequence-order sentence of the sensor contract under jittered latency.
SPECIFICATION Spec
CONSTANTS
  LatencyMean = 2
  Jitter <- JitterSpread
  LatencyMin = 0
  LatencyMax = 3
  DropoutModel = "none"
  DropOutcomes <- Never
  GoodToBad <- Never
  BadToGood <- Never
  QueueDepth = 2
  OverflowPolicy = "drop_oldest"
  StaleAfter = 0
  Faults <- NoFaults
  MaxTime = 4
  MaxAttempts = 3
INVARIANT
  PublishedInSequenceOrder
