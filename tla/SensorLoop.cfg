\* A lossy link with one latency, a queue that is long enough and one too short:
\* what the consumer is told, when and in which order.
SPECIFICATION LoopsSpec
CONSTANTS
  LatencyMean = 3
  Jitter <- NoJitter
  LatencyMin = 0
  LatencyMax = 3
  DropoutModel = "bernoulli"
  DropOutcomes <- Sometimes
  GoodToBad <- Never
  BadToGood <- Never
  QueueDepth = 2
  OverflowPolicy = "drop_newest"
  StaleAfter = 0
  Faults <- OverlappingFaults
  MaxTime = 15
  MaxAttempts = 11
  Period = 2
  Phase = 1
  MaxStep = 3
INVARIANTS
  ReleasedInTime
  SizesRule
  LossyKeepsOrder
  FaultyNeverValid
PROPERTIES
  GridNeverSkipped
  LossyAnnounces
