\* The channels alone: a radar the fit leaves out and the bridge publishes.
SPECIFICATION ChannelsAlone
CONSTANTS
  Sensors <- LidarAndRadar
  MaxSpeed = 1
  MaxLoopTime = 2
  MaxGap = 3
  Robots = {"Drone", "Drone1"}
  Names = {"rear", "radar_points"}
  Launched = {"launched"}
  Channels = {2, 3}
  ToolSize = 2
  ChanSize = 2
  LidarChannel = 4
  RadarChannel = 5
  SomeFiles <- FileSets
  Manifests <- SomeManifests
  Environments <- SomeEnvironments
  Overrides <- SomeOverrides
  Lengths <- SomeLengths
  None = None
  MaxEdits = 1
  Retries = 1
  MaxLegs = 2
  Circle = 8
  Cosine <- SomeCosine
  Fits <- SomeFits
  Targets <- SomeTargets
  Velocities <- SomeVelocities
  Windows <- SomeWindows
  Open = Open
  Tolerance = 2
  MaxLooks = 2
CHECK_DEADLOCK FALSE
INVARIANT
  DroppedIsUnpublished
