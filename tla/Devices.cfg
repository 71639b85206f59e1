\* Every scene of three ultrasonic rays, and every order of calls on a handle, an
\* inertial sensor, a radar and four cameras.
SPECIFICATION DevicesSpec
CONSTANTS
  Rays = 3
  RangeMin = 3
  RangeMax = 6
  Distances <- SomeDistances
  NoEcho = NoEcho
  Noise <- SomeNoise
  DefaultGrid = 4
  ChosenGrid = 3
  MaxDetections = 3
  Capacities <- SomeCapacities
  MaxScans = 3
  Axes = {"x", "y"}
  ImuParams <- SomeParams
  MaxChange = 1
  MaxVelocity = 2
  MaxBuilds = 3
  MaxWait = 2
  Seeds = {1}
  RadarRays = 1
  RadarScans = 2
  Cameras = {"front", "side"}
  Fovs = {"file", "wide", "narrow"}
  Clips = {"file", "near", "far"}
  Rig <- SomeRig
  FileModel <- SomeModel
  MaxTime = 1
  Parent <- BodyTree
  Scenes <- SomeScenes
  Configs2D <- SomePlanar
  Configs3D <- SomeSolid
  Epsilon = 1
  Attempts = 2
  Spread = 1
  Period = 24
  LidarScans = 2
  Loaders <- SomeLoaders
  Joints <- SomeJoints
  MjcfJoints = {"hip", "knee"}
  Transforms <- SomeTransforms
  MaxListed = 2
  MaxLoads = 2
  HeaderSize = 6
  MaxText = 4
  HalfTime = 2
  MaxCount = 2
  Flags = 2
  Healths <- SomeHealths
  Headers <- SomeHeaders
  Bodies <- SomeBodies
  Refused = Refused
INVARIANTS
  MeasureSound
  AnswersOfThisCall
  SamplesSound
  RandomnessSeparated
  ModelRestored
  PairTogether
  ScansSeeTheScene
  FramesOfOneScan
  RefusalKeepsSensor
  LoadedAsOne
  FramesOfFile
  LanguagesAgree
PROPERTY
  NoOldPicture
\* A sensor that is not called any more, after the last of the bounded calls, does nothing.
CHECK_DEADLOCK FALSE
