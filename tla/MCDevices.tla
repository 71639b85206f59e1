----------------------------- MODULE MCDevices -----------------------------
(***************************************************************************)
(* The sensors that are called and answer, one at a time, as one instance  *)
(* for TLC: they share no state, so a behaviour drives one of them and the *)
(* others stay as they were created.                                       *)
(***************************************************************************)
EXTENDS UltrasonicMeasure, CameraRig, HealthWire, SensorHandle, ImuSensor, RadarScan, LidarScan,
        SensorSettings

ASSUME HandleAssumption /\ ImuAssumption /\ RadarAssumption /\ LidarAssumption /\ SettingsAssumption

VARIABLE device  \* the one this behaviour drives

DevicesInit ==
  /\ device \in {"ultrasonic", "handle", "imu", "radar", "camera", "lidar", "settings",
                "wire"}
  /\ Init /\ HandleInit /\ ImuInit /\ RadarInit /\ CameraInit
  /\ LidarInit /\ SettingsInit /\ WireInit
  \* The settings of a sensor vary only where it is driven.
  /\ device # "camera" => extent /\ reversed /\ capturing = CHOOSE s \in DOMAIN Rig : TRUE
  /\ device # "lidar" => /\ caster
                         /\ planar = CHOOSE c \in Configs2D : TRUE
                         /\ solid = CHOOSE c \in Configs3D : Accepts(c)
  /\ device # "settings" => loader = CHOOSE l \in Loaders : TRUE

DevicesNext ==
  /\ UNCHANGED device
  /\ \/ device = "ultrasonic" /\ Next
        /\ UNCHANGED <<handleVars, imuVars, radarVars, cameraVars, lidarVars, settingsVars, wireVars>>
     \/ device = "handle" /\ HandleNext
        /\ UNCHANGED <<vars, imuVars, radarVars, cameraVars, lidarVars, settingsVars, wireVars>>
     \/ device = "imu" /\ ImuNext
        /\ UNCHANGED <<vars, handleVars, radarVars, cameraVars, lidarVars, settingsVars, wireVars>>
     \/ device = "radar" /\ RadarNext
        /\ UNCHANGED <<vars, handleVars, imuVars, cameraVars, lidarVars, settingsVars, wireVars>>
     \/ device = "camera" /\ CameraNext
        /\ UNCHANGED <<vars, handleVars, imuVars, radarVars, lidarVars, settingsVars, wireVars>>
     \/ device = "lidar" /\ LidarNext
        /\ UNCHANGED <<vars, handleVars, imuVars, radarVars, cameraVars, settingsVars, wireVars>>
     \/ device = "settings" /\ SettingsNext
        /\ UNCHANGED <<vars, handleVars, imuVars, radarVars, cameraVars, lidarVars, wireVars>>
     \/ device = "wire" /\ WireNext
        /\ UNCHANGED <<vars, handleVars, imuVars, radarVars, cameraVars, lidarVars, settingsVars>>

allVars == <<device, vars, handleVars, imuVars, radarVars, cameraVars, lidarVars, settingsVars,
             wireVars>>

DevicesSpec == DevicesInit /\ [][DevicesNext]_allVars

\* The inertial sensor alone.
ImuAlone == DevicesInit /\ device = "imu" /\ [][DevicesNext]_allVars

\* The ultrasonic sensor alone.
UltrasonicAlone == DevicesInit /\ device = "ultrasonic" /\ [][DevicesNext]_allVars
-----------------------------------------------------------------------------
\* Distances inside the blind zone, at and between both limits and beyond.
SomeDistances == 1..7
SomeNoise == {-3, 0, 3}

\* Buffers that hold nothing, less than a frame, a frame and more than that.
SomeCapacities == {-1, 0, 2, 3, 5}

\* No noise, white noise alone, and both biases besides.
SomeParams ==
  {[type |-> "none",     bias |-> FALSE, walk |-> FALSE, noise |-> FALSE],
   [type |-> "gaussian", bias |-> FALSE, walk |-> FALSE, noise |-> TRUE],
   [type |-> "gaussian", bias |-> TRUE,  walk |-> TRUE,  noise |-> TRUE]}

\* A camera that three sensors share, with different views, and a second one.
FrontView(f, c) == [camera |-> "front", fov |-> f, clip |-> c]
SomeRig ==
  [mono   |-> [kind |-> "mono",   views |-> <<FrontView("wide", "far")>>],
   depth  |-> [kind |-> "depth",  views |-> <<FrontView("wide", "near")>>],
   rgbd   |-> [kind |-> "rgbd",   views |-> <<FrontView("narrow", "near")>>],
   stereo |-> [kind |-> "stereo", views |-> <<FrontView("narrow", "near"),
                                              [camera |-> "side", fov |-> "narrow", clip |-> "far"]>>]]
SomeModel == [fovy |-> [c \in {"front", "side"} |-> "file"], clip |-> "file"]

\* Two bodies of the vehicle, and a wall.
BodyTree == [b \in {"world", "base", "arm", "wall"} |-> IF b = "arm" THEN "base" ELSE "world"]

\* Every order of the arm and walls in one direction, the base before a wall in another.
Surfaces(f) == {[dist |-> d, body |-> f[d]] : d \in {e \in DOMAIN f : f[e] # "none"}}
BaseThenWall == {[dist |-> 1, body |-> "base"], [dist |-> 3, body |-> "wall"]}
SomeScenes == {[d \in {0, 1} |-> IF d = 0 THEN Surfaces(f) ELSE BaseThenWall] :
                 f \in [1..4 -> {"none", "arm", "wall"}]}

\* Ascending, descending with padding, bias and noise, without resolution, without a body,
\* and one that moves its rays two units behind a surface.
Planar(mount, step, ascending, pad, rules, bias, eps) ==
  [body |-> mount, exclude |-> "base", min |-> 2, max |-> 4, first |-> 0, last |-> 2, step |-> step,
   ascending |-> ascending, pad |-> pad, blind |-> 0, rules |-> rules, bias |-> bias,
   eps |-> eps]
SomeRules == <<[lo |-> 3, hi |-> 3, type |-> "none", dependent |-> FALSE, sigma |-> 1],
               [lo |-> 2, hi |-> 4, type |-> "gaussian", dependent |-> TRUE, sigma |-> 1]>>
SomePlanar == {Planar("base", 1, TRUE, 0, << >>, 0, 1), Planar("base", 1, FALSE, 1, SomeRules, -1, 1),
               Planar("base", 0, TRUE, 0, << >>, 0, 1), Planar("gone", 2, TRUE, 2, << >>, 0, 1),
               Planar("base", 1, TRUE, 0, << >>, 0, 2)}

\* With and without firing offsets, at and beyond the limits SetConfig checks.
Solid(channels, rps, pps, offsets) ==
  [channels |-> channels, rps |-> rps, pps |-> pps, offsets |-> offsets,
   exclude |-> "base", min |-> 2, max |-> 4]
SomeSolid == {Solid(2, 1, 4, << >>), Solid(2, 2, 12, <<0, 3>>), Solid(2, 2, 12, <<0, 4>>),
              Solid(1, 1, 1, <<0, 0>>), Solid(1, 2, 1, << >>)}

\* Joints the model has and one it has not; frames that are each other's parents.
SomeJoints == {[name |-> "a", mjcf |-> "hip"], [name |-> "b", mjcf |-> "knee"],
               [name |-> "c", mjcf |-> "ghost"]}
Transform(parent, child, of) == [parent |-> parent, child |-> child, body |-> of]
SomeTransforms == {Transform("odom", "base", "b1"), Transform("base", "arm", "b2"),
                   Transform("base", "leg", ""), Transform("leg", "base", "b2")}
SomeLoaders == {"ultrasonic", "lidar2d", "mono", "depth", "rgbd", "stereo", "profile", "radar",
                "lidar3d", "imu", "force", "joint", "tf", "odometry"}

\* The bytes at every border of UTF-8; each way to fill two bytes, three and four
\* that begin a longer character, and texts at and beyond the length limit.
Borders == {0, 65, 127, 128, 143, 144, 159, 160, 191, 192, 193, 194, 223, 224, 225, 236, 237, 238,
            239, 240, 241, 243, 244, 245, 255}
Tails == {65, 127, 128, 143, 144, 159, 160, 191, 192}
SomeBodies ==
  {<<65, 65, 65, 65, 65>>} \cup {<<65, a, b>> : a, b \in Borders} \cup
  {<<a, b, c, 65>> : a \in 224..239, b \in Tails, c \in {127, 128, 191, 192}} \cup
  {<<a, b, c, d>> : a \in 239..245, b \in Tails, c, d \in {127, 128, 191, 192}}
Header(excess, source, scheduled, publish, bits, rest) ==
  [ours |-> TRUE, excess |-> excess, amiss |-> 0, sequence |-> 0, source |-> source, scheduled |-> scheduled,
   publish |-> publish, status |-> bits, rest |-> rest]
SomeHeaders ==
  {Header(0, 0, 1, 1, 1, r) : r \in {<<0, 0>>, <<1, 0>>, <<0, 2>>, <<1, 1>>}} \cup
  {Header(e, 0, 0, 0, 0, <<0, 0>>) : e \in {-1, 1}} \cup
  {Header(0, t[1], t[2], t[3], s, <<0, 0>>) : t \in {<<1, 0, 1>>, <<1, 1, 0>>, <<3, 1, 1>>,
     <<0, 2, 0>>, <<0, 0, 3>>, <<2, 3, 3>>}, s \in {1, 2}} \cup
  {[Header(e, 0, 0, 0, 0, r) EXCEPT !.amiss = a] :
     a \in {-1, 1}, e \in {-1, 0, 1}, r \in {<<0, 0>>, <<1, 1>>}} \cup
  {[Header(0, 0, 0, 0, 1, <<0, 0>>) EXCEPT !.ours = FALSE]}
Health(s, t, f, p, c) ==
  [sensor_id |-> s, sequence |-> 1, source |-> t[1], scheduled |-> t[2], publish |-> t[3],
   status |-> f, profile_id |-> p, calibration_id |-> c]
SomeNames == {<< >>, <<65>>, <<0>>, <<194, 128>>, <<194>>, <<128>>, <<65, 65, 65, 65>>,
              <<65, 65, 65, 65, 65>>, <<237, 160, 128>>}
SomeHealths ==
  {Health(s, <<0, 1, 1>>, 1, p, c) : s, p, c \in SomeNames} \cup
  {Health(<<65>>, t, f, << >>, <<65>>) : t \in (-1..2) \X (-1..2) \X (-1..2), f \in {0, 1, 2}} \cup
  {[Health(<<65>>, <<0, 1, 1>>, f, << >>, << >>) EXCEPT !.sequence = s] :
     s \in {-1, 0, 2, 3}, f \in {-1, 0, 1, 2}}
=============================================================================
