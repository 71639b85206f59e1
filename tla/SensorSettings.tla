--------------------------- MODULE SensorSettings ---------------------------
(***************************************************************************)
(* LoadConfig of every sensor, called again and again on a sensor that is  *)
(* in use.  A loader is a sequence of steps that write parts of the sensor *)
(* or give up; what was written before stays written.  A part is modelled  *)
(* by the load it comes from, a file by the optional sections it has and   *)
(* the fault in it.  The joints and the transforms of a file are kept,     *)
(* because Build reads what a load that gave up has left.                  *)
(*                                                                         *)
(* A value of the wrong type throws where the source reads it with value() *)
(* of the JSON library.  What get_json_string and its like do with one is  *)
(* not in this repository: they give the default, which is a file without  *)
(* a fault, or throw, which is the fault "type" or "entry".                *)
(***************************************************************************)
EXTENDS Naturals, Sequences, FiniteSets, SequencesExt

CONSTANTS
  Loaders,     \* the sensors that are driven
  Joints,      \* entries [name, mjcf] of a joint file
  MjcfJoints,  \* the joints of the model
  Transforms,  \* [parent, child, body] entries of a tf file, body Unnamed for none
  MaxListed,   \* bound: entries in a file
  MaxLoads     \* bound: loads

\* The sensors that have a loader.
SettingsAssumption ==
  /\ Loaders \subseteq {"ultrasonic", "lidar2d", "mono", "depth", "rgbd", "stereo", "profile",
                        "radar", "lidar3d", "imu", "force", "joint", "tf", "odometry"}
  /\ MaxListed \in Nat /\ MaxLoads \in Nat

VARIABLES
  loader,    \* the sensor of this behaviour
  loads,     \* loads and changes of options so far
  kept,      \* part of the sensor -> the load that wrote it, 0 as constructed
  files,     \* load -> its file
  result,    \* of the latest load: "ok", "refused" or "threw"
  joints, jointIds,         \* config_.joints, joint_ids_
  transforms, childToBody, bodyCache, \* config_.transforms, child_to_body_, body_cache_
  built      \* what the latest Build gave

settingsVars == <<loader, loads, kept, files, result, joints, jointIds,
                  transforms, childToBody, bodyCache, built>>

\* An empty name.
Unnamed == ""

Cameras2 == {"mono", "depth", "rgbd", "stereo"}
Transactional == Cameras2 \cup {"profile", "radar", "lidar3d"}

Optional(k) ==
  CASE k = "ultrasonic" -> {"DetectionDistance", "Cone", "binding"}
    [] k = "lidar2d"    -> {"binding"}
    [] OTHER            -> {}

Faults(k) ==
  CASE k = "ultrasonic" -> {"file", "frame_id", "RadiationType", "DetectionDistance", "Cone",
                            "UpdateRate", "DistanceAccuracy", "RuntimeBinding", "range", "rate",
                            "site"}
    [] k \in {"lidar2d", "joint", "odometry"} -> {"file", "type"}
    [] k = "tf"         -> {"file", "type", "entry"}
    [] k = "mono"       -> {"file", "spec", "field", "distortion", "value"}
    [] k = "depth"      -> {"file", "field", "distortion", "value"}
    [] k = "rgbd"       -> {"file", "rgb", "depth", "spec", "field", "distortion", "artifact",
                            "value", "mismatch"}
    [] k = "stereo"     -> {"file", "cameras", "spec", "field", "distortion", "pose",
                            "value", "mismatch"}
    [] k = "profile"    -> {"file", "spec", "field", "distortion"}
    [] k = "radar"      -> {"file", "type", "value"}
    [] k = "lidar3d"    -> {"value"}
    [] k = "imu"        -> {"file", "type", "address"}
    [] k = "force"      -> {"file", "address"}

FilesOf(k) == [has : SUBSET Optional(k), fault : Faults(k) \cup {"none"}]
-----------------------------------------------------------------------------
(***************************************************************************)
(* Steps                                                                   *)
(***************************************************************************)
Write(parts) == [writes |-> parts, ends |-> "no"]
When(cond, parts) == Write(IF cond THEN parts ELSE {})
Refuse(cond) == [writes |-> {}, ends |-> IF cond THEN "refused" ELSE "no"]
Throw(cond) == [writes |-> {}, ends |-> IF cond THEN "threw" ELSE "no"]

\* The steps before the first that gives up, and how the load ends.
Ending(steps) == {i \in DOMAIN steps : steps[i].ends # "no"}
Reached(steps) ==
  IF Ending(steps) = {} THEN DOMAIN steps
  ELSE {i \in DOMAIN steps : \A e \in Ending(steps) : i < e}
Written(steps) == UNION {steps[i].writes : i \in Reached(steps)}
Verdict(steps) ==
  IF Ending(steps) = {} THEN "ok"
  ELSE steps[CHOOSE e \in Ending(steps) : \A i \in Ending(steps) : e <= i].ends

\* The settings of an ultrasonic sensor, which are read in place.
UltrasonicConfig ==
  {"frame_id", "radiation", "range", "cone", "rate", "accuracy", "binding"}

\* The parts of a sensor, and which are computed from which.
PartsOf(k) ==
  CASE k = "ultrasonic" -> UltrasonicConfig \cup {"frame", "exclude", "rays", "noise", "schedule"}
    [] k = "lidar2d"    -> {"config", "options", "bodies", "noise", "schedule"}
    [] k = "rgbd"       -> {"config", "rgb_rng", "depth_rng", "artifact_rng", "schedule"}
    [] k \in {"imu", "force"} -> {"config", "address", "noise", "schedule"}
    [] k = "profile"    -> {"config"}
    [] k = "tf"         -> {"config", "caches", "schedule"}
    [] k = "joint"      -> {"config", "ids", "schedule"}
    [] k = "odometry"   -> {"config", "body", "schedule"}
    [] k = "radar"      -> {"config", "rng", "effects_rng", "noise", "schedule"}
    [] k = "lidar3d"    -> {"config", "count", "schedule"}
    [] OTHER            -> {"config", "rng", "schedule"}

From(k) ==
  CASE k = "ultrasonic" -> {<<"rays", "cone">>, <<"noise", "accuracy">>, <<"schedule", "rate">>,
                            <<"frame", "binding">>}
    [] OTHER -> {<<p, "config">> : p \in PartsOf(k) \ {"config", "bodies", "options"}}
-----------------------------------------------------------------------------
(***************************************************************************)
(* The loaders                                                             *)
(***************************************************************************)
\* The latest file that has the section, judged when this one has none.
RangeFrom(f) ==
  IF "DetectionDistance" \in f.has THEN f.fault # "range"
  ELSE kept["range"] # 0 /\ files[kept["range"]].fault # "range"

\* What UltrasonicSensor::LoadConfig reads, into config_ itself; a value of the wrong
\* type is refused where it is met, because a JSON exception is caught.  Accuracies are
\* cleared before the first is read, and a binding is written name by name.
UltrasonicReads(f) ==
  << Refuse(f.fault \in {"file", "frame_id"}),
     Write({"frame_id"}),
     Refuse(f.fault = "RadiationType"),
     Write({"radiation"}),
     Refuse(f.fault = "DetectionDistance"),
     When("DetectionDistance" \in f.has, {"range"}),
     Refuse(f.fault = "Cone"),
     When("Cone" \in f.has, {"cone"}),
     Refuse(f.fault = "UpdateRate"),
     Write({"rate", "accuracy"}),
     Refuse(f.fault = "DistanceAccuracy"),
     When("binding" \in f.has, {"binding"}),
     Refuse(f.fault = "RuntimeBinding") >>

\* A variant that casts the rays it has.
UltrasonicStepsOldRays(f) ==
  UltrasonicReads(f) \o
  << Refuse(~RangeFrom(f) \/ f.fault = "rate"), Write({"frame"}), Refuse(f.fault = "site"),
     Write({"exclude", "noise", "schedule"}) >>

\* What it checks and computes then: without the site Measure has no frame.
UltrasonicSteps(f) ==
  UltrasonicReads(f) \o
  << Refuse(~RangeFrom(f) \/ f.fault = "rate"), Write({"frame"}), Refuse(f.fault = "site"),
     Write({"exclude", "rays", "noise", "schedule"}) >>

\* LiDAR2DSensor::LoadConfig starts from defaults; the bodies stay without a binding.
\* A frame_id or an accuracy of the wrong type throws, and nothing catches it.
Lidar2DSteps(f) ==
  << Refuse(f.fault = "file"),
     Write({"config", "options"}), Throw(f.fault = "type"),
     When("binding" \in f.has, {"bodies"}),
     Write({"schedule", "noise"}) >>

\* LoadRootJson; then a camera is read into a local, checked, and assigned with
\* its generators.  A list of distortions that are no numbers is not caught.
ReadFile(f) == << Refuse(f.fault = "file") >>
ParseCamera(f) == << Refuse(f.fault \in {"spec", "field"}), Throw(f.fault = "distortion") >>
ParseDepthCamera(f) == << Refuse(f.fault = "field"), Throw(f.fault = "distortion") >>
MonoSteps(f) ==
  ReadFile(f) \o ParseCamera(f)
    \o << Refuse(f.fault = "value"), Write({"config", "rng", "schedule"}) >>
DepthSteps(f) ==
  ReadFile(f) \o ParseDepthCamera(f)
    \o << Refuse(f.fault = "value"), Write({"config", "rng", "schedule"}) >>
ProfileSteps(f) == ReadFile(f) \o ParseCamera(f) \o << Write({"config"}) >>

\* A variant that keeps the colour part before it looks at the depth part.
RgbdStepsEarly(f) ==
  ReadFile(f) \o ParseCamera(f) \o
  << Write({"config"}), Refuse(f.fault = "depth"), Refuse(f.fault \in {"value", "mismatch"}),
     Write({"config", "rgb_rng", "depth_rng", "artifact_rng", "schedule"}) >>

\* Both halves of an RGB-D camera, then what its depth misses.
ParseRgbd(f) ==
  ReadFile(f) \o << Refuse(f.fault \in {"rgb", "depth"}) >> \o ParseCamera(f)
    \o ParseDepthCamera(f) \o << Throw(f.fault = "artifact") >>

\* Both cameras of a pair, then where they are.
ParseStereo(f) ==
  ReadFile(f) \o << Refuse(f.fault = "cameras") >> \o ParseCamera(f) \o ParseCamera(f)
    \o << Refuse(f.fault = "pose") >>

RgbdSteps(f) ==
  ParseRgbd(f) \o << Refuse(f.fault \in {"value", "mismatch"}),
                     Write({"config", "rgb_rng", "depth_rng", "artifact_rng", "schedule"}) >>
StereoSteps(f) ==
  ParseStereo(f) \o << Refuse(f.fault \in {"value", "mismatch"}),
                       Write({"config", "rng", "schedule"}) >>

\* RadarSensor::LoadConfig and Lidar3DSensor::SetConfig.
RadarSteps(f) ==
  << Refuse(f.fault = "file"), Throw(f.fault \in {"type", "value"}),
     Write({"config", "rng", "effects_rng", "noise", "schedule"}) >>
Lidar3DSteps(f) == << Throw(f.fault = "value"), Write({"config", "count", "schedule"}) >>

\* MjcfImuSensor::LoadConfig has the new settings before it looks for the sensors.
ImuSteps(f) ==
  << Refuse(f.fault = "file"), Write({"config"}), Throw(f.fault = "type"),
     Write({"schedule", "address"}),
     Refuse(f.fault = "address"), Write({"noise"}) >>

\* ForceTorqueSensor::LoadConfig finishes first and then says whether there are any;
\* it asks every value for its type.
ForceSteps(f) ==
  << Refuse(f.fault = "file"), Write({"config", "noise", "address", "schedule"}),
     Refuse(f.fault = "address") >>

\* JointStateSensor::LoadConfig: a joint that is missing throws before the schedule.
JointSteps(f, listed) ==
  << Refuse(f.fault = "file"), Write({"config"}), Throw(f.fault = "type"), Write({"ids"}),
     Throw(\E i \in DOMAIN listed : listed[i].mjcf \notin MjcfJoints),
     Write({"schedule"}), Refuse(listed = << >>) >>

TfSteps(f) ==
  << Refuse(f.fault = "file"), Write({"config"}), Throw(f.fault = "type"), Write({"caches"}),
     Throw(f.fault = "entry"), Write({"schedule"}) >>
OdometrySteps(f) ==
  << Refuse(f.fault = "file"), Write({"config"}), Throw(f.fault = "type"),
     Write({"body", "schedule"}) >>

Steps(f, listed) ==
  CASE loader = "ultrasonic" -> UltrasonicSteps(f)
    [] loader = "lidar2d"    -> Lidar2DSteps(f)
    [] loader = "mono"       -> MonoSteps(f)
    [] loader = "depth"      -> DepthSteps(f)
    [] loader = "profile"    -> ProfileSteps(f)
    [] loader = "rgbd"       -> RgbdSteps(f)
    [] loader = "stereo"     -> StereoSteps(f)
    [] loader = "radar"      -> RadarSteps(f)
    [] loader = "lidar3d"    -> Lidar3DSteps(f)
    [] loader = "imu"        -> ImuSteps(f)
    [] loader = "force"      -> ForceSteps(f)
    [] loader = "joint"      -> JointSteps(f, listed)
    [] loader = "tf"         -> TfSteps(f)
    [] loader = "odometry"   -> OdometrySteps(f)
-----------------------------------------------------------------------------
(***************************************************************************)
(* What JointStateSensor and TfPublisher keep of a file                    *)
(***************************************************************************)
\* ResolveJointIds: from nothing, up to the first joint the model does not have.
ResolveJointIds(listed) ==
  LET found(n) == \A i \in 1..n : listed[i].mjcf \in MjcfJoints
      known == Max({n \in 0..Len(listed) : found(n)})
  IN [i \in 1..known |-> listed[i].mjcf]

\* The joints before an entry that throws are kept, beside the ids there were.
LoadJoints(f, listed) ==
  /\ joints' = listed
  /\ jointIds' = IF f.fault = "type" THEN jointIds ELSE ResolveJointIds(listed)

\* A variant that adds to the parents that were known.
LoadTransformsKeepsCaches(listed) ==
  /\ transforms' = listed
  /\ childToBody' = [c \in DOMAIN childToBody \cup {t.child : t \in ToSet(listed)} |->
       LET own == {i \in DOMAIN listed : listed[i].child = c}
       IN IF own = {} THEN childToBody[c] ELSE listed[Max(own)].body]
  /\ bodyCache' = bodyCache \cup ({t.body : t \in ToSet(listed)} \ {Unnamed})

\* TfPublisher::LoadConfig throws before it clears what it knows of the bodies ...
GivesUpOnTransforms ==
  /\ transforms' = << >>
  /\ UNCHANGED <<childToBody, bodyCache>>

\* ... or has it for the transforms it came to: the last one of a child counts.
LoadTransforms(listed) ==
  /\ transforms' = listed
  /\ childToBody' = [c \in {t.child : t \in ToSet(listed)} |->
                       listed[Max({i \in DOMAIN listed : listed[i].child = c})].body]
  /\ bodyCache' = {t.body : t \in ToSet(listed)} \ {Unnamed}

Load ==
  /\ loads < MaxLoads /\ loads' = loads + 1
  /\ \E f \in FilesOf(loader) :
     \E listed \in (CASE loader = "joint" -> BoundedSeq(Joints, MaxListed)
                      [] loader = "tf" -> BoundedSeq(Transforms, MaxListed)
                      [] OTHER -> {<< >>}) :
       /\ files' = Append(files, f)
       /\ result' = Verdict(Steps(f, listed))
       /\ kept' = [p \in DOMAIN kept |-> IF p \in Written(Steps(f, listed)) THEN loads' ELSE kept[p]]
       /\ IF loader = "joint" /\ f.fault # "file" THEN LoadJoints(f, listed)
          ELSE UNCHANGED <<joints, jointIds>>
       /\ CASE loader # "tf" \/ f.fault = "file" -> UNCHANGED <<transforms, childToBody, bodyCache>>
            [] loader = "tf" /\ f.fault = "type" -> GivesUpOnTransforms
            [] OTHER -> LoadTransforms(listed)
  /\ UNCHANGED <<loader, built>>

\* SetRuntimeOptions of LiDAR2DSensor.
SetRuntimeOptions ==
  /\ loader = "lidar2d" /\ loads < MaxLoads /\ loads' = loads + 1
  /\ kept' = [kept EXCEPT !["options"] = loads']
  /\ files' = Append(files, [has |-> {}, fault |-> "none"])
  /\ UNCHANGED <<loader, result, joints, jointIds, transforms, childToBody, bodyCache, built>>

\* JointStateSensor::Build: what it has when .at(i) throws stays in the frame.  The
\* ids are of another file than the names if a load gave up between them.
BuildJoints ==
  /\ loader = "joint"
  /\ built' = [i \in DOMAIN joints \cap DOMAIN jointIds |->
                [of |-> joints[i], id |-> jointIds[i], torn |-> kept["config"] # kept["ids"]]]
  /\ UNCHANGED <<loader, loads, kept, files, result, joints, jointIds, transforms, childToBody, bodyCache>>

\* TfPublisher::Build: a transform without a body is left out, one whose parent
\* is no child of another is in the world.
Relative(t) ==
  IF t.parent \in {"odom", Unnamed} \/ t.parent \notin DOMAIN childToBody THEN "world"
  ELSE childToBody[t.parent]
Publishable(t) == t.body \in bodyCache /\ Relative(t) \in bodyCache \cup {"world"}

BuildTransforms ==
  /\ loader = "tf"
  /\ LET shown == SelectSeq(transforms, Publishable)
     IN built' = [i \in DOMAIN shown |-> [of |-> shown[i], to |-> Relative(shown[i])]]
  /\ UNCHANGED <<loader, loads, kept, files, result, joints, jointIds, transforms, childToBody, bodyCache>>

SettingsInit ==
  /\ loader \in Loaders
  /\ loads = 0 /\ files = << >> /\ result = "ok"
  /\ kept = [p \in PartsOf(loader) |-> 0]
  /\ joints = << >> /\ jointIds = << >>
  /\ transforms = << >> /\ childToBody = << >> /\ bodyCache = {}
  /\ built = << >>

SettingsNext == Load \/ SetRuntimeOptions \/ BuildJoints \/ BuildTransforms

SettingsSpec == SettingsInit /\ [][SettingsNext]_settingsVars
-----------------------------------------------------------------------------
(***************************************************************************)
(* A load of a camera, a radar or a 3D LiDAR that is refused or throws     *)
(* leaves the sensor as it was, however far it got: both halves of a       *)
(* paired camera, the generators and the schedule.                         *)
(***************************************************************************)
RefusalKeepsSensor ==
  loader \in Transactional /\ result # "ok" => \A p \in DOMAIN kept : kept[p] < Len(files)

(***************************************************************************)
(* After a load that succeeded no part that is computed from a setting is  *)
(* older than the setting, whatever failed before: rays belong to the      *)
(* cone, noise rules to the accuracies, ids to the joints.  And what the   *)
(* file does not have is all that is left of an older one.                 *)
(***************************************************************************)
LoadedAsOne ==
  result = "ok" /\ files # << >> =>
    LET f == files[Len(files)] IN
    /\ \A d \in From(loader) : kept[d[1]] >= kept[d[2]]
    /\ loader = "ultrasonic" => \A p \in DOMAIN kept :
         kept[p] = Len(files) \/ (p = "range" /\ "DetectionDistance" \notin f.has)
           \/ (p = "cone" /\ "Cone" \notin f.has) \/ (p = "binding" /\ "binding" \notin f.has)

\* Each published joint has the angle of the joint of its name, if names and ids are
\* of one load.
JointsNamed == \A i \in DOMAIN built : built[i].torn \/ built[i].id = built[i].of.mjcf

\* Each published transform is relative to the body of its parent frame.
TransformsNamed ==
  \A t \in ToSet(transforms) : Publishable(t) =>
    LET own == {u \in ToSet(transforms) : u.child = t.parent}
    IN IF own = {} \/ t.parent \in {"odom", Unnamed} THEN Relative(t) = "world"
       ELSE Relative(t) \in {u.body : u \in own}

(***************************************************************************)
(* What is published after a reload is of the file that is loaded.  A      *)
(* joint is never published with the angle of another, also after a file   *)
(* with an unknown joint has thrown half way and another has been loaded,  *)
(* unless a value that could not be read stopped a load between the names  *)
(* and the ids, and that sensor is used;                                   *)
(* and a transform is relative to the body the file gives its parent       *)
(* frame, and to the world only if the file does not have that frame.      *)
(***************************************************************************)
FramesOfFile ==
  /\ loader = "joint" => JointsNamed
  /\ loader = "tf" => TransformsNamed
=============================================================================
