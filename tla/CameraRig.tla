----------------------------- MODULE CameraRig -----------------------------
(***************************************************************************)
(* The cameras (sensors/camera): mono, depth, RGB-D and stereo sensors     *)
(* that render one shared MuJoCo model.  A render overrides the field of   *)
(* view of its camera and the clip planes in the model and restores them   *)
(* when it returns; a sensor then encodes what was read into frames, or    *)
(* clears them.  Pixels and noise are left out: a picture is the time, the *)
(* field of view and the clip planes it was made with.                     *)
(***************************************************************************)
EXTENDS Naturals, Sequences

CONSTANTS
  Cameras,   \* the cameras of the model
  Fovs,      \* fields of view
  Clips,     \* pairs of clip planes
  Rig,       \* the sensors: [kind, views], a view being [camera, fov, clip]
  FileModel, \* the model as loaded: [fovy, clip]
  MaxTime    \* bound: the end of the modelled run

NoFrame == <<>>

Kinds == {"mono", "depth", "rgbd", "stereo"}

\* The frames a sensor fills.
Parts(kind) ==
  CASE kind = "mono"   -> {"image"}
    [] kind = "depth"  -> {"depth"}
    [] kind = "rgbd"   -> {"image", "depth"}
    [] kind = "stereo" -> {"left", "right"}

Views  == [camera : Cameras, fov : Fovs, clip : Clips]
Models == [fovy : [Cameras -> Fovs], clip : Clips]

\* One view, or two of the same field of view for a stereo pair (LoadConfig).
ViewsOf(kind) ==
  IF kind = "stereo" THEN {v \in Views \X Views : v[1].fov = v[2].fov}
  ELSE {<<v>> : v \in Views}

ASSUME CameraAssumption ==
  /\ \A s \in DOMAIN Rig : Rig[s].kind \in Kinds /\ Rig[s].views \in ViewsOf(Rig[s].kind)
  /\ FileModel \in Models
  /\ MaxTime \in Nat

VARIABLES
  mjModel,   \* the model all cameras share: cam_fovy and vis.map
  saved,     \* what the guards of the running render will restore
  worldTime, \* data->time
  extent,    \* model->stat.extent is positive: without it clip planes stay
  reversed,  \* con_.readDepthMap is not mjDEPTH_ZERONEAR
  capturing, \* the sensor whose Capture runs
  phase,     \* "idle", "render", "draw", "restore" or "encode"
  raws,      \* the raw frames of this capture, NoFrame for a failed render
  frames     \* the frames of every sensor, as the last Capture left them

cameraVars == <<mjModel, saved, worldTime, extent, reversed, capturing, phase, raws, frames>>

\* The view that is being rendered.
View == Rig[capturing].views[Len(raws) + 1]

\* After a render comes the next view of the sensor or the encoding.
AfterRender(rendered) ==
  phase' = IF Len(rendered) < Len(Rig[capturing].views) THEN "render" ELSE "encode"
-----------------------------------------------------------------------------
WorldStep ==
  /\ phase = "idle"
  /\ worldTime < MaxTime
  /\ worldTime' = worldTime + 1
  /\ UNCHANGED <<mjModel, saved, extent, reversed, capturing, phase, raws, frames>>

Capture(s) ==
  /\ phase = "idle"
  /\ capturing' = s
  /\ phase' = "render"
  /\ raws' = <<>>
  /\ UNCHANGED <<mjModel, saved, worldTime, extent, reversed, frames>>

\* No offscreen buffer, an image larger than it, or no such camera: found
\* before anything in the model is touched.
RenderFails ==
  /\ phase = "render"
  /\ raws' = Append(raws, NoFrame)
  /\ AfterRender(raws')
  /\ UNCHANGED <<mjModel, saved, worldTime, extent, reversed, capturing, frames>>

\* CameraClipOverrideGuard and CameraFovyOverrideGuard.
Override ==
  /\ phase = "render"
  /\ saved' = mjModel
  /\ mjModel' = [mjModel EXCEPT !.fovy[View.camera] = View.fov,
                                !.clip = IF extent THEN View.clip ELSE @]
  /\ phase' = "draw"
  /\ UNCHANGED <<worldTime, extent, reversed, capturing, raws, frames>>

Draw ==
  /\ phase = "draw"
  /\ raws' = Append(raws, [time |-> worldTime, fov |-> mjModel.fovy[View.camera],
                           clip |-> mjModel.clip])
  /\ phase' = "restore"
  /\ UNCHANGED <<mjModel, saved, worldTime, extent, reversed, capturing, frames>>

\* A variant without the guard of the field of view.
RestoreClipOnly ==
  /\ phase = "restore"
  /\ mjModel' = [mjModel EXCEPT !.clip = saved.clip]
  /\ AfterRender(raws)
  /\ UNCHANGED <<saved, worldTime, extent, reversed, capturing, raws, frames>>

Restore ==
  /\ phase = "restore"
  /\ mjModel' = saved
  /\ AfterRender(raws)
  /\ UNCHANGED <<saved, worldTime, extent, reversed, capturing, raws, frames>>

\* A raw frame as an image, unless its format or its noise is refused, and as a
\* depth map unless besides its order is reversed.
Image(part, raw, refused) == IF part \in refused THEN NoFrame ELSE raw
Depth(raw, refused) == IF reversed THEN NoFrame ELSE Image("depth", raw, refused)

\* The two sides of a stereo pair, each as it could be encoded.
Sides(refused) ==
  [left |-> Image("left", raws[1], refused), right |-> Image("right", raws[2], refused)]
Complete(pair) == NoFrame \notin {pair.left, pair.right}

\* A variant that clears only the side that failed.
PairEachAlone(refused) == Sides(refused)

\* A variant that leaves the frames as they are when a side fails.
PairOrKept(refused) ==
  IF Complete(Sides(refused)) THEN Sides(refused) ELSE frames[capturing]

\* A stereo pair is cleared together, whichever side could not be rendered,
\* encoded or given its noise.
Pair(refused) ==
  IF Complete(Sides(refused)) THEN Sides(refused) ELSE [left |-> NoFrame, right |-> NoFrame]

\* What the sensor makes of its raw frames: an RGB-D sensor takes both from one.
Encoded(refused) ==
  IF Rig[capturing].kind = "stereo" THEN Pair(refused)
  ELSE [p \in Parts(Rig[capturing].kind) |->
          IF p = "depth" THEN Depth(raws[1], refused) ELSE Image(p, raws[1], refused)]

\* Any of the frames may be refused: LoadConfig lets no such format or noise
\* through, and Capture handles it all the same.
Encode ==
  /\ phase = "encode"
  /\ \E refused \in SUBSET Parts(Rig[capturing].kind) :
       frames' = [frames EXCEPT ![capturing] = Encoded(refused)]
  /\ phase' = "idle"
  /\ UNCHANGED <<mjModel, saved, worldTime, extent, reversed, capturing, raws>>

CameraInit ==
  /\ mjModel = FileModel /\ saved = FileModel
  /\ worldTime = 0
  /\ extent \in BOOLEAN /\ reversed \in BOOLEAN
  /\ capturing \in DOMAIN Rig
  /\ phase = "idle"
  /\ raws = <<>>
  /\ frames = [s \in DOMAIN Rig |-> [p \in Parts(Rig[s].kind) |-> NoFrame]]

CameraNext ==
  \/ WorldStep
  \/ \E s \in DOMAIN Rig : Capture(s)
  \/ RenderFails
  \/ Override
  \/ Draw
  \/ Restore
  \/ Encode

CameraSpec == CameraInit /\ [][CameraNext]_cameraVars
-----------------------------------------------------------------------------
\* A picture and what it was made with.
Pictures == [time : 0..MaxTime, fov : Fovs, clip : Clips]

CameraTypeOK ==
  /\ mjModel \in Models /\ saved \in Models
  /\ worldTime \in 0..MaxTime
  /\ extent \in BOOLEAN /\ reversed \in BOOLEAN
  /\ capturing \in DOMAIN Rig
  /\ phase \in {"idle", "render", "draw", "restore", "encode"}
  /\ raws \in Seq(Pictures \cup {NoFrame})
  /\ DOMAIN frames = DOMAIN Rig
  /\ \A s \in DOMAIN Rig : frames[s] \in [Parts(Rig[s].kind) -> Pictures \cup {NoFrame}]

(***************************************************************************)
(* Between two captures the shared model is the one that was loaded,       *)
(* however many renders have failed or succeeded: nothing of one camera    *)
(* reaches the picture of another, or the viewer of the scene.             *)
(***************************************************************************)
ModelRestored == phase = "idle" => mjModel = FileModel

(***************************************************************************)
(* A stereo pair is both pictures of one instant or none.                  *)
(***************************************************************************)
PairTogether ==
  \A s \in DOMAIN Rig : Rig[s].kind = "stereo" =>
    \/ frames[s].left = NoFrame /\ frames[s].right = NoFrame
    \/ /\ NoFrame \notin {frames[s].left, frames[s].right}
       /\ frames[s].left.time = frames[s].right.time

(***************************************************************************)
(* A capture leaves no picture of an earlier one: "Capture failures        *)
(* continue to produce an empty frame" (docs/physical_ai/camera_health.md).*)
(***************************************************************************)
NoOldPicture ==
  [][phase = "encode" /\ phase' = "idle" =>
       \A p \in DOMAIN frames'[capturing] :
         frames'[capturing][p] # NoFrame => frames'[capturing][p].time = worldTime]_cameraVars
=============================================================================
