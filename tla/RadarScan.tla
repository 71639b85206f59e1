----------------------------- MODULE RadarScan -----------------------------
(***************************************************************************)
(* RadarSensor (sensors/radar/radar_sensor.cpp): a scan casts a number of  *)
(* random rays; each one meets nothing, perhaps a false alarm, or a target *)
(* it may detect.  Three generators of one seed serve it: rng_ for the     *)
(* rays and the detections, effects_rng_ for false alarms and Doppler      *)
(* noise, and the one of noise_pipeline_ for the range.                    *)
(*                                                                         *)
(* A generator is the number of draws made since it was seeded.  What a    *)
(* draw comes to is left open until it is made and is then the same for    *)
(* ever: "oracle" remembers it.  The scene does not move, so a ray of the  *)
(* same direction always meets the same.                                   *)
(***************************************************************************)
EXTENDS Naturals, Sequences

CONSTANTS
  Seeds,      \* the noise_seed values of a configuration
  RadarRays,  \* PointsPerScan
  RadarScans  \* bound: scans after a reset

RadarAssumption == Seeds # {} /\ RadarRays \in Nat \ {0} /\ RadarScans \in Nat

VARIABLES
  radarConfig, \* noise_seed, false alarms and Doppler noise on, a range above zero
  scanCount,   \* scan_count_
  rng,         \* draws of rng_
  effectsRng,  \* draws of effects_rng_
  rangeRng,    \* draws of the generator in noise_pipeline_
  rayIndex,    \* the ray to be cast next, 0 when no scan is running
  frame,       \* the frame being filled
  broken,      \* a scan since the last reset was ended by an exception
  oracle,      \* pairs of a draw made so far and what it has come to
  taken        \* the first frame of each configuration and scan count

generators == <<rng, effectsRng, rangeRng>>
radarVars  == <<radarConfig, scanCount, generators, rayIndex, frame, broken, oracle, taken>>

RadarConfigs == [seed : Seeds, effects : BOOLEAN, sees : BOOLEAN]

EmptyScan == [detections |-> <<>>, targets |-> 0, detected |-> 0, empty |-> 0, alarms |-> 0]

\* One draw of a generator of this seed.
DrawOf(stream, at) == <<radarConfig.seed, stream, at>>

\* Draws come to these outcomes, now and whenever they are made again.
Outcomes(found) ==
  /\ \A p \in found, q \in oracle : p[1] = q[1] => p[2] = q[2]
  /\ oracle' = oracle \cup found
-----------------------------------------------------------------------------
\* Every generator starts again from the seed, and so does the scan time.
Restart ==
  /\ rayIndex = 0
  /\ scanCount' = 0
  /\ rng' = 0 /\ effectsRng' = 0 /\ rangeRng' = 0
  /\ broken' = FALSE
  /\ UNCHANGED <<rayIndex, frame, oracle, taken>>

\* SetConfig; an invalid configuration throws before anything is assigned.
Configure(c) == radarConfig' = c /\ Restart

\* A variant that keeps the noise pipeline and where its generator is.
ResetRadarKeepsPipeline ==
  /\ rayIndex = 0
  /\ scanCount' = 0
  /\ rng' = 0 /\ effectsRng' = 0
  /\ broken' = FALSE
  /\ UNCHANGED <<radarConfig, rangeRng, rayIndex, frame, oracle, taken>>

ResetRadar == Restart /\ UNCHANGED radarConfig

\* Without a range the frame has a new stamp and stays empty.
BeginScan ==
  /\ rayIndex = 0
  /\ scanCount < RadarScans
  /\ scanCount' = scanCount + 1
  /\ frame' = EmptyScan
  /\ rayIndex' = IF radarConfig.sees THEN 1 ELSE 0
  /\ UNCHANGED <<radarConfig, generators, broken, oracle, taken>>

CastRadarRay ==
  /\ rayIndex \in 1..RadarRays
  /\ rayIndex' = rayIndex + 1
  /\ UNCHANGED <<radarConfig, scanCount, broken, taken>>

\* A ray takes its direction from two draws of rng_.
Direction == rng + 2

\* A detection of this kind; range and velocity are named by the draws they are made of.
Detection(kind, range, velocity) ==
  [kind |-> kind, direction |-> rng, range |-> range, velocity |-> velocity]

Empty == [frame EXCEPT !.empty = @ + 1]

\* Nothing is met, and effects_rng_ decides against a false alarm if it is asked.
NoReturn ==
  /\ CastRadarRay
  /\ rng' = Direction
  /\ frame' = Empty
  /\ effectsRng' = IF radarConfig.effects THEN effectsRng + 1 ELSE effectsRng
  /\ Outcomes({<<DrawOf("ray", rng), "empty">>} \cup
              IF radarConfig.effects THEN {<<DrawOf("alarm", effectsRng), "no">>} ELSE {})
  /\ UNCHANGED rangeRng

\* A false alarm takes its range and its velocity from effects_rng_ too.
FalseAlarm ==
  /\ CastRadarRay
  /\ radarConfig.effects
  /\ rng' = Direction
  /\ effectsRng' = effectsRng + 3
  /\ Outcomes({<<DrawOf("ray", rng), "empty">>, <<DrawOf("alarm", effectsRng), "yes">>})
  /\ frame' = [Empty EXCEPT !.alarms = @ + 1,
                 !.detections = Append(@, Detection("alarm", effectsRng + 1, effectsRng + 2))]
  /\ UNCHANGED rangeRng

\* A target too far or too small for this draw of rng_.
Overlook ==
  /\ CastRadarRay
  /\ rng' = Direction + 1
  /\ Outcomes({<<DrawOf("ray", rng), "target">>, <<DrawOf("detect", Direction), "no">>})
  /\ frame' = [frame EXCEPT !.targets = @ + 1]
  /\ UNCHANGED <<effectsRng, rangeRng>>

Detect ==
  /\ CastRadarRay
  /\ rng' = Direction + 1
  /\ rangeRng' = rangeRng + 1
  /\ effectsRng' = IF radarConfig.effects THEN effectsRng + 1 ELSE effectsRng
  /\ Outcomes({<<DrawOf("ray", rng), "target">>, <<DrawOf("detect", Direction), "yes">>})
  /\ frame' = [frame EXCEPT !.targets = @ + 1, !.detected = @ + 1,
                 !.detections = Append(@, Detection("target", rangeRng, effectsRng))]

\* The ray caster throws: the frame is as far as it got and the draws stay made.
CastThrows ==
  /\ rayIndex \in 1..RadarRays
  /\ rayIndex' = 0
  /\ rng' = Direction
  /\ broken' = TRUE
  /\ UNCHANGED <<radarConfig, scanCount, effectsRng, rangeRng, frame, oracle, taken>>

EndScan ==
  /\ rayIndex = RadarRays + 1
  /\ rayIndex' = 0
  /\ taken' = IF broken THEN taken
              ELSE [e \in DOMAIN taken \cup {<<radarConfig, scanCount>>} |->
                      IF e \in DOMAIN taken THEN taken[e] ELSE frame]
  /\ UNCHANGED <<radarConfig, scanCount, generators, frame, broken, oracle>>

\* A radar nobody configured has the default seed in rng_ and the pipeline;
\* effects_rng_ has another, but the effects are off.
RadarInit ==
  /\ radarConfig = [seed |-> CHOOSE s \in Seeds : TRUE, effects |-> FALSE, sees |-> TRUE]
  /\ scanCount = 0
  /\ rng = 0 /\ effectsRng = 0 /\ rangeRng = 0
  /\ rayIndex = 0
  /\ frame = EmptyScan
  /\ broken = FALSE
  /\ oracle = {} /\ taken = <<>>

RadarNext ==
  \/ \E c \in RadarConfigs : Configure(c)
  \/ ResetRadar
  \/ BeginScan
  \/ NoReturn \/ FalseAlarm \/ Overlook \/ Detect
  \/ CastThrows
  \/ EndScan

RadarSpec == RadarInit /\ [][RadarNext]_radarVars
-----------------------------------------------------------------------------
(***************************************************************************)
(* docs/offline_workflow_range_models.md: "Noise and clutter have seeded   *)
(* streams; Reset restarts scan time and RNGs."  A scan of the same        *)
(* configuration and the same count finds the same and measures it with    *)
(* the same noise, whatever was scanned or configured in between and       *)
(* whatever threw, as long as nothing has thrown since the last reset.     *)
(***************************************************************************)
ReplayExact ==
  rayIndex = RadarRays + 1 /\ ~broken /\ <<radarConfig, scanCount>> \in DOMAIN taken
    => frame = taken[<<radarConfig, scanCount>>]

\* What a frame says of the targets, without what the effects add.
Seen(detections) ==
  {<<detections[i].direction, detections[i].range>> :
     i \in {j \in DOMAIN detections : detections[j].kind = "target"}}
TargetsOf(f) == <<f.targets, f.detected, f.empty, Seen(f.detections)>>

(***************************************************************************)
(* A frame lists its detections in the order of the rays they come from,   *)
(* so that the set of them is all there is to know.                        *)
(***************************************************************************)
DetectionsInOrder ==
  \A e \in DOMAIN taken : \A i, j \in DOMAIN taken[e].detections :
    i < j => taken[e].detections[i].direction < taken[e].detections[j].direction

(***************************************************************************)
(* Turning false alarms and Doppler noise on changes no ray, no detection  *)
(* and no range of the targets: the reason effects_rng_ is a generator of  *)
(* its own.                                                                *)
(***************************************************************************)
EffectsLeaveTargets ==
  \A c, d \in RadarConfigs, k \in 1..RadarScans :
    c.seed = d.seed /\ {<<c, k>>, <<d, k>>} \subseteq DOMAIN taken /\ c.sees = d.sees
      => TargetsOf(taken[<<c, k>>]) = TargetsOf(taken[<<d, k>>])

(***************************************************************************)
(* Three generators keep scans apart: a scan depends on nothing but the    *)
(* configuration and its number since the reset, and what it says of the   *)
(* targets not even on whether the effects are on.                         *)
(***************************************************************************)
RandomnessSeparated == ReplayExact /\ EffectsLeaveTargets /\ DetectionsInOrder
=============================================================================
